# Deskflow: TLA+ models, checks and proofs

Deskflow lets one keyboard and mouse drive several computers. One of them runs
the *server*: its keyboard and mouse are the shared ones, and its own display is
the *primary screen*. The others run *clients*, each with a *secondary screen*.
When the pointer crosses an edge of the active screen it enters the neighbour
the layout puts there, and from then on input goes to that screen. Clipboards
follow the pointer.

This directory holds TLA+ modules translated from the C++ source under `src/src/lib`,
TLC configurations that check them on small instances, and TLAPS proofs for
the server's core, the sharing and the transfer of clipboards, the session of a
client with a server, the sockets' two threads, and the service. Source paths below are relative to `src/src/lib` unless they begin with `src`.

1. [The system](#1-the-system)
2. [What is hard about it](#2-what-is-hard-about-it)
3. [The modules](#3-the-modules)
4. [The runs](#4-the-runs)
5. [Where the code disagrees with its documentation](#5-where-the-code-disagrees-with-its-documentation)
6. [What is proved](#6-what-is-proved)
7. [Bounds, fairness and assumptions](#7-bounds-fairness-and-assumptions)
8. [What is not modelled](#8-what-is-not-modelled)
9. [Plan](#9-plan)
10. [Running it](#10-running-it)

## 1. The system

The core program (`src/src/apps/deskflow-core`) is either a server or a client. Each
has one main thread that runs an event queue; a second thread polls the sockets.
Everything below happens in handlers on the main thread unless it says otherwise.

```
  keyboard, mouse            server process                      client process
        |              ┌───────────────────────────┐       ┌──────────────────────────┐
        v              │ ServerApp                 │       │ ClientApp                │
  platform screen ───> │  Server ── Config         │       │  Client ── Screen ───────┼──> fake input
   (PrimaryClient)     │    │ ClientListener       │       │    │                     │
                       │    │   ClientProxyUnknown │ hello │    │                     │
                       │    └─ ClientProxy1_x ─────┼──────>│  ServerProxy             │
                       │        PacketStreamFilter │<──────┤   PacketStreamFilter     │
                       │          TCP/SecureSocket │       │     TCP/SecureSocket     │
                       │  EventQueue, SocketMultiplexer │  │  EventQueue, SocketMul...│
                       └───────────────────────────┘       └──────────────────────────┘
```

The components, the state each keeps, its operations, and what makes it correct.
`PROJECT.json` lists the same components with their files.

| Component | State | Operations | Correct when |
|---|---|---|---|
| **Server core** `server/Server.cpp` | `m_clients` (name → proxy), `m_clientSet`, `m_oldClients` (told to close, each with a 5 s timer), `m_active`, `m_activeSaver`, position, pending switch (`m_switchScreen`, `m_switchDir`, wait timer, tap flags), `m_lockedToScreen` | `adoptClient`, `closeClient`, `removeClient`, `forceLeaveClient`, `onMouseMove*`, `isSwitchOkay`, `switchScreen`, wait timeout, hotkeys, screen saver, `setConfig`, `disconnect` | the active screen is a connected one and the only one entered; the collections agree; a deleted proxy is never used; a lock holds; `disconnect` is answered |
| **Server application** `deskflow/ServerApp.cpp` | `m_serverState`, the objects built by `initServer`/`startServer`, `m_suspended` | start, stop, `closeServer` (nested event loop), suspend, resume, reload | no server object is forgotten or used after its deletion; every close ends |
| **Screen layout** `server/Config.cpp` | names, aliases, links as intervals of edges, options | parse, print, `getNeighbor`, `getCanonicalName` | a printed layout reads back; an edge position has at most one neighbour |
| **Screens** `deskflow/Screen.cpp`, `server/PrimaryClient.cpp` | entered, enabled, screen saver sync | `enter`, `leave`, `enable`, fake input | enter and leave alternate; nothing stays pressed |
| **Clipboard sharing** (in `Server`, `Client` and the proxies) | the server's record (owner, sequence number, data) and the dirty flags; the client's `m_ownClipboard`, `m_sentClipboard`; a sequence number for each enter | grab, update, send on leave, give on enter | one owner; the active screen has the last copy; nothing older replaces it |
| **Clipboard transfer** `deskflow/StreamChunker.cpp`, `ClipboardChunk.cpp`, `ClipboardChunkPacer.h` | a sender (offset, chunks this turn, cancelled) and an assembly state (expected, received, active, discarding) | start, next turn, cancel, assemble | what is taken at the end is one whole content, in order |
| **Client connection** `client/Client.cpp`, `ServerProxy.cpp` | stream, `m_timer` (2 s for connecting and hello), `m_connectOnResume`, `m_ready`, keep-alive alarm, message parser | `connect`, hello, `handleHello`, messages, suspend/resume | one of success, failure and timeout wins; suspend is followed by resume |
| **Client application** `deskflow/ClientApp.cpp` | restart timers, address index, `m_suspended` | start, `scheduleClientRestart`, next address | one chain of attempts, with pauses |
| **Server-side connections** `server/ClientListener.cpp`, `ClientProxyUnknown.cpp`, `ClientProxy1_*.cpp` | sockets being accepted, unknown clients, waiting clients; the parser; heartbeat timer | accept, hello, choice of proxy, heartbeat, messages | each connection is adopted once or freed once; a dead peer is dropped in time |
| **Packets and turns** `deskflow/PacketStreamFilter.cpp`, `TurnBudget.h` | packet boundary (`m_size`), buffer, delayed shutdown; messages handled this turn | filter, read, write, yield | a complete packet is always announced; a shutdown is delivered after the last packet |
| **Sockets and multiplexer** `net/TCPSocket.cpp`, `SecureSocket.cpp`, `SocketMultiplexer.cpp` | input and output buffers, connected/readable/writable; the job list, a lock and a lock on that lock | read, write, jobs; add and remove a socket | no two threads change the list at once; nobody waits for ever; written bytes are polled for |
| **Event queue** `base/EventQueue.cpp` | event table with reused numbers, handlers, timers, `m_pending` before the loop starts | add, dispatch, timers, adopt a buffer | every event is handled once, in order; a timer fires after it is due and not after it is deleted |
| **Hotkeys** `server/InputFilter.cpp` | rules with conditions and actions | enable, disable, handle | a registered hotkey is unregistered; an action follows its condition |
| **Key state** `deskflow/KeyState.cpp` | counts of pressed and synthetic keys, active modifiers, server button → local key | fake down, repeat, up, all up | no key stays down; a release finds its press |
| **Clipboard formats** `deskflow/IClipboard.cpp` | none | marshal, unmarshal | round trip |
| **Protocol codec** `deskflow/ProtocolUtil.cpp` | none | read and write by format | round trip |
| **Progress reports and IPC** `deskflow/ipc/` | transfers in flight, last report | report, flush | every started transfer is reported finished or failed once |
| **Daemon and watchdog** `src/src/apps/deskflow-daemon`, `platform/MSWindowsWatchdog.cpp` | process state, command, failures, the process; the configuration file it keeps over a restart | start, stop, restart with delays, change of session | one core process at most; the last command is the one that is obeyed |
| **User interface's core process** `gui/core/CoreProcess.cpp`, `gui/ipc/IpcClient.cpp` | process state, requests that wait for a connection, the connection | start, stop, restart, connect, retry | the user's last request is the one that is obeyed |
| **Addresses, application frame, threads, platform screens, logging and settings, the rest of the GUI** | see [section 8](#8-what-is-not-modelled) | | |

How they interact:

* **Events.** Sockets and filters post `StreamInputReady`, `StreamInputShutdown`
  and so on to the queue; proxies post `ClientProxyReady`, `ClientProxyDisconnected`,
  `ClipboardGrabbed`, `ClipboardChanged`; the platform posts input, hotkeys and
  `ScreensaverActivated`. A handler is keyed by event type and target object, so
  removing the handler of an object discards what is still queued for it.
* **Direct calls.** `Server` calls `enter`, `leave`, `setClipboard`,
  `grabClipboard` and input methods of a `BaseClientProxy`, which is either the
  local `PrimaryClient` or a `ClientProxy1_x` that turns the call into a message.
* **Shared objects.** `ServerApp` owns the `Config` that `Server` points to, and
  overwrites it in place on a reload. `Server` keeps raw pointers to proxies in
  five variables, and deletes a proxy in one place.
* **Threads.** The multiplexer's thread runs socket jobs, which change the
  socket's buffers under the socket's mutex and post events.

## 2. What is hard about it

`PROJECT.json` lists each hazard at its line with the properties that cover it.
They come in these families:

* **A client may vanish at any moment**, while other state still points to it:
  the wait of a delayed switch, the screen to go back to after the screen saver,
  the client list under a name that a reload has changed, the closing list with
  its timer. The tests under `src/src/unittests/server` construct no `Server` at all: they test
  the configuration and two small structures.
* **Two sources of "who has the focus".** `m_active` and `m_activeSaver` exchange
  roles while the screen saver runs, and half of the code looks at each.
* **Messages cross.** Data may go ahead of its own grab. A grab, a transfer and an enter travel in both directions at
  once. Only the sequence number of the last enter tells which of two copies is
  newer, and a client makes its claim before it hears of another's.
* **Flags that run ahead.** A clipboard is marked clean when its transfer starts,
  but the transfer takes turns of the event loop and can be cancelled.
* **Limits that change.** Client and server decide with different values of the
  clipboard limit for a while after a reload.
* **Timers.** A timer and the event it races are both legal in either order:
  5 s close, 2 s connect, heartbeat, restart, retry.
* **Nested event loops and turn budgets**, which let unrelated events in.
* **Two threads** on one list of jobs and on a socket's buffers. The one holds the
  list while it polls without a timeout.
* **Connections that die in silence.** Each end finds out by itself, at another
  time, and until the server's end has, the client's name is taken.
* **Events posted only on a change.** A packet that was already whole is not
  announced again; whoever stops reading before it must remember the rest.
* **A key is not released as it was pressed**: meanwhile modifiers, layout or
  screen have changed.
* **Processes that outlive the one that started them**, and requests made to a
  daemon that is not there yet.

## 3. The modules

| Module | Models | Checked by | Proved in |
|---|---|---|---|
| `Server` | the server's clients, focus and switching | `MCServer` | `ServerProofs` |
| `Clipboard` | one clipboard shared by a server and its clients | `MCClipboard` | `ClipboardProofs` |
| `ClipboardChunks` | cutting a transfer into messages and assembling it (operators) | through the next two | in their proofs |
| `ClipboardDelivery` | abstract: what a transfer promises its receiver | as `DeliverySpec` of the next two | implemented by both, in their proofs |
| `ClipboardDownload` | server to client transfers, dirty flags | itself | `ClipboardDownloadProofs` |
| `ClipboardUpload` | client to server transfers, grabs, size limit | `MCClipboardUpload` | `ClipboardUploadProofs` |
| `Connections` | what both ends of a connection share: the network and the event queues | through `Session` | `SessionProofs` |
| `ClientSession` | the client's end and the application that restarts it | through `Session` | `SessionProofs` |
| `ServerSessions` | the listener, unknown clients, proxies, the queue of waiting clients | through `Session` | `SessionProofs` |
| `Session` | composes the three before | `MCSession` | `SessionProofs` |
| `ServerLife` | the server program: start, suspend, close, end | itself | `ProgramProofs` |
| `PacketInput` | from the socket's bytes to the reader's messages | `MCPacketInput` | `SocketMultiplexerProofs` |
| `SocketMultiplexer` | the two threads and the list of jobs | itself | `SocketMultiplexerProofs` |
| `KeyState` | the keys and modifiers a client has pressed, and the choice of keystrokes | `MCKeyState` | `ProgramProofs` |
| `Watchdog` | the Windows daemon and the core process it keeps alive | through `CoreService` | |
| `Queues` | what is kept of a queue or list when a loop skips some of it (operator) | through its users | `QueuesProofs` |
| `CoreService` | composes the watchdog with the user interface and the connection between them | itself | `ProgramProofs` |

`Queues` has one operator, `Kept(s, K)`: the elements of `s` that are in `K`, in order. In
`ClientSession` and `Clipboard` it is the event queue without the events of an object whose handlers
are gone; in `SocketMultiplexer` the passes of the service thread that skip removed jobs. It is a
recursive function and not `SelectSeq`, so that theorems may be about it. `KeyState` follows its
keystrokes with recursive functions for the same reason.

Where one proof module extends several models, their definitions carry the model's name:
`LifeSpec` and `LifeTypeOK` of `ServerLife`, `InputSpec` of `PacketInput`, `ServiceFairSpec` of
`CoreService`.

In most of them one action is one handler of the event loop, because the loop
runs a handler to its end before the next one (`EventQueue::dispatchEvent`).
Code that one handler calls is part of its action. Where that is not so, a handler
is split where another thread or another handler can come in between:
`SocketMultiplexer` and `Watchdog` have two threads, `PacketInput` has the
socket's thread beside the main one, and `ServerLife` has a handler that runs the
event loop itself.

### Server

*State.* The variables carry the names of `Server.h`. A client is a
`BaseClientProxy` object; `reported[c]` is the name the object was built with,
`NoName` while it does not exist. `m_switch` groups `m_switchScreen`,
`m_switchDir`, the wait timer and the two tap variables. `entered` and `told`
are what the screens were last told (enter or leave, screen saver on or off) and
exist only for the properties. `gone` holds clients whose `ClientProxyDisconnected`
event is in the queue.

*Deleted clients.* The program may keep a pointer to a deleted proxy. The step
that first uses one sets `fault`, and nothing happens after that: the C++ program
has no defined behaviour from there on. `NoFault` says that this never happens. To
keep a dangling pointer recognisable, an object that something still points to is
not reused for a new connection (`AdoptClient` requires `c \notin Dangling`).

*Geometry.* `SwitchType`, the taps and the timer are exact; pixels are not there.
A motion may reach any edge, or both edges of a corner, and `Behind` gives the
screens that a layout has behind some part of an edge, through any number of
unconnected screens (`getNeighbor`) or connected ones (`mapToNeighbor`, for long
motions). A `Moment` is what else the answer depends on: whether the tap is in
time, whether the corner is locked, whether a mouse button is down.

| Action | Code in `server/Server.cpp` |
|---|---|
| `OnMouseMovePrimary`, `OnMouseMoveSecondary` | `onMouseMovePrimary`, `onMouseMoveSecondary`, with `isSwitchOkay`, `noSwitch`, `stopSwitch`, `switchScreen` |
| `HandleSwitchWaitTimeout` | `handleSwitchWaitTimeout` |
| `HandleSwitchToScreen`, `HandleSwitchInDirection`, `HandleToggleScreen`, `HandleLockCursorToScreen` | the hotkey handlers of the same names, with `jumpToScreen` |
| `HandleShapeChanged` | `handleShapeChanged` for a secondary screen |
| `OnScreensaverActivated`, `OnScreensaverDeactivated` | `onScreensaver` |
| `AdoptClient` | `adoptClient` and `addClient`, or `closeClient` for a refused one |
| `ClientGone` | a stream ends; the proxy posts its event |
| `HandleClientDisconnected`, `HandleClientCloseTimeout` | the handlers, with `removeActiveClient`, `removeOldClient`, `forceLeaveClient` and the deletion |
| `SetConfig` | `ServerApp::loadConfig`'s overwriting of the configuration, then `setConfig` and `closeClients` |
| `Disconnect` | `disconnect` |
| `UseDeletedActive` | any handler that starts from the shape or name of `m_active` when that client is deleted |

### Clipboard

One clipboard (the server treats its two clipboards alike and independently,
except for their transfers, which are the subject of `ClipboardDownload`). A
content is the number of the copy that made it, so that "older" means "smaller".
The server part has the `ClipboardInfo` record, the dirty flags, the sequence
number of the last enter, the proxies' copies and the event queue. The client part
has `Client::m_active`, `m_ownClipboard`, `m_sentClipboard`, the sequence number
that `ServerProxy` puts in messages, and its own event queue (`grabbed`): the
platform posts a grab, and messages may be handled before it. `dataSent` is
`m_dataClipboard`: `Client::leave` sends an owned clipboard also when it was sent before
and has changed since. `down` and `up` are
the two directions of each connection. Chunks of one transfer are one message
here, at the place of the last chunk; a copy in `Paced` needs more than one turn,
so its message is written later, unless a newer transfer cancels it.

| Action | Code |
|---|---|
| `HandleEvent` (`HandleGrabbed`, `HandleChanged`) | `Server::handleClipboardGrabbed`, `handleClipboardChanged`, `onClipboardChanged` |
| `Switch` | the clipboard part of `Server::switchScreen` |
| `ReceiveUp` | `ClientProxy1_0::recvGrabClipboard`, `ClientProxy1_6::recvClipboard` |
| `ReceiveDown` | `Client::enter`, `leave`, `setClipboard`, `grabClipboard` |
| `CopyOnPrimary`, `CopyOnClient` | the platform's grab event |
| `GrabOnClient`, `Send` | `Client::handleClipboardGrabbed`, `sendClipboard` |
| `FinishDown`, `FinishUp` | the turn of `StreamChunker` that writes the last chunk |
| `Drop`, `Reconnect` | `forceLeaveClient` and the end of the proxy; the new proxy and `Client::handleConnected` |

### ClipboardChunks, ClipboardDownload, ClipboardUpload

`ClipboardChunks` has the pure part. `TurnMessages(s)` and `AfterTurn(s)` are one
call of `StreamChunker::sendNext`: what it writes and how it leaves the sender.
`Assemble(t, m, limit, skip)` is `ClipboardChunk::assemble`: its verdict on
message `m` and the next assembly state. A message carries the content it is a
chunk of and the chunk's index, which the program cannot see; they are there to
say whether what was assembled is whole.

`ClipboardDownload` follows the server's clipboards to one client: `NewData` is
`onClipboardChanged`, `Enter` the clipboards that `switchScreen` sends,
`Tick` the proxy's `ClipboardSending` handler, `Receive`
`ServerProxy::setClipboard`, and `Reconnect` a new connection in the middle of
anything. The loop over the clipboards (`SendDirty` with `SetClipboard`, and `SendOwned` with
`SendClipboard` in the other direction) is a recursive function of the clipboards' numbers,
because each transfer begins in what the one before has left. `ClipboardUpload` follows a client's clipboards to the server, with the
grabs between them and the size limit that the server announces and the client
applies: `Copy`, `Leave`, `ReceiveOptions`, `Reload`, `ReceiveGrab`,
`ReceiveChunk`. A copy and the handler of its grab event are one step in it; what may
happen between the two is in `Clipboard`. When a chunk is refused, `ClientProxy1_0::handleData` throws away
what has arrived; how much that is depends on timing, so `ReceiveChunk` drops any
part of the wire's front.

`ClipboardDelivery` is what both promise: each clipboard takes one whole content
after another, made for that clipboard, never an older one after a newer one. The
refinement maps the contents made and the receiver's `got`; a step that takes
nothing is a stutter. It fails if two transfers' chunks are mixed, a cache is not
emptied or a stale transfer finishes late.

### Connections, ClientSession, ServerSessions, Session

The *network* is two queues of messages for each connection, in order, with
`End` behind the last one when an end closes it. `Cut` loses a connection: nothing
arrives any more, and neither end is told. Each program has its event queue; an
event carries the connection whose object it was posted for.

`phase` says whose handlers the client's stream has: `Client::setupConnecting`,
`setupConnection`, then `ServerProxy` with its handshake parser and its normal one.
`restarts` counts the one-shot timers of `scheduleClientRestart`, which nobody keeps
a pointer to. An attempt (`Try`, which is `Client::connect`) may be taken by a
running server, refused, or stay without any answer. It goes to the server that
`startClient` has last given to the client (`m_serverAddress`): a resume after a session
tries the server of that session, although the application has gone back to the first
one, and a failure of it then moves the application on from there.

On the server's side `unknown[k]` and `proxy[k]` are the two objects a connection
may have. The clients are instances of one client, so there is at most one
`member`; another one is refused as busy, and refused or closed ones are in
`m_oldClients`. All ways in which a `ClientProxyUnknown` ends are there, among them
a failure behind a success (`HandleUnknownClient` finds that the proxy has gone).

Timers: an expiry that happens although what it waits for would still come is a
*trouble*, as are a cut, a suspend and a reload, and troubles are bounded. An
expiry in vain (nothing will come) is free and, in `FairSpec`, certain.

| Action | Code |
|---|---|
| `HandleClientRestart`, `HandleResume` with `Try` | `ClientApp::handleClientRestart`, `startClient`, `Client::connect`, `handleResume` |
| `HandleConnected`, `HandleConnectionFailed`, `HandleHello`, `HandleDisconnected`, `HandleOutputError`, `HandleConnectTimeout`, `HandleDisconnectRequested`, `HandleSuspend` | `Client`, the handlers of the same names, with the cleanup each one calls |
| `HandleData`, `HandleKeepAliveAlarm` | `ServerProxy` |
| `HandleClientConnected`, `HandleClientFailed`, `HandleClientEnded` | `ClientApp`, with the next address or server |
| `HandleClientConnecting`, `HandleClientAccepted`, `HandleUnknownClient`, `HandleUnknownFailure` | `ClientListener` |
| `HandleHelloBack`, `HandleProxyReady`, `HandleUnknownTimeout`, `HandleUnknownDisconnect` | `ClientProxyUnknown` |
| `HandleInfo`, `HandleProxyDisconnect`, `HandleFlatline` | `ClientProxy1_0` and its later versions |
| `HandleProxyDisconnected` | the handler of whoever owns the proxy: unknown client, listener or server |
| `HandleListenerAccepted`, `Reload`, `HandleCloseTimeout` | `Server::adoptClient`, `setConfig`, `handleClientCloseTimeout` |

### ServerLife

`closeServer` is split in two, since it runs the event loop: `CloseServer` is what
happens up to `loop()`, `FinishClose` what happens after the loop has found a Quit,
in `closeServer`, `stopServer` and their caller. `closing` is the stack of calls in
progress. `alive` has the `Server` objects that exist, so that a forgotten one is
seen. Its clients are a set; what they do in detail is the subject of `Server`.

### PacketInput

A stream of packets given by their lengths. `total` is where the peer breaks off.
The socket's thread adds any number of bytes (`Receive`) and the end; the main thread
takes them into the filter in one or more reads, and the reader handles whole
packets in turns. The first packet is the hello, which has a handler of its own
(`Client::handleHello`; the server's `ClientProxyUnknown` does the same) and then
hands the stream to the next reader.

### SocketMultiplexer

Each thread has a program counter. `m_socketJobs` has an entry for each socket,
with `None` where the job was removed, and `pfds` the entries that were polled; the
service thread walks both (`cursor`, `i`). A call of the main thread takes the lock
of the lock, breaks the poll, takes the list and edits it. `call` is the socket and
the new job, which `write` makes *after* it has let go of the socket's mutex, from
whatever the buffer holds then (`MakeJob`).

### KeyState

The keyboard of the server (`Keys`, what each one means there) and the layout of
the client (`Layout`: the key items of each character, with the modifiers they need
and are sensitive to) are constants. `MapKey` and its helpers are `KeyMap::mapKey`:
which item, which modifiers to press and release around it, and how to restore them.
`pressed` is what the operating system has down, so that it can be compared with
what `KeyState` believes (`m_syntheticKeys`, `m_serverKeys`, `m_activeModifiers`,
`m_mask`). `typed` is the last press with the modifiers it met.

### Watchdog, CoreService

The main loop of the watchdog holds a mutex from the look at the state to the end of
the switch, which includes a second of waiting for a new process to fail: `StartProcess`
and `ProcessStarted`, with `loop = "starting"` between them, during which
`SetProcessConfig` waits. Everything else in a pass is one action. A process that could not be
created counts as a failed start, or, if its exit code can be read all the same, as running
(`TakenForStarted`): the next pass finds that it is not. `Boot` and
`DaemonDies` are the daemon's life; the configuration file survives it, and so may a
core process.

In the user interface a request without a connection becomes a single-shot slot of the
connection's `connected` signal (`waiting`), whose call is queued when it is emitted
(`posted`).

## 4. The runs

State counts are those of a complete search.

| Run | Instance | States | Shows |
|---|---|---|---|
| `ServerMain` | 3 clients, 3 screens in a row, reloads that drop `tablet` or the primary screen, locked corners, relative moves, screen saver without input during it, fairness | 93 810 | Whoever comes, goes, collides or is dropped: `ActiveConnected`, `OneEntered`, `Membership`, `CursorOnActive`, `NoFault`, `SaverTargetConnected`, `DisconnectAnswered`, and the types. |
| `ServerWait` | 2 clients, the same screens with switch delay, double tap, locked corners, screen saver with input, and a primary screen that may refuse to be left | 239 568 | `PendingHasTarget` and `LockHolds` under every option at once. The system may stop, at a fault (5.1), so deadlock is not checked. |
| `ClipboardShare` | 2 clients, 3 copies (the second one oversized, the third one paced), 4 switches; 1 broken connection in the place of a copy and a switch; queues of at most 3 | 4 063 099 | `ExpectedClient`, `ActiveUpToDate`, `OwnershipAgrees`, `OversizedStays`, `NeverOlder`. |
| `DownloadBoth` | 2 clipboards, sizes 1 and 3 chunks with 2 to a turn, 3 contents, 2 enters, 1 break | 100 204 | `NeverCorrupt`, and the refinement `DeliverySpec`. |
| `UploadBoth` | 2 clipboards, sizes 1 and 3, limit raised from 2 to 5 chunks, 3 contents, 2 leaves | 89 126 | `NeverRefused`, `GrabsArrive`, and the refinement `DeliverySpec`. |
| `SessionReconnect` | 2 connections at a time, servers with one and two addresses of which the last one answers, 1 trouble, fairness | 52 662 | `NeverStranded`, `TimerCoversAttempt`, `OwnedOnce`, `WaitingFetched`, and `ComesTogether`. |
| `ServerStop` | 2 clients, 2 servers, 5 events from outside, fairness | 33 916 | `OnlyServerAlive`, `CloseEnds`. |
| `PacketTurns` | 5 packets of 1 and 2 bytes with headers of 2, broken off anywhere, turns of 2 messages or 2 bytes, fairness | 81 206 | `EndComesLast`, `AllHandled`, `EndSignalled`. |
| `Multiplexer` | a listening socket, a data socket that is used again, 2 bytes in a buffer, 6 arrivals, fairness | 30 018 | `JobsMatchPoll`, `CallsReturn`, `WritesAreSent`, `ListensAgain`. |
| `KeyTyping` | 6 keys of a French server on an American client: two shifts, control, `1` and the keypad's `1` (one button here), `a`; Windows | 9 657 | `NothingStuck`, `ModifiersAgree`, `TypedAsAsked`. |
| `ServiceStarts` | 2 process identifiers, 2 failing starts, 2 troubles (exit, session, stop, death), 3 requests, fairness | 133 472 | `OneCore`, `StopIsObeyed`, `StartIsObeyed`. |
| `KeyRepeats` | as `KeyTyping`, on Linux | violation | 5.12: `NothingStuck` |

Each property of a passing run also has a *mutant* in `PROJECT.json`: an operator
marked `Mutant:` in the module, a plausible bug of one definition, under which
TLC finds the property violated. Every module states its types as `TypeOK`; `ServerMain`
checks those of `Server`, and for the other modules it is added to a configuration with
one word (`INVARIANTS TypeOK ...`) and holds there.

The names: `ActiveConnected` – the active screen's client is connected;
`OneEntered` – among the connected screens exactly the active one was entered;
`Membership` – `m_clients`, `m_clientSet` and `m_oldClients` agree with each other
and with the objects that exist; `CursorOnActive` – the recorded position is on
the active screen; `LockHolds` – while the cursor is locked neither motion nor the
end of a wait moves it; `PendingHasTarget` – no timer or tap without a target (the
timeout dereferences it); `SaverTargetConnected` – so is the screen to go back to;
`Expected` – the assertion in `onClipboardChanged`, which the code does not keep (5.13);
`ExpectedClient` – what it does keep: data that is not out of sequence comes from the owner,
or from a client whose own grab is still on its way;
`ActiveUpToDate` – the active screen has, or is being given, the shared data,
as long as no connection has broken; `OwnershipAgrees` – once all is handled, a
client that claims the clipboard owns it; `OversizedStays` – a copy above the
limit is on no other screen; `NeverOlder` – the data shared for one owner never goes back,
unless a grab is on its way, of which the data may have gone ahead;
`GrabsArrive` – no grab is lost among the chunks; `NeverStranded` – a client without a
connection has something to come that starts the next attempt; `TimerCoversAttempt` – the
two second timer runs exactly until the hello is answered; `OwnedOnce` – a proxy has one
owner who will delete it; `WaitingFetched` – each client in the listener's queue has an
event that takes it out; `ComesTogether` – in the end both are in one session and stay;
`OnlyServerAlive` – the server object in use is the one that exists; `CloseEnds` – a
server that is being closed is closed in the end; `EndComesLast` – the end is signalled
after the last whole packet; `AllHandled` – every whole packet is handled; `EndSignalled` –
an end at a packet boundary is signalled; `JobsMatchPoll` – the walk over jobs and polled
entries stays in step; `CallsReturn` – no call waits for ever; `WritesAreSent` – a buffer
does not keep what it has; `ListensAgain` – the listening socket gets its job back;
`NothingStuck` – a button that is down is down for a key that is; `ModifiersAgree` – what
`KeyState` believes of the modifiers is what the system sees; `TypedAsAsked` – a press
meets the modifiers it was meant with; `OneCore` – one core process at most;
`StopIsObeyed`, `StartIsObeyed` – what the user asked for last comes to be.

## 5. Where the code disagrees with its documentation

Item 12 has a run, `KeyRepeats`, whose counterexample is the scenario. For the others the
property named in parentheses is stated in the module, and TLC finds the scenario with the
instance given there; the other runs check what holds.

1. **A delayed switch outlives its target** (`NoFault` of
   `Server` with `SwitchDelay`; `server/Server.cpp:2166`). `forceLeaveClient` says "stop waiting to switch to
   this client", but only inside the test that the client is the active one. The
   target of a wait is never the active screen, so the wait goes on, the client is
   deleted, and the timeout switches to the deleted object. Path: a client
   connects, the pointer reaches its edge and the wait starts, the connection
   ends, the event is handled, the timer fires.
2. **The screen saver hides the active client** (`ActiveConnected` with
   `InputDuringSaver`; `server/Server.cpp:2161`). The same test looks at `m_activeSaver` instead of
   `m_active` while the screen saver runs. A hotkey that switches to a client
   meanwhile makes it active; when it disconnects, `m_active` still points to it.
3. **A renamed client stays listed** (`ClosedNotListed`
   with the reloads `Renaming`; `server/Server.cpp:2070`).
   `removeClient` erases the name that the configuration gives the client now; the
   entry was made with the name that the configuration gave it then. A reload that
   changes the client's canonical name leaves an entry that points to it.
4. **Late data ends a newer claim** (`OwnerPublished`
   of `Clipboard`; `client/Client.cpp:263`).
   `Client::setClipboard` gives up ownership whenever data arrives. Data that the
   server sent on entering may be handled after the user has already copied
   something. The server has accepted the client's grab and cleared the clipboard;
   on leaving, the client thinks that it owns nothing and sends nothing, although
   `deskflow/ProtocolTypes.h:369` promises the data.
5. **The second clipboard cancels the first** (`FinallyUpToDate` of
   `ClipboardDownload`, both clipboards above one turn; `server/ClientProxy1_6.cpp:55`). A proxy has one sender for all its clipboards,
   and marks a clipboard clean when its transfer starts. `switchScreen` sends both
   clipboards one after the other; when the first needs more than one turn of the
   event loop, the second cancels it, and it is clean, so it is not sent again.

6. **One suspend or quit too many** (`EndsOnlyWhenAsked` of `ServerLife`,
   `deskflow/ServerApp.cpp:160`). `closeServer` ends its loop with a Quit, for the timer and for
   each `ServerDisconnected`. If two clients' ends are handled so that two of these events
   are posted, the second Quit ends the main loop, and the program, after a suspend.
   `base/IEventQueue.h:46` says that a loop ends when "the kQuit event is found".
7. **A quit that arrives during a close** only ends the inner loop (`QuitEnds`); after the
   suspend the program goes on.
8. **A failed start is never tried again** (`StartsAgain`). `mainLoop` says "the timer
   installed by startServer() will take care of that"; nothing installs it, and
   `retryHandler` (`deskflow/ServerApp.cpp:250`) has no caller.
9. **A sleep during the close** (`OnlyServerAlive` with `SleepsInClose`). `m_suspended` is
   set after the nested loop, so a second suspend closes the same server again and
   deletes it twice; a resume that arrives during the close is lost.
10. **A client that dies in the listener's queue** (`NoFault` of `ServerSessions`,
    `server/ClientListener.cpp:222`). "pull out the socket before deleting the client" casts
    the client's stream, which is a `PacketStreamFilter`, to a socket, and uses the result
    after the client has deleted it.
11. **The end in the middle of a packet** (`EndAlwaysSignalled` of `PacketInput`,
    `deskflow/PacketStreamFilter.cpp:172`). "signal an error and then shut down" holds only if
    no whole packet is buffered before the part: otherwise the end waits for a packet
    boundary that never comes, and only a keep-alive timer notices.
12. **An auto-repeat on another button** (run `KeyRepeats`, `deskflow/KeyState.cpp:866`). With
    shift released while `1` of a French keyboard is held, the repeat is another
    character, with another button here. The comment means to release the old button
    by replacing the key up of the repeat, but only Windows has one: on Linux a repeat
    sends nothing, so the old button stays down while the records name the new one.
    `UpdateKeyState` with keys held (`RemapsHeld`, a new layout on X11) has the same effect.

13. **Data ahead of its grab** (`Expected` of `Clipboard`, with the constants of
    `ClipboardShare` or with small copies only; `client/Client.cpp:250`). `Client::leave`
    calls `sendClipboard` for every clipboard the client owns, and that sends also one that was
    sent before and has changed since (`:429`). A client that owns the clipboard and makes another copy may
    handle the leave message before the platform's grab event: it sends the new data with the
    number of its last enter, ahead of its grab. If another screen has taken the clipboard
    meanwhile, with a smaller number, the server takes the data of a screen that does not own it, although
    `server/Server.cpp:1557` says, and asserts, "should be the expected client". Four switches and three
    small copies are enough: c1 copies and the cursor leaves, so its data is sent; c2 (or the
    primary screen) copies, and its grab is still on its way; the cursor goes back to c1, c1 copies again and is
    left before its grab event is handled. With c2's own data under way behind its grab, the shared
    data then goes from the new copy back to the older one under one owner, until the grab of c1
    arrives: this is what `NeverOlder` excludes. A copy above the limit opens another way to the same
    state: `sendClipboard` returns before it sends (`:420`) and leaves the clipboard
    owned and not sent, so that the next copy may go ahead of its grab.

`NeverOlder` speaks of one owner at a time, because it fails across owners:
`handleClipboardChanged` reads the proxy's clipboard when the event is handled, not as it was when
the event was posted (`server/Server.cpp:1561`), so a newer upload can be shared early under
an older event, and the next owner's older copy replaces it (2 clients, 4 switches, 3 copies).

The following are stated too and fail: `WaitAimsAtOneScreen` (the wait's target when the
pointer slides along the edge to another neighbour), `SaverMirrored` (a client that connects
during the screen saver after its target has disconnected), `RefusedConfigUnused` (a
configuration that `setConfig` refuses is already in use), `YieldsWhenSpent` (the count of
chunks in a turn is never reset, so every turn after the first writes one),
`ListensAgain` with `AcceptFails` (when `accept` throws, "stop polling on this socket until the
client accepts", `net/TCPListenSocket.cpp:134`, lasts for ever, because the job is set again
only for an accepted socket), `StopCancels` of `CoreService` ("core process is starting,
cancelling", `gui/core/CoreProcess.cpp:486`: the slot that sends the start stays connected, so
the core starts when the daemon is reached, although the user has stopped it), and `NeverRefused` and
`GrabsArrive` of `ClipboardUpload` with `Limits <- Shrinking` (a reload lowers the limit: the server refuses
what a client sent before it knew, and with it throws away the grabs that had arrived). Of `KeyState`,
also on Windows: `ModifiersAgree` when the client has one shift key for the two of the server (the first
release brings the button up and ends the modifier, and a repeat of the other key presses it again without
a record), and `NothingStuck` when a modifier key is
another modifier key under shift (a repeat of the held key then moves the records to the new button
and leaves the old one down).

Seen while reading, and not stated as a property: `TCPListenSocket::serviceListening` closes the
socket on an error from the thread that holds the list, which waits for itself; an end between
`newJob` and `addSocket` leaves a job that reads a socket with nothing more to read;
`Client::m_active` survives a reconnection (`client/Client.cpp:589`); a resume always tries
the first address; `ClientListener::m_clientSockets` keeps the sockets of clients that were
accepted; characters with AltGr are mapped as commands, so AltGr held before the cursor
enters types the base character; the user interface does not look at the daemon's
answers; in desktop mode a stop during a pending retry leaves the state at `Stopping`; the
watchdog waits five seconds for its thread and may leave the core until the next boot.

## 6. What is proved

All obligations are discharged by Z3, Zenon and LS4, and every theorem holds for all values of
the constants that satisfy the module's assumption: any set of clients, any number of
copies, connections, sockets and troubles. Where a theorem needs more, the condition is in the table, and each condition
excludes something that section 5 describes. The theorems of one component are in one module;
`SocketMultiplexerProofs` and `ProgramProofs` have those of two and of three components, in sections
of their own, and `QueuesProofs` has the lemmas that several modules cite.

None of the properties is inductive by itself; each proof module begins with the
invariant that is, which TLC checked on the instance of the run before it was proved.
The proof that a step keeps it has one lemma for each action.

### The server's core: `ServerProofs`

Besides types, `ServerAssumption` has the
conventions that names and clients are distinct from the null values, that
screens are finitely many, and that the first configuration has the primary
screen under its own name (the server does not start without it, and the primary
client is built with its canonical name, `deskflow/ServerApp.cpp:307` and `:514`).

| Theorem | Says | Under |
|---|---|---|
| `TypeCorrect` | `[]TypeOK` | – |
| `PendingAlwaysTargeted` | `[]PendingHasTarget` | – |
| `LockAlwaysHolds` | `LockHolds` | – |
| `MembershipHolds` | `[]Membership` | `NoAliases` |
| `ActiveAlwaysConnected` | `[]ActiveConnected` | `NoAliases`, `Quiet` |
| `OneScreenEntered` | `[]OneEntered` | `NoAliases`, `Quiet` |
| `SaverTargetAlwaysConnected` | `[]SaverTargetConnected` | `NoAliases`, `Quiet` |
| `NeverFaults` | `[]NoFault` | `NoAliases`, `Quiet` |
| `CursorAlwaysOnActive` | `[]CursorOnActive` | also `~MayRefuseLeave` |

`NoAliases` (every name is its own canonical name in every configuration) excludes
the third; `Quiet` is no switch delay, which excludes the first, and no input
during the screen saver, which excludes the second. `Spec` of `Server` states no
fairness; the theorems are about every step, fair or not.

*The argument.* The invariant is

    IInv == TypeInv /\ MemberInv /\ FocusInv

* `TypeInv` adds `PendingHasTarget` to the types: `HandleSwitchWaitTimeout`
  switches to `m_switch.screen`, and only because that is not null does `m_active`
  keep its type.
* `MemberInv` replaces `Membership` by a form that says *under which name* a
  client is in `m_clients`: under the name it reported, which with `NoAliases` is
  its canonical name before and after every reload. Without it, `removeClient`
  could miss the entry. It gives `Connected = m_clientSet` and that whatever is in
  `m_clients` is alive.
* `FocusInv` says `~fault`, that no wait is pending, that `entered` singles out
  the active screen among *all* client objects (also the closing ones: a closing
  client must have been left when it is deleted), and what holds during the screen
  saver: the cursor is on the primary screen, so the client that leaves is the one
  to go back to or not concerned at all. Then `forceLeaveClient` tests the right
  variable.

The proof of a step has one case per action, under lemmas on the helpers:
`SwitchFocus` for `switchScreen`, `CrossEdgesFocus` for a motion, `ForceLeaveFocus`
for a removal, `MemberRemove` for the collections, `NeighborsConnected` for the
layout. `LockAlwaysHolds` is an action property: `CrossEdgesLocked` shows that a
motion over an edge with the lock set changes no focus, for any switch record.

### Clipboard sharing: `ClipboardProofs`

| Theorem | Says | Under |
|---|---|---|
| `ClipboardTypes` | `[]TypeOK` | – |
| `OversizedStaysAlways` | `[]OversizedStays` | – |
| `ExpectedClientAlways` | `[]ExpectedClient` | `~Background` |
| `NeverOlderAlways` | `NeverOlder` | `~Background` |
| `ActiveUpToDateAlways` | `[]ActiveUpToDate` | `[](TooLarge => Expected)` |
| `ActiveUpToDateSmall` | `ActiveUpToDate` in every state before a copy above the limit | – |
| `OwnershipAgreesAlways` | `[]OwnershipAgrees` | `[](TooLarge => Expected)` |
| `OwnershipAgreesSmall` | `OwnershipAgrees` in every state before a copy above the limit | – |

`~Background` says that programs copy only on the screen with the cursor. With copies elsewhere, a grab
of the primary screen is accepted with whatever sequence number, so the data of the owner before may come
behind it, from a client that has no grab on its way: `ExpectedClient` is false. `Expected` itself
is false (5.13), so no theorem assumes it of all states: `TooLarge => Expected` asks for it only where
the shared copy is above the limit. There, data from another screen would be taken for
the owner's and would leave the record to a screen that the server has not told. Before any copy
above the limit is made the hypothesis holds by itself, which is what the two theorems
with `Small` say.

*The argument.* `SizeInv` gives each message and record the set of contents it may hold: those that are
not oversized, except in the screen's own clipboard. Most of the work is `ClaimInv`, on
sequence numbers. Each number was given out once, to one screen (`who`), so there
are *steps* that a queue of messages may take: a grab with number `s` is from the screen that
`s` was given to and comes after what that screen sent with smaller numbers, and
data carries the number of the last grab, or an older one, or goes ahead of its grab. A `Claim` is how far
a screen has got: the number of its last grab, whether the data of that grab has still to follow, and `ahead`, a bound
on the numbers of the data that went ahead of the next grab, 0 if there is none; while it is not 0 a grab must follow
(`GrabsFollow`), with that number or a greater one. `ClaimInv` says that for some `who`,
what a client has sent leads from what the server has received of it to what the client
believes now (`Leads`, of `QueuesProofs`), that the queued events lead in the same way from what
the server has handled to what it has received, and that `m_clipboards` records the last
claim handled. The witnesses are quantified, so that the model has no history
variables; to check the invariant with TLC they were variables. A broken connection drops events out of the middle of
the queue; `KeptLeads` says when the rest still leads somewhere.

`OwnershipAgrees` has an invariant of its own, `OwnInv`. No number in a message or
an event is above its screen's (`Numbers`). A client whose number is
below the clipboard's is dirty, so that it is given the data when it is entered, and one
whose number is not was told already (`Served`). A claim that nothing on its way
will end is the owner's, or is still on its way itself (`Owns`, `Claims`). The last two are
suspended while a copy above the limit is the shared one, which then is the primary screen's, or a grab of
the primary screen waits (`LargeFits`, `PrimaryGrabs`): whatever grab is accepted
next begins anew, since it ends every other claim. Without either condition the property
fails, but only after four copies, two of them oversized, six switches and a broken connection, which is beyond the run's bounds.
TLC checked `OwnInv` with and without `Background`, with oversized and paced copies and with drops.

### Clipboard transfer: `ClipboardDownloadProofs`, `ClipboardUploadProofs`

| Theorem | Says | Under |
|---|---|---|
| `DownloadTypes` | `[]TypeOK` | – |
| `NeverCorruptAlways` | `[]NeverCorrupt` | – |
| `DownloadDelivers` | `DeliverySpec` (`Spec` implements `ClipboardDelivery`) | – |
| `UploadTypes` | `[]TypeOK` | `LimitsGrow` |
| `NeverRefusedAlways` | `[]NeverRefused` | `LimitsGrow` |
| `GrabsArriveAlways` | `[]GrabsArrive` | `LimitsGrow` |
| `UploadDelivers` | `DeliverySpec` | `LimitsGrow` |

`LimitsGrow` says that no reload lowers the size limit. When one does, a client that does not know it
yet sends what the server refuses, and whatever had arrived is thrown away with it, grabs
included: `NeverRefused` and `GrabsArrive` are false then (section 5). The refinement still holds on the
instance with a lower limit (284 580 states), but its proof goes through the same invariant.

*The argument.* A `Point` is how far a transfer has got at one place in the stream: whether one is
open, of which clipboard, how many chunks have been sent, and the last content of each
clipboard (and its last grab, for uploads). The `Steps` are the messages that may stand between one
point and the next. The invariant says that what the receiver has assembled is a point, that the wire
leads from it to another point, and that the sender goes on from there. A sender's
turn extends the wire (`TurnLeads`), a new transfer may cut the open one off
(`SetClipboardWrites`), a received message moves the first point (`MessageTaken`), and a
reconnection begins again at both ends. The refinement uses the same facts: whatever is
taken is the last content of its clipboard at that point, so it is no older than the one
taken before. `SendDirty` and `SendOwned` are handled by an invariant of their loop
(`LoopInvariant`).

### The session: `SessionProofs`

| Theorem | Says |
|---|---|
| `SessionTypes` | `[]TypeOK` |
| `NeverStrandedAlways` | `[]NeverStranded` |
| `TimerCoversAttemptAlways` | `[]TimerCoversAttempt` |
| `WaitingFetchedAlways` | `[]WaitingFetched` |
| `OwnedOnceAlways` | `[]OwnedOnce` |

*The argument.* `SessionInv` has a part for each program and one for what is between them.
The client's is its types, that there is a stream exactly in the phases that have one, and the
two properties. The server's says which messages a connection may bring for which state of its two objects:
a connection begins once and with its first message (`BeginsFirst`), before which the objects do not
exist (`ComingIsNew`, `BeginningIsNew`); the outcome of an unknown client comes after everything else about it
(`OutcomeIsLast`); and exactly one of the unknown client, the listener's queue, the server and the closing list
has the proxy (`OneOwner`). `OwnedOnce` counts the owners, which `OwnersCount` gets from `OneOwner`.

### The two threads: `SocketMultiplexerProofs`

| Theorem | Says |
|---|---|
| `MultiplexerTypes` | `[]TypeOK`; a buffer never gives more than it has |
| `JobsMatchPollAlways` | `[]JobsMatchPoll` |
| `OneEditorAlways` | the main thread never edits the list while the service thread works on it |

*The argument.* `MxInv` ties the two program counters to the owners of the two locks (`Locked`),
and the list to what was polled: without its removed entries the list *is*
`pfds`, socket by socket, as long as nobody has edited it since (`Matched`). While the service thread runs jobs, the live
entries from the cursor on are the polled entries from `i` on. An edit sets `m_update`, so that
the next round collects the list again.

### Packets and turns: `SocketMultiplexerProofs`

| Theorem | Says |
|---|---|
| `InputTypes` | `[]InputTypeOK` |
| `EndComesLastAlways` | `[]EndComesLast` |

*The argument.* `EndComesLast` speaks of the moment when the end has been signalled; the invariant of
everything that happens before. `EndOf[n]` is where packet `n` ends in the stream. While the stream is open (`Open`), what
will come in all is what was handled, the header that was taken off, what the filter and the socket
have and what is still to come (`Accounted`); the filter knows the size of the next packet or is
in front of its header (`CutUp`); bytes in the socket have an event or are just being
taken (`Noticed`); and the event of the end is the last one in the queue and posted
only when nothing is to come (`EndIsLast`, `Ends`). When the end is signalled every whole packet
before `total` was handled (`Closed`), by arithmetic on these.

### The server program: `ProgramProofs`

| Theorem | Says | Under |
|---|---|---|
| `LifeTypes` | `[]LifeTypeOK` | – |
| `OnlyServerAliveAlways` | `[]OnlyServerAlive` | `~SleepsInClose` |

`~SleepsInClose` says that the computer does not go to sleep while `closeServer` runs its own event loop;
otherwise the property is false (5.9).

*The argument.* `LifeInv` says besides the property that a server exists exactly while the state is
started; that at most one suspend is queued, with no suspend and no quit in front of it (`SleepFirst`); and
that a call of `closeServer` in progress is the only one, is about the server in use, and
has no suspend in the queue behind it (`ClosesServer`). So the inner loop cannot start a second close, and when
the outer handler goes on it deletes the server that it began with.

### The keys of a client: `ProgramProofs`

| Theorem | Says | Under |
|---|---|---|
| `KeyTypes` | `[]TypeOK`, and the count of a button in `m_syntheticKeys` is the number of keys that `m_serverKeys` records on it | – |
| `NothingStuckAlways` | `[]NothingStuck` | Windows, `~RemapsHeld`, `SteadyModifiers` |
| `ModifiersAgreeAlways` | `[]ModifiersAgree` | the same and `OwnModifiers` |
| `TypedAsAskedAlways` | `[]TypedAsAsked` | the same and `OwnModifiers` |

On Windows an auto-repeat sends a key up, which is what the code replaces by the old button; on
the other systems, and when the layout changes under a held key (`RemapsHeld`), `NothingStuck` is false
(5.12). `SteadyModifiers` says that a key of the server that is a modifier key here is that one
with and without shift, `OwnModifiers` that no two keys of the server are one modifier key here. They are
defined at the end of `KeyState`; `MCKeyState` assumes that its keyboards are so, and TLC confirms it. On
keyboards that are not so the properties fail (end of section 5).

*The argument.* One call of `mapKey` gives a list of keystrokes: modifiers moved, the button, modifiers moved
back. Each step of that list leads from what is down before a stroke to what is down after it (`Leads`, of
`QueuesProofs`), and so do the lists that are joined to make it (`ModifyMoves`,
`UnmodifyMoves`, `StateMoves`, `KeyItemMoves` for the way to the button, `AddKeyParts` and `RestoreParts` for
the rest). `KeyPlays` puts them together: it names the buttons that are down after the
keystrokes, and the active modifiers that `mapKey` returns fit them. A repeat on another button changes one
of these strokes (`SubstitutedFirst`); it is the key up of the repeat, so that the old button goes
up (`ReplaceKeeps`).

The invariants go up in three levels. `TypeInv` is the types and the counts; it holds on every platform. `HeldInv` says that a key that
`m_serverKeys` records is down at the server and has one of its own buttons, that every button that is down is recorded for
some key, and that every active modifier is down: `NothingStuck` follows. `AgreeInv` adds that
`m_activeModifiers` is exactly what is down and `m_mask` what it generates.

### The service: `ProgramProofs`

`OneCoreAlways` is `[]OneCore`, for any process identifiers and any
bounds. `OneCore` is not inductive: `StartProcess` shuts down only the process that the
handle `m_process` names, so two cores would run if another one existed. The invariant
is that while the main loop is past its first step and has not ended, every core is the
one the handle names (`HandleNamesCore`); before that step there may be one core of an
earlier daemon, and `BeginLoop` ends it. The lemma for the main loop has one step for each
of its actions; the actions of the user interface leave `cores` and the handle alone.

### Lemmas on queues and loops: `QueuesProofs`

`SetInduction` is induction with a set in the place of a predicate, and needs no
operator as a parameter; from it follow that a recursive function exists, what it keeps
(`LoopExists`, `LoopInvariant`), and all that is said of `Kept`: its type (`KeptType`), that it keeps every entry it is to keep (`KeptAll`), leaves a queue of such entries alone
(`KeptOnly`), drops the rest (`KeptNone`), and distributes over concatenation (`KeptConcat`). `Leads(R, s, p, q)` says that
the elements of `s` are steps of `R` from `p` to `q`; the lemmas say what appending, taking the
first, concatenating and dropping elements do to it.

### Only model-checked

* The liveness properties: under fairness they are out of TLAPS's reach.
  Every safety property of a passing run is stated by a theorem (those of `ServerStop` and of
  `KeyTyping` under the conditions in section 6).
* Run `KeyRepeats`, a violation.

`ClipboardDelivery` has no liveness; that whatever is sent last arrives is `FinallyUpToDate`, see 5.5.

## 7. Bounds, fairness and assumptions

**Server.** No counter needs a bound: the state is finite for finite constants. Three
clients are needed for a connected one, one that closes, and one that collides on
its name; `told`, `m_switch` and `m_activeSaver` refer to one client each. Three
screens in a row give an edge with two neighbours, a screen behind an unconnected
one, and both outcomes of the toggle. Clients are interchangeable, so `ServerWait`
uses symmetry; `ServerMain`, which checks a liveness property, does not.
Vertical edges are not in the instances: `Left` and `Right` go through the same
code as `Top` and `Bottom`, except for corners, where two edges are tried in
turn (`CrossEdges` has both, and the proofs cover all four directions).

**Clipboard.** Every copy and every switch is an action of a person, so runs bound
them: `MaxCopies`, `MaxSwitches`, `MaxDrops`. Three copies let one be overtaken by
another and a third claim follow. Three switches take the cursor to a client, to
the other one, and back or to the primary screen, with messages of all three under
way; the fourth is what 5.13 needs: with three, `Expected` holds and `ExpectedClient`
would say no more, and with the four of `ClipboardShare` `Expected` and `NeverOlder` without its
condition on grabs are violated. That the oversized copy is the second one leaves the
first and the third to be sent by one client under another's claim. A broken connection
takes the place of a copy and of a switch (`DropsReplace`), and no queue holds more than three messages
(`ShortQueues`): these are constraints of the run, which keep the search short; the scenarios of 5.13 need two messages
in a queue. Three more instances were searched to the end without `ShortQueues`: the same one
(7 533 411 states), three small copies and four switches (5 926 611 states), and three
switches with a paced first copy, an oversized last one and a broken connection at any moment
(5 656 155 states). The theorems hold for any of these numbers.
Without that constraint the queues hold whatever these actions put there.
`Background = FALSE` means that copies are made only on the screen with the
cursor; a program that copies on another screen is possible in the code and in the
module. `Drop` ends a connection for both sides at once, so it discards the
messages of both directions. The sizes of the
transfers (`Sizes`) make one content fit in a turn and one need
two; `MaxChunksPerTurn = 2` stands for the code's 4, and no comparison in the code
depends on the number itself.

**Session.** Two connections at a time are a half-open one and the next attempt; a closed
one is used again. One trouble is enough for each of a cut, a late timer, a suspend and a
reload to happen at any moment, and what follows must recover from it; the free
expiries and the failing addresses are not counted. `MaxRestarts` bounds only suspends
(a suspend needs fewer than two restarts pending). Two troubles were too many states for a
liveness check.

**ServerLife.** Five events from outside let a suspend, a resume and a quit meet two
clients' ends; two servers are one and the one after it.

**PacketInput.** Headers of two bytes can arrive in halves; packets of one and two bytes
exhaust the turn by messages or by bytes, since the code counts the size of the packet
that follows.

**SocketMultiplexer.** One data socket that is opened again after it was closed, beside the
listening one, gives lists of up to two entries in both orders; with two data sockets the
same properties hold (190 033 states, 73 seconds). Six arrivals let connections, data and ends
follow each other.

**KeyState.** No bound: the keys are finitely many. Six keys have each case of the mapping: a
character that needs shift here and not there, one that needs it there and not here, two keys
of one button, two buttons of one modifier, a command.

**CoreService.** Two process identifiers, because a new process is created when the old one
has been shut down; two failures reach the delayed start; `OneCore` is proved for any bound.

Runs whose counters stop them check no deadlock: the model has nothing to do when
the bounds are used up.

**Fairness.** `FairSpec` has weak fairness of the handler of each queued
disconnection (the loop dispatches what is queued, in order) and *strong* fairness
of each close timeout: a timer fires only when the event buffer is empty
(`EventQueue::processEvent`), so the timeout is not enabled all the time, but a
buffer that is again and again empty lets it fire. That the buffer empties again
and again is an assumption about the load. `ClipboardDownload` has weak fairness
of `Tick` (a sender posts its next turn itself) and `Receive` (what is written
arrives, and is read). The property `DisconnectAnswered` supposes that from some
point on no further client connects. In `Session` both programs take their events, the network
delivers what is not cut, and timers, which wait for an empty queue, are strongly fair; a
computer that sleeps wakes up, and the name that was taken out of the configuration comes
back. In `ServerLife` clients may never hang up: the timer alone must do. In `SocketMultiplexer`
the fairness is strong because a mutex is free again and again, not all the time. In
`CoreService` the user, the failures and the troubles have none; `StopIsObeyed` and
`StartIsObeyed` suppose that no message was lost, that the daemon and the connection stay
from some time on, and that nobody pressed two buttons before the daemon was reached (the
last, without which `StopCancels` fails).

**Environment.** The platform screen may refuse to be left (`MayRefuseLeave`), has
a screen saver or not (`ScreenSaver`), and delivers input while it runs or not
(`InputDuringSaver`). Connections may end at any moment. Reloads may bring any of
the configurations in `Configs`, in any order.

**What follows a fault is cut off.** A property such as `ActiveConnected` is
claimed for the states before a fault, and `NoFault` is a property of its own.

## 8. What is not modelled

`PROJECT.json` gives each component's status. Out of reach or out of interest:

* **Platform screens and clipboards** (`platform/`): calls of X11, Windows, macOS
  and the desktop portals, whose behaviour is not in the repository. The models
  have what the core sees of them.
* **Protocol codec, clipboard formats, names and addresses, certificates,
  logging, settings, argument parsing**: encodings, text and I/O. Messages are
  records with a type field.
* **TLS** (`net/SecureSocket.cpp`): OpenSSL's own states.
* **Threads and locks** (`mt/`, `arch/`): wrappers of the operating system;
  `SocketMultiplexer` uses their meaning.
* **GUI** (`gui/`): Qt widgets and dialogs. Of `CoreProcess` the desktop mode is left out.
* **The parser and printer of the layout, and the intervals of its links**: text and tables.
  `getNeighbor`'s loop over unconnected screens is a set of reachable screens in `Server`; that
  it does not end on a circle of unconnected screens is visible in the code only.

The program has some 84 000 lines, and most of them are of these kinds: the platform
screens, key tables and clipboard converters of four windowing systems alone are more than a
third, and the user interface is another. The modules cover the parts with control state
of their own: connections, events, threads, focus, clipboards, keys and processes. What
they map is therefore a small share of the lines, and the parts left out
would add lines and no behaviour of the kinds in section 2.

Within the modelled parts these are left out: pixel coordinates;
forwarding of buttons, wheel and gestures, and the keyboard
broadcast; options other than those of switching; the option that disables
clipboard sharing; progress reports of transfers; malformed messages. The shape
events of the primary screen are motions.

Also left out: the choice among the protocol versions; connecting sockets and one-sided
shutdowns in the multiplexer; half-duplex keys, several keyboard groups, dead keys; the watchdog's
output and secure attention threads; the event table's numbers, the queue before the loop
starts, and the timers' clocks.

## 9. Plan

In this order, the most important behaviour first. Each module declares its
parameters as CONSTANTS with a named assumption, one action per handler, and uses
recursive functions or folds where it needs recursion, so that it can be proved
about.

All modules of section 3 are written, checked and proved as section 6 says.

**Proofs that could follow**: `NothingStuck` on keyboards with shared modifier keys, in the weaker form that
holds there; `ServerLife` with sleeps, in the form that a corrected `closeServer` would keep.

**Models that could follow**: the neighbours along links as functions over a small grid; the
event table with reused numbers and `m_pending`; the throttling of progress reports; `Server`
composed with `Clipboard` (the jump to the primary screen and what it leaves dirty).

Liveness stays with TLC: it is not within TLAPS's reach.

## 10. Running it

    tlc -config ServerMain.cfg MCServer         # any run of section 4
    tlapm ServerProofs.tla                      # the proofs of a module
    for p in *Proofs.tla; do tlapm $p; done     # all of them

`ServerMain` and `ServerWait` use `MCServer`; `ClipboardShare` uses `MCClipboard`; `DownloadBoth`
`ClipboardDownload` itself; `UploadBoth` `MCClipboardUpload`; `SessionReconnect` `MCSession`;
`ServerStop` `ServerLife`; `PacketTurns` `MCPacketInput`; `Multiplexer` `SocketMultiplexer`;
`KeyTyping` and `KeyRepeats` `MCKeyState`; `ServiceStarts` `CoreService`.
