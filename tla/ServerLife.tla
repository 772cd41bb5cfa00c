----------------------------- MODULE ServerLife -----------------------------
(***************************************************************************)
(* The life of the server program (src/src/lib/deskflow/ServerApp.cpp): it *)
(* starts a server, stops it while the computer sleeps, and closes it when *)
(* the program ends.  closeServer waits for the clients by running the     *)
(* event loop inside the handler that called it, so every event may be     *)
(* handled between its first and its second half, and a Quit ends          *)
(* whichever loop is the innermost.                                        *)
(***************************************************************************)
EXTENDS Naturals, Sequences, FiniteSets, SequencesExt, Queues

CONSTANTS
    Clients,
    NoServer,         \* nullptr
    MaxServers,       \* bound: servers that are started
    MaxEvents,        \* bound: events of the user, the system and the clients
    SleepsInClose     \* the computer may go to sleep while a server is closed

ASSUME LifeAssumption ==
    /\ IsFiniteSet(Clients) /\ NoServer \notin Nat
    /\ MaxServers \in Nat \ {0} /\ MaxEvents \in Nat
    /\ SleepsInClose \in BOOLEAN

VARIABLES
    m_serverState,
    m_server,
    m_suspended,
    alive,            \* server objects, with their listeners, not deleted
    started,          \* servers started so far
    members,          \* clients of m_server
    m_oldClients,     \* clients it has told to close
    main,             \* the main loop runs
    closing,          \* the calls of closeServer in progress, innermost last
    events,           \* the event queue
    asked,            \* the user or the system has asked the program to end
    raised,           \* events raised from outside so far
    fault             \* a server was deleted twice

server == <<m_serverState, m_server, alive, started>>
clients == <<members, m_oldClients>>
program == <<m_suspended, main, asked>>
lifeVars == <<server, clients, program, closing, events, raised, fault>>

\* retryHandler's states, Initializing, InitializingToStart and Starting, are
\* never assigned: it is not called.
States == {"Uninitialized", "Initialized", "Started"}
ServerIds == 1 .. MaxServers
Callers == {"suspend", "cleanup"}
EventType == {"Suspend", "Resume", "Quit", "Reload", "Accepted", "Gone", "ServerDisconnected"}

Event(type, of) == [type |-> type, of |-> of]
EventsOf(types) == [type : types, of : Clients \cup ServerIds \cup {NoServer}]

LifeTypeOK ==
    /\ m_serverState \in States
    /\ m_server \in ServerIds \cup {NoServer}
    /\ alive \subseteq ServerIds /\ started \in ServerIds
    /\ members \subseteq Clients /\ m_oldClients \subseteq Clients
    /\ m_suspended \in BOOLEAN /\ main \in BOOLEAN
    /\ closing \in Seq([server : ServerIds, caller : Callers])
    /\ events \in Seq(EventsOf(EventType))
    /\ asked \in BOOLEAN /\ raised \in 0 .. MaxEvents /\ fault \in BOOLEAN

\* startNode has started the server; otherwise the program has ended.
LifeInit ==
    /\ m_serverState = "Started" /\ m_server = 1
    /\ alive = {1} /\ started = 1
    /\ m_suspended = FALSE
    /\ members = {} /\ m_oldClients = {}
    /\ main = TRUE /\ closing = <<>>
    /\ events = <<>> /\ asked = FALSE /\ raised = 0
    /\ fault = FALSE

Running == ~fault /\ (main \/ closing # <<>>)
Dispatches(type, of) == Running /\ events # <<>> /\ Head(events) = Event(type, of)

\* The last client has gone: Server posts ServerDisconnected.
Answer(mine, old) ==
    IF mine = {} /\ old = {} THEN <<Event("ServerDisconnected", m_server)>> ELSE <<>>

-----------------------------------------------------------------------------
(* Events from outside *)

Post(type, of) ==
    /\ Running /\ raised < MaxEvents
    /\ raised' = raised + 1
    /\ events' = Append(events, Event(type, of))
    /\ UNCHANGED <<server, clients, m_suspended, main, closing, fault>>

Waiting(type, of) == \E i \in DOMAIN events : events[i] = Event(type, of)

\* No server is being closed, or will be before what is raised now is handled.
ClosesNothing == closing = <<>> /\ ~Waiting("Suspend", NoServer) /\ ~Waiting("Quit", NoServer)

\* The platform screen: ScreenSuspend and ScreenResume.
Sleep ==
    /\ SleepsInClose \/ ClosesNothing
    /\ Post("Suspend", NoServer) /\ UNCHANGED asked
WakeUp == Post("Resume", NoServer) /\ UNCHANGED asked
\* A signal, the tray menu, or a platform that cannot go on.
AskToQuit == Post("Quit", NoServer) /\ asked' = TRUE
\* A hangup signal.
AskToReload == Post("Reload", NoServer) /\ UNCHANGED asked

\* A client passes the handshake, and leaves.
Arrive(c) ==
    /\ m_server # NoServer /\ c \notin members \cup m_oldClients
    /\ ~Waiting("Accepted", c)
    /\ Post("Accepted", c) /\ UNCHANGED asked
Depart(c) ==
    /\ c \in members /\ ~Waiting("Gone", c)
    /\ Post("Gone", c) /\ UNCHANGED asked

\* A client that was told to close hangs up.
HangUp(c) ==
    /\ Running /\ c \in m_oldClients /\ ~Waiting("Gone", c)
    /\ events' = Append(events, Event("Gone", c))
    /\ UNCHANGED <<server, clients, program, closing, raised, fault>>

-----------------------------------------------------------------------------
(* Handlers that do not close the server *)

\* handleClientConnected.
HandleClientConnected(c) ==
    /\ Dispatches("Accepted", c)
    /\ events' = Tail(events)
    /\ members' = members \cup {c}
    /\ UNCHANGED <<server, m_oldClients, program, closing, raised, fault>>

\* Server::handleClientDisconnected: removeActiveClient, removeOldClient.
HandleClientDisconnected(c) ==
    /\ Dispatches("Gone", c)
    /\ members' = members \ {c} /\ m_oldClients' = m_oldClients \ {c}
    /\ events' = Tail(events) \o Answer(members', m_oldClients')
    /\ UNCHANGED <<server, program, closing, raised, fault>>

\* reloadConfig: clients that are not in the configuration any more are closed.
ReloadConfig ==
    /\ Dispatches("Reload", NoServer)
    /\ events' = Tail(events)
    /\ \E gone \in SUBSET members :
           /\ members' = members \ gone
           /\ m_oldClients' = m_oldClients \cup gone
    /\ UNCHANGED <<server, program, closing, raised, fault>>

\* startServer, while Uninitialized never follows Started; it may not get the
\* address, and nobody tries again.
StartServer ==
    \/ /\ m_serverState = "Started"
       /\ UNCHANGED server
    \/ /\ m_serverState = "Initialized" /\ started < MaxServers
       /\ m_serverState' = "Started"
       /\ started' = started + 1 /\ m_server' = started'
       /\ alive' = alive \cup {started'}
    \/ /\ m_serverState = "Initialized"
       /\ UNCHANGED server

\* Mutant: a server is started whether there is one or not.
ResumeStartsAgain ==
    /\ Dispatches("Resume", NoServer)
    /\ started < MaxServers
    /\ m_serverState' = "Started"
    /\ started' = started + 1 /\ m_server' = started'
    /\ alive' = alive \cup {started'}
    /\ m_suspended' = FALSE
    /\ events' = Tail(events)
    /\ UNCHANGED <<clients, main, asked, closing, raised, fault>>

HandleResume ==
    /\ Dispatches("Resume", NoServer)
    /\ IF m_suspended THEN StartServer /\ m_suspended' = FALSE
                      ELSE UNCHANGED <<server, m_suspended>>
    /\ events' = Tail(events)
    /\ UNCHANGED <<clients, main, asked, closing, raised, fault>>

-----------------------------------------------------------------------------
(* Closing the server *)

\* closeServer to the call of the loop: Server::disconnect.
CloseServer(caller, rest) ==
    /\ closing' = Append(closing, [server |-> m_server, caller |-> caller])
    /\ members' = {} /\ m_oldClients' = m_oldClients \cup members
    /\ events' = rest \o Answer(members', m_oldClients')
    /\ UNCHANGED server

\* Mutant: stopServer does not look whether a server was started.
SuspendClosesAlways ==
    /\ Dispatches("Suspend", NoServer)
    /\ IF ~m_suspended
       THEN CloseServer("suspend", Tail(events)) /\ UNCHANGED m_suspended
       ELSE /\ m_suspended' = TRUE /\ events' = Tail(events)
            /\ UNCHANGED <<server, clients, closing>>
    /\ UNCHANGED <<main, asked, raised, fault>>

HandleSuspend ==
    /\ Dispatches("Suspend", NoServer)
    /\ IF ~m_suspended /\ m_serverState = "Started"
       THEN CloseServer("suspend", Tail(events)) /\ UNCHANGED m_suspended
       ELSE /\ m_suspended' = TRUE /\ events' = Tail(events)
            /\ UNCHANGED <<server, clients, closing>>
    /\ UNCHANGED <<main, asked, raised, fault>>

\* closeServer's handler of ServerDisconnected posts a Quit for its loop.
HandleServerDisconnected(s) ==
    /\ Dispatches("ServerDisconnected", s)
    /\ events' = Tail(events) \o
           (IF \E i \in DOMAIN closing : closing[i].server = s
            THEN <<Event("Quit", NoServer)>> ELSE <<>>)
    /\ UNCHANGED <<server, clients, program, closing, raised, fault>>

\* Mutant: only ServerDisconnected ends the loop.
NoCloseTimeout == FALSE

\* And so does its timer of three seconds.
HandleCloseTimeout ==
    /\ ~fault /\ closing # <<>> /\ events = <<>>
    /\ events' = <<Event("Quit", NoServer)>>
    /\ UNCHANGED <<server, clients, program, closing, raised, fault>>

\* The rest of closeServer and of stopServer, and what the caller does then:
\* m_suspended, or the rest of cleanupServer.  The events of the clients and
\* of the listener find no handler any more.
FinishClose ==
    LET frame == Last(closing)
    IN  /\ Dispatches("Quit", NoServer) /\ closing # <<>>
        /\ fault' = (frame.server \notin alive)
        /\ closing' = Front(closing)
        /\ alive' = alive \ {frame.server}
        /\ m_server' = NoServer
        /\ m_serverState' = IF frame.caller = "suspend" THEN "Initialized" ELSE "Uninitialized"
        /\ m_suspended' = (m_suspended \/ frame.caller = "suspend")
        /\ members' = {} /\ m_oldClients' = {}
        /\ events' = Kept(Tail(events), EventsOf(EventType \ {"Accepted", "Gone"}))
        /\ UNCHANGED <<started, main, asked, raised>>

\* The main loop ends: cleanupServer.
EndMainLoop ==
    /\ Dispatches("Quit", NoServer) /\ closing = <<>>
    /\ main' = FALSE
    /\ IF m_serverState = "Started"
       THEN CloseServer("cleanup", Tail(events))
       ELSE /\ m_serverState' = "Uninitialized" /\ events' = Tail(events)
            /\ UNCHANGED <<m_server, alive, started, clients, closing>>
    /\ UNCHANGED <<m_suspended, asked, raised, fault>>

-----------------------------------------------------------------------------
(* The specification *)

Outside ==
    \/ Sleep \/ WakeUp \/ AskToQuit \/ AskToReload
    \/ \E c \in Clients : Arrive(c) \/ Depart(c)

Dispatch ==
    \/ \E c \in Clients : HandleClientConnected(c) \/ HandleClientDisconnected(c)
    \/ \E s \in ServerIds : HandleServerDisconnected(s)
    \/ ReloadConfig \/ HandleResume \/ HandleSuspend
    \/ FinishClose \/ EndMainLoop

LifeNext == Outside \/ Dispatch \/ HandleCloseTimeout \/ \E c \in Clients : HangUp(c)

LifeSpec == LifeInit /\ [][LifeNext]_lifeVars

\* The loop takes its events; once the queue is empty, the timer expires.
\* Clients may never hang up.
LifeFairSpec == LifeSpec /\ WF_lifeVars(Dispatch) /\ WF_lifeVars(HandleCloseTimeout)

-----------------------------------------------------------------------------
(* Properties *)

\* Every server object that exists is the one in use, whatever is handled
\* while it is being closed: none is forgotten when the computer wakes up,
\* and none that is deleted is still in use (ServerApp::stopServer,
\* handleSuspend, handleResume).
OnlyServerAlive == ~fault /\ alive = (IF m_server = NoServer THEN {} ELSE {m_server})

\* A server that is being closed is closed in the end, even if its clients
\* never hang up: the loop inside the handler does not take over the program
\* (ServerApp::closeServer: "wait for clients to disconnect for up to timeout
\* seconds").
CloseEnds == \A n \in 1 .. MaxServers : Len(closing) = n ~> (Len(closing) < n \/ fault)

\* The main loop runs "until the kQuit event is found" (IEventQueue::loop),
\* and the program ends only if somebody asked it to.
EndsOnlyWhenAsked == ~main => asked

\* A program that was asked to end does so.
QuitEnds == asked ~> (~main \/ fault)

\* "if startServer() failed we're supposed to retry later.  the timer
\* installed by startServer() will take care of that" (ServerApp::mainLoop).
StartsAgain ==
    (m_serverState = "Initialized" /\ ~m_suspended) ~> (m_serverState # "Initialized" \/ m_suspended)
=============================================================================
