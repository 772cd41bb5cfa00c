--------------------------- MODULE ClientSession ---------------------------
(***************************************************************************)
(* The client's end of a connection (src/src/lib/client/Client.cpp and     *)
(* src/src/lib/client/ServerProxy.cpp) and the application that starts it  *)
(* again after every failure (src/src/lib/deskflow/ClientApp.cpp).  One    *)
(* thread takes the events, so every handler is one action.                *)
(***************************************************************************)
EXTENDS Connections, Queues

CONSTANTS
    Addresses,        \* for each configured server, how many addresses it has
    Reachable,        \* the server and address that lead to a running server
    MaxRestarts       \* bound: suspends while this many restarts are pending

ASSUME ClientAssumption ==
    /\ Addresses \in Seq(Nat \ {0}) /\ Addresses # <<>>
    /\ MaxRestarts \in Nat

VARIABLES
    m_stream,         \* the connection, None where there is no stream
    phase,            \* whose handlers the stream has, see Phases
    m_timer,          \* the timer of a connection attempt
    m_suspended,
    m_connectOnResume,
    m_currentServerIndex,
    m_serverAddress,  \* the server startClient has last given to the client
    m_lastServerAddressIndex,
    m_resolvedAddressesCount,
    restarts          \* one-shot timers of scheduleClientRestart

\* No stream; setupConnecting; setupConnection; m_server, with its handshake
\* parser; m_ready.
Phases == {"none", "connecting", "hello", "handshake", "ready"}

attempt == <<m_currentServerIndex, m_serverAddress, m_lastServerAddressIndex,
             m_resolvedAddressesCount>>
suspension == <<m_suspended, m_connectOnResume>>
clientVars == <<m_stream, phase, m_timer, suspension, attempt, restarts>>

ServerIndex == 0 .. Len(Addresses) - 1
\* The events by which the client tells the application how a session ended.
Outcomes == {"Failed", "Refused", "Disconnected"}

ClientTypeOK ==
    /\ m_stream \in Conns \cup {None}
    /\ phase \in Phases
    /\ m_timer \in BOOLEAN /\ m_suspended \in BOOLEAN
    /\ m_connectOnResume \in BOOLEAN
    /\ m_currentServerIndex \in ServerIndex /\ m_serverAddress \in ServerIndex
    /\ m_lastServerAddressIndex \in Nat
    /\ restarts \in Nat

ClientInit ==
    /\ m_stream = None /\ phase = "none"
    /\ m_timer = FALSE
    /\ m_suspended = FALSE /\ m_connectOnResume = FALSE
    /\ m_currentServerIndex = 0 /\ m_serverAddress = 0 /\ m_lastServerAddressIndex = 0
    /\ m_resolvedAddressesCount = 0
    /\ restarts = 1

-----------------------------------------------------------------------------
(* Client: the connection *)

\* cleanupTimer, cleanupScreen, cleanupConnecting and cleanupConnection; the
\* socket, with what has come and is not read, is closed.
Cleanup ==
    /\ m_stream' = None /\ phase' = "none" /\ m_timer' = FALSE
    /\ IF m_stream = None THEN UNCHANGED network
       ELSE /\ toServer' = Send(toServer, m_stream, <<"End">>)
            /\ toClient' = [toClient EXCEPT ![m_stream] = <<>>]
            /\ UNCHANGED cut

\* The events that still have a handler then, and the one for the application.
After(rest, outcome) ==
    Append(Kept(rest, {e \in Range(rest) : e.conn = None}), Event(None, outcome))

\* disconnect and refuseConnection, called by a handler.
EndSession(outcome) ==
    /\ Cleanup
    /\ m_connectOnResume' = FALSE
    /\ clientEvents' = After(Tail(clientEvents), outcome)
    /\ UNCHANGED <<m_suspended, attempt, restarts, troubles>>

\* handleConnectionFailed, handleConnectTimeout, handleDisconnected and
\* handleOutputError do not touch m_connectOnResume.
LoseSession(rest, outcome) ==
    /\ Cleanup
    /\ clientEvents' = After(rest, outcome)
    /\ UNCHANGED <<suspension, attempt, restarts>>

\* What becomes of an attempt, on its way to the client and to the server: a
\* running server takes it; otherwise it is refused, or nothing comes at all.
Taken == <<<<"Connected">>, <<"Connecting">>>>
NotTaken == {<<<<"ConnectFailed">>, <<>>>>, <<<<>>, <<>>>>}

\* Client::connect without the suspension: a socket for an address of the
\* server, the last one if it has no such address, or a failure at once if the
\* server's name does not resolve.  rest is the events that wait.
Try(server, addressIndex, unused, rest) ==
    LET count == Addresses[server + 1]
        tried == <<server, IF addressIndex < count THEN addressIndex ELSE count - 1>>
    IN  \/ \E k \in unused, answer \in {Taken} \cup NotTaken :
               /\ answer = Taken => tried \in Reachable
               /\ Expires(answer = Taken \/ tried \notin Reachable)
               /\ m_stream' = k /\ phase' = "connecting" /\ m_timer' = TRUE
               /\ m_resolvedAddressesCount' = count
               /\ cut' = cut \ {k}
               /\ toClient' = [toClient EXCEPT ![k] = answer[1]]
               /\ toServer' = [toServer EXCEPT ![k] = answer[2]]
               /\ clientEvents' = rest
        \/ /\ Expires(\A r \in Reachable : r[1] # server)
           /\ clientEvents' = Append(rest, Event(None, "Failed"))
           /\ UNCHANGED <<m_stream, phase, m_timer, m_resolvedAddressesCount,
                          network>>

HandleConnected(k) ==
    /\ ClientDispatches(k, "Connected") /\ m_stream = k /\ phase = "connecting"
    /\ phase' = "hello"
    /\ ClientPosts(<<>>)
    /\ UNCHANGED <<m_stream, m_timer, suspension, attempt, restarts, network, troubles>>

HandleConnectionFailed(k) ==
    /\ ClientDispatches(k, "ConnectFailed") /\ m_stream = k /\ phase = "connecting"
    /\ LoseSession(Tail(clientEvents), "Failed")
    /\ UNCHANGED troubles

\* Mutant: the timer is not cleaned up when the hello is answered.
HelloKeepsTimer(k) ==
    /\ ClientDispatches(k, "Hello") /\ m_stream = k /\ phase = "hello"
    /\ phase' = "handshake" /\ UNCHANGED m_timer
    /\ toServer' = Send(toServer, k, <<"HelloBack">>)
    /\ ClientPosts(<<>>)
    /\ UNCHANGED <<m_stream, suspension, attempt, restarts, toClient, cut, troubles>>

\* handleHello: the answer, the proxy of the server, and no timer any more.
HandleHello(k) ==
    /\ ClientDispatches(k, "Hello") /\ m_stream = k /\ phase = "hello"
    /\ phase' = "handshake" /\ m_timer' = FALSE
    /\ toServer' = Send(toServer, k, <<"HelloBack">>)
    /\ ClientPosts(<<>>)
    /\ UNCHANGED <<m_stream, suspension, attempt, restarts, toClient, cut, troubles>>

\* handleDisconnected: the peer has closed the connection.
HandleDisconnected(k) ==
    /\ ClientDispatches(k, "End") /\ m_stream = k
    /\ phase \in {"hello", "handshake", "ready"}
    /\ LoseSession(Tail(clientEvents), "Disconnected")
    /\ UNCHANGED troubles

\* handleOutputError: the network gives the connection up.
HandleOutputError ==
    /\ clientEvents = <<>> /\ m_stream \in cut
    /\ phase \in {"hello", "handshake", "ready"}
    /\ LoseSession(<<>>, "Disconnected")
    /\ UNCHANGED troubles

-----------------------------------------------------------------------------
(* ServerProxy *)

\* parseHandshakeMessage and parseMessage: what a message of the server
\* changes, and the message or the event it leads to.
HandleData(k) ==
    /\ m_stream = k /\ phase \in {"handshake", "ready"}
    /\ \/ /\ ClientDispatches(k, "QInfo")
          /\ toServer' = Send(toServer, k, <<"DInfo">>)
          /\ ClientPosts(<<>>) /\ UNCHANGED phase
       \/ /\ ClientDispatches(k, "CInfoAck")
          /\ ClientPosts(<<>>) /\ UNCHANGED <<phase, toServer>>
       \/ /\ ClientDispatches(k, "DSetOptions")
          /\ phase' = "ready"
          /\ ClientPosts(IF phase = "ready" THEN <<>> ELSE <<Event(None, "Connected")>>)
          /\ UNCHANGED toServer
       \/ /\ ClientDispatches(k, "CClose")
          /\ ClientPosts(<<Event(k, "RequestDisconnect")>>)
          /\ UNCHANGED <<phase, toServer>>
       \/ /\ phase = "handshake"
          /\ (ClientDispatches(k, "EBusy") \/ ClientDispatches(k, "EUnknown"))
          /\ ClientPosts(<<Event(k, "RequestRefuse")>>)
          /\ UNCHANGED <<phase, toServer>>
    /\ UNCHANGED <<m_stream, m_timer, suspension, attempt, restarts, toClient, cut, troubles>>

\* handleKeepAliveAlarm: no keep-alive of the server has come in time.
HandleKeepAliveAlarm(serverSilent) ==
    /\ clientEvents = <<>> /\ phase \in {"handshake", "ready"}
    /\ Expires(serverSilent)
    /\ clientEvents' = <<Event(m_stream, "RequestMessage")>>
    /\ UNCHANGED <<clientVars, network>>

\* Client::handleDisconnectRequested.
HandleDisconnectRequested(k) ==
    /\ m_stream = k
    /\ \/ ClientDispatches(k, "RequestDisconnect") /\ EndSession("Disconnected")
       \/ ClientDispatches(k, "RequestMessage") /\ EndSession("Failed")
       \/ ClientDispatches(k, "RequestRefuse") /\ EndSession("Refused")

\* handleConnectTimeout: two seconds without the server's hello.
HandleConnectTimeout ==
    /\ m_timer /\ clientEvents = <<>>
    /\ Expires(AtRest(m_stream))
    /\ LoseSession(<<>>, "Failed")

\* An event for which the stream has no handler, or the proxy no use, now.
ClientDiscards(k) ==
    /\ \/ phase = "connecting" /\ ClientDispatches(k, "End")
       \/ phase = "ready" /\ (ClientDispatches(k, "EBusy") \/ ClientDispatches(k, "EUnknown"))
    /\ ClientPosts(<<>>)
    /\ UNCHANGED <<clientVars, network, troubles>>

-----------------------------------------------------------------------------
(* Client: suspend and resume *)

\* The platform screen reports that the computer goes to sleep or wakes up.
\* The bound keeps the number of pending restarts small.
Suspend ==
    /\ Trouble /\ ~m_suspended /\ restarts < MaxRestarts
    /\ \A i \in DOMAIN clientEvents : clientEvents[i].conn # None
    /\ clientEvents' = Append(clientEvents, Event(None, "Suspend"))
    /\ UNCHANGED <<clientVars, network>>

Resume ==
    /\ m_suspended
    /\ \A i \in DOMAIN clientEvents : clientEvents[i].type # "Resume"
    /\ clientEvents' = Append(clientEvents, Event(None, "Resume"))
    /\ UNCHANGED <<clientVars, network, troubles>>

HandleSuspend ==
    /\ ClientDispatches(None, "Suspend") /\ ~m_suspended
    /\ m_suspended' = TRUE
    /\ m_connectOnResume' = (phase \in {"handshake", "ready"})
    /\ Cleanup
    /\ clientEvents' = After(Tail(clientEvents), "Disconnected")
    /\ UNCHANGED <<attempt, restarts, troubles>>

\* handleResume connects to the server of the last restart, which is not the
\* current one when a session has begun since (handleClientConnected).
HandleResume(unused) ==
    /\ ClientDispatches(None, "Resume")
    /\ m_suspended' = FALSE /\ m_connectOnResume' = FALSE
    /\ \/ m_connectOnResume /\ Try(m_serverAddress, 0, unused, Tail(clientEvents))
       \/ /\ ~m_connectOnResume
          /\ ClientPosts(<<>>)
          /\ UNCHANGED <<m_stream, phase, m_timer, m_resolvedAddressesCount, network, troubles>>
    /\ UNCHANGED <<m_currentServerIndex, m_serverAddress, m_lastServerAddressIndex, restarts>>

-----------------------------------------------------------------------------
(* ClientApp *)

\* handleClientConnected.
HandleClientConnected ==
    /\ ClientDispatches(None, "Connected")
    /\ m_currentServerIndex' = 0 /\ m_lastServerAddressIndex' = 0
    /\ ClientPosts(<<>>)
    /\ UNCHANGED <<m_stream, phase, m_timer, suspension, m_serverAddress,
                   m_resolvedAddressesCount, restarts, network, troubles>>

\* Mutant: the last server has no next one.
FailedPastLast ==
    LET next == m_lastServerAddressIndex + 1
        more == next < m_resolvedAddressesCount
    IN  /\ ClientDispatches(None, "Failed")
        /\ m_lastServerAddressIndex' = IF more THEN next ELSE 0
        /\ m_currentServerIndex' =
               IF more THEN m_currentServerIndex ELSE m_currentServerIndex + 1
        /\ restarts' = restarts + 1
        /\ ClientPosts(<<>>)
        /\ UNCHANGED <<m_stream, phase, m_timer, suspension, m_serverAddress,
                       m_resolvedAddressesCount, network, troubles>>

\* handleClientFailed: the next address of the server, or the next server.
HandleClientFailed ==
    LET next == m_lastServerAddressIndex + 1
        more == next < m_resolvedAddressesCount
    IN  /\ ClientDispatches(None, "Failed")
        /\ m_lastServerAddressIndex' = IF more THEN next ELSE 0
        /\ m_currentServerIndex' =
               IF more THEN m_currentServerIndex
               ELSE (m_currentServerIndex + 1) % Len(Addresses)
        /\ restarts' = restarts + 1
        /\ ClientPosts(<<>>)
        /\ UNCHANGED <<m_stream, phase, m_timer, suspension, m_serverAddress,
                       m_resolvedAddressesCount, network, troubles>>

\* handleClientRefused and handleClientDisconnected: scheduleClientRestart.
HandleClientEnded ==
    /\ ClientDispatches(None, "Refused") \/ ClientDispatches(None, "Disconnected")
    /\ restarts' = restarts + 1
    /\ ClientPosts(<<>>)
    /\ UNCHANGED <<m_stream, phase, m_timer, suspension, attempt, network, troubles>>

\* Mutant: Client::connect returns without a word while it is suspended.
RestartForgotten(unused) ==
    /\ restarts > 0 /\ clientEvents = <<>>
    /\ restarts' = restarts - 1
    /\ m_serverAddress' = m_currentServerIndex
    /\ \/ /\ m_stream = None /\ ~m_suspended
          /\ Try(m_currentServerIndex, m_lastServerAddressIndex, unused, <<>>)
       \/ /\ m_stream # None \/ m_suspended
          /\ UNCHANGED <<m_stream, phase, m_timer, m_resolvedAddressesCount,
                         network, clientEvents, troubles>>
    /\ UNCHANGED <<suspension, m_currentServerIndex, m_lastServerAddressIndex>>

\* handleClientRestart and startClient, by a timer that expires; connect does
\* nothing while there is a stream, and waits for the end of a suspension.
HandleClientRestart(unused) ==
    /\ restarts > 0 /\ clientEvents = <<>>
    /\ restarts' = restarts - 1
    /\ m_serverAddress' = m_currentServerIndex
    /\ \/ /\ m_stream = None /\ ~m_suspended
          /\ Try(m_currentServerIndex, m_lastServerAddressIndex, unused, <<>>)
          /\ UNCHANGED m_connectOnResume
       \/ /\ m_stream # None \/ m_suspended
          /\ m_connectOnResume' = (m_connectOnResume \/ m_stream = None)
          /\ UNCHANGED <<m_stream, phase, m_timer, m_resolvedAddressesCount,
                         network, clientEvents, troubles>>
    /\ UNCHANGED <<m_suspended, m_currentServerIndex, m_lastServerAddressIndex>>

-----------------------------------------------------------------------------
(* The client as a whole *)

ClientTimers(unused, serverSilent) ==
    \/ HandleKeepAliveAlarm(serverSilent)
    \/ HandleConnectTimeout \/ HandleOutputError
    \/ HandleClientRestart(unused)

ClientHandlers(unused) ==
    \/ \E k \in Conns :
           \/ HandleConnected(k) \/ HandleConnectionFailed(k) \/ HandleHello(k)
           \/ HandleDisconnected(k) \/ HandleData(k)
           \/ HandleDisconnectRequested(k) \/ ClientDiscards(k)
    \/ HandleSuspend \/ HandleResume(unused)
    \/ HandleClientConnected \/ HandleClientFailed \/ HandleClientEnded

\* A client without a connection has something to come that starts the next
\* one: a restart timer, the event that will schedule one, or, while it is
\* suspended, the wish to connect on resume (Client::handleSuspend,
\* Client::connect, ClientApp::scheduleClientRestart).
NeverStranded ==
    phase = "none" =>
        \/ restarts > 0
        \/ \E i \in DOMAIN clientEvents : clientEvents[i] \in {Event(None, o) : o \in Outcomes}
        \/ m_suspended /\ m_connectOnResume

\* The timer of an attempt runs exactly until the server's hello is answered:
\* an attempt that hangs ends, and an established session never does by it;
\* setupTimer never finds a timer (Client::setupTimer, handleHello).
TimerCoversAttempt == m_timer <=> phase \in {"connecting", "hello"}
=============================================================================
