---------------------------- MODULE SessionProofs ----------------------------
(***************************************************************************)
(* What holds of a client and a server at every moment of their session,   *)
(* for any number of connections, servers and troubles: the invariants     *)
(* that run SessionReconnect checks, from an inductive one.                *)
(***************************************************************************)
EXTENDS Session, QueuesProofs

-----------------------------------------------------------------------------
(* The inductive invariant *)

EventTypes ==
    Message \cup {"Failed", "Refused", "Disconnected", "Suspend", "Resume",
                  "RequestDisconnect", "RequestMessage", "RequestRefuse", "Accepted",
                  "ProxyReady", "Success", "Failure", "ProxyDisconnected", "ListenerAccepted"}
AnyEvent == [conn : Conns \cup {None}, type : EventTypes]

\* There is a stream exactly while a phase of the connection is under way.
StreamHasPhase == m_stream = None <=> phase = "none"

\* Messages the server takes from a client it has accepted.
FromClient == {"HelloBack", "DInfo", "End"}

\* A connection begins once, with the first thing that comes of it.
BeginsFirst ==
    \A k \in Conns : \A i \in DOMAIN toServer[k] :
        /\ toServer[k][i] \in FromClient \cup {"Connecting"}
        /\ toServer[k][i] = "Connecting" => i = 1

Untouched(k) == unknown[k] = "none" /\ proxy[k] = "none"
Coming(k) == toServer[k] # <<>> /\ toServer[k][1] = "Connecting"

\* Until it begins the server has neither an object nor an event of it.
ComingIsNew ==
    \A k \in Conns : Coming(k) =>
        /\ Untouched(k)
        /\ \A i \in DOMAIN serverEvents : serverEvents[i].conn # k

\* Until the beginning is handled only messages of the client are queued with
\* it, and it does not begin once more.
BeginningIsNew ==
    \A k \in Conns : \A i \in DOMAIN serverEvents :
        serverEvents[i] \in {Event(k, "Connecting"), Event(k, "Accepted")} =>
            /\ Untouched(k) /\ ~Coming(k)
            /\ \A j \in DOMAIN serverEvents :
                   j # i /\ serverEvents[j].conn = k => serverEvents[j].type \in FromClient

\* A handshake that has posted its outcome is not open any more.
OutcomeIsLast ==
    \A k \in Conns : \A i \in DOMAIN serverEvents :
        /\ serverEvents[i] = Event(k, "Success") => unknown[k] \notin {"hello", "proxy"}
        /\ serverEvents[i] = Event(k, "Failure") =>
               unknown[k] \notin {"hello", "proxy", "success"}

Waits(k) == \E i \in DOMAIN m_waitingClients : m_waitingClients[i] = k
Holds(k) == unknown[k] \in {"proxy", "success"}

\* The owners of a proxy exclude each other, and one that nobody owns is gone.
OneOwner ==
    /\ \A k \in Conns :
        /\ proxy[k] # "none" <=> Holds(k) \/ Waits(k) \/ member = k \/ k \in m_oldClients
        /\ Holds(k) => ~Waits(k) /\ member # k /\ k \notin m_oldClients
        /\ Waits(k) => member # k /\ k \notin m_oldClients
        /\ member = k => k \notin m_oldClients
        /\ unknown[k] = "hello" => proxy[k] = "none"
    /\ \A i, j \in DOMAIN m_waitingClients :
           m_waitingClients[i] = m_waitingClients[j] => i = j

ClientInv == /\ ClientTypeOK /\ clientEvents \in Seq(AnyEvent)
             /\ StreamHasPhase /\ NeverStranded /\ TimerCoversAttempt
ServerTyped == ServerTypeOK /\ serverEvents \in Seq(AnyEvent)
NewInv == BeginsFirst /\ ComingIsNew /\ BeginningIsNew
ServerInv == ServerTyped /\ NewInv /\ OutcomeIsLast /\ OneOwner /\ WaitingFetched
SessionInv == ConnectionsTypeOK /\ ClientInv /\ ServerInv

-----------------------------------------------------------------------------
(* The client's event queue *)

\* An event by which the client has told the application that a session ended.
Ending(s) == \E i \in DOMAIN s : s[i] \in {Event(None, o) : o \in Outcomes}

LEMMA EventTyped ==
  ASSUME NEW k \in Conns \cup {None}, NEW type \in EventTypes
  PROVE  Event(k, type) \in AnyEvent
BY DEF Event, AnyEvent

\* What a handler does to the queue: it takes an event and posts one or none.
LEMMA Posting ==
  ASSUME NEW s \in Seq(AnyEvent), s # <<>>, NEW e \in AnyEvent
  PROVE  /\ Tail(s) \in Seq(AnyEvent) /\ Tail(s) \o <<>> = Tail(s)
         /\ Append(Tail(s), e) \in Seq(AnyEvent)
         /\ Tail(s) \o <<e>> = Append(Tail(s), e)
BY HeadTail, AppendOne

LEMMA EndingStays ==
  ASSUME NEW s \in Seq(AnyEvent), Ending(s)
  PROVE  /\ \A e \in AnyEvent : Ending(Append(s, e))
         /\ s # <<>> /\ Head(s) \notin {Event(None, o) : o \in Outcomes} => Ending(Tail(s))
<1>1. PICK i \in DOMAIN s : s[i] \in {Event(None, o) : o \in Outcomes}
  BY DEF Ending
<1>2. ASSUME NEW e \in AnyEvent PROVE Ending(Append(s, e))
  BY <1>1, AppendOne DEF Ending
<1>3. ASSUME s # <<>>, Head(s) \notin {Event(None, o) : o \in Outcomes}
      PROVE  Ending(Tail(s))
  <2>1. i # 1
    BY <1>1, <1>3, HeadTail
  <2>2. i - 1 \in DOMAIN Tail(s) /\ Tail(s)[i - 1] = s[i]
    BY <2>1, <1>3, HeadTail
  <2> QED BY <2>2, <1>1 DEF Ending
<1> QED BY <1>2, <1>3

LEMMA EndingPosted ==
  ASSUME NEW s \in Seq(AnyEvent), NEW o \in Outcomes
  PROVE  /\ Append(s, Event(None, o)) \in Seq(AnyEvent)
         /\ Ending(Append(s, Event(None, o)))
<1>1. Event(None, o) \in AnyEvent
  BY EventTyped DEF Outcomes, EventTypes
<1> QED BY <1>1, AppendOne DEF Ending

\* The end of a session leaves the event that tells of it.
LEMMA AfterEnds ==
  ASSUME NEW rest \in Seq(AnyEvent), NEW o \in Outcomes
  PROVE  After(rest, o) \in Seq(AnyEvent) /\ Ending(After(rest, o))
<1>1. Kept(rest, {e \in Range(rest) : e.conn = None}) \in Seq(AnyEvent)
  BY KeptType
<1> QED BY <1>1, EndingPosted DEF After

\* NeverStranded, with the events named.
LEMMA Stranded ==
  /\ NeverStranded <=> (phase = "none" =>
         restarts > 0 \/ Ending(clientEvents) \/ (m_suspended /\ m_connectOnResume))
  /\ NeverStranded' <=> (phase' = "none" =>
         restarts' > 0 \/ Ending(clientEvents') \/ (m_suspended' /\ m_connectOnResume'))
BY DEF NeverStranded, Ending

-----------------------------------------------------------------------------
(* The steps of the client *)

\* An attempt: a stream that connects, or the event that it has failed.
LEMMA TryLeads ==
  ASSUME NEW n, NEW a, NEW unused \in SUBSET Conns, NEW rest \in Seq(AnyEvent),
         Try(n, a, unused, rest)
  PROVE  /\ clientEvents' \in Seq(AnyEvent)
         /\ \/ m_stream' \in Conns /\ phase' = "connecting" /\ m_timer' = TRUE
            \/ UNCHANGED <<m_stream, phase, m_timer>> /\ Ending(clientEvents')
<1>1. "Failed" \in Outcomes
  BY DEF Outcomes
<1>2. /\ Append(rest, Event(None, "Failed")) \in Seq(AnyEvent)
      /\ Ending(Append(rest, Event(None, "Failed")))
  BY <1>1, EndingPosted
<1> QED BY <1>2 DEF Try

\* The end of a session, whatever brings it about.
LEMMA CleanupLeads ==
  ASSUME Cleanup, NEW rest \in Seq(AnyEvent), NEW o \in Outcomes,
         clientEvents' = After(rest, o)
  PROVE  /\ clientEvents' \in Seq(AnyEvent) /\ Ending(clientEvents')
         /\ m_stream' = None /\ phase' = "none" /\ m_timer' = FALSE
BY AfterEnds DEF Cleanup

\* Behind the last server comes the first one again.
LEMMA ServerIndexWraps ==
  ASSUME m_currentServerIndex \in ServerIndex
  PROVE  (m_currentServerIndex + 1) % Len(Addresses) \in ServerIndex
<1>1. Len(Addresses) \in Nat \ {0}
  BY ClientAssumption, EmptySeq
<1>2. \A n \in Nat, d \in Nat \ {0} : n % d \in 0 .. d - 1
  OBVIOUS
<1>3. m_currentServerIndex + 1 \in Nat
  BY <1>1 DEF ServerIndex
<1>4. (m_currentServerIndex + 1) % Len(Addresses) \in 0 .. Len(Addresses) - 1
  BY <1>1, <1>2, <1>3
<1> QED BY <1>4 DEF ServerIndex

\* Every handler of the client.
LEMMA ClientHandlersKeep ==
  ASSUME ClientInv, NEW unused \in SUBSET Conns, ClientHandlers(unused)
  PROVE  ClientInv'
<1> USE DEF ClientInv, ClientTypeOK, StreamHasPhase, TimerCoversAttempt, clientVars,
            suspension, attempt, Phases
<1>0. None \notin Conns
  BY ConnectionsAssumption
<1>1. "Failed" \in Outcomes /\ "Refused" \in Outcomes /\ "Disconnected" \in Outcomes
  BY DEF Outcomes
<1>2. ASSUME NEW k \in Conns, HandleConnected(k) PROVE ClientInv'
  BY <1>2, <1>0, Posting, Stranded DEF HandleConnected, ClientDispatches, ClientPosts
<1>3. ASSUME NEW k \in Conns, HandleConnectionFailed(k) PROVE ClientInv'
  BY <1>3, <1>0, <1>1, HeadTail, CleanupLeads, Stranded
     DEF HandleConnectionFailed, ClientDispatches, LoseSession
<1>4. ASSUME NEW k \in Conns, HandleHello(k) PROVE ClientInv'
  <2>1. clientEvents' = Tail(clientEvents) /\ clientEvents' \in Seq(AnyEvent)
    BY <1>4, HeadTail, ConcatEmptySeq DEF HandleHello, ClientDispatches, ClientPosts
  <2>2. /\ m_stream = k /\ phase' = "handshake" /\ m_timer' = FALSE
        /\ UNCHANGED <<m_stream, suspension, attempt, restarts>>
    BY <1>4 DEF HandleHello
  <2> QED BY <2>1, <2>2, <1>0, Stranded
<1>5. ASSUME NEW k \in Conns, HandleDisconnected(k) PROVE ClientInv'
  BY <1>5, <1>0, <1>1, HeadTail, CleanupLeads, Stranded
     DEF HandleDisconnected, ClientDispatches, LoseSession
<1>6. ASSUME NEW k \in Conns, HandleData(k) PROVE ClientInv'
  BY <1>6, <1>0, Posting, Stranded, EventTyped DEF HandleData, ClientDispatches, ClientPosts, EventTypes, Message
<1>7. ASSUME NEW k \in Conns, HandleDisconnectRequested(k) PROVE ClientInv'
  BY <1>7, <1>0, <1>1, HeadTail, CleanupLeads, Stranded
     DEF HandleDisconnectRequested, ClientDispatches, EndSession
<1>8. ASSUME NEW k \in Conns, ClientDiscards(k) PROVE ClientInv'
  BY <1>8, <1>0, Posting, Stranded DEF ClientDiscards, ClientDispatches, ClientPosts
<1>9. ASSUME HandleSuspend PROVE ClientInv'
  <2>1. Tail(clientEvents) \in Seq(AnyEvent)
    BY <1>9, HeadTail DEF HandleSuspend, ClientDispatches
  <2>2. /\ clientEvents' \in Seq(AnyEvent) /\ Ending(clientEvents')
        /\ m_stream' = None /\ phase' = "none" /\ m_timer' = FALSE
    BY <1>9, <2>1, <1>1, CleanupLeads DEF HandleSuspend
  <2>3. m_connectOnResume' \in BOOLEAN /\ m_suspended' = TRUE /\ UNCHANGED <<attempt, restarts>>
    BY <1>9 DEF HandleSuspend
  <2> QED BY <2>2, <2>3, Stranded
<1>10. ASSUME HandleResume(unused) PROVE ClientInv'
  <2>1. /\ clientEvents # <<>> /\ Tail(clientEvents) \in Seq(AnyEvent)
        /\ Tail(clientEvents) \o <<>> = Tail(clientEvents)
    BY <1>10, HeadTail, ConcatEmptySeq DEF HandleResume, ClientDispatches
  <2>2. Ending(clientEvents) => Ending(Tail(clientEvents))
    BY <1>10, <2>1, EndingStays DEF HandleResume, ClientDispatches, Event, Outcomes
  <2>3. /\ m_suspended' = FALSE /\ m_connectOnResume' = FALSE
        /\ UNCHANGED <<m_currentServerIndex, m_serverAddress, m_lastServerAddressIndex, restarts>>
    BY <1>10 DEF HandleResume
  <2>4. CASE m_connectOnResume /\ Try(m_serverAddress, 0, unused, Tail(clientEvents))
    BY <2>1, <2>3, <2>4, <1>0, TryLeads, Stranded
  <2>5. CASE ~m_connectOnResume /\ ClientPosts(<<>>) /\ UNCHANGED <<m_stream, phase, m_timer>>
    BY <2>1, <2>2, <2>3, <2>5, Stranded DEF ClientPosts
  <2> QED BY <1>10, <2>4, <2>5 DEF HandleResume
<1>11. ASSUME HandleClientConnected PROVE ClientInv'
  <2>1. clientEvents # <<>> /\ clientEvents' = Tail(clientEvents) /\ clientEvents' \in Seq(AnyEvent)
    BY <1>11, HeadTail, ConcatEmptySeq DEF HandleClientConnected, ClientDispatches, ClientPosts
  <2>2. Ending(clientEvents) => Ending(clientEvents')
    BY <1>11, <2>1, EndingStays DEF HandleClientConnected, ClientDispatches, Event, Outcomes
  <2>3. 0 \in ServerIndex
    BY ClientAssumption, EmptySeq DEF ServerIndex
  <2> QED BY <1>11, <2>1, <2>2, <2>3, Stranded DEF HandleClientConnected
<1>12. ASSUME HandleClientFailed PROVE ClientInv'
  <2>1. clientEvents' = Tail(clientEvents) /\ clientEvents' \in Seq(AnyEvent)
    BY <1>12, HeadTail, ConcatEmptySeq DEF HandleClientFailed, ClientDispatches, ClientPosts
  <2>2. (m_currentServerIndex + 1) % Len(Addresses) \in ServerIndex
    BY ServerIndexWraps
  <2>3. m_currentServerIndex' \in ServerIndex /\ m_lastServerAddressIndex' \in Nat
        /\ UNCHANGED m_serverAddress
    BY <1>12, <2>2 DEF HandleClientFailed
  <2>4. restarts' \in Nat /\ restarts' > 0 /\ UNCHANGED <<m_stream, phase, m_timer, suspension>>
    BY <1>12 DEF HandleClientFailed
  <2> QED BY <2>1, <2>3, <2>4, Stranded
<1>13. ASSUME HandleClientEnded PROVE ClientInv'
  <2>1. clientEvents' = Tail(clientEvents) /\ clientEvents' \in Seq(AnyEvent)
    BY <1>13, HeadTail, ConcatEmptySeq DEF HandleClientEnded, ClientDispatches, ClientPosts
  <2>2. restarts' \in Nat /\ restarts' > 0
        /\ UNCHANGED <<m_stream, phase, m_timer, suspension, attempt>>
    BY <1>13 DEF HandleClientEnded
  <2> QED BY <2>1, <2>2, Stranded
<1> QED BY <1>2, <1>3, <1>4, <1>5, <1>6, <1>7, <1>8, <1>9, <1>10, <1>11, <1>12, <1>13
        DEF ClientHandlers

\* The client's timers, and what reaches it from the network and the system.
LEMMA ClientOthersKeep ==
  ASSUME ConnectionsTypeOK, ClientInv, NEW unused \in SUBSET Conns, NEW silent,
         \/ ClientTimers(unused, silent) \/ Suspend \/ Resume
         \/ \E k \in Conns : ArriveAtClient(k, m_stream = k) /\ UNCHANGED clientVars
  PROVE  ClientInv'
<1> USE DEF ClientInv, ClientTypeOK, StreamHasPhase, TimerCoversAttempt, clientVars,
            suspension, attempt, Phases
<1>0. None \notin Conns
  BY ConnectionsAssumption
<1>1. "Failed" \in Outcomes /\ "Refused" \in Outcomes /\ "Disconnected" \in Outcomes
  BY DEF Outcomes
<1>2. <<>> \in Seq(AnyEvent)
  BY EmptySeq
<1>3. ASSUME HandleKeepAliveAlarm(silent) PROVE ClientInv'
  <2>1. Event(m_stream, "RequestMessage") \in AnyEvent
    BY EventTyped DEF EventTypes
  <2>2. clientEvents' \in Seq(AnyEvent)
    BY <1>3, <2>1 DEF HandleKeepAliveAlarm
  <2> QED BY <1>3, <2>2, Stranded DEF HandleKeepAliveAlarm
<1>4. ASSUME HandleConnectTimeout PROVE ClientInv'
  BY <1>4, <1>0, <1>1, <1>2, CleanupLeads, Stranded DEF HandleConnectTimeout, LoseSession
<1>5. ASSUME HandleOutputError PROVE ClientInv'
  BY <1>5, <1>0, <1>1, <1>2, CleanupLeads, Stranded DEF HandleOutputError, LoseSession
<1>6. ASSUME HandleClientRestart(unused) PROVE ClientInv'
  <2>1. /\ restarts' \in Nat /\ m_serverAddress' = m_currentServerIndex
        /\ UNCHANGED <<m_suspended, m_currentServerIndex, m_lastServerAddressIndex>>
    BY <1>6 DEF HandleClientRestart
  <2>2. CASE Try(m_currentServerIndex, m_lastServerAddressIndex, unused, <<>>) /\ m_stream = None
             /\ UNCHANGED m_connectOnResume
    BY <2>1, <2>2, <1>0, <1>2, TryLeads, Stranded
  <2>3. CASE /\ m_stream # None \/ m_suspended
             /\ m_connectOnResume' = (m_connectOnResume \/ m_stream = None)
             /\ UNCHANGED <<m_stream, phase, m_timer, clientEvents>>
    <3>1. m_connectOnResume' \in BOOLEAN
      BY <2>3
    <3> QED BY <2>1, <2>3, <3>1, Stranded
  <2> QED BY <1>6, <2>2, <2>3 DEF HandleClientRestart
<1>7. ASSUME NEW e \in AnyEvent, clientEvents' = Append(clientEvents, e), UNCHANGED clientVars
      PROVE  ClientInv'
  BY <1>7, AppendOne, EndingStays, Stranded
<1>8. ASSUME Suspend \/ Resume PROVE ClientInv'
  <2>1. Event(None, "Suspend") \in AnyEvent /\ Event(None, "Resume") \in AnyEvent
    BY EventTyped DEF EventTypes
  <2> QED BY <1>8, <1>7, <2>1 DEF Suspend, Resume
<1>9. ASSUME NEW k \in Conns, ArriveAtClient(k, m_stream = k), UNCHANGED clientVars
      PROVE  ClientInv'
  <2>1. CASE clientEvents' = Append(clientEvents, Event(k, Head(toClient[k]))) /\ toClient[k] # <<>>
    <3>1. Event(k, Head(toClient[k])) \in AnyEvent
      BY <2>1, HeadTail, EventTyped DEF ConnectionsTypeOK, EventTypes
    <3> QED BY <3>1, <2>1, <1>7, <1>9
  <2>2. CASE UNCHANGED clientEvents
    BY <2>2, <1>9, Stranded
  <2> QED BY <1>9, <2>1, <2>2 DEF ArriveAtClient
<1> QED BY <1>3, <1>4, <1>5, <1>6, <1>8, <1>9 DEF ClientTimers

-----------------------------------------------------------------------------
(* The server's event queue *)

\* The events behind the one a handler takes; a timer finds none.
Remaining == IF serverEvents = <<>> THEN <<>> ELSE Tail(serverEvents)

LEMMA RemainingEvents ==
  ASSUME ServerTyped
  PROVE  /\ Remaining \in Seq(AnyEvent)
         /\ \A i \in DOMAIN Remaining :
                i + 1 \in DOMAIN serverEvents /\ Remaining[i] = serverEvents[i + 1]
         /\ Remaining \o <<>> = Remaining
         /\ \A e \in AnyEvent : /\ Append(Remaining, e) \in Seq(AnyEvent)
                                /\ Remaining \o <<e>> = Append(Remaining, e)
                                /\ Append(<<>>, e) \in Seq(AnyEvent)
<1>1. <<>> \in Seq(AnyEvent) /\ DOMAIN <<>> = {}
  BY EmptySeq
<1>2. Remaining \in Seq(AnyEvent)
  BY <1>1, HeadTail DEF Remaining, ServerTyped
<1>3. \A i \in DOMAIN Remaining :
          i + 1 \in DOMAIN serverEvents /\ Remaining[i] = serverEvents[i + 1]
  BY <1>1, HeadTail DEF Remaining, ServerTyped
<1>4. \A e \in AnyEvent : /\ Append(Remaining, e) \in Seq(AnyEvent)
                          /\ Remaining \o <<e>> = Append(Remaining, e)
                          /\ Append(<<>>, e) \in Seq(AnyEvent)
  BY <1>1, <1>2, AppendOne
<1>5. Remaining \o <<>> = Remaining
  BY <1>2, ConcatEmptySeq
<1> QED BY <1>2, <1>3, <1>4, <1>5

\* A step that leaves the events that remain and posts at most e.
Posts(e) == serverEvents' = Remaining \/ serverEvents' = Append(Remaining, e)

LEMMA PostedEvents ==
  ASSUME ServerTyped, NEW e \in AnyEvent, Posts(e)
  PROVE  /\ serverEvents' \in Seq(AnyEvent)
         /\ \A i \in DOMAIN serverEvents' :
                \/ i + 1 \in DOMAIN serverEvents /\ serverEvents'[i] = serverEvents[i + 1]
                \/ i = Len(serverEvents') /\ serverEvents'[i] = e
<1>1. CASE serverEvents' = Remaining
  BY <1>1, RemainingEvents
<1>2. CASE serverEvents' = Append(Remaining, e)
  <2>1. \A i \in DOMAIN serverEvents' :
            \/ i \in DOMAIN Remaining /\ serverEvents'[i] = Remaining[i]
            \/ i = Len(serverEvents') /\ serverEvents'[i] = e
    BY <1>2, RemainingEvents, AppendOne
  <2> QED BY <1>2, <2>1, RemainingEvents
<1> QED BY <1>1, <1>2 DEF Posts

\* A handler of a connection that has begun: what is new stays new.
LEMMA BegunKeepsNew ==
  ASSUME ServerTyped, NewInv, NEW k \in Conns, ~Untouched(k), UNCHANGED toServer,
         \A j \in Conns \ {k} : unknown'[j] = unknown[j] /\ proxy'[j] = proxy[j],
         NEW e \in AnyEvent, Posts(e), e.conn \in {k, None},
         e.type \notin {"Connecting", "Accepted"}
  PROVE  NewInv'
<1>0. None \notin Conns
  BY ConnectionsAssumption
<1>1. /\ serverEvents' \in Seq(AnyEvent)
      /\ \A i \in DOMAIN serverEvents' :
             \/ i + 1 \in DOMAIN serverEvents /\ serverEvents'[i] = serverEvents[i + 1]
             \/ i = Len(serverEvents') /\ serverEvents'[i] = e
  BY PostedEvents
<1>2. BeginsFirst'
  BY DEF NewInv, BeginsFirst
<1>3. ~Coming(k) /\ \A i \in DOMAIN serverEvents :
          serverEvents[i] \notin {Event(k, "Connecting"), Event(k, "Accepted")}
  BY DEF NewInv, ComingIsNew, BeginningIsNew
<1>4. \A j \in Conns : Coming(j)' <=> Coming(j)
  BY DEF Coming
<1>5. \A j \in Conns \ {k} : Untouched(j)' <=> Untouched(j)
  BY DEF Untouched
<1>6. ComingIsNew'
  <2> SUFFICES ASSUME NEW j \in Conns, Coming(j)'
               PROVE  Untouched(j)' /\ \A i \in DOMAIN serverEvents' : serverEvents'[i].conn # j
    BY DEF ComingIsNew
  <2>1. j # k /\ Untouched(j) /\ \A i \in DOMAIN serverEvents : serverEvents[i].conn # j
    BY <1>3, <1>4 DEF NewInv, ComingIsNew
  <2> QED BY <2>1, <1>0, <1>1, <1>5
<1>7. BeginningIsNew'
  <2> SUFFICES ASSUME NEW j \in Conns, NEW i \in DOMAIN serverEvents',
                      serverEvents'[i] \in {Event(j, "Connecting"), Event(j, "Accepted")}
               PROVE  /\ Untouched(j)' /\ ~Coming(j)'
                      /\ \A n \in DOMAIN serverEvents' :
                             n # i /\ serverEvents'[n].conn = j
                                 => serverEvents'[n].type \in FromClient
    BY DEF BeginningIsNew
  <2>1. i + 1 \in DOMAIN serverEvents /\ serverEvents'[i] = serverEvents[i + 1]
    BY <1>1 DEF Event
  <2>2. j # k
    BY <2>1, <1>3
  <2>3. /\ Untouched(j) /\ ~Coming(j)
        /\ \A n \in DOMAIN serverEvents :
               n # i + 1 /\ serverEvents[n].conn = j => serverEvents[n].type \in FromClient
    BY <2>1 DEF NewInv, BeginningIsNew
  <2>4. ASSUME NEW n \in DOMAIN serverEvents', n # i, serverEvents'[n].conn = j
        PROVE  serverEvents'[n].type \in FromClient
    <3>1. n + 1 \in DOMAIN serverEvents /\ serverEvents'[n] = serverEvents[n + 1]
      BY <2>2, <2>4, <1>0, <1>1
    <3>2. n + 1 # i + 1
      BY <2>4, <1>1, LenProperties
    <3> QED BY <3>1, <3>2, <2>3, <2>4
  <2> QED BY <2>2, <2>3, <2>4, <1>4, <1>5
<1> QED BY <1>2, <1>6, <1>7 DEF NewInv

\* A step that takes at most an event and changes nothing that is new.
LEMMA StillKeepsNew ==
  ASSUME ServerTyped, NewInv, UNCHANGED <<toServer, unknown, proxy>>,
         serverEvents' = Remaining \/ UNCHANGED serverEvents
  PROVE  NewInv'
<1>1. \E d \in {0, 1} : \A i \in DOMAIN serverEvents' :
          i + d \in DOMAIN serverEvents /\ serverEvents'[i] = serverEvents[i + d]
  <2>1. CASE serverEvents' = Remaining
    BY <2>1, RemainingEvents
  <2>2. CASE UNCHANGED serverEvents
    <3>1. \A i \in DOMAIN serverEvents : i + 0 = i
      BY LenProperties DEF ServerTyped
    <3> QED BY <2>2, <3>1
  <2> QED BY <2>1, <2>2
<1>2. PICK d \in {0, 1} : \A i \in DOMAIN serverEvents' :
          i + d \in DOMAIN serverEvents /\ serverEvents'[i] = serverEvents[i + d]
  BY <1>1
<1>3. DOMAIN serverEvents' \subseteq Nat
  BY RemainingEvents, LenProperties DEF ServerTyped
<1>4. \A j \in Conns : (Coming(j)' <=> Coming(j)) /\ (Untouched(j)' <=> Untouched(j))
  BY DEF Coming, Untouched
<1>5. BeginsFirst' /\ ComingIsNew'
  BY <1>2, <1>4 DEF NewInv, BeginsFirst, ComingIsNew
<1>6. BeginningIsNew'
  <2> SUFFICES ASSUME NEW j \in Conns, NEW i \in DOMAIN serverEvents',
                      serverEvents'[i] \in {Event(j, "Connecting"), Event(j, "Accepted")}
               PROVE  /\ Untouched(j)' /\ ~Coming(j)'
                      /\ \A n \in DOMAIN serverEvents' :
                             n # i /\ serverEvents'[n].conn = j
                                 => serverEvents'[n].type \in FromClient
    BY DEF BeginningIsNew
  <2>1. /\ Untouched(j) /\ ~Coming(j)
        /\ \A n \in DOMAIN serverEvents :
               n # i + d /\ serverEvents[n].conn = j => serverEvents[n].type \in FromClient
    BY <1>2 DEF NewInv, BeginningIsNew
  <2>2. \A n \in DOMAIN serverEvents' : n # i => n + d # i + d
    BY <1>3
  <2> QED BY <2>1, <2>2, <1>2, <1>4
<1> QED BY <1>5, <1>6 DEF NewInv

\* A handshake that posts no outcome, or posts it and is over.
LEMMA OutcomeKept ==
  ASSUME ServerTyped, OutcomeIsLast, NEW k \in Conns,
         \A j \in Conns \ {k} : unknown'[j] = unknown[j],
         NEW e \in AnyEvent, Posts(e), e.conn \in {k, None},
         e = Event(k, "Success") => unknown'[k] \notin {"hello", "proxy"},
         e = Event(k, "Failure") => unknown'[k] \notin {"hello", "proxy", "success"},
         unknown'[k] \in {"hello", "proxy", "success"} =>
             \/ unknown'[k] = unknown[k] \/ unknown[k] \in {"hello", "proxy"}
             \/ \A i \in DOMAIN Remaining :
                    Remaining[i] \notin {Event(k, "Success"), Event(k, "Failure")}
  PROVE  OutcomeIsLast'
<1>0. None \notin Conns
  BY ConnectionsAssumption
<1> SUFFICES ASSUME NEW j \in Conns, NEW i \in DOMAIN serverEvents'
             PROVE  /\ serverEvents'[i] = Event(j, "Success") => unknown'[j] \notin {"hello", "proxy"}
                    /\ serverEvents'[i] = Event(j, "Failure") =>
                           unknown'[j] \notin {"hello", "proxy", "success"}
  BY DEF OutcomeIsLast
<1>1. CASE serverEvents'[i] = e
  <2>1. CASE j = k
    BY <1>1, <2>1
  <2>2. CASE j # k
    BY <1>1, <2>2, <1>0 DEF Event
  <2> QED BY <2>1, <2>2
<1>2. CASE \E n \in DOMAIN Remaining : serverEvents'[i] = Remaining[n]
  <2>1. PICK n \in DOMAIN Remaining : serverEvents'[i] = Remaining[n]
    BY <1>2
  <2>2. /\ serverEvents'[i] = Event(j, "Success") => unknown[j] \notin {"hello", "proxy"}
        /\ serverEvents'[i] = Event(j, "Failure") => unknown[j] \notin {"hello", "proxy", "success"}
    BY <2>1, RemainingEvents DEF OutcomeIsLast
  <2> QED BY <2>1, <2>2
<1>3. serverEvents'[i] = e \/ \E n \in DOMAIN Remaining : serverEvents'[i] = Remaining[n]
  BY RemainingEvents, AppendOne DEF Posts
<1> QED BY <1>1, <1>2, <1>3

-----------------------------------------------------------------------------
(* The events that fetch waiting clients *)

Fetching == {e \in AnyEvent : e.type = "ListenerAccepted"}

LEMMA Fetched ==
  /\ serverEvents \in Seq(AnyEvent) =>
         (WaitingFetched <=> Len(m_waitingClients) <= Cardinality(Places(serverEvents, Fetching)))
  /\ serverEvents' \in Seq(AnyEvent) =>
         (WaitingFetched' <=> Len(m_waitingClients') <= Cardinality(Places(serverEvents', Fetching)))
<1>1. ASSUME serverEvents \in Seq(AnyEvent)
      PROVE  {i \in DOMAIN serverEvents : serverEvents[i].type = "ListenerAccepted"}
                 = Places(serverEvents, Fetching)
  BY <1>1 DEF Places, Fetching
<1>2. ASSUME serverEvents' \in Seq(AnyEvent)
      PROVE  {i \in DOMAIN serverEvents' : serverEvents'[i].type = "ListenerAccepted"}
                 = Places(serverEvents', Fetching)
  BY <1>2 DEF Places, Fetching
<1> QED BY <1>1, <1>2 DEF WaitingFetched

\* Any other event is taken, and nobody joins the queue.
LEMMA FetchedKept ==
  ASSUME ServerTyped, WaitingFetched, UNCHANGED m_waitingClients, NEW e \in AnyEvent, Posts(e),
         serverEvents # <<>> => Head(serverEvents).type # "ListenerAccepted"
  PROVE  WaitingFetched'
<1>1. serverEvents' \in Seq(AnyEvent) /\ Remaining \in Seq(AnyEvent)
  BY PostedEvents, RemainingEvents
<1>2. Cardinality(Places(Remaining, Fetching)) = Cardinality(Places(serverEvents, Fetching))
  <2>1. CASE serverEvents = <<>>
    BY <2>1 DEF Remaining
  <2>2. CASE serverEvents # <<>>
    <3>1. Head(serverEvents) \notin Fetching
      BY <2>2 DEF Fetching
    <3>2. Cardinality(Places(serverEvents, Fetching)) = Cardinality(Places(Remaining, Fetching)) + 0
      BY <2>2, <3>1, CountTail DEF ServerTyped, Remaining
    <3>3. Cardinality(Places(Remaining, Fetching)) \in Nat
      BY <1>1, PlacesFinite DEF Places
    <3> QED BY <3>2, <3>3
  <2> QED BY <2>1, <2>2
<1>3. Cardinality(Places(Remaining, Fetching)) \in Nat
  BY <1>1, PlacesFinite DEF Places
<1>4. Cardinality(Places(serverEvents', Fetching)) >= Cardinality(Places(Remaining, Fetching))
      /\ Cardinality(Places(serverEvents', Fetching)) \in Nat
  <2>1. CASE serverEvents' = Remaining
    BY <2>1, <1>3
  <2>2. CASE serverEvents' = Append(Remaining, e)
    BY <2>2, <1>1, <1>3, CountAppend
  <2> QED BY <2>1, <2>2 DEF Posts
<1>5. Len(m_waitingClients) \in Nat
  BY LenProperties DEF ServerTyped, ServerTypeOK
<1>6. Len(m_waitingClients) <= Cardinality(Places(serverEvents, Fetching))
  BY Fetched DEF ServerTyped
<1> QED BY <1>1, <1>2, <1>3, <1>4, <1>5, <1>6, Fetched

-----------------------------------------------------------------------------
(* The steps of the server *)

\* A handler of a connection that has begun, but for its owners and the queue
\* of waiting clients.
LEMMA BegunKeeps ==
  ASSUME ServerInv, NEW k \in Conns, ~Untouched(k), UNCHANGED toServer,
         \A j \in Conns \ {k} : unknown'[j] = unknown[j] /\ proxy'[j] = proxy[j],
         NEW e \in AnyEvent, Posts(e), e.conn \in {k, None},
         e.type \notin {"Connecting", "Accepted"},
         e = Event(k, "Success") => unknown'[k] \notin {"hello", "proxy"},
         e = Event(k, "Failure") => unknown'[k] \notin {"hello", "proxy", "success"},
         unknown'[k] \in {"hello", "proxy", "success"} =>
             unknown'[k] = unknown[k] \/ unknown[k] \in {"hello", "proxy"},
         ServerTypeOK', OneOwner',
         \/ WaitingFetched'
         \/ /\ UNCHANGED m_waitingClients
            /\ serverEvents # <<>> => Head(serverEvents).type # "ListenerAccepted"
  PROVE  ServerInv'
<1>1. NewInv'
  BY BegunKeepsNew DEF ServerInv
<1>2. OutcomeIsLast'
  BY OutcomeKept DEF ServerInv
<1>3. WaitingFetched'
  BY FetchedKept DEF ServerInv
<1>4. serverEvents' \in Seq(AnyEvent)
  BY PostedEvents DEF ServerInv
<1> QED BY <1>1, <1>2, <1>3, <1>4 DEF ServerInv, ServerTyped

LEMMA HelloBackKeeps ==
  ASSUME ServerInv, NEW k \in Conns, HandleHelloBack(k)
  PROVE  ServerInv'
<1> DEFINE e == Event(k, "ProxyReady")
<1>0. /\ e \in AnyEvent /\ e.conn \in {k, None} /\ e.type = "ProxyReady"
      /\ e # Event(k, "Success") /\ e # Event(k, "Failure")
  BY EventTyped DEF EventTypes, Message, Event
<1> USE DEF HandleHelloBack, lists
<1>1. Posts(e) /\ (serverEvents # <<>> => Head(serverEvents).type # "ListenerAccepted")
  BY RemainingEvents DEF Event, Posts, ServerDispatches, ServerPosts, Remaining, ServerInv
<1>2. ServerTypeOK'
  BY DEF ServerInv, ServerTyped, ServerTypeOK, UnknownStates, ProxyStates
<1>3. OneOwner'
  BY DEF ServerInv, ServerTyped, ServerTypeOK, OneOwner, Holds, Waits
<1>4. ~Untouched(k) /\ UNCHANGED <<toServer, m_waitingClients>>
  BY DEF Untouched, network, ServerInv, ServerTyped, ServerTypeOK, OneOwner
<1>5. /\ \A j \in Conns \ {k} : unknown'[j] = unknown[j] /\ proxy'[j] = proxy[j]
      /\ unknown'[k] \in {"hello", "proxy", "success"} =>
             unknown'[k] = unknown[k] \/ unknown[k] \in {"hello", "proxy"}
  BY DEF ServerInv, ServerTyped, ServerTypeOK
<1> HIDE DEF e, HandleHelloBack, lists
<1> QED BY <1>0, <1>1, <1>2, <1>3, <1>4, <1>5, BegunKeeps

LEMMA UnknownTimeoutKeeps ==
  ASSUME ServerInv, NEW k \in Conns, NEW silent, HandleUnknownTimeout(k, silent)
  PROVE  ServerInv'
<1> DEFINE e == Event(k, "Failure")
<1>0. /\ e \in AnyEvent /\ e.conn \in {k, None} /\ e.type = "Failure"
      /\ e # Event(k, "Success")
  BY EventTyped DEF EventTypes, Message, Event
<1> USE DEF HandleUnknownTimeout, lists, SendFailure
<1>1. Posts(e) /\ (serverEvents # <<>> => Head(serverEvents).type # "ListenerAccepted")
  BY RemainingEvents DEF Event, Posts, ServerDispatches, ServerPosts, Remaining, ServerInv
<1>2. ServerTypeOK'
  BY DEF ServerInv, ServerTyped, ServerTypeOK, UnknownStates, ProxyStates
<1>3. OneOwner'
  BY DEF ServerInv, ServerTyped, ServerTypeOK, OneOwner, Holds, Waits
<1>4. ~Untouched(k) /\ UNCHANGED <<toServer, m_waitingClients>>
  BY DEF Untouched, network, ServerInv, ServerTyped, ServerTypeOK, OneOwner
<1>5. /\ \A j \in Conns \ {k} : unknown'[j] = unknown[j] /\ proxy'[j] = proxy[j]
      /\ unknown'[k] \notin {"hello", "proxy", "success"}
      /\ unknown'[k] \in {"hello", "proxy", "success"} =>
             unknown'[k] = unknown[k] \/ unknown[k] \in {"hello", "proxy"}
  BY DEF ServerInv, ServerTyped, ServerTypeOK
<1> HIDE DEF e, HandleUnknownTimeout, lists, SendFailure
<1> QED BY <1>0, <1>1, <1>2, <1>3, <1>4, <1>5, BegunKeeps

LEMMA UnknownDisconnectKeeps ==
  ASSUME ServerInv, NEW k \in Conns, HandleUnknownDisconnect(k)
  PROVE  ServerInv'
<1> DEFINE e == Event(k, "Failure")
<1>0. /\ e \in AnyEvent /\ e.conn \in {k, None} /\ e.type = "Failure"
      /\ e # Event(k, "Success")
  BY EventTyped DEF EventTypes, Message, Event
<1> USE DEF HandleUnknownDisconnect, lists, SendFailure
<1>1. Posts(e) /\ (serverEvents # <<>> => Head(serverEvents).type # "ListenerAccepted")
  BY RemainingEvents DEF Event, Posts, ServerDispatches, ServerPosts, Remaining, ServerInv
<1>2. ServerTypeOK'
  BY DEF ServerInv, ServerTyped, ServerTypeOK, UnknownStates, ProxyStates
<1>3. OneOwner'
  BY DEF ServerInv, ServerTyped, ServerTypeOK, OneOwner, Holds, Waits
<1>4. ~Untouched(k) /\ UNCHANGED <<toServer, m_waitingClients>>
  BY DEF Untouched, network, ServerInv, ServerTyped, ServerTypeOK, OneOwner
<1>5. /\ \A j \in Conns \ {k} : unknown'[j] = unknown[j] /\ proxy'[j] = proxy[j]
      /\ unknown'[k] \notin {"hello", "proxy", "success"}
      /\ unknown'[k] \in {"hello", "proxy", "success"} =>
             unknown'[k] = unknown[k] \/ unknown[k] \in {"hello", "proxy"}
  BY DEF ServerInv, ServerTyped, ServerTypeOK
<1> HIDE DEF e, HandleUnknownDisconnect, lists, SendFailure
<1> QED BY <1>0, <1>1, <1>2, <1>3, <1>4, <1>5, BegunKeeps

LEMMA ProxyReadyKeeps ==
  ASSUME ServerInv, NEW k \in Conns, HandleProxyReady(k)
  PROVE  ServerInv'
<1> DEFINE e == Event(k, "Success")
<1>0. /\ e \in AnyEvent /\ e.conn \in {k, None} /\ e.type = "Success"
      /\ e # Event(k, "Failure")
  BY EventTyped DEF EventTypes, Message, Event
<1> USE DEF HandleProxyReady, lists
<1>1. Posts(e) /\ (serverEvents # <<>> => Head(serverEvents).type # "ListenerAccepted")
  BY RemainingEvents DEF Event, Posts, ServerDispatches, ServerPosts, Remaining, ServerInv
<1>2. ServerTypeOK'
  BY DEF ServerInv, ServerTyped, ServerTypeOK, UnknownStates, ProxyStates
<1>3. OneOwner'
  BY DEF ServerInv, ServerTyped, ServerTypeOK, OneOwner, Holds, Waits
<1>4. ~Untouched(k) /\ UNCHANGED <<toServer, m_waitingClients>>
  BY DEF Untouched, network, ServerInv, ServerTyped, ServerTypeOK, OneOwner
<1>5. /\ \A j \in Conns \ {k} : unknown'[j] = unknown[j] /\ proxy'[j] = proxy[j]
      /\ unknown'[k] \notin {"hello", "proxy"}
      /\ unknown'[k] \in {"hello", "proxy", "success"} =>
             unknown'[k] = unknown[k] \/ unknown[k] \in {"hello", "proxy"}
  BY DEF ServerInv, ServerTyped, ServerTypeOK
<1> HIDE DEF e, HandleProxyReady, lists
<1> QED BY <1>0, <1>1, <1>2, <1>3, <1>4, <1>5, BegunKeeps

LEMMA UnknownFailureKeeps ==
  ASSUME ServerInv, NEW k \in Conns, HandleUnknownFailure(k)
  PROVE  ServerInv'
<1> DEFINE e == Event(k, "End")
<1>0. /\ e \in AnyEvent /\ e.conn \in {k, None} /\ e.type = "End"
      /\ e # Event(k, "Success") /\ e # Event(k, "Failure")
  BY EventTyped DEF EventTypes, Message, Event
<1> USE DEF HandleUnknownFailure, lists
<1>1. Posts(e) /\ (serverEvents # <<>> => Head(serverEvents).type # "ListenerAccepted")
  BY RemainingEvents DEF Event, Posts, ServerDispatches, ServerPosts, Remaining, ServerInv
<1>2. ServerTypeOK'
  BY DEF ServerInv, ServerTyped, ServerTypeOK, UnknownStates, ProxyStates
<1>3. OneOwner'
  <2>1. serverEvents # <<>> /\ serverEvents[1] = Event(k, "Failure") /\ 1 \in DOMAIN serverEvents
    BY HeadTail DEF ServerDispatches, ServerInv, ServerTyped
  <2>2. unknown[k] \notin {"hello", "proxy", "success"}
    BY <2>1 DEF OutcomeIsLast, ServerInv
  <2> QED BY <2>2 DEF ServerInv, ServerTyped, ServerTypeOK, OneOwner, Holds, Waits
<1>4. ~Untouched(k) /\ UNCHANGED <<toServer, m_waitingClients>>
  BY DEF Untouched, network, ServerInv, ServerTyped, ServerTypeOK, OneOwner
<1>5. /\ \A j \in Conns \ {k} : unknown'[j] = unknown[j] /\ proxy'[j] = proxy[j]
      /\ unknown'[k] \in {"hello", "proxy", "success"} =>
             unknown'[k] = unknown[k] \/ unknown[k] \in {"hello", "proxy"}
  BY DEF ServerInv, ServerTyped, ServerTypeOK
<1> HIDE DEF e, HandleUnknownFailure, lists
<1> QED BY <1>0, <1>1, <1>2, <1>3, <1>4, <1>5, BegunKeeps

LEMMA InfoKeeps ==
  ASSUME ServerInv, NEW k \in Conns, HandleInfo(k)
  PROVE  ServerInv'
<1> DEFINE e == Event(k, "ProxyReady")
<1>0. /\ e \in AnyEvent /\ e.conn \in {k, None} /\ e.type = "ProxyReady"
      /\ e # Event(k, "Success") /\ e # Event(k, "Failure")
  BY EventTyped DEF EventTypes, Message, Event
<1> USE DEF HandleInfo, lists
<1>1. Posts(e) /\ (serverEvents # <<>> => Head(serverEvents).type # "ListenerAccepted")
  BY RemainingEvents DEF Event, Posts, ServerDispatches, ServerPosts, Remaining, ServerInv
<1>2. ServerTypeOK'
  BY DEF ServerInv, ServerTyped, ServerTypeOK, UnknownStates, ProxyStates
<1>3. OneOwner'
  BY DEF ServerInv, ServerTyped, ServerTypeOK, OneOwner, Holds, Waits
<1>4. ~Untouched(k) /\ UNCHANGED <<toServer, m_waitingClients>>
  BY DEF Untouched, network, ServerInv, ServerTyped, ServerTypeOK, OneOwner
<1>5. /\ \A j \in Conns \ {k} : unknown'[j] = unknown[j] /\ proxy'[j] = proxy[j]
      /\ unknown'[k] \in {"hello", "proxy", "success"} =>
             unknown'[k] = unknown[k] \/ unknown[k] \in {"hello", "proxy"}
  BY DEF ServerInv, ServerTyped, ServerTypeOK
<1> HIDE DEF e, HandleInfo, lists
<1> QED BY <1>0, <1>1, <1>2, <1>3, <1>4, <1>5, BegunKeeps

LEMMA ProxyDisconnectKeeps ==
  ASSUME ServerInv, NEW k \in Conns, HandleProxyDisconnect(k)
  PROVE  ServerInv'
<1> DEFINE e == Event(k, "ProxyDisconnected")
<1>0. /\ e \in AnyEvent /\ e.conn \in {k, None} /\ e.type = "ProxyDisconnected"
      /\ e # Event(k, "Success") /\ e # Event(k, "Failure")
  BY EventTyped DEF EventTypes, Message, Event
<1> USE DEF HandleProxyDisconnect, lists, Disconnect
<1>1. Posts(e) /\ (serverEvents # <<>> => Head(serverEvents).type # "ListenerAccepted")
  BY RemainingEvents DEF Event, Posts, ServerDispatches, ServerPosts, Remaining, ServerInv
<1>2. ServerTypeOK'
  BY DEF ServerInv, ServerTyped, ServerTypeOK, UnknownStates, ProxyStates
<1>3. OneOwner'
  BY DEF ServerInv, ServerTyped, ServerTypeOK, OneOwner, Holds, Waits
<1>4. ~Untouched(k) /\ UNCHANGED <<toServer, m_waitingClients>>
  BY DEF Untouched, network, ServerInv, ServerTyped, ServerTypeOK, OneOwner
<1>5. /\ \A j \in Conns \ {k} : unknown'[j] = unknown[j] /\ proxy'[j] = proxy[j]
      /\ unknown'[k] \in {"hello", "proxy", "success"} =>
             unknown'[k] = unknown[k] \/ unknown[k] \in {"hello", "proxy"}
  BY DEF ServerInv, ServerTyped, ServerTypeOK
<1> HIDE DEF e, HandleProxyDisconnect, lists, Disconnect
<1> QED BY <1>0, <1>1, <1>2, <1>3, <1>4, <1>5, BegunKeeps

LEMMA FlatlineKeeps ==
  ASSUME ServerInv, NEW k \in Conns, NEW silent, HandleFlatline(k, silent)
  PROVE  ServerInv'
<1> DEFINE e == Event(k, "ProxyDisconnected")
<1>0. /\ e \in AnyEvent /\ e.conn \in {k, None} /\ e.type = "ProxyDisconnected"
      /\ e # Event(k, "Success") /\ e # Event(k, "Failure")
  BY EventTyped DEF EventTypes, Message, Event
<1> USE DEF HandleFlatline, lists, Disconnect
<1>1. Posts(e) /\ (serverEvents # <<>> => Head(serverEvents).type # "ListenerAccepted")
  BY RemainingEvents DEF Event, Posts, ServerDispatches, ServerPosts, Remaining, ServerInv
<1>2. ServerTypeOK'
  BY DEF ServerInv, ServerTyped, ServerTypeOK, UnknownStates, ProxyStates
<1>3. OneOwner'
  BY DEF ServerInv, ServerTyped, ServerTypeOK, OneOwner, Holds, Waits
<1>4. ~Untouched(k) /\ UNCHANGED <<toServer, m_waitingClients>>
  BY DEF Untouched, network, ServerInv, ServerTyped, ServerTypeOK, OneOwner
<1>5. /\ \A j \in Conns \ {k} : unknown'[j] = unknown[j] /\ proxy'[j] = proxy[j]
      /\ unknown'[k] \in {"hello", "proxy", "success"} =>
             unknown'[k] = unknown[k] \/ unknown[k] \in {"hello", "proxy"}
  BY DEF ServerInv, ServerTyped, ServerTypeOK
<1> HIDE DEF e, HandleFlatline, lists, Disconnect
<1> QED BY <1>0, <1>1, <1>2, <1>3, <1>4, <1>5, BegunKeeps

LEMMA ProxyDisconnectedKeeps ==
  ASSUME ServerInv, NEW k \in Conns, HandleProxyDisconnected(k)
  PROVE  ServerInv'
<1> DEFINE e == Event(k, "Failure")
<1>0. /\ e \in AnyEvent /\ e.conn \in {k, None} /\ e.type = "Failure"
      /\ e # Event(k, "Success")
  BY EventTyped DEF EventTypes, Message, Event
<1> USE DEF HandleProxyDisconnected, lists, SendFailure
<1>1. Posts(e) /\ (serverEvents # <<>> => Head(serverEvents).type # "ListenerAccepted")
  BY RemainingEvents DEF Event, Posts, ServerDispatches, ServerPosts, Remaining, ServerInv
<1>2. ServerTypeOK'
  BY DEF ServerInv, ServerTyped, ServerTypeOK, UnknownStates, ProxyStates
<1>3. CASE unknown[k] \in {"proxy", "success"} /\ SendFailure(k, Tail(serverEvents))
  <2>1. OneOwner'
    BY <1>3 DEF ServerInv, ServerTyped, ServerTypeOK, OneOwner, Holds, Waits
  <2>2. ~Untouched(k) /\ UNCHANGED <<toServer, m_waitingClients>>
    BY <1>3 DEF Untouched, network, ServerInv, ServerTyped, ServerTypeOK
  <2>3. /\ \A j \in Conns \ {k} : unknown'[j] = unknown[j] /\ proxy'[j] = proxy[j]
        /\ unknown'[k] \notin {"hello", "proxy", "success"}
    BY <1>3 DEF ServerInv, ServerTyped, ServerTypeOK
  <2> HIDE DEF e, HandleProxyDisconnected, lists, SendFailure
  <2> QED BY <1>0, <1>1, <1>2, <2>1, <2>2, <2>3, BegunKeeps
<1>4. CASE /\ UNCHANGED <<unknown, m_waitingClients, network>> /\ ServerPosts(<<>>)
           /\ \/ UNCHANGED <<proxy, member, m_oldClients>>
              \/ /\ k = member \/ k \in m_oldClients
                 /\ proxy' = [proxy EXCEPT ![k] = "none"]
                 /\ member' = IF member = k THEN None ELSE member
                 /\ m_oldClients' = m_oldClients \ {k}
  <2>1. OneOwner'
    BY <1>4, ConnectionsAssumption DEF ServerInv, ServerTyped, ServerTypeOK, OneOwner, Holds, Waits
  <2>2. ~Untouched(k) /\ UNCHANGED <<toServer, m_waitingClients, unknown>>
        /\ \A j \in Conns \ {k} : proxy'[j] = proxy[j]
    BY <1>4 DEF Untouched, network, ServerInv, ServerTyped, ServerTypeOK
  <2>3. Event(k, "End") \in AnyEvent /\ Event(k, "End").conn = k /\ Event(k, "End").type = "End"
        /\ Event(k, "End") # Event(k, "Success") /\ Event(k, "End") # Event(k, "Failure")
    BY EventTyped DEF EventTypes, Message, Event
  <2>4. Posts(Event(k, "End"))
    BY <1>4, RemainingEvents DEF Posts, ServerDispatches, ServerPosts, Remaining, ServerInv
  <2> HIDE DEF e, HandleProxyDisconnected, lists, SendFailure
  <2> QED BY <1>0, <1>1, <1>2, <2>1, <2>2, <2>3, <2>4, BegunKeeps
<1> QED BY <1>3, <1>4

LEMMA CloseTimeoutKeeps ==
  ASSUME ServerInv, NEW k \in Conns, NEW silent, HandleCloseTimeout(k, silent)
  PROVE  ServerInv'
<1> DEFINE e == Event(k, "End")
<1>0. /\ e \in AnyEvent /\ e.conn \in {k, None} /\ e.type = "End"
      /\ e # Event(k, "Success") /\ e # Event(k, "Failure")
  BY EventTyped DEF EventTypes, Message, Event
<1> USE DEF HandleCloseTimeout, lists
<1>1. Posts(e) /\ (serverEvents # <<>> => Head(serverEvents).type # "ListenerAccepted")
  BY RemainingEvents DEF Event, Posts, ServerDispatches, ServerPosts, Remaining, ServerInv
<1>2. ServerTypeOK'
  BY DEF ServerInv, ServerTyped, ServerTypeOK, UnknownStates, ProxyStates
<1>3. OneOwner'
  BY DEF ServerInv, ServerTyped, ServerTypeOK, OneOwner, Holds, Waits
<1>4. ~Untouched(k) /\ UNCHANGED <<toServer, m_waitingClients>>
  BY DEF Untouched, network, ServerInv, ServerTyped, ServerTypeOK, OneOwner
<1>5. /\ \A j \in Conns \ {k} : unknown'[j] = unknown[j] /\ proxy'[j] = proxy[j]
      /\ unknown'[k] \in {"hello", "proxy", "success"} =>
             unknown'[k] = unknown[k] \/ unknown[k] \in {"hello", "proxy"}
  BY DEF ServerInv, ServerTyped, ServerTypeOK
<1> HIDE DEF e, HandleCloseTimeout, lists
<1> QED BY <1>0, <1>1, <1>2, <1>3, <1>4, <1>5, BegunKeeps

LEMMA UnknownClientKeeps ==
  ASSUME ServerInv, NEW k \in Conns, HandleUnknownClient(k)
  PROVE  ServerInv'
<1> DEFINE e == Event(None, "ListenerAccepted")
<1>0. /\ e \in AnyEvent /\ e.conn \in {k, None} /\ e.type = "ListenerAccepted"
      /\ e # Event(k, "Success") /\ e # Event(k, "Failure")
  BY EventTyped, ConnectionsAssumption DEF EventTypes, Message, Event
<1> USE DEF HandleUnknownClient, lists
<1>1. /\ serverEvents # <<>> /\ serverEvents[1] = Event(k, "Success") /\ 1 \in DOMAIN serverEvents
      /\ Head(serverEvents).type = "Success" /\ Remaining = Tail(serverEvents)
  BY HeadTail DEF ServerDispatches, ServerInv, ServerTyped, Event, Remaining
<1>2. unknown[k] \notin {"hello", "proxy"}
  BY <1>1 DEF OutcomeIsLast, ServerInv
<1>3. ~Untouched(k) /\ UNCHANGED <<toServer, proxy>>
  BY DEF Untouched, network
<1>4. \A j \in Conns \ {k} : unknown'[j] = unknown[j]
  BY DEF ServerInv, ServerTyped, ServerTypeOK
<1>5. Posts(e) /\ unknown'[k] = "none"
  BY <1>0, <1>1, RemainingEvents DEF Posts, ServerPosts, ServerInv, ServerTyped, ServerTypeOK
<1>6. CASE unknown[k] = "success"
  <2>1. /\ m_waitingClients' = Append(m_waitingClients, k)
        /\ serverEvents' = Append(Remaining, e)
    BY <1>0, <1>1, <1>6, RemainingEvents DEF ServerPosts, ServerInv
  <2>2. m_waitingClients \in Seq(Conns)
    BY DEF ServerInv, ServerTyped, ServerTypeOK
  <2>3. \A j \in Conns : Waits(j)' <=> Waits(j) \/ j = k
    BY <2>1, <2>2, AppendOne DEF Waits
  <2>4. ~Waits(k)
    BY <1>6 DEF ServerInv, OneOwner, Holds
  <2>5. \A i, j \in DOMAIN m_waitingClients' :
            m_waitingClients'[i] = m_waitingClients'[j] => i = j
    BY <2>1, <2>2, <2>4, AppendOne DEF ServerInv, OneOwner, Waits
  <2>6. \A j \in Conns : Holds(j)' <=> Holds(j) /\ j # k
    BY <1>4, <1>5 DEF Holds
  <2>7. OneOwner'
    BY <1>3, <1>4, <1>6, <2>3, <2>5, <2>6 DEF ServerInv, OneOwner, Holds
  <2>8. ServerTypeOK'
    BY <2>1, <2>2, AppendOne DEF ServerInv, ServerTyped, ServerTypeOK, UnknownStates
  <2>9. WaitingFetched'
    <3>1. Cardinality(Places(serverEvents', Fetching)) =
              Cardinality(Places(Remaining, Fetching)) + 1
      BY <1>0, <2>1, RemainingEvents, CountAppend DEF Fetching, ServerInv
    <3>2. Cardinality(Places(serverEvents, Fetching)) =
              Cardinality(Places(Remaining, Fetching)) + 0
      BY <1>1, CountTail DEF ServerInv, ServerTyped, Fetching
    <3>3. /\ Cardinality(Places(Remaining, Fetching)) \in Nat
          /\ Len(m_waitingClients) \in Nat /\ Len(m_waitingClients') = Len(m_waitingClients) + 1
      BY <2>1, <2>2, AppendOne, LenProperties, RemainingEvents, PlacesFinite
         DEF ServerInv, Places
    <3>4. serverEvents' \in Seq(AnyEvent)
      BY <1>0, <1>5, PostedEvents DEF ServerInv
    <3> QED BY <3>1, <3>2, <3>3, <3>4, Fetched DEF ServerInv, ServerTyped
  <2> HIDE DEF e, HandleUnknownClient
  <2> QED BY <1>0, <1>3, <1>4, <1>5, <2>7, <2>8, <2>9, BegunKeeps
<1>7. CASE unknown[k] # "success"
  <2>1. UNCHANGED <<m_waitingClients, member, m_oldClients>>
    BY <1>7
  <2>2. OneOwner'
    BY <1>2, <1>3, <1>4, <1>5, <1>7, <2>1 DEF ServerInv, OneOwner, Holds, Waits
  <2>3. ServerTypeOK'
    BY <2>1 DEF ServerInv, ServerTyped, ServerTypeOK, UnknownStates
  <2> HIDE DEF e, HandleUnknownClient
  <2> QED BY <1>0, <1>1, <1>3, <1>4, <1>5, <2>1, <2>2, <2>3, BegunKeeps
<1> QED BY <1>6, <1>7

\* The first event of a connection is taken: it has no other that begins it.
LEMMA FirstTaken ==
  ASSUME ServerTyped, NewInv, NEW k \in Conns,
         ServerDispatches(k, "Connecting") \/ ServerDispatches(k, "Accepted")
  PROVE  /\ Untouched(k) /\ ~Coming(k) /\ Remaining = Tail(serverEvents)
         /\ serverEvents # <<>> /\ Head(serverEvents).type # "ListenerAccepted"
         /\ \A i \in DOMAIN Remaining : Remaining[i].conn = k => Remaining[i].type \in FromClient
<1>1. /\ serverEvents # <<>> /\ 1 \in DOMAIN serverEvents /\ Remaining = Tail(serverEvents)
      /\ serverEvents[1] \in {Event(k, "Connecting"), Event(k, "Accepted")}
      /\ Head(serverEvents) = serverEvents[1]
  BY HeadTail DEF ServerDispatches, ServerTyped, Remaining
<1>2. /\ Untouched(k) /\ ~Coming(k)
      /\ \A j \in DOMAIN serverEvents :
             j # 1 /\ serverEvents[j].conn = k => serverEvents[j].type \in FromClient
  BY <1>1 DEF NewInv, BeginningIsNew
<1>3. ASSUME NEW i \in DOMAIN Remaining, Remaining[i].conn = k
      PROVE  Remaining[i].type \in FromClient
  <2>1. i + 1 \in DOMAIN serverEvents /\ Remaining[i] = serverEvents[i + 1] /\ i + 1 # 1
    BY RemainingEvents, LenProperties
  <2> QED BY <2>1, <1>2, <1>3
<1> QED BY <1>1, <1>2, <1>3 DEF Event

LEMMA ConnectingKeeps ==
  ASSUME ServerInv, NEW k \in Conns, HandleClientConnecting(k)
  PROVE  ServerInv'
<1> DEFINE e == Event(k, "Accepted")
<1>0. e \in AnyEvent /\ e.conn = k /\ e.type = "Accepted" /\ None \notin Conns
  BY EventTyped, ConnectionsAssumption DEF EventTypes, Message, Event
<1>1. /\ UNCHANGED <<unknown, proxy, m_waitingClients, member, m_oldClients, listed, fault, toServer>>
      /\ ServerDispatches(k, "Connecting") /\ ServerPosts(<<e>>)
  BY DEF HandleClientConnecting, serverVars, network
<1>2. /\ Untouched(k) /\ ~Coming(k) /\ Remaining = Tail(serverEvents)
      /\ serverEvents # <<>> /\ Head(serverEvents).type # "ListenerAccepted"
      /\ \A i \in DOMAIN Remaining : Remaining[i].conn = k => Remaining[i].type \in FromClient
  BY <1>1, FirstTaken DEF ServerInv
<1>3. serverEvents' = Append(Remaining, e) /\ Posts(e)
  BY <1>0, <1>1, <1>2, RemainingEvents DEF ServerPosts, ServerInv, Posts
<1> HIDE DEF e
<1>4. /\ serverEvents' \in Seq(AnyEvent)
      /\ \A i \in DOMAIN serverEvents' :
             \/ i \in DOMAIN Remaining /\ serverEvents'[i] = Remaining[i]
             \/ i = Len(Remaining) + 1 /\ serverEvents'[i] = e
      /\ \A i \in DOMAIN Remaining :
             i + 1 \in DOMAIN serverEvents /\ Remaining[i] = serverEvents[i + 1]
      /\ DOMAIN Remaining \subseteq Nat
  BY <1>0, <1>3, RemainingEvents, AppendOne, LenProperties DEF ServerInv
<1>5. OutcomeIsLast'
  BY <1>0, <1>1, <1>3, OutcomeKept DEF ServerInv, Event
<1>6. WaitingFetched'
  BY <1>0, <1>1, <1>2, <1>3, FetchedKept DEF ServerInv
<1>7. OneOwner' /\ ServerTypeOK'
  BY <1>1 DEF ServerInv, ServerTyped, ServerTypeOK, OneOwner, Holds, Waits
<1>8. BeginsFirst'
  BY <1>1 DEF ServerInv, NewInv, BeginsFirst
<1>9. \A j \in Conns : (Coming(j)' <=> Coming(j)) /\ (Untouched(j)' <=> Untouched(j))
  BY <1>1 DEF Coming, Untouched
<1>10. ComingIsNew'
  <2> SUFFICES ASSUME NEW j \in Conns, Coming(j)
               PROVE  Untouched(j) /\ \A i \in DOMAIN serverEvents' : serverEvents'[i].conn # j
    BY <1>9 DEF ComingIsNew
  <2> QED BY <1>0, <1>2, <1>4 DEF ServerInv, NewInv, ComingIsNew
<1>11. BeginningIsNew'
  <2> SUFFICES ASSUME NEW j \in Conns, NEW i \in DOMAIN serverEvents',
                      serverEvents'[i] \in {Event(j, "Connecting"), Event(j, "Accepted")}
               PROVE  /\ Untouched(j) /\ ~Coming(j)
                      /\ \A n \in DOMAIN serverEvents' :
                             n # i /\ serverEvents'[n].conn = j
                                 => serverEvents'[n].type \in FromClient
    BY <1>9 DEF BeginningIsNew
  <2>0. serverEvents'[i].conn = j /\ serverEvents'[i].type \notin FromClient
    BY DEF Event, FromClient
  <2>1. CASE j = k
    <3>1. i = Len(Remaining) + 1
      BY <2>0, <2>1, <1>2, <1>4
    <3> QED BY <2>1, <3>1, <1>2, <1>4
  <2>2. CASE j # k
    <3>1. i \in DOMAIN Remaining /\ serverEvents'[i] = serverEvents[i + 1] /\ i + 1 \in DOMAIN serverEvents
      BY <2>0, <2>2, <1>0, <1>4
    <3>2. /\ Untouched(j) /\ ~Coming(j)
          /\ \A n \in DOMAIN serverEvents :
                 n # i + 1 /\ serverEvents[n].conn = j => serverEvents[n].type \in FromClient
      BY <3>1 DEF ServerInv, NewInv, BeginningIsNew
    <3>3. ASSUME NEW n \in DOMAIN serverEvents', n # i, serverEvents'[n].conn = j
          PROVE  serverEvents'[n].type \in FromClient
      <4>1. n + 1 \in DOMAIN serverEvents /\ serverEvents'[n] = serverEvents[n + 1] /\ n \in Nat
        BY <2>2, <3>3, <1>0, <1>4
      <4> QED BY <4>1, <3>1, <3>2, <3>3, <1>4
    <3> QED BY <3>2, <3>3
  <2> QED BY <2>1, <2>2
<1> QED BY <1>4, <1>5, <1>6, <1>7, <1>8, <1>10, <1>11 DEF ServerInv, ServerTyped, NewInv

LEMMA AcceptedKeeps ==
  ASSUME ServerInv, NEW k \in Conns, HandleClientAccepted(k)
  PROVE  ServerInv'
<1> DEFINE e == Event(k, "End")
<1>0. /\ e \in AnyEvent /\ e.conn = k /\ e.type = "End" /\ None \notin Conns
      /\ e # Event(k, "Success") /\ e # Event(k, "Failure")
  BY EventTyped, ConnectionsAssumption DEF EventTypes, Message, Event
<1>1. /\ UNCHANGED <<proxy, m_waitingClients, member, m_oldClients, listed, fault, toServer>>
      /\ unknown' = [unknown EXCEPT ![k] = "hello"]
      /\ ServerDispatches(k, "Accepted") /\ ServerPosts(<<>>)
  BY DEF HandleClientAccepted, lists
<1>2. /\ Untouched(k) /\ ~Coming(k) /\ Remaining = Tail(serverEvents)
      /\ serverEvents # <<>> /\ Head(serverEvents).type # "ListenerAccepted"
      /\ \A i \in DOMAIN Remaining : Remaining[i].conn = k => Remaining[i].type \in FromClient
  BY <1>1, FirstTaken DEF ServerInv
<1>3. serverEvents' = Remaining /\ Posts(e)
  BY <1>1, <1>2, RemainingEvents DEF ServerPosts, ServerInv, Posts
<1> HIDE DEF e
<1>4. /\ serverEvents' \in Seq(AnyEvent) /\ DOMAIN serverEvents' \subseteq Nat
      /\ \A i \in DOMAIN serverEvents' :
             i + 1 \in DOMAIN serverEvents /\ serverEvents'[i] = serverEvents[i + 1]
  BY <1>3, RemainingEvents, LenProperties DEF ServerInv
<1>5. /\ unknown'[k] = "hello" /\ \A j \in Conns \ {k} : unknown'[j] = unknown[j]
  BY <1>1 DEF ServerInv, ServerTyped, ServerTypeOK
<1>6. OutcomeIsLast'
  <2>1. \A i \in DOMAIN Remaining : Remaining[i] \notin {Event(k, "Success"), Event(k, "Failure")}
    BY <1>2 DEF Event, FromClient
  <2> QED BY <2>1, <1>0, <1>3, <1>5, OutcomeKept DEF ServerInv
<1>7. WaitingFetched'
  BY <1>0, <1>1, <1>2, <1>3, FetchedKept DEF ServerInv
<1>8. OneOwner' /\ ServerTypeOK'
  BY <1>1, <1>2, <1>5 DEF ServerInv, ServerTyped, ServerTypeOK, OneOwner, Holds, Waits, Untouched, UnknownStates
<1>9. BeginsFirst'
  BY <1>1 DEF ServerInv, NewInv, BeginsFirst
<1>10. \A j \in Conns : (Coming(j)' <=> Coming(j)) /\ (j # k => (Untouched(j)' <=> Untouched(j)))
  BY <1>1, <1>5 DEF Coming, Untouched
<1>11. ComingIsNew'
  BY <1>2, <1>4, <1>10 DEF ServerInv, NewInv, ComingIsNew
<1>12. BeginningIsNew'
  <2> SUFFICES ASSUME NEW j \in Conns, NEW i \in DOMAIN serverEvents',
                      serverEvents'[i] \in {Event(j, "Connecting"), Event(j, "Accepted")}
               PROVE  /\ Untouched(j)' /\ ~Coming(j)'
                      /\ \A n \in DOMAIN serverEvents' :
                             n # i /\ serverEvents'[n].conn = j
                                 => serverEvents'[n].type \in FromClient
    BY DEF BeginningIsNew
  <2>1. j # k
    BY <1>2, <1>3 DEF Event, FromClient
  <2>2. /\ Untouched(j) /\ ~Coming(j)
        /\ \A n \in DOMAIN serverEvents :
               n # i + 1 /\ serverEvents[n].conn = j => serverEvents[n].type \in FromClient
    BY <1>4 DEF ServerInv, NewInv, BeginningIsNew
  <2>3. \A n \in DOMAIN serverEvents' : n # i => n + 1 # i + 1
    BY <1>4
  <2> QED BY <2>1, <2>2, <2>3, <1>4, <1>10
<1> QED BY <1>4, <1>6, <1>7, <1>8, <1>9, <1>11, <1>12 DEF ServerInv, ServerTyped, NewInv

LEMMA ListenerAcceptedKeeps ==
  ASSUME ServerInv, HandleListenerAccepted
  PROVE  ServerInv'
<1> DEFINE waiting == m_waitingClients
<1>1. /\ UNCHANGED <<unknown, proxy, listed, fault, toServer>>
      /\ serverEvents # <<>> /\ Head(serverEvents) = Event(None, "ListenerAccepted")
      /\ serverEvents' = Tail(serverEvents) /\ Remaining = Tail(serverEvents)
  BY HeadTail, ConcatEmptySeq
     DEF HandleListenerAccepted, ServerDispatches, ServerPosts, Remaining, ServerInv, ServerTyped
<1>2. NewInv'
  BY <1>1, StillKeepsNew DEF ServerInv
<1>3. serverEvents' \in Seq(AnyEvent)
  BY <1>1, RemainingEvents DEF ServerInv
<1>4. OutcomeIsLast'
  BY <1>1, RemainingEvents DEF OutcomeIsLast, ServerInv
<1>5. Event(None, "ListenerAccepted") \in Fetching
  BY EventTyped DEF EventTypes, Event, Fetching
<1>6. /\ Cardinality(Places(serverEvents, Fetching)) = Cardinality(Places(serverEvents', Fetching)) + 1
      /\ Cardinality(Places(serverEvents', Fetching)) \in Nat
  <2>1. Cardinality(Places(serverEvents', Fetching)) \in Nat
    BY <1>3, PlacesFinite DEF Places
  <2>2. Cardinality(Places(serverEvents, Fetching)) = Cardinality(Places(serverEvents', Fetching)) + 1
    BY <1>1, <1>5, CountTail DEF ServerInv, ServerTyped
  <2> QED BY <2>1, <2>2
<1>7. Len(waiting) <= Cardinality(Places(serverEvents, Fetching)) /\ waiting \in Seq(Conns)
      /\ Len(waiting) \in Nat
  BY Fetched, LenProperties DEF ServerInv, ServerTyped, ServerTypeOK
<1>8. CASE waiting = <<>>
  <2>1. UNCHANGED <<m_waitingClients, member, m_oldClients>>
    BY <1>8 DEF HandleListenerAccepted, lists
  <2>2. WaitingFetched'
    <3>1. Len(m_waitingClients') = 0
      BY <1>8, <2>1
    <3> QED BY <3>1, <1>3, <1>6, Fetched
  <2>3. OneOwner' /\ ServerTypeOK'
    BY <1>1, <2>1 DEF ServerInv, ServerTyped, ServerTypeOK, OneOwner, Holds, Waits
  <2> QED BY <1>2, <1>3, <1>4, <2>2, <2>3 DEF ServerInv, ServerTyped
<1>9. CASE waiting # <<>>
  <2> DEFINE k == Head(waiting)
  <2>1. /\ m_waitingClients' = Tail(waiting)
        /\ \/ member' = k /\ member = None /\ UNCHANGED m_oldClients
           \/ m_oldClients' = m_oldClients \cup {k} /\ UNCHANGED member
    BY <1>9 DEF HandleListenerAccepted
  <2>2. /\ k = waiting[1] /\ k \in Conns /\ 1 \in DOMAIN waiting /\ Tail(waiting) \in Seq(Conns)
        /\ Len(Tail(waiting)) = Len(waiting) - 1
        /\ \A i \in DOMAIN Tail(waiting) : i + 1 \in DOMAIN waiting /\ Tail(waiting)[i] = waiting[i + 1]
        /\ \A i \in DOMAIN waiting :
               i # 1 => i - 1 \in DOMAIN Tail(waiting) /\ Tail(waiting)[i - 1] = waiting[i]
        /\ DOMAIN Tail(waiting) \subseteq Nat
    BY <1>7, <1>9, HeadTail, LenProperties
  <2> HIDE DEF k
  <2>3. WaitingFetched'
    BY <1>3, <1>6, <1>7, <2>1, <2>2, Fetched
  <2>4. Waits(k) /\ \A i, j \in DOMAIN waiting : waiting[i] = waiting[j] => i = j
    BY <2>2 DEF Waits, ServerInv, OneOwner
  <2>5. \A j \in Conns : Waits(j)' <=> Waits(j) /\ j # k
    <3> TAKE j \in Conns
    <3>1. ASSUME Waits(j)' PROVE Waits(j) /\ j # k
      <4>1. PICK i \in DOMAIN Tail(waiting) : Tail(waiting)[i] = j
        BY <3>1, <2>1 DEF Waits
      <4>2. i + 1 \in DOMAIN waiting /\ waiting[i + 1] = j /\ i + 1 # 1
        BY <4>1, <2>2
      <4> QED BY <4>2, <2>2, <2>4 DEF Waits
    <3>2. ASSUME Waits(j), j # k PROVE Waits(j)'
      <4>1. PICK i \in DOMAIN waiting : waiting[i] = j
        BY <3>2 DEF Waits
      <4>2. i - 1 \in DOMAIN Tail(waiting) /\ Tail(waiting)[i - 1] = j
        BY <4>1, <3>2, <2>2
      <4> QED BY <4>2, <2>1 DEF Waits
    <3> QED BY <3>1, <3>2
  <2>6. \A i, j \in DOMAIN m_waitingClients' : m_waitingClients'[i] = m_waitingClients'[j] => i = j
    <3> SUFFICES ASSUME NEW i \in DOMAIN Tail(waiting), NEW j \in DOMAIN Tail(waiting),
                        Tail(waiting)[i] = Tail(waiting)[j]
                 PROVE  i = j
      BY <2>1
    <3>1. i + 1 = j + 1
      BY <2>2, <2>4
    <3> QED BY <3>1, <2>2
  <2>7. \A j \in Conns : Holds(j)' <=> Holds(j)
    BY <1>1 DEF Holds
  <2>8. OneOwner'
    BY <1>1, <2>1, <2>2, <2>4, <2>5, <2>6, <2>7, ConnectionsAssumption DEF ServerInv, OneOwner
  <2>9. ServerTypeOK'
    BY <1>1, <2>1, <2>2 DEF ServerInv, ServerTyped, ServerTypeOK
  <2> QED BY <1>2, <1>3, <1>4, <2>3, <2>8, <2>9 DEF ServerInv, ServerTyped
<1> QED BY <1>8, <1>9

LEMMA DiscardsKeep ==
  ASSUME ServerInv, NEW k \in Conns, ServerDiscards(k)
  PROVE  ServerInv'
<1> DEFINE e == Event(k, "End")
<1>0. /\ e \in AnyEvent /\ e.conn = k /\ e.type = "End" /\ None \notin Conns
      /\ e # Event(k, "Success") /\ e # Event(k, "Failure")
  BY EventTyped, ConnectionsAssumption DEF EventTypes, Message, Event
<1>1. /\ UNCHANGED <<unknown, proxy, m_waitingClients, member, m_oldClients, listed, fault, toServer>>
      /\ serverEvents # <<>> /\ Head(serverEvents).type # "ListenerAccepted"
      /\ Remaining = Tail(serverEvents) /\ serverEvents' = Remaining /\ Posts(e)
  BY RemainingEvents DEF ServerDiscards, serverVars, network, ServerPosts, Remaining, Posts, ServerInv
<1> HIDE DEF e
<1>2. NewInv' /\ OutcomeIsLast' /\ WaitingFetched' /\ serverEvents' \in Seq(AnyEvent)
  BY <1>0, <1>1, StillKeepsNew, OutcomeKept, FetchedKept, PostedEvents DEF ServerInv
<1>3. OneOwner' /\ ServerTypeOK'
  BY <1>1 DEF ServerInv, ServerTyped, ServerTypeOK, OneOwner, Holds, Waits
<1> QED BY <1>2, <1>3 DEF ServerInv, ServerTyped

LEMMA ReloadKeeps ==
  ASSUME ServerInv, Reload
  PROVE  ServerInv'
<1>1. /\ UNCHANGED <<unknown, proxy, m_waitingClients, fault, toServer, serverEvents>>
      /\ listed' \in BOOLEAN
      /\ \/ UNCHANGED <<member, m_oldClients>>
         \/ member # None /\ m_oldClients' = m_oldClients \cup {member} /\ member' = None
  BY DEF Reload, CloseMember, ServerInv, ServerTyped, ServerTypeOK
<1>2. NewInv'
  BY <1>1, StillKeepsNew DEF ServerInv
<1>3. OutcomeIsLast' /\ WaitingFetched'
  BY <1>1 DEF ServerInv, OutcomeIsLast, WaitingFetched
<1>4. OneOwner' /\ ServerTypeOK'
  BY <1>1, ConnectionsAssumption DEF ServerInv, ServerTyped, ServerTypeOK, OneOwner, Holds, Waits
<1> QED BY <1>1, <1>2, <1>3, <1>4 DEF ServerInv, ServerTyped

\* What the client and the network do to the way to the server.
LEMMA WireKeeps ==
  ASSUME ServerInv, ConnectionsTypeOK, UNCHANGED <<serverVars, serverEvents>>, NEW k \in Conns,
         \A j \in Conns \ {k} : toServer'[j] = toServer[j],
         \/ toServer'[k] \in {<<>>, toServer[k]}
         \/ \E m \in FromClient : toServer'[k] = Append(toServer[k], m)
         \/ /\ toServer'[k] = <<"Connecting">> /\ Untouched(k)
            /\ \A i \in DOMAIN serverEvents : serverEvents[i].conn # k
  PROVE  ServerInv'
<1>1. UNCHANGED <<unknown, proxy, m_waitingClients, member, m_oldClients, listed, fault, serverEvents>>
  BY DEF serverVars
<1>2. ServerTyped' /\ OutcomeIsLast' /\ OneOwner' /\ WaitingFetched'
  BY <1>1 DEF ServerInv, ServerTyped, ServerTypeOK, OutcomeIsLast, OneOwner, Holds, Waits, WaitingFetched
<1>3. \A j \in Conns : (Untouched(j)' <=> Untouched(j)) /\ (j # k => (Coming(j)' <=> Coming(j)))
  BY <1>1 DEF Untouched, Coming
<1>4. toServer[k] \in Seq(Message) /\ FromClient \subseteq Message
  BY DEF ConnectionsTypeOK, FromClient, Message
<1>5. CASE toServer'[k] \in {<<>>, toServer[k]}
  <2>1. Coming(k)' => Coming(k)
    BY <1>5 DEF Coming
  <2>2. BeginsFirst'
    BY <1>5, EmptySeq DEF ServerInv, NewInv, BeginsFirst
  <2>3. ComingIsNew' /\ BeginningIsNew'
    BY <1>1, <1>3, <2>1 DEF ServerInv, NewInv, ComingIsNew, BeginningIsNew
  <2> QED BY <1>2, <2>2, <2>3 DEF ServerInv, NewInv
<1>6. CASE \E m \in FromClient : toServer'[k] = Append(toServer[k], m)
  <2>1. PICK m \in FromClient : toServer'[k] = Append(toServer[k], m)
    BY <1>6
  <2>2. /\ m # "Connecting"
        /\ \A i \in DOMAIN toServer'[k] :
               \/ i = Len(toServer[k]) + 1 /\ toServer'[k][i] = m
               \/ i \in DOMAIN toServer[k] /\ toServer'[k][i] = toServer[k][i]
    BY <1>4, <2>1, AppendOne DEF FromClient
  <2>3. Coming(k)' => Coming(k)
    <3>1. ASSUME Coming(k)' PROVE 1 \in DOMAIN toServer[k] /\ toServer[k][1] = "Connecting"
      <4>1. toServer'[k] \in Seq(Message) /\ toServer'[k] # <<>>
        BY <1>4, <2>1, AppendOne, <3>1 DEF Coming
      <4>2. 1 \in DOMAIN toServer'[k] /\ toServer'[k][1] = "Connecting"
        BY <4>1, <3>1, HeadTail DEF Coming
      <4> QED BY <4>2, <2>2
    <3>2. 1 \in DOMAIN toServer[k] => toServer[k] # <<>>
      OBVIOUS
    <3> QED BY <3>1, <3>2 DEF Coming
  <2>4. BeginsFirst'
    BY <2>2 DEF ServerInv, NewInv, BeginsFirst
  <2>5. ComingIsNew' /\ BeginningIsNew'
    BY <1>1, <1>3, <2>3 DEF ServerInv, NewInv, ComingIsNew, BeginningIsNew
  <2> QED BY <1>2, <2>4, <2>5 DEF ServerInv, NewInv
<1>7. CASE /\ toServer'[k] = <<"Connecting">> /\ Untouched(k)
           /\ \A i \in DOMAIN serverEvents : serverEvents[i].conn # k
  <2>1. BeginsFirst'
    BY <1>7 DEF ServerInv, NewInv, BeginsFirst
  <2>2. ComingIsNew' /\ BeginningIsNew'
    BY <1>1, <1>3, <1>7 DEF ServerInv, NewInv, ComingIsNew, BeginningIsNew, Event
  <2> QED BY <1>2, <2>1, <2>2 DEF ServerInv, NewInv
<1> QED BY <1>5, <1>6, <1>7

\* A message arrives at the server; the first one begins the connection.
LEMMA ArriveKeeps ==
  ASSUME ServerInv, ConnectionsTypeOK, NEW k \in Conns, ArriveAtServer(k), UNCHANGED serverVars
  PROVE  ServerInv'
<1> DEFINE m == Head(toServer[k])
           e == Event(k, m)
<1>1. /\ UNCHANGED <<unknown, proxy, m_waitingClients, member, m_oldClients, listed, fault>>
      /\ serverEvents' = Append(serverEvents, e) /\ toServer[k] # <<>>
      /\ toServer' = [toServer EXCEPT ![k] = Tail(@)]
  BY DEF ArriveAtServer, serverVars
<1>2. /\ m \in Message /\ m = toServer[k][1] /\ 1 \in DOMAIN toServer[k]
      /\ toServer'[k] = Tail(toServer[k]) /\ toServer'[k] \in Seq(Message)
      /\ \A j \in Conns \ {k} : toServer'[j] = toServer[j]
      /\ \A i \in DOMAIN toServer'[k] : i + 1 \in DOMAIN toServer[k] /\ toServer'[k][i] = toServer[k][i + 1]
      /\ DOMAIN toServer'[k] \subseteq Nat \ {0}
  BY <1>1, HeadTail, LenProperties DEF ConnectionsTypeOK
<1>3. m \in FromClient \/ m = "Connecting"
  BY <1>2 DEF ServerInv, NewInv, BeginsFirst
<1>4. e \in AnyEvent /\ e.conn = k /\ e.type = m
  BY <1>2, EventTyped DEF EventTypes, Event
<1>5. m = "Connecting" <=> Coming(k)
  BY <1>1, <1>2 DEF Coming
<1> HIDE DEF m, e
<1>6. serverEvents \in Seq(AnyEvent) /\ serverEvents' \in Seq(AnyEvent)
      /\ \A i \in DOMAIN serverEvents' :
             \/ i = Len(serverEvents) + 1 /\ serverEvents'[i] = e
             \/ i \in DOMAIN serverEvents /\ serverEvents'[i] = serverEvents[i]
  BY <1>1, <1>4, AppendOne DEF ServerInv, ServerTyped
<1>7. e # Event(k, "Success") /\ e # Event(k, "Failure") /\ e # Event(k, "Accepted")
      /\ \A j \in Conns : j # k => e.conn # j
  BY <1>3, <1>4 DEF Event, FromClient
<1>8. BeginsFirst' /\ ~Coming(k)'
  <2>1. \A i \in DOMAIN toServer'[k] : toServer'[k][i] \in FromClient
    BY <1>2 DEF ServerInv, NewInv, BeginsFirst
  <2>2. BeginsFirst'
    <3>1. "Connecting" \notin FromClient
      BY DEF FromClient
    <3>2. ASSUME NEW j \in Conns, NEW i \in DOMAIN toServer'[j]
          PROVE  /\ toServer'[j][i] \in FromClient \cup {"Connecting"}
                 /\ toServer'[j][i] = "Connecting" => i = 1
      <4>1. CASE j = k
        BY <4>1, <2>1, <3>1
      <4>2. CASE j # k
        BY <4>2, <1>2 DEF ServerInv, NewInv, BeginsFirst
      <4> QED BY <4>1, <4>2
    <3> QED BY <3>2 DEF BeginsFirst
  <2>3. toServer'[k] # <<>> => 1 \in DOMAIN toServer'[k]
    BY <1>2, HeadTail
  <2> QED BY <2>1, <2>2, <2>3 DEF Coming, FromClient
<1>9. \A j \in Conns : (Untouched(j)' <=> Untouched(j)) /\ (j # k => (Coming(j)' <=> Coming(j)))
  BY <1>1, <1>2 DEF Untouched, Coming
<1>10. ComingIsNew'
  BY <1>6, <1>7, <1>8, <1>9 DEF ServerInv, NewInv, ComingIsNew
<1>11. BeginningIsNew'
  <2> SUFFICES ASSUME NEW j \in Conns, NEW i \in DOMAIN serverEvents',
                      serverEvents'[i] \in {Event(j, "Connecting"), Event(j, "Accepted")}
               PROVE  /\ Untouched(j) /\ ~Coming(j)'
                      /\ \A n \in DOMAIN serverEvents' :
                             n # i /\ serverEvents'[n].conn = j
                                 => serverEvents'[n].type \in FromClient
    BY <1>9 DEF BeginningIsNew
  <2>1. CASE serverEvents'[i] = e
    <3>1. j = k /\ m = "Connecting"
      BY <2>1, <1>3, <1>4 DEF Event, FromClient
    <3>2. Untouched(k) /\ \A n \in DOMAIN serverEvents : serverEvents[n].conn # k
      BY <3>1, <1>5 DEF ServerInv, NewInv, ComingIsNew
    <3>3. i = Len(serverEvents) + 1
      BY <3>2, <1>6, <2>1, <1>4
    <3> QED BY <3>1, <3>2, <3>3, <1>6, <1>8
  <2>2. CASE i \in DOMAIN serverEvents /\ serverEvents'[i] = serverEvents[i]
    <3>1. /\ Untouched(j) /\ ~Coming(j)
          /\ \A n \in DOMAIN serverEvents :
                 n # i /\ serverEvents[n].conn = j => serverEvents[n].type \in FromClient
      BY <2>2 DEF ServerInv, NewInv, BeginningIsNew
    <3>2. j = k => m \in FromClient
      BY <3>1, <1>3, <1>5
    <3> QED BY <3>1, <3>2, <1>4, <1>6, <1>7, <1>8, <1>9
  <2> QED BY <2>1, <2>2, <1>6
<1>12. OutcomeIsLast'
  <2> SUFFICES ASSUME NEW j \in Conns, NEW i \in DOMAIN serverEvents'
               PROVE  /\ serverEvents'[i] = Event(j, "Success") => unknown[j] \notin {"hello", "proxy"}
                      /\ serverEvents'[i] = Event(j, "Failure") =>
                             unknown[j] \notin {"hello", "proxy", "success"}
    BY <1>1 DEF OutcomeIsLast
  <2>1. CASE serverEvents'[i] = e
    BY <2>1, <1>4, <1>7 DEF Event
  <2>2. CASE i \in DOMAIN serverEvents /\ serverEvents'[i] = serverEvents[i]
    BY <2>2 DEF ServerInv, OutcomeIsLast
  <2> QED BY <2>1, <2>2, <1>6
<1>13. WaitingFetched'
  <2>1. Cardinality(Places(serverEvents', Fetching)) = Cardinality(Places(serverEvents, Fetching)) + 0
    BY <1>1, <1>3, <1>4, <1>6, CountAppend DEF Fetching, FromClient
  <2>2. Cardinality(Places(serverEvents, Fetching)) \in Nat
    BY <1>6, PlacesFinite DEF Places
  <2> QED BY <1>1, <1>6, <2>1, <2>2, Fetched DEF ServerInv
<1>14. OneOwner' /\ ServerTypeOK'
  BY <1>1 DEF ServerInv, ServerTyped, ServerTypeOK, OneOwner, Holds, Waits
<1> QED BY <1>6, <1>8, <1>10, <1>11, <1>12, <1>13, <1>14 DEF ServerInv, ServerTyped, NewInv

-----------------------------------------------------------------------------
(* The network *)

\* One more message on a connection that is not cut.
LEMMA SendTyped ==
  ASSUME NEW wire \in [Conns -> Seq(Message)], NEW k \in Conns, NEW m \in Message
  PROVE  /\ Send(wire, k, <<m>>) \in [Conns -> Seq(Message)]
         /\ \A j \in Conns \ {k} : Send(wire, k, <<m>>)[j] = wire[j]
         /\ Send(wire, k, <<m>>)[k] \in {wire[k], Append(wire[k], m)}
<1>1. wire[k] \o <<m>> = Append(wire[k], m) /\ Append(wire[k], m) \in Seq(Message)
  BY AppendOne
<1> QED BY <1>1 DEF Send

\* What the server writes.
LEMMA ServerWrites ==
  ASSUME ConnectionsTypeOK, ServerTypeOK,
         \/ ServerHandlers \/ \E k \in Conns : \E silent \in BOOLEAN : ServerTimers(k, silent)
         \/ Reload
  PROVE  toClient' \in [Conns -> Seq(Message)] /\ UNCHANGED <<toServer, cut>>
<1>1. {"Hello", "QInfo", "CInfoAck", "End", "CClose", "EUnknown", "EBusy", "DSetOptions"} \subseteq Message
  BY DEF Message
<1>2. \A k \in Conns : \A m \in {"Hello", "QInfo", "CInfoAck", "End", "CClose", "EUnknown",
                                 "EBusy", "DSetOptions"} :
          Send(toClient, k, <<m>>) \in [Conns -> Seq(Message)]
  BY <1>1, SendTyped DEF ConnectionsTypeOK
<1>3. \A k \in Conns : \A m \in {"CClose", "EUnknown", "EBusy", "DSetOptions"} :
          Write(k, m) \in [Conns -> Seq(Message)]
  BY <1>2 DEF Write, ConnectionsTypeOK
<1>4. m_waitingClients # <<>> => Head(m_waitingClients) \in Conns
  BY HeadTail DEF ServerTypeOK
<1>5. toClient \in [Conns -> Seq(Message)]
  BY DEF ConnectionsTypeOK
<1> USE DEF network, serverVars
<1>6. ASSUME Reload PROVE toClient' \in [Conns -> Seq(Message)] /\ UNCHANGED <<toServer, cut>>
  BY <1>6, <1>3, <1>5 DEF Reload, CloseMember, ServerTypeOK
<1>7. ASSUME HandleListenerAccepted
      PROVE  toClient' \in [Conns -> Seq(Message)] /\ UNCHANGED <<toServer, cut>>
  BY <1>7, <1>3, <1>4, <1>5 DEF HandleListenerAccepted
<1>8. ASSUME NEW k \in Conns, NEW silent, ServerTimers(k, silent)
      PROVE  toClient' \in [Conns -> Seq(Message)] /\ UNCHANGED <<toServer, cut>>
  BY <1>8, <1>2, <1>5 DEF ServerTimers, HandleUnknownTimeout, HandleFlatline,
     HandleCloseTimeout, SendFailure, Disconnect
<1>9. ASSUME NEW k \in Conns,
             \/ HandleClientConnecting(k) \/ HandleClientAccepted(k) \/ HandleHelloBack(k)
             \/ HandleUnknownDisconnect(k) \/ HandleProxyReady(k) \/ HandleUnknownClient(k)
             \/ HandleUnknownFailure(k) \/ HandleInfo(k) \/ HandleProxyDisconnect(k)
             \/ HandleProxyDisconnected(k) \/ ServerDiscards(k)
      PROVE  toClient' \in [Conns -> Seq(Message)] /\ UNCHANGED <<toServer, cut>>
  BY <1>9, <1>2, <1>5 DEF HandleClientConnecting, HandleClientAccepted, HandleHelloBack,
     HandleUnknownDisconnect, HandleProxyReady, HandleUnknownClient, HandleUnknownFailure,
     HandleInfo, HandleProxyDisconnect, HandleProxyDisconnected, ServerDiscards,
     SendFailure, Disconnect
<1> QED BY <1>6, <1>7, <1>8, <1>9 DEF ServerHandlers

\* What the client and the network do to connection k towards the server.
Changes(k, unused) ==
    /\ toServer' \in [Conns -> Seq(Message)]
    /\ \A j \in Conns \ {k} : toServer'[j] = toServer[j]
    /\ \/ toServer'[k] \in {<<>>, toServer[k]}
       \/ \E m \in FromClient : toServer'[k] = Append(toServer[k], m)
       \/ k \in unused /\ toServer'[k] = <<"Connecting">>

NetworkStep(unused) ==
    /\ toClient' \in [Conns -> Seq(Message)] /\ cut' \subseteq Conns
    /\ UNCHANGED toServer \/ \E k \in Conns : Changes(k, unused)

LEMMA SendChanges ==
  ASSUME ConnectionsTypeOK, NEW unused, NEW k \in Conns, NEW m \in FromClient,
         toServer' = Send(toServer, k, <<m>>)
  PROVE  Changes(k, unused)
<1>1. m \in Message
  BY DEF FromClient, Message
<1>2. toServer \in [Conns -> Seq(Message)]
  BY DEF ConnectionsTypeOK
<1>3. /\ Send(toServer, k, <<m>>) \in [Conns -> Seq(Message)]
      /\ \A j \in Conns \ {k} : Send(toServer, k, <<m>>)[j] = toServer[j]
      /\ Send(toServer, k, <<m>>)[k] \in {toServer[k], Append(toServer[k], m)}
  BY <1>1, <1>2, SendTyped
<1> QED BY <1>3 DEF Changes

LEMMA CleanupStep ==
  ASSUME ConnectionsTypeOK, ClientTypeOK, NEW unused, Cleanup
  PROVE  NetworkStep(unused)
<1>1. CASE m_stream = None
  BY <1>1 DEF Cleanup, NetworkStep, network, ConnectionsTypeOK
<1>2. CASE m_stream # None
  <2>1. m_stream \in Conns /\ toServer' = Send(toServer, m_stream, <<"End">>)
        /\ toClient' = [toClient EXCEPT ![m_stream] = <<>>] /\ UNCHANGED cut
    BY <1>2 DEF Cleanup, ClientTypeOK
  <2>2. Changes(m_stream, unused)
    BY <2>1, SendChanges DEF FromClient
  <2>3. toClient' \in [Conns -> Seq(Message)]
    BY <2>1, EmptySeq DEF ConnectionsTypeOK
  <2> QED BY <2>1, <2>2, <2>3 DEF NetworkStep, ConnectionsTypeOK
<1> QED BY <1>1, <1>2

LEMMA TryStep ==
  ASSUME ConnectionsTypeOK, NEW n, NEW a, NEW unused \in SUBSET Conns, NEW rest,
         Try(n, a, unused, rest)
  PROVE  NetworkStep(unused)
<1>1. CASE UNCHANGED network
  BY <1>1 DEF NetworkStep, network, ConnectionsTypeOK
<1>2. CASE \E k \in unused, answer \in {Taken} \cup NotTaken :
               /\ cut' = cut \ {k}
               /\ toClient' = [toClient EXCEPT ![k] = answer[1]]
               /\ toServer' = [toServer EXCEPT ![k] = answer[2]]
  <2>1. PICK k \in unused, answer \in {Taken} \cup NotTaken :
               /\ cut' = cut \ {k}
               /\ toClient' = [toClient EXCEPT ![k] = answer[1]]
               /\ toServer' = [toServer EXCEPT ![k] = answer[2]]
    BY <1>2
  <2>2. /\ answer[1] \in {<<"Connected">>, <<"ConnectFailed">>, <<>>}
        /\ answer[2] \in {<<"Connecting">>, <<>>}
    BY DEF Taken, NotTaken
  <2>3. <<"Connected">> \in Seq(Message) /\ <<"ConnectFailed">> \in Seq(Message)
        /\ <<"Connecting">> \in Seq(Message) /\ <<>> \in Seq(Message)
    BY EmptySeq DEF Message
  <2>4. toClient' \in [Conns -> Seq(Message)] /\ toServer' \in [Conns -> Seq(Message)]
        /\ cut' \subseteq Conns
    BY <2>1, <2>2, <2>3 DEF ConnectionsTypeOK
  <2>5. toServer'[k] \in {<<"Connecting">>, <<>>} /\ \A j \in Conns \ {k} : toServer'[j] = toServer[j]
    BY <2>1, <2>2 DEF ConnectionsTypeOK
  <2> QED BY <2>4, <2>5 DEF NetworkStep, Changes
<1> QED BY <1>1, <1>2 DEF Try

LEMMA ClientWrites ==
  ASSUME ConnectionsTypeOK, ClientTypeOK, NEW unused \in SUBSET Conns, NEW silent,
         \/ ClientHandlers(unused) \/ ClientTimers(unused, silent) \/ Suspend \/ Resume
         \/ \E k \in Conns : ArriveAtClient(k, m_stream = k) \/ Cut(k)
  PROVE  NetworkStep(unused)
<1>1. ASSUME UNCHANGED network PROVE NetworkStep(unused)
  BY <1>1 DEF NetworkStep, network, ConnectionsTypeOK
<1>2. ASSUME NEW k \in Conns, NEW m \in FromClient, toServer' = Send(toServer, k, <<m>>),
             UNCHANGED <<toClient, cut>>
      PROVE  NetworkStep(unused)
  BY <1>2, SendChanges DEF NetworkStep, ConnectionsTypeOK
<1>3. "HelloBack" \in FromClient /\ "DInfo" \in FromClient
  BY DEF FromClient
<1>4. ASSUME NEW k \in Conns,
             \/ HandleConnected(k) \/ HandleConnectionFailed(k) \/ HandleHello(k)
             \/ HandleDisconnected(k) \/ HandleDisconnectRequested(k) \/ ClientDiscards(k)
      PROVE  NetworkStep(unused)
  BY <1>4, <1>1, <1>2, <1>3, CleanupStep
     DEF HandleConnected, HandleConnectionFailed, HandleHello, HandleDisconnected,
         HandleDisconnectRequested, ClientDiscards, LoseSession, EndSession
<1>5. ASSUME NEW k \in Conns, HandleData(k) PROVE NetworkStep(unused)
  <2>1. UNCHANGED <<toClient, cut>> /\ (UNCHANGED toServer \/ toServer' = Send(toServer, k, <<"DInfo">>))
    BY <1>5 DEF HandleData
  <2> QED BY <2>1, <1>1, <1>2, <1>3 DEF network
<1>6. ASSUME HandleSuspend \/ HandleClientConnected \/ HandleClientFailed \/ HandleClientEnded
      PROVE  NetworkStep(unused)
  BY <1>6, <1>1, CleanupStep
     DEF HandleSuspend, HandleClientConnected, HandleClientFailed, HandleClientEnded
<1>7. ASSUME HandleResume(unused) \/ HandleClientRestart(unused) PROVE NetworkStep(unused)
  BY <1>7, <1>1, TryStep DEF HandleResume, HandleClientRestart
<1>8. ASSUME HandleKeepAliveAlarm(silent) \/ HandleConnectTimeout \/ HandleOutputError
      PROVE  NetworkStep(unused)
  BY <1>8, <1>1, CleanupStep DEF HandleKeepAliveAlarm, HandleConnectTimeout, HandleOutputError, LoseSession
<1>9. ASSUME Suspend \/ Resume PROVE NetworkStep(unused)
  BY <1>9, <1>1 DEF Suspend, Resume
<1>10. ASSUME NEW k \in Conns, ArriveAtClient(k, m_stream = k) PROVE NetworkStep(unused)
  <2>1. toClient[k] \in Seq(Message) /\ toClient[k] # <<>> /\ Tail(toClient[k]) \in Seq(Message)
    BY <1>10, HeadTail DEF ArriveAtClient, ConnectionsTypeOK
  <2>2. toClient' \in [Conns -> Seq(Message)] /\ UNCHANGED <<toServer, cut>>
    BY <1>10, <2>1, EmptySeq DEF ArriveAtClient, ConnectionsTypeOK
  <2> QED BY <2>2 DEF NetworkStep, ConnectionsTypeOK
<1>11. ASSUME NEW k \in Conns, Cut(k) PROVE NetworkStep(unused)
  <2>1. /\ toClient' \in [Conns -> Seq(Message)] /\ toServer' \in [Conns -> Seq(Message)]
        /\ cut' \subseteq Conns /\ toServer'[k] = <<>>
        /\ \A j \in Conns \ {k} : toServer'[j] = toServer[j]
    BY <1>11, EmptySeq DEF Cut, ConnectionsTypeOK
  <2> QED BY <2>1 DEF NetworkStep, Changes
<1> QED BY <1>4, <1>5, <1>6, <1>7, <1>8, <1>9, <1>10, <1>11 DEF ClientHandlers, ClientTimers

\* How often something goes wrong is bounded.
LEMMA TroublesBounded ==
  ASSUME ConnectionsTypeOK, UNCHANGED troubles \/ Trouble
  PROVE  troubles' \in 0 .. MaxTroubles
BY ConnectionsAssumption DEF ConnectionsTypeOK, Trouble

LEMMA TroublesOfStep ==
  ASSUME Next
  PROVE  UNCHANGED troubles \/ Trouble
<1>1. ASSUME NEW n, NEW a, NEW unused, NEW rest, Try(n, a, unused, rest)
      PROVE  UNCHANGED troubles \/ Trouble
  BY <1>1 DEF Try, Expires
<1>2. ASSUME ClientStep PROVE UNCHANGED troubles \/ Trouble
  BY <1>2, <1>1 DEF ClientStep, ClientHandlers, HandleConnected, HandleConnectionFailed, HandleHello,
     HandleDisconnected, HandleData, HandleDisconnectRequested, ClientDiscards, EndSession,
     HandleSuspend, HandleResume, HandleClientConnected, HandleClientFailed, HandleClientEnded
<1>3. ASSUME ClientTimer PROVE UNCHANGED troubles \/ Trouble
  BY <1>3, <1>1 DEF ClientTimer, ClientTimers, HandleKeepAliveAlarm, HandleConnectTimeout,
     HandleOutputError, HandleClientRestart, Expires
<1>4. ASSUME Sleep \/ Wake \/ Reconfigure PROVE UNCHANGED troubles \/ Trouble
  BY <1>4 DEF Sleep, Wake, Reconfigure, Suspend, Resume, Reload
<1>5. ASSUME NEW k \in Conns, ServerTimer(k) \/ Arrive(k) \/ Lose(k) PROVE UNCHANGED troubles \/ Trouble
  BY <1>5 DEF ServerTimer, ServerTimers, HandleUnknownTimeout, HandleFlatline, HandleCloseTimeout,
     Expires, Arrive, ArriveAtClient, ArriveAtServer, Lose, Cut
<1> QED BY <1>2, <1>3, <1>4, <1>5 DEF Next, ServerStep

-----------------------------------------------------------------------------
(* The theorems *)

\* A connection the client may use has no trace of an earlier use.
LEMMA UnusedAtRest ==
  /\ Unused \subseteq Conns
  /\ \A k \in Unused : /\ Untouched(k)
                       /\ \A i \in DOMAIN serverEvents : serverEvents[i].conn # k
BY DEF Unused, Held, AtRest, Untouched

\* The client's part of a step leaves the server's part of the invariant.
LEMMA ServerUndisturbed ==
  ASSUME ServerInv, ConnectionsTypeOK, NetworkStep(Unused), UNCHANGED <<serverVars, serverEvents>>
  PROVE  ServerInv'
<1>1. CASE UNCHANGED toServer
  <2>1. CASE Conns = {}
    <3>1. \A j \in Conns : FALSE
      BY <2>1
    <3>2. ServerTyped' /\ OutcomeIsLast' /\ OneOwner' /\ WaitingFetched'
      BY DEF serverVars, ServerInv, ServerTyped, ServerTypeOK, OutcomeIsLast, OneOwner, Holds, Waits, WaitingFetched
    <3> QED BY <3>1, <3>2 DEF ServerInv, NewInv, BeginsFirst, ComingIsNew, BeginningIsNew
  <2>2. CASE Conns # {}
    <3>1. PICK k \in Conns : TRUE
      BY <2>2
    <3> QED BY <1>1, <3>1, WireKeeps
  <2> QED BY <2>1, <2>2
<1>2. ASSUME NEW k \in Conns, Changes(k, Unused) PROVE ServerInv'
  <2>1. \/ toServer'[k] \in {<<>>, toServer[k]}
        \/ \E m \in FromClient : toServer'[k] = Append(toServer[k], m)
        \/ /\ toServer'[k] = <<"Connecting">> /\ Untouched(k)
           /\ \A i \in DOMAIN serverEvents : serverEvents[i].conn # k
    BY <1>2, UnusedAtRest DEF Changes
  <2> QED BY <1>2, <2>1, WireKeeps DEF Changes
<1> QED BY <1>1, <1>2 DEF NetworkStep

LEMMA SessionStep ==
  ASSUME SessionInv, Next
  PROVE  SessionInv'
<1> USE DEF SessionInv
<1>0. /\ troubles' \in 0 .. MaxTroubles
      /\ ClientTypeOK /\ ServerTypeOK /\ Unused \subseteq Conns
  BY TroublesOfStep, TroublesBounded, UnusedAtRest DEF ClientInv, ServerInv, ServerTyped
<1>1. ASSUME NetworkStep(Unused) PROVE ConnectionsTypeOK'
  BY <1>0, <1>1 DEF NetworkStep, Changes, ConnectionsTypeOK
<1>2. ASSUME UNCHANGED <<clientVars, clientEvents>> PROVE ClientInv'
  BY <1>2, Stranded DEF ClientInv, ClientTypeOK, StreamHasPhase, TimerCoversAttempt, clientVars,
     suspension, attempt
<1>3. ASSUME ClientStep PROVE SessionInv'
  BY <1>0, <1>1, <1>3, ClientHandlersKeep, ClientWrites, ServerUndisturbed DEF ClientStep
<1>4. ASSUME ClientTimer \/ Sleep \/ Wake PROVE SessionInv'
  <2>1. /\ \E silent : ClientTimers(Unused, silent) \/ Suspend \/ Resume
        /\ UNCHANGED <<serverVars, serverEvents>>
    BY <1>4 DEF ClientTimer, Sleep, Wake
  <2> QED BY <1>0, <1>1, <2>1, ClientOthersKeep, ClientWrites, ServerUndisturbed
<1>5. ASSUME NEW k \in Conns, ArriveAtClient(k, m_stream = k), UNCHANGED <<clientVars, serverVars>>
      PROVE  SessionInv'
  <2>1. UNCHANGED serverEvents
    BY <1>5 DEF ArriveAtClient
  <2> QED BY <1>0, <1>1, <1>5, <2>1, ClientOthersKeep, ClientWrites, ServerUndisturbed
<1>6. ASSUME NEW k \in Conns, Cut(k), UNCHANGED <<clientVars, serverVars>>
      PROVE  SessionInv'
  <2>1. UNCHANGED <<clientEvents, serverEvents>>
    BY <1>6 DEF Cut
  <2> QED BY <1>0, <1>1, <1>2, <1>6, <2>1, ClientWrites, ServerUndisturbed
<1>7. ASSUME NEW k \in Conns, ArriveAtServer(k), UNCHANGED <<clientVars, serverVars>>
      PROVE  SessionInv'
  <2>1. toServer[k] \in Seq(Message) /\ toServer[k] # <<>> /\ Tail(toServer[k]) \in Seq(Message)
    BY <1>7, HeadTail DEF ArriveAtServer, ConnectionsTypeOK
  <2>2. ConnectionsTypeOK'
    BY <1>0, <1>7, <2>1 DEF ArriveAtServer, ConnectionsTypeOK
  <2> QED BY <1>2, <1>7, <2>2, ArriveKeeps DEF ArriveAtServer
<1>8. ASSUME toClient' \in [Conns -> Seq(Message)], UNCHANGED <<toServer, cut>>
      PROVE  ConnectionsTypeOK'
  BY <1>0, <1>8 DEF ConnectionsTypeOK
<1>9. ASSUME ServerHandlers PROVE ServerInv'
  BY <1>9, ConnectingKeeps, AcceptedKeeps, HelloBackKeeps, UnknownDisconnectKeeps,
     ProxyReadyKeeps, UnknownClientKeeps, UnknownFailureKeeps, InfoKeeps, ProxyDisconnectKeeps,
     ProxyDisconnectedKeeps, DiscardsKeep, ListenerAcceptedKeeps DEF ServerHandlers
<1>10. ASSUME ServerStep PROVE SessionInv'
  BY <1>0, <1>2, <1>8, <1>9, <1>10, ServerWrites DEF ServerStep
<1>11. ASSUME NEW k \in Conns, ServerTimer(k) PROVE SessionInv'
  <2>1. ClientSilent(k) \in BOOLEAN
    BY DEF ClientSilent
  <2>2. ServerInv'
    BY <1>11, UnknownTimeoutKeeps, FlatlineKeeps, CloseTimeoutKeeps DEF ServerTimer, ServerTimers
  <2> QED BY <1>0, <1>2, <1>8, <1>11, <2>1, <2>2, ServerWrites DEF ServerTimer
<1>12. ASSUME Reconfigure PROVE SessionInv'
  BY <1>0, <1>2, <1>8, <1>12, ReloadKeeps, ServerWrites DEF Reconfigure
<1> QED BY <1>3, <1>4, <1>5, <1>6, <1>7, <1>10, <1>11, <1>12 DEF Next, Arrive, Lose

LEMMA SessionInit ==
  ASSUME Init
  PROVE  SessionInv
<1> USE DEF Init, ConnectionsInit, ClientInit, ServerInit
<1>1. ConnectionsTypeOK
  BY ConnectionsAssumption, EmptySeq DEF ConnectionsTypeOK
<1>2. 0 \in ServerIndex
  BY ClientAssumption, EmptySeq DEF ServerIndex
<1>3. ClientInv
  <2>1. ClientTypeOK /\ StreamHasPhase /\ TimerCoversAttempt
    BY <1>2 DEF ClientTypeOK, StreamHasPhase, TimerCoversAttempt, Phases
  <2>2. NeverStranded
    BY DEF NeverStranded
  <2>3. clientEvents \in Seq(AnyEvent)
    BY EmptySeq
  <2> QED BY <2>1, <2>2, <2>3 DEF ClientInv
<1>4. ServerTyped
  BY EmptySeq DEF ServerTyped, ServerTypeOK, UnknownStates, ProxyStates
<1>5. DOMAIN <<>> = {} /\ \A k \in Conns : toServer[k] = <<>>
  BY EmptySeq
<1>6. NewInv /\ OutcomeIsLast
  BY <1>5 DEF NewInv, BeginsFirst, ComingIsNew, BeginningIsNew, Coming, OutcomeIsLast
<1>7. OneOwner
  BY <1>5, ConnectionsAssumption DEF OneOwner, Holds, Waits
<1>8. WaitingFetched
  BY <1>5, FS_EmptySet, EmptySeq DEF WaitingFetched
<1> QED BY <1>1, <1>3, <1>4, <1>6, <1>7, <1>8 DEF SessionInv, ServerInv

\* The inductive invariant holds at every moment.
THEOREM SessionInvariant == Spec => []SessionInv
<1>1. SessionInv /\ [Next]_vars => SessionInv'
  <2>1. ASSUME SessionInv, UNCHANGED vars PROVE SessionInv'
    <3>1. UNCHANGED <<clientVars, clientEvents, serverVars, serverEvents, toClient, toServer, cut, troubles>>
      BY <2>1 DEF vars, network
    <3>2. ConnectionsTypeOK' /\ ClientTypeOK
      BY <2>1, <3>1 DEF SessionInv, ConnectionsTypeOK, ClientInv
    <3>3. ClientInv'
      BY <2>1, <3>1, Stranded DEF SessionInv, ClientInv, ClientTypeOK, StreamHasPhase,
         TimerCoversAttempt, clientVars, suspension, attempt
    <3>4. NetworkStep(Unused)
      BY <2>1, <3>1 DEF NetworkStep, SessionInv, ConnectionsTypeOK
    <3>5. ServerInv'
      BY <2>1, <3>1, <3>4, ServerUndisturbed DEF SessionInv
    <3> QED BY <3>2, <3>3, <3>5 DEF SessionInv
  <2> QED BY <2>1, SessionStep
<1> QED BY <1>1, SessionInit, PTL DEF Spec

\* Every variable keeps its type.
THEOREM SessionTypes == Spec => []TypeOK
<1>1. SessionInv => TypeOK
  BY DEF SessionInv, ClientInv, ServerInv, ServerTyped, TypeOK
<1> QED BY <1>1, SessionInvariant, PTL

\* A client that has no connection always has something to come that starts the
\* next one (Client::handleSuspend, Client::connect, ClientApp's restart timer).
THEOREM NeverStrandedAlways == Spec => []NeverStranded
<1>1. SessionInv => NeverStranded
  BY DEF SessionInv, ClientInv
<1> QED BY <1>1, SessionInvariant, PTL

\* The timer of an attempt runs exactly until the hello is answered
\* (Client::setupTimer, Client::handleHello).
THEOREM TimerCoversAttemptAlways == Spec => []TimerCoversAttempt
<1>1. SessionInv => TimerCoversAttempt
  BY DEF SessionInv, ClientInv
<1> QED BY <1>1, SessionInvariant, PTL

\* Every waiting client has an event to come that fetches it
\* (ClientListener::handleUnknownClient).
THEOREM WaitingFetchedAlways == Spec => []WaitingFetched
<1>1. SessionInv => WaitingFetched
  BY DEF SessionInv, ServerInv
<1> QED BY <1>1, SessionInvariant, PTL

\* The owners that OwnedOnce counts, besides the places in the queue.
Owners(k) == {"unknown" : u \in {unknown[k]} \cap {"proxy", "success"}}
             \cup {"member" : m \in {member} \cap {k}}
             \cup {"old" : m \in m_oldClients \cap {k}}
WaitPlaces(k) == {i \in DOMAIN m_waitingClients : m_waitingClients[i] = k}

LEMMA OwnersCount ==
  ASSUME OneOwner, NEW k \in Conns
  PROVE  Cardinality(Owners(k)) + Cardinality(WaitPlaces(k)) = IF proxy[k] = "none" THEN 0 ELSE 1
<1>1. Cardinality({}) = 0 /\ \A x : Cardinality({x}) = 1
  BY FS_EmptySet, FS_Singleton
<1>2. /\ "unknown" \in Owners(k) <=> Holds(k)
      /\ "member" \in Owners(k) <=> member = k
      /\ "old" \in Owners(k) <=> k \in m_oldClients
      /\ Owners(k) \subseteq {"unknown", "member", "old"}
  BY DEF Owners, Holds
<1>3. ~Waits(k) => WaitPlaces(k) = {}
  BY DEF Waits, WaitPlaces
<1>4. Waits(k) => \E i : WaitPlaces(k) = {i}
  <2> HAVE Waits(k)
  <2>1. PICK i \in DOMAIN m_waitingClients : m_waitingClients[i] = k
    BY DEF Waits
  <2>2. WaitPlaces(k) = {i}
    BY <2>1 DEF WaitPlaces, OneOwner
  <2> QED BY <2>2
<1>5. /\ proxy[k] # "none" <=> Holds(k) \/ Waits(k) \/ member = k \/ k \in m_oldClients
      /\ Holds(k) => ~Waits(k) /\ member # k /\ k \notin m_oldClients
      /\ Waits(k) => member # k /\ k \notin m_oldClients
      /\ member = k => k \notin m_oldClients
  BY DEF OneOwner
<1>6. CASE proxy[k] = "none"
  <2>1. Owners(k) = {} /\ WaitPlaces(k) = {}
    BY <1>2, <1>3, <1>5, <1>6
  <2> QED BY <2>1, <1>1, <1>6
<1>7. CASE Waits(k)
  <2>1. Owners(k) = {} /\ proxy[k] # "none"
    BY <1>2, <1>5, <1>7
  <2>2. PICK i : WaitPlaces(k) = {i}
    BY <1>4, <1>7
  <2>3. Cardinality(WaitPlaces(k)) = 1
    BY <2>2, <1>1
  <2> QED BY <2>1, <2>3, <1>1
<1>8. CASE proxy[k] # "none" /\ ~Waits(k)
  <2>1. WaitPlaces(k) = {}
    BY <1>3, <1>8
  <2>2. \E x : Owners(k) = {x}
    <3>1. CASE Holds(k)
      <4>1. Owners(k) = {"unknown"}
        BY <3>1, <1>2, <1>5
      <4> QED BY <4>1
    <3>2. CASE member = k
      <4>1. Owners(k) = {"member"}
        BY <3>2, <1>2, <1>5
      <4> QED BY <4>1
    <3>3. CASE k \in m_oldClients
      <4>1. Owners(k) = {"old"}
        BY <3>3, <1>2, <1>5
      <4> QED BY <4>1
    <3> QED BY <3>1, <3>2, <3>3, <1>5, <1>8
  <2>3. Cardinality(Owners(k)) = 1
    BY <2>2, <1>1
  <2> QED BY <2>1, <2>3, <1>1, <1>8
<1> QED BY <1>6, <1>7, <1>8

\* A proxy has one owner, whatever the order of hello, information, failure,
\* timeout and adoption (ClientProxyUnknown::sendFailure, orphanClientProxy,
\* ClientListener::getNextClient, Server::closeClient).
THEOREM OwnedOnceAlways == Spec => []OwnedOnce
<1>1. SessionInv => OwnedOnce
  <2>1. ASSUME OneOwner, NEW k \in Conns
        PROVE  LET owners == {"unknown" : u \in {unknown[k]} \cap {"proxy", "success"}}
                      \cup {"member" : m \in {member} \cap {k}}
                      \cup {"old" : m \in m_oldClients \cap {k}}
                   waits == {i \in DOMAIN m_waitingClients : m_waitingClients[i] = k}
               IN  Cardinality(owners) + Cardinality(waits) = IF proxy[k] = "none" THEN 0 ELSE 1
    BY <2>1, OwnersCount DEF Owners, WaitPlaces
  <2> QED BY <2>1 DEF OwnedOnce, SessionInv, ServerInv
<1> QED BY <1>1, SessionInvariant, PTL
=============================================================================
