--------------------------- MODULE ProgramProofs ---------------------------
(***************************************************************************)
(* Proofs about three parts that have few: the life of the server program, *)
(* the service that starts the core, and the keys that a client types.     *)
(***************************************************************************)
EXTENDS ServerLife, CoreService, KeyState, QueuesProofs

-----------------------------------------------------------------------------
(* The life of the server program                                            *)


LifeEvents == EventsOf(EventType)
Suspension == Event("Suspend", NoServer)
Quitting == Event("Quit", NoServer)
Awaited(e) == \E i \in DOMAIN events : events[i] = e

LifeTypeInv == LifeTypeOK /\ (m_serverState = "Started" => m_server # NoServer)

\* At most one suspend is on its way, and nothing before it ends a loop.
SleepFirst == \A i, j \in DOMAIN events :
                  events[i] = Suspension /\ j < i => events[j] \notin {Suspension, Quitting}

\* A server that is being closed is the one in use, and the computer does not
\* go to sleep meanwhile.
ClosesServer == closing # <<>> => /\ closing = <<closing[1]>> /\ closing[1].server = m_server
                                  /\ m_server # NoServer /\ ~Awaited(Suspension)
LifeInv == /\ OnlyServerAlive /\ (m_serverState = "Started" <=> m_server # NoServer)
           /\ SleepFirst /\ ClosesServer

LEMMA LifeEventTypes ==
  /\ \A t \in EventType, o \in Clients \cup ServerIds \cup {NoServer} :
                Event(t, o) \in LifeEvents
  /\ Suspension \in LifeEvents /\ Quitting \in LifeEvents
  /\ Suspension # Quitting /\ Suspension.type = "Suspend" /\ Quitting.type = "Quit"
  /\ MaxServers \in Nat \ {0} /\ NoServer \notin Nat /\ MaxEvents \in Nat
  BY LifeAssumption DEF LifeEvents, EventsOf, EventType, Event, Suspension, Quitting

\* One event more, which is no suspend.
LEMMA AwaitedMore ==
  ASSUME events \in Seq(LifeEvents), NEW e \in LifeEvents, events' = Append(events, e)
  PROVE  /\ events' \in Seq(LifeEvents)
         /\ \A x : Awaited(x)' <=> Awaited(x) \/ x = e
         /\ e # Suspension \/ (~Awaited(Suspension) /\ ~Awaited(Quitting)) => (SleepFirst => SleepFirst')
<1>1. /\ events' \in Seq(LifeEvents) /\ events'[Len(events) + 1] = e
      /\ Len(events) + 1 \in DOMAIN events'
      /\ \A i \in DOMAIN events : i \in DOMAIN events' /\ events'[i] = events[i]
      /\ \A i \in DOMAIN events' : i = Len(events) + 1 \/ i \in DOMAIN events
  BY AppendOne
<1>2. \A i \in DOMAIN events : i \in Nat /\ i < Len(events) + 1
  BY LenProperties
<1>3. \A x : Awaited(x)' <=> Awaited(x) \/ x = e
  BY <1>1 DEF Awaited
<1>4. ASSUME e # Suspension \/ (~Awaited(Suspension) /\ ~Awaited(Quitting)), SleepFirst,
             NEW i \in DOMAIN events', NEW j \in DOMAIN events', events'[i] = Suspension, j < i
      PROVE  events'[j] \notin {Suspension, Quitting}
  <2>1. CASE i \in DOMAIN events
    <3>1. j \in DOMAIN events
      BY <1>1, <1>2, <1>4, <2>1, LenProperties
    <3> QED BY <1>1, <1>4, <2>1, <3>1 DEF SleepFirst
  <2>2. CASE i = Len(events) + 1
    <3>1. j \in DOMAIN events
      BY <1>1, <1>4, <2>2, LenProperties
    <3> QED BY <1>1, <1>4, <2>2, <3>1 DEF Awaited
  <2> QED BY <1>1, <2>1, <2>2
<1> QED BY <1>1, <1>3, <1>4 DEF SleepFirst

\* The first event is taken.
LEMMA AwaitedLess ==
  ASSUME events \in Seq(LifeEvents), events # <<>>
  PROVE  /\ Tail(events) \in Seq(LifeEvents) /\ Head(events) \in LifeEvents /\ Awaited(Head(events))
         /\ \A i \in DOMAIN Tail(events) : Awaited(Tail(events)[i])
         /\ SleepFirst =>
              /\ \A i, j \in DOMAIN Tail(events) : Tail(events)[i] = Suspension /\ j < i
                                                   => Tail(events)[j] \notin {Suspension, Quitting}
              /\ Head(events) \in {Suspension, Quitting} =>
                    \A i \in DOMAIN Tail(events) : Tail(events)[i] # Suspension
<1>1. /\ Head(events) = events[1] /\ 1 \in DOMAIN events /\ Tail(events) \in Seq(LifeEvents)
      /\ Head(events) \in LifeEvents
      /\ \A i \in DOMAIN Tail(events) : i + 1 \in DOMAIN events /\ Tail(events)[i] = events[i + 1]
  BY HeadTail
<1>2. \A i \in DOMAIN Tail(events) : i \in Nat /\ 1 < i + 1
  BY <1>1, LenProperties
<1>3. ASSUME SleepFirst, NEW i \in DOMAIN Tail(events), NEW j \in DOMAIN Tail(events),
             Tail(events)[i] = Suspension, j < i
      PROVE  Tail(events)[j] \notin {Suspension, Quitting}
  <2>1. j + 1 < i + 1 /\ events[i + 1] = Suspension
    BY <1>1, <1>2, <1>3
  <2> QED BY <1>1, <1>3, <2>1 DEF SleepFirst
<1>4. ASSUME SleepFirst, Head(events) \in {Suspension, Quitting}, NEW i \in DOMAIN Tail(events)
      PROVE  Tail(events)[i] # Suspension
  BY <1>1, <1>2, <1>4 DEF SleepFirst
<1> QED BY <1>1, <1>3, <1>4 DEF Awaited

\* Without a suspend among the events SleepFirst is no question.
LEMMA NoSleep == ~Awaited(Suspension) => SleepFirst
  BY DEF Awaited, SleepFirst

\* The events after the first one and what a handler adds.
LEMMA TailAndOne ==
  ASSUME events \in Seq(LifeEvents), events # <<>>, NEW e \in LifeEvents,
         e # Suspension, NEW more \in {<<>>, <<e>>}, events' = Tail(events) \o more
  PROVE  /\ events' \in Seq(LifeEvents)
         /\ SleepFirst => SleepFirst'
         /\ SleepFirst /\ Head(events) \in {Suspension, Quitting} => ~Awaited(Suspension)'
         /\ ~Awaited(Suspension) => ~Awaited(Suspension)'
<1> DEFINE t == Tail(events)
<1>1. /\ t \in Seq(LifeEvents)
      /\ \A i \in DOMAIN t : Awaited(t[i])
      /\ SleepFirst =>
            /\ \A i, j \in DOMAIN t : t[i] = Suspension /\ j < i => t[j] \notin {Suspension, Quitting}
            /\ Head(events) \in {Suspension, Quitting} => \A i \in DOMAIN t : t[i] # Suspension
  BY AwaitedLess
<1> HIDE DEF t
<1>2. CASE more = <<>>
  <2>1. events' = t
    BY <1>1, <1>2, AppendOne DEF t
  <2> QED BY <1>1, <2>1 DEF SleepFirst, Awaited
<1>3. CASE more = <<e>>
  <2>1. events' = Append(t, e)
    BY <1>1, <1>3, AppendOne DEF t
  <2>2. /\ Append(t, e) \in Seq(LifeEvents) /\ Append(t, e)[Len(t) + 1] = e
        /\ \A i \in DOMAIN t : i \in DOMAIN Append(t, e) /\ Append(t, e)[i] = t[i]
        /\ \A i \in DOMAIN Append(t, e) : i = Len(t) + 1 \/ i \in DOMAIN t
    BY <1>1, AppendOne
  <2>3. \A i \in DOMAIN t : i \in Nat /\ i < Len(t) + 1 /\ Len(t) \in Nat
    BY <1>1, LenProperties
  <2>4. \A i, j \in DOMAIN events' : events'[i] = Suspension /\ j < i => i \in DOMAIN t /\ j \in DOMAIN t
    <3> SUFFICES ASSUME NEW i \in DOMAIN events', NEW j \in DOMAIN events',
                        events'[i] = Suspension, j < i
                 PROVE  i \in DOMAIN t /\ j \in DOMAIN t
      OBVIOUS
    <3>1. i \in DOMAIN t
      BY <2>1, <2>2
    <3>2. j # Len(t) + 1
      BY <2>3, <3>1
    <3> QED BY <2>1, <2>2, <3>1, <3>2
  <2>5. SleepFirst => SleepFirst'
    BY <1>1, <2>1, <2>2, <2>4 DEF SleepFirst
  <2>6. \A i \in DOMAIN events' : events'[i] = Suspension => i \in DOMAIN t /\ t[i] = Suspension
    BY <2>1, <2>2
  <2> QED BY <1>1, <2>1, <2>2, <2>5, <2>6 DEF Awaited
<1> QED BY <1>2, <1>3

ServerInUse == <<m_serverState, m_server, alive, started, closing, fault>>

\* A step that changes no server and puts off no close.
LEMMA SameServer ==
  ASSUME LifeInv, UNCHANGED ServerInUse, SleepFirst',
         closing = <<>> \/ (~Awaited(Suspension) => ~Awaited(Suspension)')
  PROVE  LifeInv'
  BY DEF LifeInv, OnlyServerAlive, ClosesServer, ServerInUse

\* Events from outside.
LEMMA PostKeeps ==
  ASSUME LifeTypeInv, NEW t \in EventType,
         NEW o \in Clients \cup ServerIds \cup {NoServer}, Post(t, o), asked' \in BOOLEAN
  PROVE  /\ LifeTypeInv'
         /\ (t = "Suspend" => ClosesNothing) /\ LifeInv => LifeInv'
<1> DEFINE e == Event(t, o)
<1>1. /\ raised < MaxEvents /\ raised' = raised + 1 /\ events' = Append(events, e)
      /\ UNCHANGED <<ServerInUse, members, m_oldClients, m_suspended, main>>
  BY DEF Post, server, clients, ServerInUse
<1>2. e \in LifeEvents /\ (t # "Suspend" => e # Suspension)
  <2>1. e.type = t
    BY DEF Event
  <2> QED BY <2>1, LifeEventTypes
<1> HIDE DEF e
<1>3. /\ events \in Seq(LifeEvents) /\ raised \in 0 .. MaxEvents /\ MaxEvents \in Nat
  BY LifeEventTypes DEF LifeTypeInv, LifeTypeOK, LifeEvents
<1>4. /\ events' \in Seq(LifeEvents)
      /\ \A x : Awaited(x)' <=> Awaited(x) \/ x = e
      /\ e # Suspension \/ (~Awaited(Suspension) /\ ~Awaited(Quitting)) => (SleepFirst => SleepFirst')
  BY <1>1, <1>2, <1>3, AwaitedMore
<1>5. raised' \in 0 .. MaxEvents
  BY <1>1, <1>3
<1>6. LifeTypeInv'
  BY <1>1, <1>4, <1>5 DEF LifeTypeInv, LifeTypeOK, LifeEvents, ServerInUse
<1>7. ASSUME t = "Suspend" => ClosesNothing, LifeInv PROVE LifeInv'
  <2>1. CASE t # "Suspend"
    <3>1. SleepFirst' /\ (~Awaited(Suspension) => ~Awaited(Suspension)')
      BY <1>2, <1>4, <1>7, <2>1 DEF LifeInv
    <3> QED BY <1>1, <1>7, <3>1, SameServer
  <2>2. CASE t = "Suspend"
    <3>1. closing = <<>> /\ ~Awaited(Suspension) /\ ~Awaited(Quitting)
      BY <1>7, <2>2 DEF ClosesNothing, Waiting, Awaited, Suspension, Quitting
    <3>2. SleepFirst'
      BY <1>4, <1>7, <3>1 DEF LifeInv
    <3> QED BY <1>1, <1>7, <3>1, <3>2, SameServer
  <2> QED BY <2>1, <2>2
<1> QED BY <1>6, <1>7

LEMMA OutsideKeeps ==
  ASSUME LifeTypeInv, Outside
  PROVE  LifeTypeInv' /\ (~SleepsInClose /\ LifeInv => LifeInv')
<1>t. {"Suspend", "Resume", "Quit", "Reload", "Accepted", "Gone"} \subseteq EventType
  BY DEF EventType
<1>a. asked \in BOOLEAN
  BY DEF LifeTypeInv, LifeTypeOK
<1>1. CASE Sleep
  <2>1. Post("Suspend", NoServer) /\ asked' = asked /\ (SleepsInClose \/ ClosesNothing)
    BY <1>1 DEF Sleep
  <2> QED BY <1>t, <1>a, <2>1, PostKeeps
<1>2. CASE WakeUp \/ AskToReload
  <2>1. PICK t \in {"Resume", "Reload"} : Post(t, NoServer) /\ asked' = asked
    BY <1>2 DEF WakeUp, AskToReload
  <2> QED BY <1>t, <1>a, <2>1, PostKeeps
<1>3. CASE AskToQuit
  <2>1. Post("Quit", NoServer) /\ asked' = TRUE
    BY <1>3 DEF AskToQuit
  <2> QED BY <1>t, <2>1, PostKeeps
<1>4. CASE \E c \in Clients : Arrive(c) \/ Depart(c)
  <2>1. PICK c \in Clients : Arrive(c) \/ Depart(c)
    BY <1>4
  <2>2. PICK t \in {"Accepted", "Gone"} : Post(t, c) /\ asked' = asked
    BY <2>1 DEF Arrive, Depart
  <2> QED BY <1>t, <1>a, <2>2, PostKeeps
<1> QED BY <1>1, <1>2, <1>3, <1>4 DEF Outside

\* A client that was told to close hangs up; the timer of the close expires.
LEMMA HangUpKeeps ==
  ASSUME LifeTypeInv,
         HandleCloseTimeout \/ \E c \in Clients : HangUp(c)
  PROVE  LifeTypeInv' /\ (LifeInv => LifeInv')
<1> DEFINE Ends == {Quitting} \cup {Event("Gone", c) : c \in Clients}
<1>1. PICK e \in Ends :
         /\ events' = Append(events, e)
         /\ UNCHANGED <<ServerInUse, members, m_oldClients, m_suspended, main, asked, raised>>
  <2>1. ASSUME NEW c \in Clients, HangUp(c)
        PROVE  \E e \in Ends :
                  /\ events' = Append(events, e)
                  /\ UNCHANGED <<ServerInUse, members, m_oldClients, m_suspended, main, asked, raised>>
    BY <2>1 DEF HangUp, server, program, ServerInUse, clients
  <2>2. CASE HandleCloseTimeout
    <3>1. events = <<>> /\ events' = <<Quitting>>
      BY <2>2 DEF HandleCloseTimeout, Quitting
    <3>2. events' = Append(events, Quitting)
      BY <3>1
    <3> QED BY <2>2, <3>2 DEF HandleCloseTimeout, server, program, ServerInUse, clients
  <2> QED BY <2>1, <2>2
<1>2. e \in LifeEvents /\ e # Suspension
  <2>1. "Gone" \in EventType /\ \A c \in Clients : Event("Gone", c).type = "Gone"
    BY DEF EventType, Event
  <2> QED BY <2>1, LifeEventTypes
<1>3. events \in Seq(LifeEvents)
  BY DEF LifeTypeInv, LifeTypeOK, LifeEvents
<1>4. /\ events' \in Seq(LifeEvents)
      /\ \A x : Awaited(x)' <=> Awaited(x) \/ x = e
      /\ SleepFirst => SleepFirst'
  BY <1>1, <1>2, <1>3, AwaitedMore
<1>5. LifeTypeInv'
  BY <1>1, <1>4 DEF LifeTypeInv, LifeTypeOK, LifeEvents, ServerInUse
<1>6. LifeInv => LifeInv'
  BY <1>1, <1>2, <1>4, SameServer DEF LifeInv
<1> QED BY <1>5, <1>6

\* A handler takes the first event.
LEMMA LifeDispatched ==
  ASSUME LifeTypeInv, NEW t, NEW o, Dispatches(t, o)
  PROVE  /\ events \in Seq(LifeEvents) /\ events # <<>> /\ Head(events) = Event(t, o)
         /\ Head(events).type = t
  BY DEF Dispatches, LifeTypeInv, LifeTypeOK, LifeEvents, Event

\* Server posts ServerDisconnected when the last client has gone.
LEMMA AnswerEvents ==
  ASSUME LifeTypeInv, NEW mine, NEW old
  PROVE  \E e \in LifeEvents : e # Suspension /\ Answer(mine, old) \in {<<>>, <<e>>}
<1> DEFINE e == Event("ServerDisconnected", m_server)
<1>1. m_server \in ServerIds \cup {NoServer} /\ "ServerDisconnected" \in EventType
  BY DEF LifeTypeInv, LifeTypeOK, EventType
<1>2. e.type = "ServerDisconnected"
  BY DEF Event
<1>3. e \in LifeEvents /\ e # Suspension
  <2> HIDE DEF e
  <2>1. e \in LifeEvents
    BY <1>1, LifeEventTypes DEF e
  <2> QED BY <1>2, <2>1, LifeEventTypes
<1>4. Answer(mine, old) \in {<<>>, <<e>>}
  BY DEF Answer
<1> QED BY <1>3, <1>4

\* Handlers that only take the first event and add at most one.
LEMMA HandlerKeeps ==
  ASSUME LifeTypeInv, NEW t, NEW o, Dispatches(t, o),
         NEW e \in LifeEvents, e # Suspension, NEW more \in {<<>>, <<e>>},
         events' = Tail(events) \o more,
         UNCHANGED <<ServerInUse, m_suspended, main, asked, raised>>,
         members' \subseteq Clients, m_oldClients' \subseteq Clients
  PROVE  LifeTypeInv' /\ (LifeInv => LifeInv')
<1>1. /\ events' \in Seq(LifeEvents) /\ (SleepFirst => SleepFirst')
      /\ ~Awaited(Suspension) => ~Awaited(Suspension)'
  BY LifeDispatched, TailAndOne
<1>2. LifeTypeInv'
  BY <1>1 DEF LifeTypeInv, LifeTypeOK, LifeEvents, ServerInUse
<1>3. LifeInv => LifeInv'
  BY <1>1, SameServer DEF LifeInv
<1> QED BY <1>2, <1>3

LEMMA ClientHandlersKeep ==
  ASSUME LifeTypeInv,
         \/ \E c \in Clients : HandleClientConnected(c) \/ HandleClientDisconnected(c)
         \/ \E s \in ServerIds : HandleServerDisconnected(s)
         \/ ReloadConfig
  PROVE  LifeTypeInv' /\ (LifeInv => LifeInv')
<1> USE DEF ServerInUse, server, clients, program
<1>c. members \subseteq Clients /\ m_oldClients \subseteq Clients
  BY DEF LifeTypeInv, LifeTypeOK
<1>s. /\ Tail(events) \in Seq(LifeEvents) => Tail(events) \o <<>> = Tail(events)
      /\ events # <<>> => Tail(events) \in Seq(LifeEvents)
  BY AppendOne, HeadTail DEF LifeTypeInv, LifeTypeOK, LifeEvents
<1>e. Quitting \in LifeEvents /\ Quitting # Suspension
  BY LifeEventTypes
<1>1. ASSUME NEW c \in Clients, HandleClientConnected(c) PROVE LifeTypeInv' /\ (LifeInv => LifeInv')
  <2>1. /\ Dispatches("Accepted", c) /\ events' = Tail(events)
        /\ members' = members \cup {c} /\ UNCHANGED <<ServerInUse, m_oldClients, m_suspended, main, asked, raised>>
    BY <1>1 DEF HandleClientConnected
  <2>2. events' = Tail(events) \o <<>>
    BY <1>s, <2>1, LifeDispatched
  <2>3. members' \subseteq Clients /\ m_oldClients' \subseteq Clients
    BY <1>c, <2>1
  <2> QED BY <1>e, <2>1, <2>2, <2>3, HandlerKeeps
<1>2. ASSUME NEW c \in Clients, HandleClientDisconnected(c) PROVE LifeTypeInv' /\ (LifeInv => LifeInv')
  <2>1. /\ Dispatches("Gone", c) /\ events' = Tail(events) \o Answer(members', m_oldClients')
        /\ members' = members \ {c} /\ m_oldClients' = m_oldClients \ {c}
        /\ UNCHANGED <<ServerInUse, m_suspended, main, asked, raised>>
    BY <1>2 DEF HandleClientDisconnected
  <2>2. PICK e \in LifeEvents : e # Suspension /\ Answer(members', m_oldClients') \in {<<>>, <<e>>}
    BY AnswerEvents
  <2>3. members' \subseteq Clients /\ m_oldClients' \subseteq Clients
    BY <1>c, <2>1
  <2> QED BY <2>1, <2>2, <2>3, HandlerKeeps
<1>3. ASSUME NEW s \in ServerIds, HandleServerDisconnected(s) PROVE LifeTypeInv' /\ (LifeInv => LifeInv')
  <2>1. PICK more \in {<<>>, <<Quitting>>} :
           /\ Dispatches("ServerDisconnected", s) /\ events' = Tail(events) \o more
           /\ UNCHANGED <<ServerInUse, members, m_oldClients, m_suspended, main, asked, raised>>
    BY <1>3 DEF HandleServerDisconnected, Quitting
  <2> QED BY <1>c, <1>e, <2>1, HandlerKeeps
<1>4. ASSUME ReloadConfig PROVE LifeTypeInv' /\ (LifeInv => LifeInv')
  <2>1. PICK left \in SUBSET members :
           /\ Dispatches("Reload", NoServer) /\ events' = Tail(events)
           /\ members' = members \ left /\ m_oldClients' = m_oldClients \cup left
           /\ UNCHANGED <<ServerInUse, m_suspended, main, asked, raised>>
    BY <1>4 DEF ReloadConfig
  <2>2. events' = Tail(events) \o <<>>
    BY <1>s, <2>1, LifeDispatched
  <2>3. members' \subseteq Clients /\ m_oldClients' \subseteq Clients
    BY <1>c, <2>1
  <2> QED BY <1>e, <2>1, <2>2, <2>3, HandlerKeeps
<1> QED BY <1>1, <1>2, <1>3, <1>4

\* A server is started only when there is none.
LEMMA ResumeKeeps ==
  ASSUME LifeTypeInv, HandleResume
  PROVE  LifeTypeInv' /\ (LifeInv => LifeInv')
<1>1. /\ Dispatches("Resume", NoServer) /\ events' = Tail(events)
      /\ UNCHANGED <<members, m_oldClients, main, asked, closing, raised, fault>>
      /\ \/ UNCHANGED <<m_serverState, m_server, alive, started>>
         \/ /\ m_serverState = "Initialized" /\ started < MaxServers
            /\ m_serverState' = "Started" /\ started' = started + 1 /\ m_server' = started'
            /\ alive' = alive \cup {started'}
      /\ m_suspended' = FALSE \/ m_suspended' = m_suspended
  BY DEF HandleResume, StartServer, server, clients
<1>2. /\ events' \in Seq(LifeEvents) /\ (SleepFirst => SleepFirst')
      /\ ~Awaited(Suspension) => ~Awaited(Suspension)'
  <2>1. events \in Seq(LifeEvents) /\ events # <<>>
    BY <1>1, LifeDispatched
  <2>2. events' = Tail(events) \o <<>> /\ Quitting \in LifeEvents /\ Quitting # Suspension
    BY <1>1, <2>1, AppendOne, HeadTail, LifeEventTypes
  <2> QED BY <2>1, <2>2, TailAndOne
<1>3. m_suspended' \in BOOLEAN
  BY <1>1 DEF LifeTypeInv, LifeTypeOK
<1>4. CASE UNCHANGED <<m_serverState, m_server, alive, started>>
  <2>1. LifeTypeInv'
    BY <1>1, <1>2, <1>3, <1>4 DEF LifeTypeInv, LifeTypeOK, LifeEvents
  <2>2. LifeInv => LifeInv'
    BY <1>1, <1>2, <1>4, SameServer DEF LifeInv, ServerInUse
  <2> QED BY <2>1, <2>2
<1>5. CASE /\ m_serverState = "Initialized" /\ started < MaxServers
           /\ m_serverState' = "Started" /\ started' = started + 1 /\ m_server' = started'
           /\ alive' = alive \cup {started'}
  <2>1. started' \in ServerIds /\ started' # NoServer /\ alive' \subseteq ServerIds
    BY <1>5, LifeEventTypes DEF LifeTypeInv, LifeTypeOK, ServerIds
  <2>2. LifeTypeInv'
    BY <1>1, <1>2, <1>3, <1>5, <2>1 DEF LifeTypeInv, LifeTypeOK, LifeEvents, States
  <2>3. ASSUME LifeInv PROVE LifeInv'
    <3>1. m_server = NoServer /\ alive = {} /\ ~fault /\ closing = <<>>
      BY <1>5, <2>3 DEF LifeInv, OnlyServerAlive, ClosesServer
    <3>2. alive' = {m_server'} /\ m_server' # NoServer /\ m_serverState' = "Started" /\ ~fault' /\ closing' = <<>>
      BY <1>1, <1>5, <2>1, <3>1
    <3> QED BY <1>2, <2>3, <3>2 DEF LifeInv, OnlyServerAlive, ClosesServer
  <2> QED BY <2>2, <2>3
<1> QED BY <1>1, <1>4, <1>5

\* A close begins while none is in progress, and no suspend can come before
\* its loop ends.
LEMMA CloseKeeps ==
  ASSUME LifeTypeInv, NEW t \in {"Suspend", "Quit"}, Dispatches(t, NoServer),
         NEW caller \in Callers, CloseServer(caller, Tail(events)),
         m_serverState = "Started", main' \in BOOLEAN,
         UNCHANGED <<m_suspended, asked, raised, fault>>
  PROVE  LifeTypeInv' /\ (LifeInv /\ closing = <<>> => LifeInv')
<1>1. /\ closing' = Append(closing, [server |-> m_server, caller |-> caller])
      /\ members' = {} /\ m_oldClients' = m_oldClients \cup members
      /\ events' = Tail(events) \o Answer(members', m_oldClients')
      /\ UNCHANGED <<m_serverState, m_server, alive, started>>
  BY DEF CloseServer, server
<1>2. PICK e \in LifeEvents : e # Suspension /\ Answer(members', m_oldClients') \in {<<>>, <<e>>}
  BY AnswerEvents
<1>3. Head(events) \in {Suspension, Quitting} /\ events \in Seq(LifeEvents) /\ events # <<>>
  BY LifeDispatched DEF Suspension, Quitting
<1>4. /\ events' \in Seq(LifeEvents) /\ (SleepFirst => SleepFirst')
      /\ SleepFirst => ~Awaited(Suspension)'
  BY <1>1, <1>2, <1>3, TailAndOne
<1>5. m_server \in ServerIds /\ m_server # NoServer
  BY DEF LifeTypeInv, LifeTypeOK
<1>6. closing' \in Seq([server : ServerIds, caller : Callers])
  BY <1>1, <1>5 DEF LifeTypeInv, LifeTypeOK
<1>7. members' \subseteq Clients /\ m_oldClients' \subseteq Clients
  BY <1>1 DEF LifeTypeInv, LifeTypeOK
<1>8. LifeTypeInv'
  BY <1>1, <1>4, <1>6, <1>7 DEF LifeTypeInv, LifeTypeOK, LifeEvents
<1>9. ASSUME LifeInv, closing = <<>> PROVE LifeInv'
  <2> DEFINE frame == [server |-> m_server, caller |-> caller]
  <2>1. frame.server = m_server
    OBVIOUS
  <2>2. closing' = <<frame>>
    BY <1>1, <1>9
  <2> HIDE DEF frame
  <2>3. closing'[1] = frame
    BY <2>2
  <2>4. closing' = <<closing'[1]>> /\ closing'[1].server = m_server'
    BY <1>1, <2>1, <2>2, <2>3
  <2> QED BY <1>1, <1>4, <1>5, <1>9, <2>4 DEF LifeInv, OnlyServerAlive, ClosesServer
<1> QED BY <1>8, <1>9

LEMMA SuspendKeeps ==
  ASSUME LifeTypeInv, HandleSuspend
  PROVE  LifeTypeInv' /\ (LifeInv => LifeInv')
<1>1. Dispatches("Suspend", NoServer) /\ UNCHANGED <<main, asked, raised, fault>>
  BY DEF HandleSuspend
<1>2. events \in Seq(LifeEvents) /\ events # <<>> /\ Head(events) = Suspension
  BY <1>1, LifeDispatched DEF Suspension
<1>3. LifeInv => closing = <<>>
  BY <1>2, AwaitedLess DEF LifeInv, ClosesServer
<1>4. CASE ~m_suspended /\ m_serverState = "Started"
  <2>1. CloseServer("suspend", Tail(events)) /\ UNCHANGED m_suspended
    BY <1>4 DEF HandleSuspend
  <2>2. "suspend" \in Callers /\ main' \in BOOLEAN
    BY <1>1 DEF Callers, LifeTypeInv, LifeTypeOK
  <2>3. LifeTypeInv' /\ (LifeInv /\ closing = <<>> => LifeInv')
    BY <1>1, <1>4, <2>1, <2>2, CloseKeeps
  <2> QED BY <1>3, <2>3
<1>5. CASE ~(~m_suspended /\ m_serverState = "Started")
  <2>1. /\ m_suspended' = TRUE /\ events' = Tail(events)
        /\ UNCHANGED <<ServerInUse, members, m_oldClients>>
    BY <1>1, <1>5 DEF HandleSuspend, server, clients, ServerInUse
  <2>2. events' = Tail(events) \o <<>> /\ Quitting \in LifeEvents /\ Quitting # Suspension
    BY <1>2, <2>1, AppendOne, HeadTail, LifeEventTypes
  <2>3. /\ events' \in Seq(LifeEvents) /\ (SleepFirst => SleepFirst')
        /\ ~Awaited(Suspension) => ~Awaited(Suspension)'
    BY <1>2, <2>2, TailAndOne
  <2>4. m_suspended' \in BOOLEAN
    BY <2>1
  <2>5. LifeTypeInv'
    BY <1>1, <2>1, <2>3, <2>4 DEF LifeTypeInv, LifeTypeOK, LifeEvents, ServerInUse
  <2>6. LifeInv => LifeInv'
    BY <2>1, <2>3, SameServer DEF LifeInv
  <2> QED BY <2>5, <2>6
<1> QED BY <1>4, <1>5

LEMMA EndMainLoopKeeps ==
  ASSUME LifeTypeInv, EndMainLoop
  PROVE  LifeTypeInv' /\ (LifeInv => LifeInv')
<1>1. /\ Dispatches("Quit", NoServer) /\ closing = <<>> /\ main' = FALSE
      /\ UNCHANGED <<m_suspended, asked, raised, fault>>
  BY DEF EndMainLoop
<1>2. events \in Seq(LifeEvents) /\ events # <<>> /\ Head(events) = Quitting
  BY <1>1, LifeDispatched DEF Quitting
<1>3. CASE m_serverState = "Started"
  <2>1. CloseServer("cleanup", Tail(events))
    BY <1>3 DEF EndMainLoop
  <2>2. "cleanup" \in Callers /\ main' \in BOOLEAN
    BY <1>1 DEF Callers
  <2> QED BY <1>1, <1>3, <2>1, <2>2, CloseKeeps
<1>4. CASE m_serverState # "Started"
  <2>1. /\ m_serverState' = "Uninitialized" /\ events' = Tail(events)
        /\ UNCHANGED <<m_server, alive, started, members, m_oldClients, closing>>
    BY <1>4 DEF EndMainLoop, clients
  <2>2. events' = Tail(events) \o <<>> /\ Quitting \in LifeEvents /\ Quitting # Suspension
    BY <1>2, <2>1, AppendOne, HeadTail, LifeEventTypes
  <2>3. events' \in Seq(LifeEvents) /\ (SleepFirst => SleepFirst')
    BY <1>2, <2>2, TailAndOne
  <2>4. main' \in BOOLEAN /\ m_serverState' \in States
    BY <1>1, <2>1 DEF States
  <2>5. LifeTypeInv'
    BY <1>1, <2>1, <2>3, <2>4 DEF LifeTypeInv, LifeTypeOK, LifeEvents
  <2>6. LifeInv => LifeInv'
    BY <1>1, <1>4, <2>1, <2>3 DEF LifeInv, OnlyServerAlive, ClosesServer
  <2> QED BY <2>5, <2>6
<1> QED BY <1>3, <1>4

\* The server that was closed is deleted, and no other one.
LEMMA FinishCloseKeeps ==
  ASSUME LifeTypeInv, FinishClose
  PROVE  LifeTypeInv' /\ (LifeInv => LifeInv')
<1> DEFINE frame == Last(closing)
           K == EventsOf(EventType \ {"Accepted", "Gone"})
<1>1. /\ Dispatches("Quit", NoServer) /\ closing # <<>>
      /\ fault' = (frame.server \notin alive)
      /\ closing' = Front(closing)
      /\ alive' = alive \ {frame.server} /\ m_server' = NoServer
      /\ m_serverState' = (IF frame.caller = "suspend" THEN "Initialized" ELSE "Uninitialized")
      /\ m_suspended' = (m_suspended \/ frame.caller = "suspend")
      /\ members' = {} /\ m_oldClients' = {}
      /\ events' = Kept(Tail(events), K)
      /\ UNCHANGED <<started, main, asked, raised>>
  BY DEF FinishClose
<1>2. fault' \in BOOLEAN /\ m_suspended' \in BOOLEAN
  BY <1>1, Zenon
<1>3. events \in Seq(LifeEvents) /\ events # <<>>
  BY <1>1, LifeDispatched
<1>4. events' = Kept(Tail(events), K)
  <2>1. Kept(Tail(events), K) = Kept(Tail(events), K)
    BY DEF Kept, Kept
  <2> QED BY <1>1, <2>1
<1>5. events' \in Seq(LifeEvents)
  BY <1>3, <1>4, AwaitedLess, KeptType
<1>6. closing' \in Seq([server : ServerIds, caller : Callers])
  <2> DEFINE F == [server : ServerIds, caller : Callers]
  <2>1. closing \in Seq(F) /\ Len(closing) - 1 \in 0 .. Len(closing)
    BY <1>1, EmptySeq, LenProperties DEF LifeTypeInv, LifeTypeOK
  <2>2. closing' = SubSeq(closing, 1, Len(closing) - 1)
    BY <1>1 DEF Front
  <2> HIDE DEF F
  <2>3. SubSeq(closing, 1, Len(closing) - 1) \in Seq(F)
    BY <2>1, SubSeqProperties
  <2> QED BY <2>2, <2>3 DEF F
<1>7. LifeTypeInv'
  <2>1. m_serverState' \in States /\ m_serverState' # "Started"
    BY <1>1 DEF States
  <2>2. /\ started \in ServerIds /\ main \in BOOLEAN /\ asked \in BOOLEAN
        /\ raised \in 0 .. MaxEvents /\ alive \subseteq ServerIds
    BY DEF LifeTypeInv, LifeTypeOK
  <2>3. /\ m_server' \in ServerIds \cup {NoServer} /\ alive' \subseteq ServerIds
        /\ members' \subseteq Clients /\ m_oldClients' \subseteq Clients
        /\ started' \in ServerIds /\ main' \in BOOLEAN /\ asked' \in BOOLEAN
        /\ raised' \in 0 .. MaxEvents
    BY <1>1, <2>2
  <2> QED BY <1>2, <1>5, <1>6, <2>1, <2>3 DEF LifeTypeInv, LifeTypeOK, LifeEvents
<1>8. ASSUME LifeInv PROVE LifeInv'
  <2>1. /\ closing = <<closing[1]>> /\ closing[1].server = m_server /\ m_server # NoServer
        /\ ~Awaited(Suspension) /\ alive = {m_server} /\ ~fault
    BY <1>1, <1>8 DEF LifeInv, ClosesServer, OnlyServerAlive
  <2>2. Len(closing) = 1
    BY <2>1
  <2>3. frame = closing[1]
    BY <2>2 DEF Last
  <2>4. closing' = <<>>
    <3>1. closing' = SubSeq(closing, 1, 0)
      BY <1>1, <2>2 DEF Front
    <3> QED BY <3>1
  <2>5. alive' = {} /\ ~fault' /\ m_server' = NoServer
    BY <1>1, <2>1, <2>3
  <2>6. m_serverState' # "Started"
    BY <1>1
  <2>7. SleepFirst'
    <3>1. \A i \in DOMAIN events' : events'[i] # Suspension
      <4>1. Tail(events) \in Seq(LifeEvents \ {Suspension})
        <5>1. \A i \in DOMAIN Tail(events) : Tail(events)[i] # Suspension
          BY <1>3, <2>1, AwaitedLess
        <5>2. Tail(events) \in Seq(LifeEvents)
          BY <1>3, AwaitedLess
        <5> DEFINE t == Tail(events)
        <5> HIDE DEF t
        <5>3. Len(t) \in Nat /\ t \in [1 .. Len(t) -> LifeEvents] /\ DOMAIN t = 1 .. Len(t)
          BY <5>2, LenProperties DEF t
        <5>4. t \in [1 .. Len(t) -> LifeEvents \ {Suspension}]
          BY <5>1, <5>3 DEF t
        <5> QED BY <5>3, <5>4, SeqDef DEF t
      <4>2. events' \in Seq(LifeEvents \ {Suspension})
        BY <1>4, <4>1, KeptType
      <4> QED BY <4>2, ElementOfSeq, LenProperties
    <3> QED BY <3>1 DEF SleepFirst
  <2> QED BY <2>4, <2>5, <2>6, <2>7 DEF LifeInv, OnlyServerAlive, ClosesServer
<1> QED BY <1>7, <1>8

LEMMA InitLifeInv ==
  ASSUME LifeInit
  PROVE  LifeTypeInv /\ LifeInv
<1>1. 1 \in ServerIds /\ 1 # NoServer /\ 0 \in 0 .. MaxEvents
  BY LifeEventTypes DEF ServerIds
<1>2. /\ m_suspended \in BOOLEAN /\ main \in BOOLEAN /\ asked \in BOOLEAN /\ fault \in BOOLEAN
      /\ ~fault
  BY Zenon DEF LifeInit
<1>3. events = <<>> /\ closing = <<>>
  BY DEF LifeInit
<1>4. events \in Seq(LifeEvents) /\ closing \in Seq([server : ServerIds, caller : Callers])
  BY <1>3
<1>5. LifeTypeInv
  BY <1>1, <1>2, <1>4 DEF LifeInit, LifeTypeInv, LifeTypeOK, States, LifeEvents
<1>6. SleepFirst /\ ClosesServer
  BY <1>3 DEF SleepFirst, ClosesServer
<1> QED BY <1>1, <1>2, <1>5, <1>6 DEF LifeInit, LifeInv, OnlyServerAlive

LEMMA NextLifeInv ==
  ASSUME LifeTypeInv, [LifeNext]_lifeVars
  PROVE  LifeTypeInv' /\ (~SleepsInClose /\ LifeInv => LifeInv')
<1>1. CASE UNCHANGED lifeVars
  BY <1>1 DEF lifeVars, server, clients, program, LifeTypeInv, LifeTypeOK, LifeInv,
     OnlyServerAlive, SleepFirst, ClosesServer, Awaited
<1>2. CASE LifeNext
  BY <1>2, OutsideKeeps, HangUpKeeps, ClientHandlersKeep, ResumeKeeps, SuspendKeeps, EndMainLoopKeeps,
     FinishCloseKeeps DEF LifeNext, Dispatch
<1> QED BY <1>1, <1>2

\* Every variable of the server program keeps its type, whenever the computer sleeps.
THEOREM LifeTypes == LifeSpec => []LifeTypeOK
<1>1. LifeInit => LifeTypeInv
  BY InitLifeInv
<1>2. LifeTypeInv /\ [LifeNext]_lifeVars => LifeTypeInv'
  BY NextLifeInv
<1>3. LifeTypeInv => LifeTypeOK
  BY DEF LifeTypeInv
<1> QED BY <1>1, <1>2, <1>3, PTL DEF LifeSpec

\* If the computer does not go to sleep while a server is closed, every server
\* object that exists is the one in use (ServerApp::stopServer, handleSuspend,
\* handleResume).
THEOREM OnlyServerAliveAlways ==
  ASSUME ~SleepsInClose PROVE LifeSpec => []OnlyServerAlive
<1>1. LifeInit => LifeTypeInv /\ LifeInv
  BY InitLifeInv
<1>2. LifeTypeInv /\ LifeInv /\ [LifeNext]_lifeVars => (LifeTypeInv /\ LifeInv)'
  BY NextLifeInv
<1>3. LifeInv => OnlyServerAlive
  BY DEF LifeInv
<1> QED BY <1>1, <1>2, <1>3, PTL DEF LifeSpec
-----------------------------------------------------------------------------
(* The service.  OneCore alone is not inductive: starting a process is safe  *)
(* only because the watchdog's handle names every core that runs once its    *)
(* loop has begun.                                                           *)

\* Two cores are the same core.
NoTwoCores == \A p, q \in cores : p = q

\* What runs beside a daemon whose main loop has begun is what it has started.
HandleNamesCore == up /\ loop # "start" => cores \subseteq {m_process}

CoreInv == NoTwoCores /\ HandleNamesCore

LEMMA InitCoreInv == ServiceInit => CoreInv
  BY DEF ServiceInit, WatchdogInit, CoreInv, NoTwoCores, HandleNamesCore

\* A step of the main loop keeps the invariant.
LEMMA MainLoopCoreInv ==
  ASSUME CoreInv, MainLoop
  PROVE  CoreInv'
<1> USE DEF CoreInv, NoTwoCores, HandleNamesCore
<1>1. CASE BeginLoop
  BY <1>1 DEF BeginLoop
<1>2. CASE EndLoop
  BY <1>2 DEF EndLoop
<1>3. CASE StartProcess
  <2>1. cores \ {m_process} = {}
    BY <1>3 DEF StartProcess, Pass
  <2>2. cores' = {} \/ cores' = {m_process'}
    BY <1>3, <2>1 DEF StartProcess
  <2> QED BY <2>2
<1>4. CASE ProcessStarted
  <2>1. cores \subseteq {m_process} /\ cores' = cores /\ up' = up /\ loop' = "sleep"
    BY <1>4 DEF ProcessStarted
  <2>2. m_process \in cores => m_process' = m_process
    BY <1>4 DEF ProcessStarted
  <2>3. m_process \notin cores => cores = {}
    BY <2>1
  <2> QED BY <2>1, <2>2, <2>3
<1>5. CASE StartDue
  BY <1>5 DEF StartDue, world
<1>6. CASE FindsNotRunning
  BY <1>6 DEF FindsNotRunning, world
<1>7. CASE StopProcess
  BY <1>7 DEF StopProcess
<1> QED BY <1>1, <1>2, <1>3, <1>4, <1>5, <1>6, <1>7 DEF MainLoop

\* So does every step of the user, of the connection, of the daemon and of the world.
LEMMA NextCoreInv ==
  ASSUME CoreInv, [ServiceNext]_serviceVars
  PROVE  CoreInv'
<1> DEFINE Same == UNCHANGED <<cores, up, loop, m_process>>
<1>1. ASSUME Same PROVE CoreInv'
  BY <1>1 DEF CoreInv, NoTwoCores, HandleNamesCore
<1>2. CASE UNCHANGED serviceVars
  <2>1. Same
    BY <1>2 DEF serviceVars, watchdog, world
  <2> QED BY <2>1, <1>1
<1>3. CASE Start \/ Stop \/ Restart
  <2>1. Same
    BY <1>3 DEF Start, Stop, Restart, Asks, watchdog, world
  <2> QED BY <2>1, <1>1
<1>4. CASE \/ SlotIsCalled \/ Connected \/ ConnectionFailed
           \/ HandleDisconnected \/ RetryDaemon
  <2>1. Same
    BY <1>4 DEF SlotIsCalled, Connected, ConnectionFailed,
                HandleDisconnected, RetryDaemon, watchdog, world
  <2> QED BY <2>1, <1>1
<1>5. CASE ProcessCommand
  <2>1. SetConfigFile \/ ApplyWatchdogCommand \/ ClearWatchdogCommand
    BY <1>5 DEF ProcessCommand
  <2>2. Same
    BY <2>1 DEF SetConfigFile, ApplyWatchdogCommand, ClearWatchdogCommand,
                SetProcessConfig, watchdog, world
  <2> QED BY <2>2, <1>1
<1>6. CASE DaemonGone
  BY <1>6 DEF DaemonGone, DaemonDies, watchdog, CoreInv, NoTwoCores, HandleNamesCore
<1>7. CASE Service
  <2>1. CASE MainLoop
    BY <2>1, MainLoopCoreInv
  <2>2. CASE CoreExits
    BY <2>2 DEF CoreExits, watchdog, CoreInv, NoTwoCores, HandleNamesCore
  <2>3. CASE SessionChanges \/ StopService
    <3>1. Same
      BY <2>3 DEF SessionChanges, StopService
    <3> QED BY <3>1, <1>1
  <2>4. CASE Boot
    BY <2>4 DEF Boot, CoreInv, NoTwoCores, HandleNamesCore
  <2> QED BY <1>7, <2>1, <2>2, <2>3, <2>4 DEF Service
<1> QED BY <1>2, <1>3, <1>4, <1>5, <1>6, <1>7 DEF ServiceNext

LEMMA CoreInvOneCore == CoreInv => OneCore
<1> SUFFICES ASSUME CoreInv PROVE OneCore
  OBVIOUS
<1>0. Cardinality(cores) = Cardinality(cores)
  BY DEF Cardinality, Cardinality
<1>1. CASE cores = {}
  <2>1. Cardinality(cores) = 0
    BY <1>1, FS_EmptySet
  <2> QED BY <1>0, <2>1 DEF OneCore
<1>2. CASE cores # {}
  <2>1. PICK p \in cores : TRUE
    BY <1>2
  <2>2. cores = {p}
    BY <2>1 DEF CoreInv, NoTwoCores
  <2>3. Cardinality(cores) = 1
    BY <2>2, FS_Singleton
  <2> QED BY <1>0, <2>3 DEF OneCore
<1> QED BY <1>1, <1>2

\* Never do two core processes run (MSWindowsWatchdog::startProcess and
\* shutdownExistingProcesses), whatever fails and however often the daemon ends.
THEOREM OneCoreAlways == ServiceFairSpec => []OneCore
<1>1. ServiceInit => CoreInv
  BY InitCoreInv
<1>2. CoreInv /\ [ServiceNext]_serviceVars => CoreInv'
  BY NextCoreInv
<1>3. CoreInv => OneCore
  BY CoreInvOneCore
<1> QED BY <1>1, <1>2, <1>3, PTL DEF ServiceFairSpec

-----------------------------------------------------------------------------
(* The keys that a client types.  Moving the modifiers, typing the button   *)
(* and moving them back is one sequence of keystrokes; what it does to the  *)
(* buttons that are down is followed stroke by stroke, and compared with    *)
(* what KeyState believes.                                                  *)

\* The modifier of a button, and what m_activeModifiers should be.
Gen(b) == PollActiveModifiers({b})
ActiveOf(down) == {a \in Mods \X Buttons : a[2] \in down /\ a[1] \in Gen(a[2])}

-----------------------------------------------------------------------------
(* Items, buttons and modifiers *)

LEMMA ItemFacts ==
  /\ \A item \in Items : /\ item.button \in Buttons /\ item.generates \subseteq Mods
                         /\ item.required \subseteq item.sensitive /\ item.sensitive \subseteq Mods
                         /\ item.generates # {} => item.sensitive = {}
  /\ \A n \in 1 .. Len(Modifiers) : Modifiers[n] \in Mods
  /\ \A m \in Mods : \E n \in 1 .. Len(Modifiers) : Modifiers[n] = m
  /\ Len(Modifiers) \in Nat /\ Null \notin Buttons
<1>1. \A item \in Items : item.button \in Buttons
  BY DEF Buttons
<1>2. DOMAIN Modifiers = 1 .. Len(Modifiers) /\ Len(Modifiers) \in Nat
  BY KeyStateAssumption, LenProperties
<1>3. \A m \in Mods : \E n \in 1 .. Len(Modifiers) : Modifiers[n] = m
  BY <1>2 DEF Mods, Range
<1>4. \A n \in 1 .. Len(Modifiers) : Modifiers[n] \in Mods
  BY <1>2 DEF Mods, Range
<1> QED BY <1>1, <1>2, <1>3, <1>4, KeyStateAssumption

LEMMA GenOfItem ==
  ASSUME NEW item \in Items
  PROVE  Gen(item.button) = item.generates
<1>1. Gen(item.button) = {m \in Mods : \E i \in Items : i.generates = {m} /\ i.button = item.button}
  BY KeyStateAssumption DEF Gen, PollActiveModifiers
<1>2. \A i \in Items : i.button = item.button => i.generates = item.generates
  BY KeyStateAssumption
<1>3. Gen(item.button) = {m \in Mods : item.generates = {m}}
  BY <1>1, <1>2
<1>4. item.generates = {} \/ \E m \in Mods : item.generates = {m}
  BY KeyStateAssumption
<1> QED BY <1>3, <1>4

\* A button is that of one modifier at most.
LEMMA GenOne ==
  ASSUME NEW b \in Buttons
  PROVE  /\ Gen(b) \subseteq Mods
         /\ \A m, n \in Gen(b) : m = n
<1>1. PICK item \in Items : b = item.button
  BY DEF Buttons
<1>2. Gen(b) = item.generates
  BY <1>1, GenOfItem
<1>3. item.generates = {} \/ \E m \in Mods : item.generates = {m}
  BY KeyStateAssumption
<1> QED BY <1>2, <1>3

\* What is polled is what the single buttons generate.
LEMMA PollBy ==
  ASSUME NEW down
  PROVE  /\ PollActiveModifiers(down) \subseteq Mods
         /\ \A m : m \in PollActiveModifiers(down) <=> \E b \in down \cap Buttons : m \in Gen(b)
<1>1. \A m \in Mods : \A b : m \in Gen(b) <=> \E i \in Range(m_modifierKeys[m]) : i.button = b
  BY DEF Gen, PollActiveModifiers
<1>2. \A m \in Mods : \A i \in Range(m_modifierKeys[m]) : i.button \in Buttons
  BY KeyStateAssumption, ItemFacts
<1>3. \A b : Gen(b) \subseteq Mods
  BY DEF Gen, PollActiveModifiers
<1> QED BY <1>1, <1>2, <1>3 DEF PollActiveModifiers

LEMMA ActiveBy ==
  ASSUME NEW down \in SUBSET Buttons
  PROVE  /\ ActiveOf(down) \subseteq Mods \X Buttons
         /\ \A m, b : <<m, b>> \in ActiveOf(down) <=> b \in down /\ m \in Gen(b)
         /\ PollActiveModifiers(down) = ModsOf(ActiveOf(down))
         /\ ButtonsOf(ActiveOf(down)) = {b \in down : Gen(b) # {}}
<1>1. \A m, b : b \in down /\ m \in Gen(b) => <<m, b>> \in Mods \X Buttons
  BY GenOne
<1>2. \A m, b : <<m, b>> \in ActiveOf(down) <=> b \in down /\ m \in Gen(b)
  BY <1>1 DEF ActiveOf
<1>3. \A a \in ActiveOf(down) : a = <<a[1], a[2]>> /\ a[2] \in down /\ a[1] \in Gen(a[2])
  BY DEF ActiveOf
<1>4. \A m : m \in ModsOf(ActiveOf(down)) <=> \E b \in down : m \in Gen(b)
  <2>1. ASSUME NEW m, NEW b \in down, m \in Gen(b) PROVE m \in ModsOf(ActiveOf(down))
    <3>1. <<m, b>> \in ActiveOf(down) /\ <<m, b>>[1] = m
      BY <2>1, <1>2
    <3> QED BY <3>1 DEF ModsOf
  <2> QED BY <2>1, <1>3 DEF ModsOf
<1>5. ASSUME NEW b \in down, NEW m \in Gen(b) PROVE b \in ButtonsOf(ActiveOf(down))
  <2>1. <<m, b>> \in ActiveOf(down) /\ <<m, b>>[2] = b
    BY <1>2
  <2> QED BY <2>1 DEF ButtonsOf
<1>6. ButtonsOf(ActiveOf(down)) = {b \in down : Gen(b) # {}}
  BY <1>3, <1>5 DEF ButtonsOf
<1>7. PollActiveModifiers(down) = ModsOf(ActiveOf(down))
  <2>1. down \cap Buttons = down
    OBVIOUS
  <2> QED BY <1>4, <2>1, PollBy
<1>8. ActiveOf(down) \subseteq Mods \X Buttons
  BY DEF ActiveOf
<1> QED BY <1>2, <1>6, <1>7, <1>8

\* The buttons of modifiers in active, which is a set of pairs.
LEMMA PairParts ==
  ASSUME NEW active \in SUBSET (Mods \X Buttons)
  PROVE  /\ ButtonsOf(active) \subseteq Buttons /\ ModsOf(active) \subseteq Mods
         /\ IsFiniteSet(ButtonsOf(active))
         /\ \A b : b \in ButtonsOf(active) <=> \E a \in active : a[2] = b
         /\ \A m : m \in ModsOf(active) <=> \E a \in active : a[1] = m
         /\ \A a \in active : a = <<a[1], a[2]>> /\ a[1] \in Mods /\ a[2] \in Buttons
<1>1. \A a \in active : a = <<a[1], a[2]>> /\ a[1] \in Mods /\ a[2] \in Buttons
  OBVIOUS
<1>2. ButtonsOf(active) \subseteq Buttons /\ ModsOf(active) \subseteq Mods
  BY <1>1 DEF ButtonsOf, ModsOf
<1>3. IsFiniteSet(ButtonsOf(active))
  BY <1>2, FS_Subset, KeyStateAssumption
<1> QED BY <1>1, <1>2, <1>3 DEF ButtonsOf, ModsOf

-----------------------------------------------------------------------------
(* Keystrokes *)

Stroke == [button : Buttons, press : BOOLEAN, repeat : BOOLEAN]
Typed == [id : DOMAIN Layout, mask : SUBSET Mods, button : Buttons, mods : SUBSET Mods]
Sys == [down : SUBSET Buttons, out : Typed \cup {Null}]
Sees(down, out) == [down |-> down, out |-> out]
Asked == [id : DOMAIN Layout, mask : SUBSET Mods]

\* What the operating system does with a keystroke, as steps.
Steps(button, wish) == {x \in Sys \X Stroke \X Sys : x[3] = Fake(x[1], x[2], button, wish)}

LEMMA FakeType ==
  ASSUME NEW sys \in Sys, NEW key \in Stroke, NEW button \in Buttons, NEW wish \in Asked
  PROVE  /\ Fake(sys, key, button, wish) \in Sys
         /\ <<sys, key, Fake(sys, key, button, wish)>> \in Steps(button, wish)
<1>1. PollActiveModifiers(sys.down \ {button}) \subseteq Mods
  BY PollBy
<1>2. Fake(sys, key, button, wish) \in Sys
  BY <1>1 DEF Fake, Sys, Stroke, Typed, Asked
<1> DEFINE new == Fake(sys, key, button, wish)
<1> HIDE DEF new
<1>3. new \in Sys /\ new = Fake(sys, key, button, wish)
  BY <1>2 DEF new
<1>4. <<sys, key, new>> \in Steps(button, wish)
  BY <1>3 DEF Steps
<1> QED BY <1>3, <1>4

LEMMA StepFakes ==
  ASSUME NEW button, NEW wish, NEW p, NEW key, NEW q, <<p, key, q>> \in Steps(button, wish)
  PROVE  q = Fake(p, key, button, wish) /\ p \in Sys /\ key \in Stroke /\ q \in Sys
BY DEF Steps

\* Any keystrokes lead somewhere, and to one place only.
LEMMA StrokesLead ==
  ASSUME NEW keys \in Seq(Stroke), NEW p \in Sys, NEW button \in Buttons, NEW wish \in Asked
  PROVE  \E q \in Sys : Leads(Steps(button, wish), keys, p, q)
<1> DEFINE pass == [x \in (1 .. Len(keys)) \X Sys |-> Fake(x[2], keys[x[1]], button, wish)]
<1>1. Len(keys) \in Nat /\ \A n \in 1 .. Len(keys) : keys[n] \in Stroke
  BY LenProperties, ElementOfSeq
<1>2. pass \in [(1 .. Len(keys)) \X Sys -> Sys]
  BY <1>1, FakeType
<1>3. PICK f : IsLoop(f, Sys, p, Len(keys), pass)
  BY <1>1, <1>2, LoopExists
<1>4. \A n \in 1 .. Len(keys) : <<f[n - 1], keys[n], f[n]>> \in Steps(button, wish)
  <2> SUFFICES ASSUME NEW n \in 1 .. Len(keys)
               PROVE  <<f[n - 1], keys[n], f[n]>> \in Steps(button, wish)
    OBVIOUS
  <2>1. n - 1 \in 0 .. Len(keys) /\ n \in 0 .. Len(keys)
    BY <1>1
  <2>2. f[n - 1] \in Sys /\ f[n] \in Sys /\ f[n] = pass[<<n, f[n - 1]>>]
    <3> HIDE DEF pass
    <3> QED BY <2>1, <1>3 DEF IsLoop
  <2>3. f[n] = Fake(f[n - 1], keys[n], button, wish)
    BY <2>2
  <2> QED BY <1>1, <2>2, <2>3, FakeType
<1>5. f[Len(keys)] \in Sys /\ f[0] = p /\ DOMAIN f = 0 .. Len(keys)
  BY <1>1, <1>3 DEF IsLoop
<1> QED BY <1>4, <1>5 DEF Leads

\* The function by which FakeKeys follows the keystrokes is what they lead to.
LEMMA FakeKeysLead ==
  ASSUME NEW keys \in Seq(Stroke), NEW button, NEW wish,
         NEW q, Leads(Steps(button, wish), keys, Sees(pressed, typed), q),
         FakeKeys(keys, button, wish)
  PROVE  pressed' = q.down /\ typed' = q.out
<1> DEFINE N == Len(keys)
           p == Sees(pressed, typed)
           Body(f) == [n \in 0 .. N |-> IF n = 0 THEN p ELSE Fake(f[n - 1], keys[n], button, wish)]
           sys == CHOOSE f : f = Body(f)
<1>1. pressed' = sys[N].down /\ typed' = sys[N].out
  BY DEF FakeKeys, Sees
<1>2. N \in Nat
  BY LenProperties
<1>3. PICK f : /\ DOMAIN f = 0 .. N /\ f[0] = p /\ f[N] = q
               /\ \A n \in 1 .. N : <<f[n - 1], keys[n], f[n]>> \in Steps(button, wish)
  BY DEF Leads
<1> HIDE DEF N, p
<1>4. \A n \in 1 .. N : f[n] = Fake(f[n - 1], keys[n], button, wish)
  BY <1>3, StepFakes
<1> DEFINE g == [n \in 0 .. N |-> f[n]]
<1>5. \A n \in 0 .. N : g[n] = f[n]
  OBVIOUS
<1>6. \A n \in 0 .. N : n # 0 => n - 1 \in 0 .. N /\ n \in 1 .. N
  BY <1>2
<1>7. \A n \in 0 .. N : g[n] = IF n = 0 THEN p ELSE Fake(g[n - 1], keys[n], button, wish)
  <2> HIDE DEF g
  <2> QED BY <1>3, <1>4, <1>5, <1>6
<1>8. g = Body(g)
  BY <1>7
<1>9. sys = Body(sys)
  <2> HIDE DEF g, Body
  <2> QED BY <1>8
<1>10. \A n \in 0 .. N : sys[n] = IF n = 0 THEN p ELSE Fake(sys[n - 1], keys[n], button, wish)
  <2> HIDE DEF sys
  <2> QED BY <1>9
<1> HIDE DEF sys, g
<1> DEFINE other == [n \in 0 .. N |-> IF sys[n] = f[n] THEN 0 ELSE 1]
           Zero == {0}
<1>11. \A n \in 0 .. N : other[n] \in Zero <=> sys[n] = f[n]
  OBVIOUS
<1> HIDE DEF other, Zero
<1>12. sys[0] = f[0] /\ 0 \in 0 .. N /\ N \in 0 .. N
  BY <1>2, <1>3, <1>10
<1>13. ASSUME NEW n \in 1 .. N, sys[n - 1] = f[n - 1] PROVE sys[n] = f[n]
  <2>1. n \in 0 .. N /\ n # 0
    BY <1>2
  <2> QED BY <2>1, <1>4, <1>10, <1>13
<1>14. \A n \in 1 .. N : other[n - 1] \in Zero => other[n] \in Zero
  <2>1. \A n \in 1 .. N : n - 1 \in 0 .. N /\ n \in 0 .. N
    BY <1>2
  <2> QED BY <2>1, <1>11, <1>13
<1>15. \A n \in 0 .. N : other[n] \in Zero
  <2>1. other[0] \in Zero
    BY <1>11, <1>12
  <2> QED BY <1>2, <2>1, <1>14, LoopInvariant
<1>16. sys[N] = q
  BY <1>3, <1>11, <1>12, <1>15
<1> QED BY <1>1, <1>16

\* One keystroke.
LEMMA OneStroke ==
  ASSUME NEW button \in Buttons, NEW wish \in Asked, NEW p \in Sys, NEW key \in Stroke
  PROVE  /\ <<key>> \in Seq(Stroke)
         /\ Leads(Steps(button, wish), <<key>>, p, Fake(p, key, button, wish))
<1>1. <<p, key, Fake(p, key, button, wish)>> \in Steps(button, wish)
  BY FakeType
<1>2. <<key>> \in Seq(Stroke)
  OBVIOUS
<1> HIDE DEF Steps
<1> QED BY <1>1, <1>2, LeadsOne

\* The strokes for a set of buttons, in whatever order.
LEMMA SetToSeqOf ==
  ASSUME NEW K, IsFiniteSet(K)
  PROVE  /\ SetToSeq(K) \in Seq(K)
         /\ \A x \in K : \E i \in 1 .. Len(SetToSeq(K)) : SetToSeq(K)[i] = x
<1> DEFINE N == Cardinality(K)
           q == SetToSeq(K)
<1>1. N \in Nat /\ ExistsBijection(1 .. N, K)
  BY FS_CardinalityType
<1>2. PICK f : f \in Bijection(1 .. N, K)
  BY <1>1 DEF ExistsBijection
<1>3. f \in [1 .. N -> K] /\ IsInjective(f)
  BY <1>2 DEF Bijection, Injection
<1>4. q \in [1 .. N -> K] /\ IsInjective(q)
  BY <1>3 DEF SetToSeq
<1>5. q \in Injection(1 .. N, K)
  BY <1>4 DEF Injection
<1>6. IsFiniteSet(1 .. N) /\ Cardinality(1 .. N) = N
  BY <1>1, FS_Interval
<1> HIDE DEF q
<1>7. q \in Surjection(1 .. N, K)
  BY <1>5, <1>6, FS_Injection
<1>8. q \in Seq(K) /\ Len(q) = N
  BY <1>1, <1>4
<1> QED BY <1>7, <1>8 DEF Surjection, q

LEMMA StrokesOf ==
  ASSUME NEW T \in SUBSET Buttons, NEW press \in BOOLEAN
  PROVE  /\ Strokes(T, press) \in Seq(Stroke)
         /\ \A i \in 1 .. Len(Strokes(T, press)) :
                /\ Strokes(T, press)[i] \in Stroke /\ Strokes(T, press)[i].press = press
                /\ Strokes(T, press)[i].button \in T
         /\ \A b \in T : \E i \in 1 .. Len(Strokes(T, press)) : Strokes(T, press)[i].button = b
<1> DEFINE K == {Keystroke(b, press, FALSE) : b \in T}
           of == [b \in T |-> Keystroke(b, press, FALSE)]
<1>1. \A k \in K : k \in Stroke /\ k.press = press /\ k.button \in T
  <2>1. \A b \in Buttons : Keystroke(b, press, FALSE) \in Stroke
    BY DEF Keystroke, Stroke
  <2>2. \A b \in T : Keystroke(b, press, FALSE).press = press /\ Keystroke(b, press, FALSE).button = b
    BY DEF Keystroke
  <2> QED BY <2>1, <2>2
<1>2. \A b \in T : Keystroke(b, press, FALSE) \in K /\ Keystroke(b, press, FALSE).button = b
  BY DEF Keystroke
<1>3. IsFiniteSet(T)
  BY FS_Subset, KeyStateAssumption
<1>4. of \in Surjection(T, K)
  BY DEF Surjection
<1>5. IsFiniteSet(K)
  BY <1>3, <1>4, FS_Surjection
<1>6. Strokes(T, press) = SetToSeq(K)
  BY DEF Strokes
<1> HIDE DEF K, of
<1> DEFINE q == SetToSeq(K)
<1>7. q \in Seq(K) /\ \A x \in K : \E i \in 1 .. Len(q) : q[i] = x
  BY <1>5, SetToSeqOf
<1>8. q \in Seq(Stroke) /\ \A i \in 1 .. Len(q) : q[i] \in K
  <2> HIDE DEF q
  <2>1. \A i \in 1 .. Len(q) : q[i] \in K
    BY <1>7, LenProperties, ElementOfSeq
  <2>2. q \in Seq(Stroke)
    BY <1>1, <1>7
  <2> QED BY <2>1, <2>2
<1> HIDE DEF q
<1>9. \A b \in T : \E i \in 1 .. Len(q) : q[i].button = b
  BY <1>2, <1>7
<1>10. Strokes(T, press) = q
  BY <1>6 DEF q
<1> QED BY <1>1, <1>8, <1>9, <1>10

\* They press or release exactly these buttons, and type nothing.
LEMMA StrokesPlay ==
  ASSUME NEW T \in SUBSET Buttons, NEW press \in BOOLEAN, NEW button \in Buttons \ T,
         NEW wish \in Asked, NEW p \in Sys
  PROVE  Leads(Steps(button, wish), Strokes(T, press), p,
               Sees(IF press THEN p.down \cup T ELSE p.down \ T, p.out))
<1> DEFINE q == Strokes(T, press)
           N == Len(q)
           Upto(n) == {q[i].button : i \in 1 .. n}
           At(n) == Sees(IF press THEN p.down \cup Upto(n) ELSE p.down \ Upto(n), p.out)
           f == [n \in 0 .. N |-> At(n)]
<1>1. /\ N \in Nat
      /\ \A i \in 1 .. N : q[i] \in Stroke /\ q[i].press = press /\ q[i].button \in T
      /\ \A b \in T : \E i \in 1 .. N : q[i].button = b
  BY StrokesOf, LenProperties
<1> HIDE DEF q
<1>2. p = Sees(p.down, p.out) /\ p.down \subseteq Buttons /\ p.out \in Typed \cup {Null}
  BY DEF Sys, Sees
<1>3. f[0] = p
  <2>1. Upto(0) = {} /\ 0 \in 0 .. N
    BY <1>1
  <2>2. f[0] = At(0) /\ At(0) = Sees(p.down, p.out)
    BY <2>1
  <2> QED BY <2>2, <1>2
<1>4. Upto(N) = T
  BY <1>1
<1>5. f[N] = Sees(IF press THEN p.down \cup T ELSE p.down \ T, p.out)
  <2>1. N \in 0 .. N
    BY <1>1
  <2>2. f[N] = At(N)
    BY <2>1
  <2> QED BY <2>2, <1>4
<1>6. \A n \in 1 .. N : <<f[n - 1], q[n], f[n]>> \in Steps(button, wish)
  <2> SUFFICES ASSUME NEW n \in 1 .. N PROVE <<f[n - 1], q[n], f[n]>> \in Steps(button, wish)
    OBVIOUS
  <2>1. n - 1 \in 0 .. N /\ n \in 0 .. N /\ 1 .. n = (1 .. n - 1) \cup {n}
    BY <1>1
  <2>2. Upto(n) = Upto(n - 1) \cup {q[n].button}
    <3>1. \A i \in 1 .. n : i \in 1 .. n - 1 \/ i = n
      BY <2>1
    <3>2. \A i \in (1 .. n - 1) \cup {n} : i \in 1 .. n
      BY <2>1
    <3> QED BY <3>1, <3>2
  <2>3. f[n - 1] = At(n - 1) /\ f[n] = At(n)
    BY <2>1
  <2>4. \A i \in 1 .. n - 1 : i \in 1 .. N
    BY <1>1
  <2>5. Upto(n - 1) \subseteq Buttons /\ q[n].button \in Buttons /\ q[n].button # button
        /\ q[n].press = press /\ q[n] \in Stroke
    BY <1>1, <2>4
  <2> HIDE DEF Upto
  <2>6. At(n - 1) \in Sys
    BY <1>2, <2>5 DEF Sys, Sees
  <2>7. Fake(At(n - 1), q[n], button, wish) = At(n)
    BY <2>2, <2>5 DEF Fake, Sees
  <2> HIDE DEF f, At
  <2> QED BY <2>3, <2>5, <2>6, <2>7, FakeType
<1>7. DOMAIN f = 0 .. N
  OBVIOUS
<1> HIDE DEF f, At
<1>8. Leads(Steps(button, wish), q, p, Sees(IF press THEN p.down \cup T ELSE p.down \ T, p.out))
  BY <1>3, <1>5, <1>6, <1>7 DEF Leads
<1> QED BY <1>8 DEF q

-----------------------------------------------------------------------------
(* A mapping in progress *)

MapSet == [keys : Seq(Stroke), active : SUBSET (Mods \X Buttons), state : SUBSET Mods,
           button : Buttons \cup {Null}, found : BOOLEAN]

\* What the mapping believes is true while the buttons in down are down: of
\* these at most, and, when it was exact at first, of all of them.
Fits(active, state, down, exact) ==
  /\ active \subseteq ActiveOf(down)
  /\ exact => active = ActiveOf(down) /\ state = ModsOf(active)

\* The keystrokes so far press and release modifiers but not the button; a
\* button that they leave pressed is known to the mapping.
Leaves(x, down, button, wish, exact) ==
  /\ Leads(Steps(button, wish), x.keys, Sees(pressed, typed), Sees(down, typed))
  /\ Fits(x.active, x.state, down, exact)
  /\ \A b \in down \ pressed : b \in ButtonsOf(x.active)
  /\ \A b \in Buttons : b = button \/ Gen(b) = {} => (b \in down <=> b \in pressed)

OnlyMods(keys, button) ==
  \A i \in 1 .. Len(keys) : keys[i].button # button /\ Gen(keys[i].button) # {}

Moves(x, button, wish, exact) ==
  /\ OnlyMods(x.keys, button)
  /\ \E down \in SUBSET Buttons : Leaves(x, down, button, wish, exact)

LEMMA OnlyModsConcat ==
  ASSUME NEW s \in Seq(Stroke), NEW t \in Seq(Stroke), NEW button,
         OnlyMods(s, button), OnlyMods(t, button)
  PROVE  s \o t \in Seq(Stroke) /\ OnlyMods(s \o t, button)
<1>1. /\ s \o t \in Seq(Stroke) /\ Len(s \o t) = Len(s) + Len(t) /\ Len(s) \in Nat /\ Len(t) \in Nat
      /\ \A i \in 1 .. Len(s) + Len(t) : (s \o t)[i] = IF i <= Len(s) THEN s[i] ELSE t[i - Len(s)]
  BY ConcatProperties, LenProperties
<1>2. \A i \in 1 .. Len(s) + Len(t) : i \in 1 .. Len(s) \/ (i > Len(s) /\ i - Len(s) \in 1 .. Len(t))
  BY <1>1
<1> QED BY <1>1, <1>2 DEF OnlyMods

LEMMA OnlyModsStrokes ==
  ASSUME NEW T \in SUBSET Buttons, NEW press \in BOOLEAN, NEW button,
         \A b \in T : b # button /\ Gen(b) # {}
  PROVE  OnlyMods(Strokes(T, press), button)
BY StrokesOf DEF OnlyMods

LEMMA SysStart ==
  ASSUME TypeOK
  PROVE  /\ Sees(pressed, typed) \in Sys
         /\ \A down \in SUBSET Buttons : Sees(down, typed) \in Sys
         /\ \A down, out : Sees(down, out).down = down /\ Sees(down, out).out = out
BY DEF TypeOK, Sys, Sees, Typed

\* A modifier button more, or less.
LEMMA ActiveMore ==
  ASSUME NEW down \in SUBSET Buttons, NEW b \in Buttons, NEW m, Gen(b) = {m}
  PROVE  ActiveOf(down \cup {b}) = ActiveOf(down) \cup {<<m, b>>}
<1>1. /\ <<m, b>> \in Mods \X Buttons /\ <<m, b>>[1] = m /\ <<m, b>>[2] = b
  BY GenOne
<1>2. \A a \in Mods \X Buttons : a = <<a[1], a[2]>>
  OBVIOUS
<1>3. <<m, b>> \in ActiveOf(down \cup {b})
  BY <1>1 DEF ActiveOf
<1>4. \A a \in Mods \X Buttons : a[2] = b /\ a[1] \in Gen(a[2]) => a = <<m, b>>
  BY <1>2
<1> QED BY <1>3, <1>4 DEF ActiveOf

LEMMA ModsOfMore ==
  \A active, p : /\ ModsOf(active \cup {p}) = ModsOf(active) \cup {p[1]}
                 /\ ButtonsOf(active \cup {p}) = ButtonsOf(active) \cup {p[2]}
BY DEF ModsOf, ButtonsOf

LEMMA ModifyMoves ==
  ASSUME TypeOK, NEW x \in MapSet, NEW m \in Mods, NEW item \in Items, item.generates = {m},
         NEW button \in Buttons, NEW wish \in Asked, NEW exact, item.button # button
  PROVE  /\ Modify(x, m, item) \in MapSet /\ Modify(x, m, item).found = x.found
         /\ Modify(x, m, item).button = x.button /\ Modify(x, m, item).state = x.state \cup {m}
         /\ Moves(x, button, wish, exact) => Moves(Modify(x, m, item), button, wish, exact)
<1> DEFINE b == item.button
           k == Keystroke(b, TRUE, FALSE)
           y == Modify(x, m, item)
<1>1. b \in Buttons /\ Gen(b) = {m} /\ b # button
  BY ItemFacts, GenOfItem
<1>2. k \in Stroke /\ k.button = b /\ k.press
  BY <1>1 DEF Keystroke, Stroke
<1>3. <<m, b>> \in Mods \X Buttons
  BY <1>1
<1>k. x.keys \in Seq(Stroke) /\ x.active \in SUBSET (Mods \X Buttons)
  BY DEF MapSet
<1>4. /\ Append(x.keys, k) \in Seq(Stroke) /\ Append(x.keys, k) = x.keys \o <<k>>
      /\ <<k>> \in Seq(Stroke)
  <2> HIDE DEF k
  <2>1. /\ Append(x.keys, k) \in Seq(Stroke) /\ x.keys \o <<k>> = Append(x.keys, k)
    BY <1>2, <1>k, AppendOne
  <2>2. <<k>> \in Seq(Stroke)
    BY <1>2
  <2> QED BY <2>1, <2>2
<1>5. /\ y.keys = x.keys \o <<k>> /\ y.active = x.active \cup {<<m, b>>} /\ y.state = x.state \cup {m}
      /\ y.button = x.button /\ y.found = x.found
  BY <1>4 DEF MapSet, Modify
<1>6. y \in MapSet
  BY <1>3, <1>4 DEF MapSet, Modify
<1> HIDE DEF b, k, y
<1>7. ASSUME Moves(x, button, wish, exact) PROVE Moves(y, button, wish, exact)
  <2>1. OnlyMods(<<k>>, button)
    BY <1>1, <1>2 DEF OnlyMods
  <2>2. OnlyMods(y.keys, button)
    <3>1. OnlyMods(x.keys, button)
      BY <1>7 DEF Moves
    <3>2. OnlyMods(x.keys \o <<k>>, button)
      BY <1>k, <1>4, <2>1, <3>1, OnlyModsConcat
    <3> QED BY <1>5, <3>2
  <2>3. PICK down \in SUBSET Buttons : Leaves(x, down, button, wish, exact)
    BY <1>7 DEF Moves
  <2> DEFINE new == down \cup {b}
  <2>4. Leads(Steps(button, wish), y.keys, Sees(pressed, typed), Sees(new, typed))
    <3>1. Fake(Sees(down, typed), k, button, wish) = Sees(new, typed)
      BY <1>1, <1>2 DEF Fake, Sees
    <3>2. Leads(Steps(button, wish), <<k>>, Sees(down, typed), Sees(new, typed))
      BY <1>2, <3>1, OneStroke, SysStart
    <3>3. Leads(Steps(button, wish), x.keys, Sees(pressed, typed), Sees(down, typed))
      BY <2>3 DEF Leaves
    <3>4. Leads(Steps(button, wish), x.keys \o <<k>>, Sees(pressed, typed), Sees(new, typed))
      BY <1>k, <1>4, <3>2, <3>3, LeadsConcat
    <3> QED BY <1>5, <3>4
  <2>5. ActiveOf(new) = ActiveOf(down) \cup {<<m, b>>}
    BY <1>1, ActiveMore
  <2>6. /\ ModsOf(y.active) = ModsOf(x.active) \cup {m}
        /\ ButtonsOf(y.active) = ButtonsOf(x.active) \cup {b}
    <3>1. /\ ModsOf(x.active \cup {<<m, b>>}) = ModsOf(x.active) \cup {m}
          /\ ButtonsOf(x.active \cup {<<m, b>>}) = ButtonsOf(x.active) \cup {b}
      <4> DEFINE pair == <<m, b>>
      <4>1. pair[1] = m /\ pair[2] = b
        OBVIOUS
      <4> HIDE DEF pair
      <4>2. /\ ModsOf(x.active \cup {pair}) = ModsOf(x.active) \cup {pair[1]}
            /\ ButtonsOf(x.active \cup {pair}) = ButtonsOf(x.active) \cup {pair[2]}
        BY ModsOfMore
      <4>3. /\ ModsOf(x.active \cup {pair}) = ModsOf(x.active) \cup {m}
            /\ ButtonsOf(x.active \cup {pair}) = ButtonsOf(x.active) \cup {b}
        BY <4>1, <4>2
      <4> QED BY <4>3 DEF pair
    <3> QED BY <1>5, <3>1
  <2>7. Leaves(y, new, button, wish, exact)
    BY <1>1, <1>5, <2>3, <2>4, <2>5, <2>6 DEF Leaves, Fits
  <2>8. new \in SUBSET Buttons
    BY <1>1
  <2> QED BY <2>2, <2>7, <2>8 DEF Moves
<1> QED BY <1>5, <1>6, <1>7 DEF y

LEMMA UnmodifyMoves ==
  ASSUME TypeOK, NEW x \in MapSet, NEW m \in Mods, NEW button \in Buttons, m \notin Gen(button),
         NEW wish \in Asked, NEW exact
  PROVE  /\ Unmodify(x, m) \in MapSet /\ Unmodify(x, m).found = x.found
         /\ Unmodify(x, m).button = x.button /\ Unmodify(x, m).state = x.state \ {m}
         /\ Moves(x, button, wish, exact) => Moves(Unmodify(x, m), button, wish, exact)
<1> DEFINE gone == {a \in x.active : a[1] = m}
           T == ButtonsOf(gone)
           y == Unmodify(x, m)
<1>1. x.active \in SUBSET (Mods \X Buttons) /\ x.keys \in Seq(Stroke)
  BY DEF MapSet
<1>2. T \in SUBSET Buttons /\ \A b : b \in T <=> \E a \in gone : a[2] = b
  BY <1>1, PairParts
<1>3. Strokes(T, FALSE) \in Seq(Stroke)
  BY <1>2, StrokesOf
<1>4. /\ y.keys = x.keys \o Strokes(T, FALSE) /\ y.active = x.active \ gone /\ y.state = x.state \ {m}
      /\ y.button = x.button /\ y.found = x.found
  BY DEF MapSet, Unmodify
<1>5. y \in MapSet
  <2>1. x.keys \o Strokes(T, FALSE) \in Seq(Stroke)
    BY <1>1, <1>3, ConcatProperties
  <2> HIDE DEF T
  <2>2. y = [x EXCEPT !.keys = @ \o Strokes(T, FALSE), !.active = @ \ gone, !.state = @ \ {m}]
    BY DEF Unmodify, T
  <2> HIDE DEF y
  <2> QED BY <2>1, <2>2 DEF MapSet
<1>6. \A a \in x.active : a = <<a[1], a[2]>> /\ a[1] \in Mods /\ a[2] \in Buttons
  BY <1>1, PairParts
<1>7. \A a \in gone : a[1] = m /\ a \in x.active
  OBVIOUS
<1>8. \A a \in x.active : a[1] = m => a \in gone
  OBVIOUS
<1> HIDE DEF gone, T, y
<1>9. ASSUME Moves(x, button, wish, exact) PROVE Moves(y, button, wish, exact)
  <2>1. PICK down \in SUBSET Buttons : Leaves(x, down, button, wish, exact)
    BY <1>9 DEF Moves
  <2> DEFINE new == down \ T
  <2>2. \A a \in x.active : a[2] \in down /\ a[1] \in Gen(a[2])
    BY <2>1 DEF Leaves, Fits, ActiveOf
  <2>3. \A b \in T : m \in Gen(b) /\ b # button /\ b \in Buttons
    BY <1>2, <1>6, <1>7, <2>2
  <2>4. OnlyMods(y.keys, button)
    <3>1. OnlyMods(Strokes(T, FALSE), button)
      BY <1>2, <2>3, OnlyModsStrokes
    <3>2. OnlyMods(x.keys, button)
      BY <1>9 DEF Moves
    <3>3. OnlyMods(x.keys \o Strokes(T, FALSE), button)
      BY <1>1, <1>3, <3>1, <3>2, OnlyModsConcat
    <3> QED BY <1>4, <3>3
  <2>5. Leads(Steps(button, wish), y.keys, Sees(pressed, typed), Sees(new, typed))
    <3>1. button \in Buttons \ T
      BY <2>3
    <3>2. Leads(Steps(button, wish), Strokes(T, FALSE), Sees(down, typed), Sees(new, typed))
      <4>1. /\ Sees(down, typed) \in Sys /\ Sees(down, typed).down = down
            /\ Sees(down, typed).out = typed
        BY SysStart
      <4>2. Leads(Steps(button, wish), Strokes(T, FALSE), Sees(down, typed),
                  Sees(IF FALSE THEN Sees(down, typed).down \cup T ELSE Sees(down, typed).down \ T,
                       Sees(down, typed).out))
        BY <1>2, <3>1, <4>1, StrokesPlay
      <4> QED BY <4>1, <4>2
    <3>3. Leads(Steps(button, wish), x.keys, Sees(pressed, typed), Sees(down, typed))
      BY <2>1 DEF Leaves
    <3>4. Leads(Steps(button, wish), x.keys \o Strokes(T, FALSE), Sees(pressed, typed), Sees(new, typed))
      BY <1>1, <1>3, <3>2, <3>3, LeadsConcat
    <3> QED BY <1>4, <3>4
  <2>6. \A a \in x.active \ gone : a[2] \notin T
    BY <1>6, <1>8, <2>2, <2>3, GenOne
  <2>7. y.active \subseteq ActiveOf(new)
    <3>1. \A a \in y.active : a \in Mods \X Buttons /\ a[2] \in new /\ a[1] \in Gen(a[2])
      BY <1>1, <1>4, <2>2, <2>6
    <3> QED BY <3>1 DEF ActiveOf
  <2>8. ASSUME exact PROVE y.active = ActiveOf(new) /\ y.state = ModsOf(y.active)
    <3>1. x.active = ActiveOf(down) /\ x.state = ModsOf(x.active)
      BY <2>1, <2>8 DEF Leaves, Fits
    <3>2. ActiveOf(new) \subseteq y.active
      <4>1. \A a \in ActiveOf(new) : a \in ActiveOf(down) /\ a[2] \notin T
        BY DEF ActiveOf
      <4> QED BY <1>2, <1>4, <3>1, <4>1
    <3>3. ModsOf(x.active \ gone) = ModsOf(x.active) \ {m}
      BY <1>7, <1>8 DEF ModsOf
    <3> QED BY <1>4, <2>7, <3>1, <3>2, <3>3
  <2>9. \A b \in new \ pressed : b \in ButtonsOf(y.active)
    <3> SUFFICES ASSUME NEW b \in new, b \notin pressed PROVE b \in ButtonsOf(y.active)
      OBVIOUS
    <3>1. PICK a \in x.active : a[2] = b
      BY <2>1 DEF Leaves, ButtonsOf
    <3>2. a \in y.active
      BY <1>2, <1>4, <3>1
    <3> QED BY <3>1, <3>2 DEF ButtonsOf
  <2>10. \A b \in Buttons : b = button \/ Gen(b) = {} => (b \in new <=> b \in pressed)
    BY <2>1, <2>3 DEF Leaves
  <2>11. Leaves(y, new, button, wish, exact)
    BY <2>5, <2>7, <2>8, <2>9, <2>10 DEF Leaves, Fits
  <2> QED BY <2>4, <2>11 DEF Moves
<1> QED BY <1>4, <1>5, <1>9 DEF y

\* The keys of a modifier that a mapping may use.
LEMMA KeyForModifierItems ==
  ASSUME NEW m \in Mods, NEW button, KeyForModifier(button, m) # <<>>
  PROVE  LET item == Head(KeyForModifier(button, m))
         IN  item \in Items /\ item.generates = {m} /\ item.button # button
<1> DEFINE S == {item \in Items : item.generates = {m}}
           K == {item \in Items : item.button # button}
           s == m_modifierKeys[m]
           kept == Kept(s, K)
<1>1. s \in Seq(Items) /\ Range(s) = S
  BY KeyStateAssumption
<1> HIDE DEF s
<1>2. \A i \in 1 .. Len(s) : s[i] \in S
  <2>1. DOMAIN s = 1 .. Len(s)
    BY <1>1, LenProperties
  <2> HIDE DEF S
  <2> QED BY <1>1, <2>1 DEF Range
<1>3. s \in Seq(S)
  <2> HIDE DEF S
  <2> QED BY <1>1, <1>2
<1>4. kept \in Seq(S \cap K)
  <2> HIDE DEF S, K
  <2> QED BY <1>3, KeptOnly
<1>5. KeyForModifier(button, m) = kept
  BY DEF KeyForModifier, s
<1> HIDE DEF kept
<1>6. Head(kept) \in S \cap K
  <2> HIDE DEF S, K
  <2> QED BY <1>4, <1>5, HeadTail
<1> QED BY <1>5, <1>6

\* A switched modifier is switched, by other buttons than the key's.
Turn(x, button, m, required) == Switch(x, button, m, m \in required)

Turned(x, y, m, button, wish, exact, required) ==
  /\ y \in MapSet /\ y.button = x.button
  /\ y.found => /\ x.found
                /\ y.state = IF m \in required THEN x.state \cup {m} ELSE x.state \ {m}
  /\ Moves(x, button, wish, exact) => Moves(y, button, wish, exact)

LEMMA SwitchMoves ==
  ASSUME TypeOK, NEW x \in MapSet, NEW m \in Mods, NEW button \in Buttons, m \notin Gen(button),
         NEW wish \in Asked, NEW exact, NEW required
  PROVE  Turned(x, Turn(x, button, m, required), m, button, wish, exact, required)
<1> DEFINE y == Turn(x, button, m, required)
           keys == KeyForModifier(button, m)
           item == Head(keys)
<1>1. CASE ~x.found
  BY <1>1 DEF Switch, Turn, Turned
<1>2. CASE x.found /\ keys = <<>>
  <2>1. y = [x EXCEPT !.found = FALSE]
    BY <1>2 DEF Switch, Turn
  <2>2. /\ y \in MapSet /\ y.button = x.button /\ ~y.found
        /\ y.keys = x.keys /\ y.active = x.active /\ y.state = x.state
    BY <2>1 DEF MapSet
  <2> HIDE DEF y
  <2>3. Moves(x, button, wish, exact) => Moves(y, button, wish, exact)
    BY <2>2 DEF Moves, Leaves
  <2> QED BY <1>2, <2>2, <2>3 DEF y, Turned
<1>3. CASE x.found /\ keys # <<>>
  <2>1. item \in Items /\ item.generates = {m} /\ item.button # button
    BY <1>3, KeyForModifierItems
  <2>2. y = IF m \in required THEN Modify(x, m, item) ELSE Unmodify(x, m)
    BY <1>3 DEF Switch, Turn
  <2> HIDE DEF y, item, keys
  <2>3. CASE m \in required
    <3>1. /\ y \in MapSet /\ y.found = x.found /\ y.button = x.button /\ y.state = x.state \cup {m}
          /\ Moves(x, button, wish, exact) => Moves(y, button, wish, exact)
      BY <2>1, <2>2, <2>3, ModifyMoves
    <3> QED BY <1>3, <3>1, <2>3 DEF y, Turned
  <2>4. CASE m \notin required
    <3>1. /\ y \in MapSet /\ y.found = x.found /\ y.button = x.button /\ y.state = x.state \ {m}
          /\ Moves(x, button, wish, exact) => Moves(y, button, wish, exact)
      BY <2>2, <2>4, UnmodifyMoves
    <3> QED BY <1>3, <3>1, <2>4 DEF y, Turned
  <2> QED BY <2>3, <2>4
<1> QED BY <1>1, <1>2, <1>3

\* All sensitive modifiers are as required afterwards, the others as before.
Reached(map, y, button, wish, exact, required, sensitive) ==
  /\ y \in MapSet /\ y.button = map.button
  /\ y.found => /\ map.found
                /\ \A m \in Mods : m \in y.state <=> IF m \in sensitive THEN m \in required
                                                     ELSE m \in map.state
  /\ Moves(map, button, wish, exact) => Moves(y, button, wish, exact)

LEMMA StateMoves ==
  ASSUME TypeOK, NEW map \in MapSet, NEW button \in Buttons, NEW wish \in Asked, NEW exact,
         NEW required, NEW sensitive \in SUBSET Mods, sensitive \cap Gen(button) = {}
  PROVE  Reached(map, KeysForModifierState(map, button, required, sensitive), button, wish, exact,
                 required, sensitive)
<1> DEFINE N == Len(Modifiers)
           flip == {m \in sensitive : (m \in map.state) # (m \in required)}
           High(n) == Modifiers[N + 1 - n]
           Next1(x, n) == IF High(n) \in flip
                          THEN Switch(x, button, High(n), High(n) \in required) ELSE x
           Body(f) == [n \in 0 .. N |->
                         IF n = 0 THEN map
                         ELSE IF High(n) \in flip
                              THEN Switch(f[n - 1], button, High(n), High(n) \in required)
                         ELSE f[n - 1]]
           part == CHOOSE f : f = Body(f)
           y == KeysForModifierState(map, button, required, sensitive)
           pass == [p \in (1 .. N) \X MapSet |-> Next1(p[2], p[1])]
<1>1. y = part[N]
  BY DEF KeysForModifierState
<1>2. /\ N \in Nat /\ \A n \in 1 .. N : High(n) \in Mods
      /\ \A m \in Mods : \E n \in 1 .. N : High(n) = m
  <2>1. N \in Nat /\ \A n \in 1 .. N : N + 1 - n \in 1 .. N /\ N + 1 - (N + 1 - n) = n
    BY ItemFacts
  <2> QED BY <2>1, ItemFacts
<1>3. \A m : m \in flip <=> m \in sensitive /\ ~(m \in map.state <=> m \in required)
  OBVIOUS
<1>4. \A m \in flip : m \in Mods /\ m \notin Gen(button)
  OBVIOUS
<1> HIDE DEF High, N, flip
<1>5. \A x \in MapSet, n \in 1 .. N :
        /\ Next1(x, n) \in MapSet /\ Next1(x, n).button = x.button
        /\ Next1(x, n).found => x.found
        /\ High(n) \in flip => (Next1(x, n).found =>
                                  Next1(x, n).state = IF High(n) \in required
                                                      THEN x.state \cup {High(n)}
                                                      ELSE x.state \ {High(n)})
        /\ High(n) \notin flip => Next1(x, n) = x
        /\ Moves(x, button, wish, exact) => Moves(Next1(x, n), button, wish, exact)
  <2> SUFFICES ASSUME NEW x \in MapSet, NEW n \in 1 .. N
               PROVE /\ Next1(x, n) \in MapSet /\ Next1(x, n).button = x.button
                     /\ Next1(x, n).found => x.found
                     /\ High(n) \in flip => (Next1(x, n).found =>
                                               Next1(x, n).state = IF High(n) \in required
                                                                   THEN x.state \cup {High(n)}
                                                                   ELSE x.state \ {High(n)})
                     /\ High(n) \notin flip => Next1(x, n) = x
                     /\ Moves(x, button, wish, exact) => Moves(Next1(x, n), button, wish, exact)
    OBVIOUS
  <2> DEFINE h == High(n)
  <2>1. CASE h \in flip
    <3>1. Next1(x, n) = Turn(x, button, h, required) /\ h \in Mods /\ h \notin Gen(button)
      BY <2>1, <1>4 DEF Turn
    <3> HIDE DEF Next1, h
    <3>2. /\ Next1(x, n) \in MapSet /\ Next1(x, n).button = x.button
          /\ Next1(x, n).found =>
               /\ x.found
               /\ Next1(x, n).state = IF h \in required THEN x.state \cup {h} ELSE x.state \ {h}
          /\ Moves(x, button, wish, exact) => Moves(Next1(x, n), button, wish, exact)
      <4>1. Turned(x, Turn(x, button, h, required), h, button, wish, exact, required)
        BY <3>1, SwitchMoves
      <4> QED BY <3>1, <4>1 DEF Turned
    <3> QED BY <2>1, <3>2 DEF h
  <2>2. CASE h \notin flip
    BY <2>2
  <2> QED BY <2>1, <2>2
<1>6. pass \in [(1 .. N) \X MapSet -> MapSet]
  <2> HIDE DEF Next1
  <2> QED BY <1>5
<1>7. PICK f : IsLoop(f, MapSet, map, N, pass)
  <2> HIDE DEF pass
  <2> QED BY <1>2, <1>6, LoopExists
<1>8. \A n \in 0 .. N : n # 0 => n - 1 \in 0 .. N /\ n \in 1 .. N
  BY <1>2
<1>9. f = Body(f)
  <2>1. f \in [0 .. N -> MapSet] /\ f[0] = map /\ \A n \in 1 .. N : f[n] = pass[<<n, f[n - 1]>>]
    BY <1>7 DEF IsLoop
  <2>2. \A n \in 0 .. N : f[n] = IF n = 0 THEN map ELSE Next1(f[n - 1], n)
    <3> HIDE DEF Next1
    <3> QED BY <2>1, <1>8
  <2> QED BY <2>1, <2>2
<1>10. part = Body(part)
  <2> HIDE DEF Body
  <2> QED BY <1>9
<1>11. \A n \in 0 .. N : part[n] = IF n = 0 THEN map ELSE Next1(part[n - 1], n)
  <2> HIDE DEF part
  <2> QED BY <1>10
<1> HIDE DEF part, Next1, Body, y
<1> DEFINE Done(m, n) == m \in sensitive /\ \E i \in 1 .. n : High(i) = m
           S == {p \in (0 .. N) \X MapSet :
                   /\ p[2].button = map.button
                   /\ Moves(map, button, wish, exact) => Moves(p[2], button, wish, exact)
                   /\ p[2].found => /\ map.found
                                    /\ \A m \in Mods : m \in p[2].state <=>
                                         IF Done(m, p[1]) THEN m \in required ELSE m \in map.state}
           g == [n \in 0 .. N |-> <<n, part[n]>>]
<1>12. part[0] = map /\ 0 \in 0 .. N /\ N \in 0 .. N
  BY <1>2, <1>11
<1>13. g[0] \in S
  <2>1. \A m : ~Done(m, 0)
    OBVIOUS
  <2> HIDE DEF Done
  <2> QED BY <1>12, <2>1
<1>14. ASSUME NEW n \in 1 .. N, g[n - 1] \in S PROVE g[n] \in S
  <2>1. n - 1 \in 0 .. N /\ n \in 0 .. N /\ n # 0
    BY <1>2
  <2> DEFINE x == part[n - 1]
             z == part[n]
             h == High(n)
  <2>2. g[n - 1] = <<n - 1, x>> /\ g[n] = <<n, z>> /\ z = Next1(x, n)
    BY <2>1, <1>11
  <2>3. \A m : Done(m, n) <=> Done(m, n - 1) \/ (m \in sensitive /\ m = h)
    <3>1. \A i \in 1 .. n : i \in 1 .. n - 1 \/ i = n
      BY <1>2
    <3>2. \A i \in 1 .. n - 1 : i \in 1 .. n
      BY <1>2
    <3>3. n \in 1 .. n
      BY <1>2
    <3> QED BY <3>1, <3>2, <3>3
  <2>4. h \in flip <=> h \in sensitive /\ ~(h \in map.state <=> h \in required)
    BY <1>3
  <2> HIDE DEF Done, g, x, z, h
  <2>5. /\ x \in MapSet /\ x.button = map.button
        /\ Moves(map, button, wish, exact) => Moves(x, button, wish, exact)
        /\ x.found => /\ map.found
                      /\ \A m \in Mods : m \in x.state <=>
                           IF Done(m, n - 1) THEN m \in required ELSE m \in map.state
    BY <1>14, <2>2
  <2>6. /\ z \in MapSet /\ z.button = x.button /\ (z.found => x.found)
        /\ h \in flip => (z.found => z.state = IF h \in required THEN x.state \cup {h} ELSE x.state \ {h})
        /\ h \notin flip => z = x
        /\ Moves(x, button, wish, exact) => Moves(z, button, wish, exact)
    BY <1>5, <2>2, <2>5 DEF h
  <2>7. ASSUME z.found, NEW m \in Mods
        PROVE  m \in z.state <=> IF Done(m, n) THEN m \in required ELSE m \in map.state
    <3>1. CASE h \in flip
      BY <2>3, <2>4, <2>5, <2>6, <2>7, <3>1
    <3>2. CASE h \notin flip
      BY <2>3, <2>4, <2>5, <2>6, <2>7, <3>2
    <3> QED BY <3>1, <3>2
  <2>8. <<n, z>> \in S
    <3>1. <<n, z>> \in (0 .. N) \X MapSet
      BY <2>1, <2>6
    <3>2. z.found => map.found
      BY <2>5, <2>6
    <3>3. z.button = map.button /\ (Moves(map, button, wish, exact) => Moves(z, button, wish, exact))
      BY <2>5, <2>6
    <3> QED BY <3>1, <3>2, <3>3, <2>7
  <2> QED BY <2>2, <2>8
<1>15. \A n \in 0 .. N : g[n] \in S
  <2> HIDE DEF g, S
  <2> QED BY <1>2, <1>13, <1>14, LoopInvariant
<1>16. <<N, y>> \in S
  BY <1>1, <1>12, <1>15
<1>17. \A m \in Mods : Done(m, N) <=> m \in sensitive
  BY <1>2
<1> HIDE DEF Done
<1> QED BY <1>16, <1>17 DEF y, Reached

-----------------------------------------------------------------------------
(* The keystrokes of a key *)

LEMMA InItsRange ==
  ASSUME NEW S, NEW s \in Seq(S)
  PROVE  s \in Seq(Range(s)) /\ Range(s) \subseteq S
<1>1. DOMAIN s = 1 .. Len(s) /\ Len(s) \in Nat /\ \A i \in 1 .. Len(s) : s[i] \in S
  BY LenProperties, ElementOfSeq
<1>2. \A i \in 1 .. Len(s) : s[i] \in Range(s)
  BY <1>1 DEF Range
<1>3. s \in Seq(Range(s))
  <2> DEFINE R == Range(s)
  <2>1. \A i \in 1 .. Len(s) : s[i] \in R
    BY <1>2
  <2> HIDE DEF R
  <2>2. s \in Seq(R)
    BY <2>1
  <2> QED BY <2>2 DEF R
<1> QED BY <1>1, <1>3 DEF Range

\* A candidate is an item of the id.
LEMMA CandidateItems ==
  ASSUME NEW id \in DOMAIN Layout, NEW desired, Candidates(id, desired) # <<>>
  PROVE  /\ Head(Candidates(id, desired)) \in Range(Layout[id])
         /\ Range(Layout[id]) \subseteq Items
<1> DEFINE s == Layout[id]
           R == Range(s)
<1>1. s \in Seq(R) /\ R \subseteq Items
  BY KeyStateAssumption, InItsRange
<1> HIDE DEF s, R
<1>2. \A K : Kept(s, K) \in Seq(R)
  BY <1>1, KeptType
<1>3. \A K, L : Kept(s, K) \o Kept(s, L) \in Seq(R)
  BY <1>2, ConcatProperties
<1> DEFINE shift == desired \cap {"Shift"}
           Changes(item) == Cardinality({m \in item.sensitive : (m \in item.required) # (m \in desired)})
           Exact(item) == item.required \subseteq desired /\ item.required = item.sensitive \cap desired
           Command(item) == /\ item.required \cap shift = item.sensitive \cap shift
                            /\ item.required \ {"Shift"} \subseteq desired
           Best(item) == \A other \in R : Changes(item) <= Changes(other)
           c == Candidates(id, desired)
<1>4. c = IF IsCommand(id, desired) THEN Kept(s, {item \in R : Command(item)})
          ELSE Kept(s, {item \in R : Exact(item)}) \o Kept(s, {item \in R : Best(item)})
  BY DEF Candidates, s, R
<1>5. c \in Seq(R)
  <2> HIDE DEF shift, Changes, Exact, Command, Best, c
  <2> QED BY <1>2, <1>3, <1>4
<1>6. c # <<>>
  OBVIOUS
<1> HIDE DEF c
<1>7. Head(c) \in R
  BY <1>5, <1>6, HeadTail
<1> QED BY <1>1, <1>7 DEF c, R, s

\* What the key needs and what is wanted besides: the modifiers are as the
\* character requires, and for the rest as desired.
Wanted(x, item, desired, sensitive, button, wish, exact) ==
  /\ x \in MapSet /\ x.button = button
  /\ (x.found /\ item.generates = {}) =>
        \A m \in Mods : m \in x.state <=> IF m \in sensitive THEN m \in item.required
                                          ELSE m \in desired
  /\ Fits(m_activeModifiers, m_mask, pressed, exact) => Moves(x, button, wish, exact)

Sensitive(id, desired, item) == IF IsCommand(id, desired) THEN {} ELSE item.sensitive

LEMMA KeyItemMoves ==
  ASSUME TypeOK, NEW map \in MapSet, NEW item \in Items, map.button = item.button,
         NEW wish \in Asked, NEW exact, NEW desired, NEW isCommand \in BOOLEAN, NEW rep \in BOOLEAN,
         Fits(m_activeModifiers, m_mask, pressed, exact) => Moves(map, item.button, wish, exact)
  PROVE  \E x : /\ KeysForKeyItem(map, item, desired, isCommand, rep) = AddKey(x, item, rep)
                /\ Wanted(x, item, desired, IF isCommand THEN {} ELSE item.sensitive,
                          item.button, wish, exact)
<1> DEFINE sensitive == IF isCommand THEN {} ELSE item.sensitive
           b == item.button
           rest == Mods \ (sensitive \cup item.generates)
           needed == KeysForModifierState(map, b, item.required, sensitive)
           x == KeysForModifierState(needed, b, desired, rest)
<1>1. /\ b \in Buttons /\ Gen(b) = item.generates /\ sensitive \in SUBSET Mods
      /\ sensitive \cap Gen(b) = {} /\ rest \in SUBSET Mods /\ rest \cap Gen(b) = {}
  BY ItemFacts, GenOfItem
<1>2. KeysForKeyItem(map, item, desired, isCommand, rep) = AddKey(x, item, rep)
  BY DEF KeysForKeyItem
<1>3. \A m \in Mods : item.generates = {} => (m \in rest <=> m \notin sensitive)
  OBVIOUS
<1> HIDE DEF sensitive, rest, b
<1>4. Reached(map, needed, b, wish, exact, item.required, sensitive)
  BY <1>1, StateMoves
<1> HIDE DEF needed
<1>5. needed \in MapSet
  BY <1>4 DEF Reached
<1>6. Reached(needed, x, b, wish, exact, desired, rest)
  BY <1>1, <1>5, StateMoves
<1> HIDE DEF x
<1>7. Wanted(x, item, desired, sensitive, b, wish, exact)
  <2>1. x \in MapSet /\ x.button = b
    BY <1>4, <1>6 DEF Reached, b
  <2>2. ASSUME x.found, item.generates = {}, NEW m \in Mods
        PROVE  m \in x.state <=> IF m \in sensitive THEN m \in item.required ELSE m \in desired
    <3>1. m \in x.state <=> IF m \in rest THEN m \in desired ELSE m \in needed.state
      BY <1>6, <2>2 DEF Reached
    <3>2. needed.found
      BY <1>6, <2>2 DEF Reached
    <3>3. m \in needed.state <=> IF m \in sensitive THEN m \in item.required ELSE m \in map.state
      BY <1>4, <3>2 DEF Reached
    <3> QED BY <1>3, <2>2, <3>1, <3>3
  <2>3. Fits(m_activeModifiers, m_mask, pressed, exact) => Moves(x, b, wish, exact)
    BY <1>4, <1>6 DEF Reached, b
  <2> QED BY <2>1, <2>2, <2>3 DEF Wanted
<1> QED BY <1>2, <1>7 DEF b, sensitive

\* Nothing has been moved before the first keystroke.
LEMMA StartMoves ==
  ASSUME TypeOK, NEW button \in Buttons, NEW wish, NEW exact,
         Fits(m_activeModifiers, m_mask, pressed, exact),
         NEW x, x.keys = <<>>, x.active = m_activeModifiers, x.state = m_mask
  PROVE  Moves(x, button, wish, exact)
<1>1. OnlyMods(<<>>, button)
  BY DEF OnlyMods
<1>2. Leads(Steps(button, wish), <<>>, Sees(pressed, typed), Sees(pressed, typed))
  BY LeadsEmpty
<1>3. pressed \in SUBSET Buttons
  BY DEF TypeOK
<1>4. Leaves(x, pressed, button, wish, exact)
  BY <1>2 DEF Leaves
<1> QED BY <1>1, <1>3, <1>4 DEF Moves

MappedFrom(map, id, desired, rep, item, x, wish, exact) ==
  /\ id \in DOMAIN Layout /\ item \in Range(Layout[id]) /\ item \in Items
  /\ map = KeysToRestoreModifiers(AddKey(x, item, rep), item, m_activeModifiers)
  /\ Wanted(x, item, desired, Sensitive(id, desired, item), item.button, wish, exact)

LEMMA MapKeyParts ==
  ASSUME TypeOK, NEW id, NEW desired, NEW rep \in BOOLEAN, MapKey(id, desired, rep).found,
         NEW wish \in Asked, NEW exact
  PROVE  \E item, x : MappedFrom(MapKey(id, desired, rep), id, desired, rep, item, x, wish, exact)
<1> DEFINE before == [keys |-> <<>>, active |-> m_activeModifiers, state |-> m_mask,
                      button |-> Null, found |-> FALSE]
           items == IF id \in DOMAIN Layout THEN Candidates(id, desired) ELSE <<>>
           item == Head(items)
           start == [before EXCEPT !.button = item.button, !.found = TRUE]
           command == IsCommand(id, desired)
           map == KeysForKeyItem(start, item, desired, command, rep)
           y == MapKey(id, desired, rep)
<1>1. y = IF items = <<>> \/ ~map.found THEN before
          ELSE KeysToRestoreModifiers(map, item, m_activeModifiers)
  BY DEF MapKey
<1>2. ~before.found
  OBVIOUS
<1>3. items # <<>> /\ y = KeysToRestoreModifiers(map, item, m_activeModifiers)
  <2>1. y.found
    OBVIOUS
  <2> HIDE DEF y, map, items, before
  <2> QED BY <1>1, <1>2, <2>1
<1>4. id \in DOMAIN Layout /\ item \in Range(Layout[id]) /\ item \in Items
  BY <1>3, CandidateItems
<1> HIDE DEF y, items, item
<1>5. item.button \in Buttons
  BY <1>4, ItemFacts
<1>6. /\ start \in MapSet /\ start.button = item.button
      /\ start.keys = <<>> /\ start.active = m_activeModifiers /\ start.state = m_mask
  <2>1. <<>> \in Seq(Stroke)
    OBVIOUS
  <2> HIDE DEF Stroke
  <2> QED BY <1>5, <2>1 DEF TypeOK, MapSet
<1>7. command \in BOOLEAN
  BY DEF IsCommand
<1> HIDE DEF start, command
<1>8. Fits(m_activeModifiers, m_mask, pressed, exact) => Moves(start, item.button, wish, exact)
  BY <1>5, <1>6, StartMoves
<1>9. PICK x : /\ map = AddKey(x, item, rep)
               /\ Wanted(x, item, desired, IF command THEN {} ELSE item.sensitive, item.button, wish, exact)
  BY <1>4, <1>6, <1>7, <1>8, KeyItemMoves
<1>10. Sensitive(id, desired, item) = IF command THEN {} ELSE item.sensitive
  BY DEF Sensitive, command
<1>11. MappedFrom(y, id, desired, rep, item, x, wish, exact)
  BY <1>3, <1>4, <1>9, <1>10 DEF MappedFrom
<1> QED BY <1>11 DEF y

CoreOf(b, rep) ==
  IF ~rep THEN <<Keystroke(b, TRUE, FALSE)>>
  ELSE CASE Platform = "windows" -> <<Keystroke(b, FALSE, TRUE), Keystroke(b, TRUE, TRUE)>>
         [] Platform = "mac" -> <<Keystroke(b, TRUE, TRUE)>>
         [] OTHER -> <<>>

LEMMA CoreStrokes ==
  ASSUME NEW b \in Buttons, NEW rep \in BOOLEAN
  PROVE  CoreOf(b, rep) \in Seq(Stroke)
<1>1. \A p \in BOOLEAN, r \in BOOLEAN : Keystroke(b, p, r) \in Stroke
  BY DEF Keystroke, Stroke
<1>2. <<>> \in Seq(Stroke) /\ \A s \in Stroke : <<s>> \in Seq(Stroke)
  OBVIOUS
<1>3. \A s, t \in Stroke : <<s, t>> \in Seq(Stroke)
  OBVIOUS
<1> HIDE DEF Stroke
<1> QED BY <1>1, <1>2, <1>3 DEF CoreOf

\* The key's own keystrokes.
Added(y, x, item, rep) ==
  /\ y \in MapSet /\ y.button = x.button /\ y.found = x.found
  /\ y.keys = x.keys \o CoreOf(item.button, rep)
  /\ y.active = x.active \cup (IF rep THEN {} ELSE item.generates \X {item.button})
  /\ y.state = x.state \cup (IF rep THEN {} ELSE item.generates)

LEMMA AddKeyParts ==
  ASSUME NEW x \in MapSet, NEW item \in Items, NEW rep \in BOOLEAN
  PROVE  Added(AddKey(x, item, rep), x, item, rep)
<1> DEFINE b == item.button
           y == AddKey(x, item, rep)
           core == CoreOf(b, rep)
           keys == x.keys \o core
           gen == IF rep THEN {} ELSE item.generates
           mine == IF rep THEN {} ELSE item.generates \X {b}
           z == [x EXCEPT !.keys = keys, !.active = @ \cup mine, !.state = @ \cup gen]
<1>1. b \in Buttons /\ item.generates \in SUBSET Mods
  BY ItemFacts
<1>2. core \in Seq(Stroke)
  BY <1>1, CoreStrokes
<1>3. x.keys \in Seq(Stroke) /\ x.active \in SUBSET (Mods \X Buttons) /\ x.state \in SUBSET Mods
  BY DEF MapSet
<1>4. keys \in Seq(Stroke)
  <2> HIDE DEF core
  <2> QED BY <1>2, <1>3, ConcatProperties
<1>5. mine \in SUBSET (Mods \X Buttons) /\ gen \in SUBSET Mods
  BY <1>1
<1>6. y = z
  <2>1. CASE rep
    <3>1. keys = x.keys \o (CASE Platform = "windows" -> <<Keystroke(b, FALSE, TRUE), Keystroke(b, TRUE, TRUE)>>
                              [] Platform = "mac" -> <<Keystroke(b, TRUE, TRUE)>>
                              [] OTHER -> <<>>)
      BY <2>1 DEF CoreOf
    <3>2. y = [x EXCEPT !.keys = keys]
      <4> HIDE DEF keys
      <4> QED BY <2>1, <3>1 DEF AddKey
    <3>3. [x EXCEPT !.keys = keys] = z
      <4> HIDE DEF keys
      <4> QED BY <2>1 DEF MapSet
    <3> QED BY <3>2, <3>3
  <2>2. CASE ~rep
    <3>1. core = <<Keystroke(b, TRUE, FALSE)>> /\ Keystroke(b, TRUE, FALSE) \in Stroke
      BY <1>1, <2>2 DEF CoreOf, Keystroke, Stroke
    <3>2. keys = Append(x.keys, Keystroke(b, TRUE, FALSE))
      <4> DEFINE k == Keystroke(b, TRUE, FALSE)
      <4> HIDE DEF k, core
      <4>1. k \in Stroke /\ core = <<k>>
        BY <3>1 DEF k
      <4>2. x.keys \o <<k>> = Append(x.keys, k)
        BY <1>3, <4>1, AppendOne
      <4> QED BY <4>1, <4>2 DEF k
    <3> HIDE DEF keys
    <3> QED BY <2>2, <3>2 DEF AddKey
  <2> QED BY <2>1, <2>2
<1> HIDE DEF keys, mine, gen, y
<1>7. /\ z \in MapSet /\ z.button = x.button /\ z.found = x.found /\ z.keys = keys
      /\ z.active = x.active \cup mine /\ z.state = x.state \cup gen
  BY <1>4, <1>5 DEF MapSet
<1> QED BY <1>6, <1>7 DEF keys, mine, gen, y, Added

\* The buttons that are released, and pressed again, after the key.
DropOf(active, before, b) == {c \in Buttons : c # b /\ c \in ButtonsOf(active) /\ c \notin ButtonsOf(before)}
AddOf(active, before, b) == DropOf(before, active, b)

MovedBack(r, y, b, before) ==
  LET D == DropOf(y.active, before, b)
      A == AddOf(y.active, before, b)
      left == {a \in y.active : a[2] \notin D}
      add == {a \in before : a[2] \in A}
  IN  /\ r \in MapSet /\ r.button = y.button /\ r.found = y.found
      /\ r.keys = y.keys \o Strokes(D, FALSE) \o Strokes(A, TRUE)
      /\ r.active = left \cup add
      /\ r.state = (y.state \ (ModsOf(y.active \ left) \ ModsOf(left))) \cup ModsOf(add)

LEMMA RestoreParts ==
  ASSUME NEW y \in MapSet, NEW item \in Items, NEW before \in SUBSET (Mods \X Buttons)
  PROVE  MovedBack(KeysToRestoreModifiers(y, item, before), y, item.button, before)
<1> DEFINE r == KeysToRestoreModifiers(y, item, before)
           b == item.button
           D == DropOf(y.active, before, b)
           A == AddOf(y.active, before, b)
           left == {a \in y.active : a[2] \notin D}
           add == {a \in before : a[2] \in A}
           drop0 == {a \in y.active : a[2] # item.button /\ a[2] \notin ButtonsOf(before)}
           add0 == {a \in before : a[2] # item.button /\ a[2] \notin ButtonsOf(y.active)}
           left0 == y.active \ drop0
           keys == y.keys \o Strokes(D, FALSE) \o Strokes(A, TRUE)
           state == (y.state \ (ModsOf(y.active \ left) \ ModsOf(left))) \cup ModsOf(add)
           z == [y EXCEPT !.keys = keys, !.active = left \cup add, !.state = state]
<1>1. y.keys \in Seq(Stroke) /\ y.active \in SUBSET (Mods \X Buttons) /\ y.state \in SUBSET Mods
  BY DEF MapSet
<1>2. /\ \A a \in y.active : a[2] \in ButtonsOf(y.active) /\ a[2] \in Buttons
      /\ \A a \in before : a[2] \in ButtonsOf(before) /\ a[2] \in Buttons
      /\ \A c \in ButtonsOf(y.active) : \E a \in y.active : a[2] = c
      /\ \A c \in ButtonsOf(before) : \E a \in before : a[2] = c
  BY <1>1, PairParts
<1>3. add0 = add /\ drop0 = {a \in y.active : a[2] \in D} /\ left0 = left
  BY <1>2 DEF DropOf, AddOf
<1>4. ButtonsOf(drop0) = D /\ ButtonsOf(add0) = A /\ drop0 = y.active \ left
  <2>1. ButtonsOf(drop0) = D
    BY <1>2, <1>3 DEF ButtonsOf, DropOf
  <2>2. ButtonsOf(add0) = A
    BY <1>2, <1>3 DEF ButtonsOf, DropOf, AddOf
  <2>3. drop0 = y.active \ left
    BY <1>3
  <2> QED BY <2>1, <2>2, <2>3
<1>5. keys \in Seq(Stroke)
  <2>1. D \in SUBSET Buttons /\ A \in SUBSET Buttons
    BY DEF DropOf, AddOf
  <2> HIDE DEF D, A
  <2>2. Strokes(D, FALSE) \in Seq(Stroke) /\ Strokes(A, TRUE) \in Seq(Stroke)
    BY <2>1, StrokesOf
  <2>3. y.keys \o Strokes(D, FALSE) \in Seq(Stroke)
    BY <1>1, <2>2, ConcatProperties
  <2> QED BY <2>2, <2>3, ConcatProperties
<1>6. left \cup add \in SUBSET (Mods \X Buttons) /\ state \in SUBSET Mods
  <2>1. left \in SUBSET (Mods \X Buttons) /\ add \in SUBSET (Mods \X Buttons)
    BY <1>1
  <2>2. ModsOf(add) \in SUBSET Mods
    BY <2>1, PairParts
  <2> QED BY <1>1, <2>1, <2>2
<1>7. r = z
  <2>1. r = [y EXCEPT !.keys = @ \o Strokes(ButtonsOf(drop0), FALSE) \o Strokes(ButtonsOf(add0), TRUE),
                      !.active = left0 \cup add0,
                      !.state = (@ \ (ModsOf(drop0) \ ModsOf(left0))) \cup ModsOf(add0)]
    BY DEF KeysToRestoreModifiers
  <2> HIDE DEF r, drop0, add0, left0, D, A, left, add
  <2> QED BY <2>1, <1>3, <1>4
<1> HIDE DEF keys, state, left, add, r
<1>8. /\ z \in MapSet /\ z.button = y.button /\ z.found = y.found /\ z.keys = keys
      /\ z.active = left \cup add /\ z.state = state
  BY <1>5, <1>6 DEF MapSet
<1> QED BY <1>7, <1>8 DEF keys, state, left, add, r, MovedBack

-----------------------------------------------------------------------------
(* A button put in the place of another *)

Put(s, i, old) == [s EXCEPT ![i].button = old]

LEMMA PutOne ==
  ASSUME NEW s \in Seq(Stroke), NEW i \in 1 .. Len(s), NEW old \in Buttons
  PROVE  /\ Put(s, i, old) \in Seq(Stroke) /\ Len(Put(s, i, old)) = Len(s)
         /\ \A j \in 1 .. Len(s) : Put(s, i, old)[j] = IF j = i THEN [s[i] EXCEPT !.button = old]
                                                      ELSE s[j]
<1> DEFINE e == [s[i] EXCEPT !.button = old]
<1>1. s[i] \in Stroke
  BY ElementOfSeq
<1>2. e \in Stroke
  BY <1>1 DEF Stroke
<1>3. Put(s, i, old) = [s EXCEPT ![i] = e]
  BY DEF Put
<1> HIDE DEF e
<1>4. /\ [s EXCEPT ![i] = e] \in Seq(Stroke) /\ Len([s EXCEPT ![i] = e]) = Len(s)
      /\ \A j \in 1 .. Len(s) : [s EXCEPT ![i] = e][j] = IF j = i THEN e ELSE s[j]
  BY <1>2, ExceptSeq
<1> QED BY <1>3, <1>4 DEF e

LEMMA PutConcat ==
  ASSUME NEW s \in Seq(Stroke), NEW t \in Seq(Stroke), NEW i \in 1 .. Len(s), NEW old \in Buttons
  PROVE  Put(s \o t, i, old) = Put(s, i, old) \o t
<1> DEFINE e == [s[i] EXCEPT !.button = old]
           u == s \o t
           v == [s EXCEPT ![i] = e]
           w == [u EXCEPT ![i] = e]
<1>1. Len(s) \in Nat /\ Len(t) \in Nat /\ s[i] \in Stroke
  BY LenProperties, ElementOfSeq
<1>2. e \in Stroke
  BY <1>1 DEF Stroke
<1>3. /\ u \in Seq(Stroke) /\ Len(u) = Len(s) + Len(t) /\ i \in 1 .. Len(u) /\ u[i] = s[i]
      /\ \A j \in 1 .. Len(s) + Len(t) : u[j] = IF j <= Len(s) THEN s[j] ELSE t[j - Len(s)]
  BY <1>1, ConcatProperties
<1>4. Put(s, i, old) = v /\ Put(u, i, old) = w
  <2> HIDE DEF u
  <2> QED BY <1>3 DEF Put
<1> HIDE DEF e, u, v, w
<1>5. /\ v \in Seq(Stroke) /\ Len(v) = Len(s)
      /\ \A j \in 1 .. Len(s) : v[j] = IF j = i THEN e ELSE s[j]
  BY <1>2, ExceptSeq DEF v
<1>6. /\ w \in Seq(Stroke) /\ Len(w) = Len(u)
      /\ \A j \in 1 .. Len(u) : w[j] = IF j = i THEN e ELSE u[j]
  BY <1>2, <1>3, ExceptSeq DEF w
<1> DEFINE z == v \o t
<1>7. /\ z \in Seq(Stroke) /\ Len(z) = Len(v) + Len(t)
      /\ \A j \in 1 .. Len(v) + Len(t) : z[j] = IF j <= Len(v) THEN v[j] ELSE t[j - Len(v)]
  BY <1>5, ConcatProperties
<1> HIDE DEF z
<1>8. \A j \in 1 .. Len(w) : w[j] = z[j]
  <2> SUFFICES ASSUME NEW j \in 1 .. Len(w) PROVE w[j] = z[j]
    OBVIOUS
  <2>1. j \in 1 .. Len(s) + Len(t) /\ (j <= Len(s) => j \in 1 .. Len(s)) /\ (j = i => j <= Len(s))
    BY <1>1, <1>3, <1>6
  <2> QED BY <2>1, <1>1, <1>3, <1>5, <1>6, <1>7
<1>9. w = z
  <2>1. Len(w) = Len(z)
    BY <1>3, <1>5, <1>6, <1>7
  <2> QED BY <2>1, <1>6, <1>7, <1>8, SeqEqual
<1> QED BY <1>4, <1>5, <1>9 DEF e, u, z

LEMMA LeastMin ==
  ASSUME NEW T \in SUBSET Nat, T # {}
  PROVE  Min(T) \in T /\ \A y \in T : Min(T) <= y
<1>1. \E x \in T : \A y \in T : x <= y
  BY Least
<1> QED BY <1>1 DEF Min

\* The strokes are still strokes.
LEMMA SubstitutedType ==
  ASSUME NEW keys \in Seq(Stroke), NEW new, NEW old \in Buttons
  PROVE  Substituted(keys, new, old) \in Seq(Stroke)
<1> DEFINE uses == {i \in DOMAIN keys : keys[i].button = new}
<1>1. DOMAIN keys = 1 .. Len(keys) /\ Len(keys) \in Nat
  BY LenProperties
<1>2. CASE uses = {}
  BY <1>2 DEF Substituted
<1>3. CASE uses # {}
  <2>1. uses \in SUBSET Nat
    BY <1>1
  <2>2. Min(uses) \in uses
    BY <1>3, <2>1, LeastMin
  <2>3. Min(uses) \in 1 .. Len(keys)
    BY <1>1, <2>2
  <2>4. Substituted(keys, new, old) = Put(keys, Min(uses), old)
    BY <1>3 DEF Substituted, Put
  <2>5. \A i \in 1 .. Len(keys) : Put(keys, i, old) \in Seq(Stroke)
    BY PutOne
  <2> HIDE DEF uses
  <2> QED BY <2>3, <2>4, <2>5
<1> QED BY <1>2, <1>3

IsJoin(u, s, t) ==
  /\ u \in Seq(Stroke) /\ Len(u) = Len(s) + Len(t) /\ Len(s) \in Nat /\ Len(t) \in Nat
  /\ DOMAIN u = 1 .. Len(s) + Len(t)
  /\ \A j \in 1 .. Len(s) : j \in 1 .. Len(s) + Len(t) /\ u[j] = s[j]
  /\ \A j \in 1 .. Len(t) : Len(s) + j \in 1 .. Len(s) + Len(t) /\ u[Len(s) + j] = t[j]

LEMMA Joined ==
  ASSUME NEW s \in Seq(Stroke), NEW t \in Seq(Stroke)
  PROVE  IsJoin(s \o t, s, t)
<1>1. /\ s \o t \in Seq(Stroke) /\ Len(s \o t) = Len(s) + Len(t)
      /\ \A j \in 1 .. Len(s) + Len(t) : (s \o t)[j] = IF j <= Len(s) THEN s[j] ELSE t[j - Len(s)]
  BY ConcatProperties
<1>2. Len(s) \in Nat /\ Len(t) \in Nat /\ DOMAIN (s \o t) = 1 .. Len(s) + Len(t)
  BY <1>1, LenProperties
<1>3. \A j \in 1 .. Len(s) : j \in 1 .. Len(s) + Len(t) /\ j <= Len(s)
  BY <1>2
<1>4. \A j \in 1 .. Len(t) : /\ Len(s) + j \in 1 .. Len(s) + Len(t) /\ ~(Len(s) + j <= Len(s))
                             /\ (Len(s) + j) - Len(s) = j
  BY <1>2
<1>5. \A j \in 1 .. Len(s) : (s \o t)[j] = s[j]
  BY <1>1, <1>3
<1>6. \A j \in 1 .. Len(t) : (s \o t)[Len(s) + j] = t[j]
  BY <1>1, <1>4
<1> QED BY <1>1, <1>2, <1>3, <1>4, <1>5, <1>6 DEF IsJoin

LEMMA PutCore ==
  ASSUME NEW pre \in Seq(Stroke), NEW k \in Stroke, NEW l \in Stroke, NEW old \in Buttons
  PROVE  Put(pre \o <<k, l>>, Len(pre) + 1, old) = pre \o <<[k EXCEPT !.button = old], l>>
<1> DEFINE i == Len(pre) + 1
           core == <<k, l>>
           e == [k EXCEPT !.button = old]
           other == <<e, l>>
           s == pre \o core
           v == Put(s, i, old)
           w == pre \o other
<1>1. core \in Seq(Stroke) /\ Len(core) = 2 /\ core[1] = k /\ core[2] = l
  OBVIOUS
<1>2. e \in Stroke
  BY DEF Stroke
<1>3. other \in Seq(Stroke) /\ Len(other) = 2 /\ other[1] = e /\ other[2] = l
  <2> HIDE DEF e
  <2> QED BY <1>2
<1> HIDE DEF core, other
<1>4. /\ s \in Seq(Stroke) /\ Len(s) = Len(pre) + Len(core) /\ Len(pre) \in Nat
      /\ \A j \in 1 .. Len(pre) : s[j] = pre[j]
      /\ \A j \in 1 .. Len(core) : s[Len(pre) + j] = core[j]
  <2>1. IsJoin(s, pre, core)
    BY <1>1, Joined
  <2> HIDE DEF s
  <2> QED BY <2>1 DEF IsJoin
<1>5. /\ w \in Seq(Stroke) /\ Len(w) = Len(pre) + Len(other)
      /\ \A j \in 1 .. Len(pre) : w[j] = pre[j]
      /\ \A j \in 1 .. Len(other) : w[Len(pre) + j] = other[j]
  <2>1. IsJoin(w, pre, other)
    BY <1>3, Joined
  <2> HIDE DEF w
  <2> QED BY <2>1 DEF IsJoin
<1>6. i \in 1 .. Len(s) /\ 1 \in 1 .. Len(core) /\ 2 \in 1 .. Len(core)
      /\ 1 \in 1 .. Len(other) /\ 2 \in 1 .. Len(other) /\ Len(s) = Len(pre) + 2
  <2> HIDE DEF s
  <2> QED BY <1>1, <1>3, <1>4
<1>7. s[i] = k /\ s[Len(pre) + 2] = l
  <2> HIDE DEF s
  <2> QED BY <1>1, <1>4, <1>6
<1>8. w[i] = e /\ w[Len(pre) + 2] = l
  <2> HIDE DEF w, e
  <2> QED BY <1>3, <1>5, <1>6
<1> HIDE DEF s, w
<1>9. /\ v \in Seq(Stroke) /\ Len(v) = Len(s)
      /\ \A j \in 1 .. Len(s) : v[j] = IF j = i THEN [s[i] EXCEPT !.button = old] ELSE s[j]
  <2> HIDE DEF i
  <2> QED BY <1>4, <1>6, PutOne
<1> HIDE DEF v
<1>10. v[i] = e
  <2> HIDE DEF i
  <2> QED BY <1>6, <1>7, <1>9
<1>11. v[Len(pre) + 2] = l
  <2>1. Len(pre) + 2 # i /\ Len(pre) + 2 \in 1 .. Len(s)
    BY <1>4, <1>6
  <2> HIDE DEF i
  <2> QED BY <2>1, <1>7, <1>9
<1>12. \A j \in 1 .. Len(pre) : v[j] = pre[j]
  <2>1. \A j \in 1 .. Len(pre) : j # i /\ j \in 1 .. Len(s)
    BY <1>4, <1>6
  <2> HIDE DEF i
  <2> QED BY <2>1, <1>4, <1>9
<1>13. \A j \in 1 .. Len(v) : j \in 1 .. Len(pre) \/ j = i \/ j = Len(pre) + 2
  BY <1>4, <1>6, <1>9
<1>14. \A j \in 1 .. Len(v) : v[j] = w[j]
  <2> HIDE DEF i, e
  <2> QED BY <1>5, <1>8, <1>10, <1>11, <1>12, <1>13
<1>15. Len(v) = Len(w)
  BY <1>3, <1>4, <1>5, <1>6, <1>9
<1> HIDE DEF i, e
<1>16. v = w
  BY <1>5, <1>9, <1>14, <1>15, SeqEqual
<1> QED BY <1>16 DEF v, w, s, core, other, i, e

IsPut(e, k, old) == e = [k EXCEPT !.button = old]

\* When nothing before the key uses its button, it is the key's first stroke
\* that changes.
FirstReplaced(pre, k, l, e, rest, new, old) ==
  Substituted((pre \o <<k, l>>) \o rest, new, old) = (pre \o <<e, l>>) \o rest

LEMMA SubstitutedFirst ==
  ASSUME NEW pre \in Seq(Stroke), NEW rest \in Seq(Stroke), NEW new, NEW old \in Buttons,
         NEW k \in Stroke, NEW l \in Stroke, OnlyMods(pre, new), k.button = new,
         NEW e, IsPut(e, k, old)
  PROVE  FirstReplaced(pre, k, l, e, rest, new, old)
<1> DEFINE i == Len(pre) + 1
           core == <<k, l>>
           s == pre \o core
           keys == s \o rest
           uses == {j \in DOMAIN keys : keys[j].button = new}
<1>1. core \in Seq(Stroke) /\ Len(core) = 2 /\ core[1] = k
  OBVIOUS
<1> HIDE DEF core
<1>2. /\ s \in Seq(Stroke) /\ Len(s) = Len(pre) + Len(core) /\ Len(pre) \in Nat
      /\ \A j \in 1 .. Len(pre) : s[j] = pre[j]
      /\ \A j \in 1 .. Len(core) : s[Len(pre) + j] = core[j]
  <2>1. IsJoin(s, pre, core)
    BY <1>1, Joined
  <2> HIDE DEF s
  <2> QED BY <2>1 DEF IsJoin
<1>3. i \in 1 .. Len(s) /\ s[i] = k /\ i \in Nat
  <2> HIDE DEF s
  <2>1. 1 \in 1 .. Len(core) /\ i \in 1 .. Len(s)
    BY <1>1, <1>2
  <2> QED BY <2>1, <1>1, <1>2
<1>4. \A j \in 1 .. Len(pre) : j \in 1 .. Len(s)
  <2> HIDE DEF s
  <2> QED BY <1>1, <1>2
<1> HIDE DEF s
<1>5. /\ DOMAIN keys = 1 .. Len(s) + Len(rest) /\ Len(s) \in Nat /\ Len(rest) \in Nat
      /\ \A j \in 1 .. Len(s) : j \in 1 .. Len(s) + Len(rest) /\ keys[j] = s[j]
  <2>1. IsJoin(keys, s, rest)
    BY <1>2, Joined
  <2> HIDE DEF keys
  <2> QED BY <2>1 DEF IsJoin
<1> HIDE DEF keys
<1>6. i \in uses
  <2> HIDE DEF i
  <2> QED BY <1>3, <1>5
<1>7. ASSUME NEW j \in uses, j < i PROVE FALSE
  <2>1. j \in 1 .. Len(pre) /\ keys[j].button = new
    BY <1>2, <1>5, <1>7
  <2>2. keys[j] = pre[j]
    BY <2>1, <1>2, <1>4, <1>5
  <2> QED BY <2>1, <2>2 DEF OnlyMods
<1>8. uses \in SUBSET Nat /\ uses # {}
  BY <1>5, <1>6
<1> HIDE DEF uses, i
<1>9. Min(uses) \in uses /\ Min(uses) <= i /\ Min(uses) \in Nat
  BY <1>6, <1>8, LeastMin
<1>10. Min(uses) = i
  BY <1>3, <1>7, <1>9
<1>11. Substituted(keys, new, old) = Put(keys, i, old)
  BY <1>8, <1>10 DEF Substituted, Put, uses
<1>12. Put(keys, i, old) = Put(s, i, old) \o rest
  BY <1>2, <1>3, PutConcat DEF keys
<1>13. Put(s, i, old) = pre \o <<e, l>>
  BY PutCore DEF s, core, i, IsPut
<1> QED BY <1>11, <1>12, <1>13 DEF keys, s, core, FirstReplaced

-----------------------------------------------------------------------------
(* What the keystrokes of a key do *)

Out(b, wish, down) ==
  [id |-> wish.id, mask |-> wish.mask, button |-> b, mods |-> PollActiveModifiers(down \ {b})]

\* The key is released, or the button in its place, and pressed.
CorePlay(core, gone, b, wish) ==
  /\ core \in Seq(Stroke) /\ gone \subseteq {c \in Buttons : c = b \/ Gen(c) = {}}
  /\ \A down \in SUBSET Buttons :
       Leads(Steps(b, wish), core, Sees(down, typed), Sees((down \ gone) \cup {b}, Out(b, wish, down \ gone)))

LEMMA PressPlays ==
  ASSUME TypeOK, NEW b \in Buttons, NEW wish \in Asked, NEW rep \in BOOLEAN
  PROVE  \A down \in SUBSET Buttons :
           Leads(Steps(b, wish), <<Keystroke(b, TRUE, rep)>>, Sees(down, typed),
                 Sees(down \cup {b}, Out(b, wish, down)))
<1> SUFFICES ASSUME NEW down \in SUBSET Buttons
             PROVE  Leads(Steps(b, wish), <<Keystroke(b, TRUE, rep)>>, Sees(down, typed),
                          Sees(down \cup {b}, Out(b, wish, down)))
  OBVIOUS
<1> DEFINE k == Keystroke(b, TRUE, rep)
           p == Sees(down, typed)
<1>1. k \in Stroke /\ k.press /\ k.button = b
  BY DEF Keystroke, Stroke
<1>2. p \in Sys /\ p.down = down /\ p.out = typed
  BY SysStart
<1> HIDE DEF k, p
<1>3. Fake(p, k, b, wish) = Sees(down \cup {b}, Out(b, wish, down))
  BY <1>1, <1>2 DEF Fake, Sees, Out
<1>4. Leads(Steps(b, wish), <<k>>, p, Fake(p, k, b, wish))
  BY <1>1, <1>2, OneStroke
<1> QED BY <1>3, <1>4 DEF k, p

LEMMA FirstPlays ==
  ASSUME TypeOK, NEW b \in Buttons, NEW wish \in Asked
  PROVE  CorePlay(<<Keystroke(b, TRUE, FALSE)>>, {}, b, wish)
<1>1. Keystroke(b, TRUE, FALSE) \in Stroke
  BY DEF Keystroke, Stroke
<1>2. <<Keystroke(b, TRUE, FALSE)>> \in Seq(Stroke)
  BY <1>1, OneStroke, SysStart
<1>3. \A down \in SUBSET Buttons :
        Leads(Steps(b, wish), <<Keystroke(b, TRUE, FALSE)>>, Sees(down, typed),
              Sees(down \cup {b}, Out(b, wish, down)))
  BY PressPlays
<1>4. \A down : down \ {} = down
  OBVIOUS
<1> QED BY <1>2, <1>3, <1>4 DEF CorePlay

LEMMA AgainPlays ==
  ASSUME TypeOK, NEW b \in Buttons, NEW wish \in Asked, NEW old \in Buttons, old = b \/ Gen(old) = {}
  PROVE  CorePlay(<<Keystroke(old, FALSE, TRUE), Keystroke(b, TRUE, TRUE)>>, {old}, b, wish)
<1> DEFINE k == Keystroke(old, FALSE, TRUE)
           l == Keystroke(b, TRUE, TRUE)
           one == <<k>>
           two == <<l>>
           both == <<k, l>>
<1>1. k \in Stroke /\ l \in Stroke /\ ~k.press /\ k.button = old
  BY DEF Keystroke, Stroke
<1> HIDE DEF k, l
<1>2. /\ one \in Seq(Stroke) /\ two \in Seq(Stroke) /\ both \in Seq(Stroke)
      /\ both = one \o two
  <2>1. one \in Seq(Stroke) /\ two \in Seq(Stroke)
    BY <1>1
  <2>2. both \in Seq(Stroke) /\ both = Append(one, l)
    BY <1>1
  <2> HIDE DEF one, both
  <2>3. one \o two = Append(one, l)
    BY <1>1, <2>1, AppendOne
  <2> QED BY <2>1, <2>2, <2>3
<1>3. ASSUME NEW down \in SUBSET Buttons
      PROVE  Leads(Steps(b, wish), both, Sees(down, typed),
                   Sees((down \ {old}) \cup {b}, Out(b, wish, down \ {old})))
  <2> DEFINE p == Sees(down, typed)
             less == down \ {old}
             q == Sees(less, typed)
             r == Sees(less \cup {b}, Out(b, wish, less))
  <2>1. p \in Sys /\ p.down = down /\ p.out = typed /\ less \in SUBSET Buttons
    BY SysStart
  <2>2. Fake(p, k, b, wish) = q
    <3> HIDE DEF p
    <3> QED BY <1>1, <2>1 DEF Fake, Sees
  <2> HIDE DEF p, q
  <2>3. Leads(Steps(b, wish), one, p, q)
    BY <1>1, <2>1, <2>2, OneStroke
  <2>4. Leads(Steps(b, wish), two, q, r)
    BY <2>1, PressPlays DEF l, q
  <2> HIDE DEF r, one, two
  <2>5. Leads(Steps(b, wish), one \o two, p, r)
    BY <1>2, <2>3, <2>4, LeadsConcat
  <2> HIDE DEF both
  <2> QED BY <1>2, <2>5 DEF p, r
<1> HIDE DEF one, two, both
<1>4. CorePlay(both, {old}, b, wish)
  BY <1>2, <1>3 DEF CorePlay
<1> QED BY <1>4 DEF both, k, l

LEMMA RestPlays ==
  ASSUME TypeOK, NEW b \in Buttons, NEW wish \in Asked,
         NEW D \in SUBSET Buttons, NEW A \in SUBSET Buttons, b \notin D, b \notin A,
         NEW down \in SUBSET Buttons, NEW out \in Typed \cup {Null}
  PROVE  Leads(Steps(b, wish), Strokes(D, FALSE) \o Strokes(A, TRUE), Sees(down, out),
               Sees((down \ D) \cup A, out))
<1> DEFINE p == Sees(down, out)
           q == Sees(down \ D, out)
           r == Sees((down \ D) \cup A, out)
           s == Strokes(D, FALSE)
           t == Strokes(A, TRUE)
<1>1. /\ p \in Sys /\ p.down = down /\ p.out = out
      /\ q \in Sys /\ q.down = down \ D /\ q.out = out
  BY DEF Sys, Sees
<1>2. s \in Seq(Stroke) /\ t \in Seq(Stroke)
  BY StrokesOf
<1>3. Leads(Steps(b, wish), s, p, Sees(IF FALSE THEN p.down \cup D ELSE p.down \ D, p.out))
  <2> HIDE DEF p
  <2> QED BY <1>1, StrokesPlay
<1>4. Leads(Steps(b, wish), t, q, Sees(IF TRUE THEN q.down \cup A ELSE q.down \ A, q.out))
  <2> HIDE DEF q
  <2> QED BY <1>1, StrokesPlay
<1>5. Leads(Steps(b, wish), s, p, q) /\ Leads(Steps(b, wish), t, q, r)
  <2> HIDE DEF p, s, t
  <2>1. Leads(Steps(b, wish), s, p, q)
    BY <1>1, <1>3
  <2> HIDE DEF q
  <2>2. Leads(Steps(b, wish), t, q, r)
    BY <1>1, <1>4
  <2> QED BY <2>1, <2>2
<1> HIDE DEF p, q, r, s, t
<1>6. Leads(Steps(b, wish), s \o t, p, r)
  BY <1>2, <1>5, LeadsConcat
<1> QED BY <1>6 DEF p, r, s, t

\* Afterwards the modifiers are down that were down before.
AsBefore(was, before, down, active, b) ==
  LET D == DropOf(active, before, b)
      A == AddOf(active, before, b)
      left == {a \in active : a[2] \notin D}
      add == {a \in before : a[2] \in A}
      now == (down \ D) \cup A
  IN  /\ b \in now /\ now \subseteq was \cup {b}
      /\ left \cup add \subseteq ActiveOf(now)
      /\ \A c \in now : Gen(c) = {} => c \in down
      /\ \A c \in down : Gen(c) = {} => c \in now
      /\ (before = ActiveOf(was) /\ active = ActiveOf(down)) =>
           /\ left \cup add = ActiveOf(now)
           /\ \A c \in was : Gen(c) # {} => c \in now

LEMMA Restored ==
  ASSUME NEW was \in SUBSET Buttons, NEW before, before \subseteq ActiveOf(was),
         NEW down \in SUBSET Buttons, NEW active, active \subseteq ActiveOf(down), NEW b \in down,
         \A c \in down \ was : c = b \/ c \in ButtonsOf(active)
  PROVE  AsBefore(was, before, down, active, b)
<1> DEFINE D == DropOf(active, before, b)
           A == AddOf(active, before, b)
           left == {a \in active : a[2] \notin D}
           add == {a \in before : a[2] \in A}
           now == (down \ D) \cup A
<1>1. /\ \A c : c \in D <=> c \in Buttons /\ c # b /\ c \in ButtonsOf(active) /\ c \notin ButtonsOf(before)
      /\ \A c : c \in A <=> c \in Buttons /\ c # b /\ c \in ButtonsOf(before) /\ c \notin ButtonsOf(active)
  BY DEF DropOf, AddOf
<1>2. /\ \A a \in active : a \in Mods \X Buttons /\ a[2] \in down /\ a[1] \in Gen(a[2])
                           /\ a[2] \in ButtonsOf(active)
      /\ \A a \in before : a \in Mods \X Buttons /\ a[2] \in was /\ a[1] \in Gen(a[2])
                           /\ a[2] \in ButtonsOf(before)
  BY DEF ActiveOf, ButtonsOf
<1>3. /\ \A c \in ButtonsOf(active) : \E a \in active : a[2] = c
      /\ \A c \in ButtonsOf(before) : \E a \in before : a[2] = c
  BY DEF ButtonsOf
<1>4. /\ \A c \in ButtonsOf(active) : c \in down /\ Gen(c) # {}
      /\ \A c \in ButtonsOf(before) : c \in was /\ Gen(c) # {}
  BY <1>2, <1>3
<1> HIDE DEF D, A
<1>5. b \in now /\ now \subseteq was \cup {b}
  BY <1>1, <1>4
<1>6. left \cup add \subseteq ActiveOf(now)
  BY <1>2 DEF ActiveOf
<1>7. /\ \A c \in now : Gen(c) = {} => c \in down
      /\ \A c \in down : Gen(c) = {} => c \in now
  BY <1>1, <1>4
<1>8. ASSUME before = ActiveOf(was), active = ActiveOf(down)
      PROVE  /\ left \cup add = ActiveOf(now)
             /\ \A c \in was : Gen(c) # {} => c \in now
  <2>1. ASSUME NEW a \in ActiveOf(now) PROVE a \in left \cup add
    <3>1. a \in Mods \X Buttons /\ a[2] \in now /\ a[1] \in Gen(a[2])
      BY DEF ActiveOf
    <3>2. CASE a[2] \in A
      <4>1. a[2] \in was
        BY <3>2, <1>1, <1>4
      <4>2. a \in before
        BY <3>1, <4>1, <1>8 DEF ActiveOf
      <4> QED BY <3>2, <4>2
    <3>3. CASE a[2] \notin A
      <4>1. a \in active /\ a[2] \notin D
        BY <3>1, <3>3, <1>8 DEF ActiveOf
      <4> QED BY <4>1
    <3> QED BY <3>2, <3>3
  <2>2. ASSUME NEW c \in was, Gen(c) # {} PROVE c \in now
    <3>1. PICK m : m \in Gen(c)
      BY <2>2
    <3>2. c \in ButtonsOf(before)
      BY <3>1, <1>8, ActiveBy
    <3>3. CASE c \in ButtonsOf(active)
      BY <3>2, <3>3, <1>1, <1>4
    <3>4. CASE c \notin ButtonsOf(active)
      BY <3>2, <3>4, <1>1, <1>5
    <3> QED BY <3>3, <3>4
  <2> QED BY <2>1, <2>2, <1>6
<1> QED BY <1>5, <1>6, <1>7, <1>8 DEF D, A, AsBefore

\* What TypedAsAsked says of a key that has been typed.
RightlyTyped(t) ==
  IF IsCommand(t.id, t.mask) THEN t.mods = t.mask
  ELSE \E item \in Range(Layout[t.id]) : /\ item.button = t.button
                                        /\ t.mods \cap item.sensitive = item.required

\* Afterwards the key's button is down, and no other that was not.
Played(keys, active, state, b, gone, down, out, wish, exact) ==
  /\ keys \in Seq(Stroke) /\ down \in SUBSET Buttons
  /\ Leads(Steps(b, wish), keys, Sees(pressed, typed), Sees(down, out))
  /\ down \subseteq (pressed \ gone) \cup {b}
  /\ Fits(active, state, down, exact)
  /\ exact => (pressed \ gone) \cup {b} \subseteq down
  /\ exact => RightlyTyped(out)

\* The modifiers are right while the button goes down.
LEMMA TypesRightly ==
  ASSUME TypeOK, NEW id \in DOMAIN Layout, NEW desired \in SUBSET Mods,
         NEW item \in Items, item \in Range(Layout[id]), NEW x, x.found, NEW wish, NEW exact, exact,
         wish = [id |-> id, mask |-> desired],
         Wanted(x, item, desired, Sensitive(id, desired, item), item.button, wish, exact),
         NEW down \in SUBSET Buttons, Leaves(x, down, item.button, wish, exact),
         NEW gone, gone \subseteq {c \in Buttons : c = item.button \/ Gen(c) = {}}
  PROVE  RightlyTyped(Out(item.button, wish, down \ gone))
<1> DEFINE b == item.button
           out == Out(b, wish, down \ gone)
           seen == PollActiveModifiers((down \ gone) \ {b})
<1>1. out.id = id /\ out.mask = desired /\ out.button = b /\ out.mods = seen
  BY DEF Out
<1>2. Gen(b) = item.generates /\ item.required \subseteq item.sensitive /\ item.sensitive \subseteq Mods
  BY GenOfItem, ItemFacts
<1>3. CASE item.generates = {}
  <2>1. \A m \in Mods : m \in x.state <=> IF m \in Sensitive(id, desired, item) THEN m \in item.required
                                         ELSE m \in desired
    BY <1>3 DEF Wanted
  <2>2. x.state \subseteq Mods
    BY DEF Wanted, MapSet
  <2>3. x.state = PollActiveModifiers(down)
    BY ActiveBy DEF Leaves, Fits
  <2>4. seen = PollActiveModifiers(down)
    <3>1. \A m : (\E c \in ((down \ gone) \ {b}) \cap Buttons : m \in Gen(c)) <=> (\E c \in down \cap Buttons : m \in Gen(c))
      BY <1>2, <1>3
    <3>2. \A m : m \in seen <=> \E c \in ((down \ gone) \ {b}) \cap Buttons : m \in Gen(c)
      BY PollBy
    <3>3. \A m : m \in PollActiveModifiers(down) <=> \E c \in down \cap Buttons : m \in Gen(c)
      BY PollBy
    <3> HIDE DEF seen
    <3>4. \A m : m \in seen <=> m \in PollActiveModifiers(down)
      BY <3>1, <3>2, <3>3
    <3> QED BY <3>4
  <2>5. CASE IsCommand(id, desired)
    <3>1. seen = desired
      BY <2>1, <2>2, <2>3, <2>4, <2>5 DEF Sensitive
    <3> HIDE DEF out, seen
    <3> QED BY <1>1, <2>5, <3>1 DEF RightlyTyped, out
  <2>6. CASE ~IsCommand(id, desired)
    <3>1. seen \cap item.sensitive = item.required
      BY <1>2, <2>1, <2>2, <2>3, <2>4, <2>6 DEF Sensitive
    <3> HIDE DEF out, seen
    <3> QED BY <1>1, <2>6, <3>1 DEF RightlyTyped, out, b
  <2> QED BY <2>5, <2>6
<1>4. CASE item.generates # {}
  <2>1. ~IsCommand(id, desired)
    BY <1>4 DEF IsCommand
  <2>2. item.sensitive = {} /\ item.required = {}
    BY <1>2, <1>4, ItemFacts
  <2> HIDE DEF out, seen
  <2> QED BY <1>1, <2>1, <2>2 DEF RightlyTyped, out, b
<1> QED BY <1>3, <1>4

RestOf(x, item, rep) ==
  Strokes(DropOf(AddKey(x, item, rep).active, m_activeModifiers, item.button), FALSE)
  \o Strokes(AddOf(AddKey(x, item, rep).active, m_activeModifiers, item.button), TRUE)

LEMMA KeyPlays ==
  ASSUME TypeOK, NEW id, NEW desired \in SUBSET Mods, NEW rep \in BOOLEAN, NEW map, map.found,
         NEW item, NEW x, NEW wish \in Asked, wish = [id |-> id, mask |-> desired], NEW exact,
         MappedFrom(map, id, desired, rep, item, x, wish, exact),
         Fits(m_activeModifiers, m_mask, pressed, exact),
         rep /\ exact => Gen(item.button) = {} \/ item.button \in pressed,
         NEW core, NEW gone, CorePlay(core, gone, item.button, wish)
  PROVE  \E down, out : Played((x.keys \o core) \o RestOf(x, item, rep), map.active, map.state,
                               item.button, gone, down, out, wish, exact)
<1> DEFINE b == item.button
           y == AddKey(x, item, rep)
           before == m_activeModifiers
           D == DropOf(y.active, before, b)
           A == AddOf(y.active, before, b)
           rest == Strokes(D, FALSE) \o Strokes(A, TRUE)
           left == {a \in y.active : a[2] \notin D}
           add == {a \in before : a[2] \in A}
           keys == (x.keys \o core) \o rest
           gen == IF rep THEN {} ELSE item.generates
           mine == IF rep THEN {} ELSE item.generates \X {b}
<1>1. /\ id \in DOMAIN Layout /\ item \in Range(Layout[id]) /\ item \in Items
      /\ map = KeysToRestoreModifiers(y, item, before)
      /\ Wanted(x, item, desired, Sensitive(id, desired, item), b, wish, exact)
  BY DEF MappedFrom
<1>2. b \in Buttons /\ Gen(b) = item.generates /\ item.generates \in SUBSET Mods
  BY <1>1, ItemFacts, GenOfItem
<1>3. x \in MapSet /\ x.keys \in Seq(Stroke) /\ x.active \in SUBSET (Mods \X Buttons)
  BY <1>1 DEF Wanted, MapSet
<1>4. before \in SUBSET (Mods \X Buttons) /\ pressed \in SUBSET Buttons /\ typed \in Typed \cup {Null}
  BY DEF TypeOK, Typed
<1>5. /\ y \in MapSet /\ y.found = x.found
      /\ y.active = x.active \cup mine /\ y.state = x.state \cup gen
  <2>1. Added(y, x, item, rep)
    BY <1>1, <1>3, AddKeyParts
  <2> HIDE DEF y
  <2> QED BY <2>1 DEF Added
<1> HIDE DEF y
<1>6. /\ map.found = y.found /\ map.active = left \cup add
      /\ map.state = (y.state \ (ModsOf(y.active \ left) \ ModsOf(left))) \cup ModsOf(add)
  <2>1. MovedBack(map, y, b, before)
    BY <1>1, <1>4, <1>5, RestoreParts
  <2> QED BY <2>1 DEF MovedBack
<1>7. PICK d \in SUBSET Buttons : Leaves(x, d, b, wish, exact)
  BY <1>1 DEF Wanted, Moves
<1> DEFINE d1 == (d \ gone) \cup {b}
           now == (d1 \ D) \cup A
           out == Out(b, wish, d \ gone)
<1>8. /\ core \in Seq(Stroke) /\ gone \subseteq {c \in Buttons : c = b \/ Gen(c) = {}}
      /\ Leads(Steps(b, wish), core, Sees(d, typed), Sees(d1, out))
  BY DEF CorePlay
<1>9. d1 \in SUBSET Buttons /\ b \in d1 /\ out \in Typed
  <2>1. PollActiveModifiers((d \ gone) \ {b}) \in SUBSET Mods
    BY PollBy
  <2> QED BY <1>2, <2>1 DEF Out, Typed, Asked
<1>10. before \subseteq ActiveOf(pressed)
  BY DEF Fits
<1>11. /\ \A a \in x.active : a \in Mods \X Buttons /\ a[2] \in d /\ a[1] \in Gen(a[2])
       /\ \A a \in mine : a \in Mods \X Buttons /\ a[2] = b /\ a[1] \in Gen(b)
  <2>1. \A a \in x.active : a \in Mods \X Buttons /\ a[2] \in d /\ a[1] \in Gen(a[2])
    BY <1>7 DEF Leaves, Fits, ActiveOf
  <2>2. \A a \in mine : a \in Mods \X Buttons /\ a[2] = b /\ a[1] \in Gen(b)
    BY <1>2
  <2> QED BY <2>1, <2>2
<1>12. y.active \subseteq ActiveOf(d1)
  <2>1. \A a \in y.active : a \in Mods \X Buttons /\ a[2] \in d1 /\ a[1] \in Gen(a[2])
    BY <1>5, <1>8, <1>11
  <2> QED BY <2>1 DEF ActiveOf
<1>13. \A c \in d1 \ pressed : c = b \/ c \in ButtonsOf(y.active)
  <2>1. \A c \in d \ pressed : c \in ButtonsOf(x.active)
    BY <1>7 DEF Leaves
  <2>2. ButtonsOf(x.active) \subseteq ButtonsOf(y.active)
    BY <1>5 DEF ButtonsOf
  <2> QED BY <2>1, <2>2
<1>14. /\ b \in now /\ now \subseteq pressed \cup {b}
       /\ left \cup add \subseteq ActiveOf(now)
       /\ \A c \in now : Gen(c) = {} => c \in d1
       /\ \A c \in d1 : Gen(c) = {} => c \in now
       /\ (before = ActiveOf(pressed) /\ y.active = ActiveOf(d1)) =>
            /\ left \cup add = ActiveOf(now)
            /\ \A c \in pressed : Gen(c) # {} => c \in now
  <2> HIDE DEF d1
  <2>1. AsBefore(pressed, before, d1, y.active, b)
    BY <1>4, <1>9, <1>10, <1>12, <1>13, Restored
  <2> QED BY <2>1 DEF AsBefore
<1>15. D \in SUBSET Buttons /\ A \in SUBSET Buttons /\ b \notin D /\ b \notin A
  BY DEF DropOf, AddOf
<1>16. rest \in Seq(Stroke) /\ Leads(Steps(b, wish), rest, Sees(d1, out), Sees(now, out))
  <2> HIDE DEF D, A, d1, out
  <2>1. Leads(Steps(b, wish), rest, Sees(d1, out), Sees(now, out))
    BY <1>2, <1>9, <1>15, RestPlays
  <2>2. Strokes(D, FALSE) \in Seq(Stroke) /\ Strokes(A, TRUE) \in Seq(Stroke)
    BY <1>15, StrokesOf
  <2>3. rest \in Seq(Stroke)
    BY <2>2, ConcatProperties
  <2> QED BY <2>1, <2>3
<1> HIDE DEF D, A, rest
<1>17. keys \in Seq(Stroke) /\ Leads(Steps(b, wish), keys, Sees(pressed, typed), Sees(now, out))
  <2> HIDE DEF d1, now, out
  <2>1. Leads(Steps(b, wish), x.keys, Sees(pressed, typed), Sees(d, typed))
    BY <1>7 DEF Leaves
  <2>2. x.keys \o core \in Seq(Stroke) /\ keys \in Seq(Stroke)
    BY <1>3, <1>8, <1>16, ConcatProperties
  <2>3. Leads(Steps(b, wish), x.keys \o core, Sees(pressed, typed), Sees(d1, out))
    BY <1>3, <1>8, <2>1, LeadsConcat
  <2>4. Leads(Steps(b, wish), keys, Sees(pressed, typed), Sees(now, out))
    BY <1>16, <2>2, <2>3, LeadsConcat
  <2> QED BY <2>2, <2>4
<1>18. now \subseteq (pressed \ gone) \cup {b}
  BY <1>8, <1>14
<1>19. ASSUME exact
       PROVE  /\ map.active = ActiveOf(now) /\ map.state = ModsOf(map.active)
              /\ (pressed \ gone) \cup {b} \subseteq now
  <2>1. before = ActiveOf(pressed) /\ x.active = ActiveOf(d) /\ x.state = ModsOf(x.active)
    BY <1>7, <1>19 DEF Leaves, Fits
  <2>2. \A c \in Buttons : c = b \/ Gen(c) = {} => (c \in d <=> c \in pressed)
    BY <1>7 DEF Leaves
  <2>3. y.active = ActiveOf(d1)
    <3> SUFFICES ASSUME NEW a \in ActiveOf(d1) PROVE a \in y.active
      BY <1>12
    <3>1. a \in Mods \X Buttons /\ a[2] \in d1 /\ a[1] \in Gen(a[2]) /\ a = <<a[1], a[2]>>
      BY DEF ActiveOf
    <3>2. CASE a[2] \in d
      <4>1. a \in ActiveOf(d)
        BY <3>1, <3>2 DEF ActiveOf
      <4> QED BY <4>1, <1>5, <2>1
    <3>3. CASE a[2] \notin d
      <4>1. a[2] = b
        BY <3>1, <3>3
      <4>2. ~rep
        BY <4>1, <3>1, <3>3, <1>2, <1>19, <2>2
      <4>3. a \in mine
        BY <4>1, <4>2, <3>1, <1>2
      <4> QED BY <4>3, <1>5
    <3> QED BY <3>2, <3>3
  <2>4. y.state = ModsOf(y.active)
    <3>1. ModsOf(mine) = gen
      <4>1. \A m \in item.generates : <<m, b>> \in item.generates \X {b} /\ <<m, b>>[1] = m
        OBVIOUS
      <4>2. \A a \in item.generates \X {b} : a[1] \in item.generates
        OBVIOUS
      <4> QED BY <4>1, <4>2 DEF ModsOf
    <3>2. ModsOf(x.active \cup mine) = ModsOf(x.active) \cup ModsOf(mine)
      BY DEF ModsOf
    <3> QED BY <1>5, <2>1, <3>1, <3>2
  <2>5. map.active = ActiveOf(now) /\ \A c \in pressed : Gen(c) # {} => c \in now
    BY <1>6, <1>14, <2>1, <2>3
  <2>6. map.state = ModsOf(map.active)
    <3>1. left \subseteq y.active
      OBVIOUS
    <3> HIDE DEF left, add
    <3>2. ModsOf(y.active) = ModsOf(y.active \ left) \cup ModsOf(left)
      BY <3>1 DEF ModsOf
    <3>3. ModsOf(left \cup add) = ModsOf(left) \cup ModsOf(add)
      BY DEF ModsOf
    <3> QED BY <1>6, <2>4, <3>2, <3>3
  <2>7. \A c \in pressed \ gone : Gen(c) = {} => c \in now
    BY <1>4, <1>14, <2>2
  <2> HIDE DEF now
  <2> QED BY <1>14, <2>5, <2>6, <2>7
<1>20. ASSUME exact PROVE RightlyTyped(out)
  BY <1>1, <1>5, <1>6, <1>7, <1>8, <1>20, TypesRightly
<1>21. now \in SUBSET Buttons
  BY <1>4, <1>2, <1>14
<1> HIDE DEF now, out, keys, b
<1>22. Fits(map.active, map.state, now, exact)
  BY <1>6, <1>14, <1>19 DEF Fits
<1>23. Played(keys, map.active, map.state, b, gone, now, out, wish, exact)
  BY <1>17, <1>18, <1>19, <1>20, <1>21, <1>22 DEF Played
<1> QED BY <1>23 DEF keys, rest, D, A, y, b, RestOf

-----------------------------------------------------------------------------
(* What a key does to KeyState *)

\* A key that has been mapped.
IsMapped(map, id, desired) ==
  /\ map \in MapSet /\ id \in DOMAIN Layout /\ [id |-> id, mask |-> desired] \in Asked
  /\ \E item \in Items : item \in Range(Layout[id]) /\ item.button = map.button
  /\ map.button \in Buttons
  /\ \A c : c # map.button => (c \in ButtonsOf(map.active) <=> c \in ButtonsOf(m_activeModifiers))

LEMMA MappedIds ==
  ASSUME NEW id, NEW desired, NEW rep, MapKey(id, desired, rep).found
  PROVE  id \in DOMAIN Layout
<1> DEFINE before == [keys |-> <<>>, active |-> m_activeModifiers, state |-> m_mask,
                      button |-> Null, found |-> FALSE]
           items == IF id \in DOMAIN Layout THEN Candidates(id, desired) ELSE <<>>
           item == Head(items)
           map == KeysForKeyItem([before EXCEPT !.button = item.button, !.found = TRUE],
                                 item, desired, IsCommand(id, desired), rep)
<1>1. MapKey(id, desired, rep) = IF items = <<>> \/ ~map.found THEN before
                                 ELSE KeysToRestoreModifiers(map, item, m_activeModifiers)
  BY DEF MapKey
<1>2. ~before.found
  OBVIOUS
<1>3. id \notin DOMAIN Layout => items = <<>>
  OBVIOUS
<1> HIDE DEF items, map, before
<1> QED BY <1>1, <1>2, <1>3

LEMMA Mapped ==
  ASSUME TypeOK, NEW id, NEW desired \in SUBSET Mods, NEW rep \in BOOLEAN,
         MapKey(id, desired, rep).found
  PROVE  IsMapped(MapKey(id, desired, rep), id, desired)
<1> DEFINE map == MapKey(id, desired, rep)
           wish == [id |-> id, mask |-> desired]
           before == m_activeModifiers
<1>1. id \in DOMAIN Layout
  BY MappedIds
<1>2. wish \in Asked
  BY <1>1 DEF Asked
<1> HIDE DEF wish
<1>3. PICK item, x : MappedFrom(map, id, desired, rep, item, x, wish, FALSE)
  BY <1>2, MapKeyParts
<1> HIDE DEF map
<1> DEFINE y == AddKey(x, item, rep)
           b == item.button
<1>4. /\ item \in Range(Layout[id]) /\ item \in Items
      /\ map = KeysToRestoreModifiers(y, item, before)
      /\ x \in MapSet /\ x.button = b
  BY <1>3 DEF MappedFrom, Wanted
<1>5. b \in Buttons /\ before \in SUBSET (Mods \X Buttons)
  BY <1>4, ItemFacts DEF TypeOK
<1>6. Added(y, x, item, rep)
  BY <1>4, AddKeyParts
<1> HIDE DEF y
<1>7. y \in MapSet /\ y.button = b
  BY <1>4, <1>6 DEF Added
<1>8. MovedBack(map, y, b, before)
  BY <1>4, <1>5, <1>7, RestoreParts
<1>9. map \in MapSet /\ map.button = b
  BY <1>7, <1>8 DEF MovedBack
<1>10. ASSUME NEW c, c # b
       PROVE  c \in ButtonsOf(map.active) <=> c \in ButtonsOf(before)
  <2> DEFINE D == DropOf(y.active, before, b)
             A == AddOf(y.active, before, b)
             left == {a \in y.active : a[2] \notin D}
             add == {a \in before : a[2] \in A}
  <2>1. map.active = left \cup add
    BY <1>8 DEF MovedBack
  <2>2. /\ \A e : e \in D <=> e \in Buttons /\ e # b /\ e \in ButtonsOf(y.active) /\ e \notin ButtonsOf(before)
        /\ \A e : e \in A <=> e \in Buttons /\ e # b /\ e \in ButtonsOf(before) /\ e \notin ButtonsOf(y.active)
    BY DEF DropOf, AddOf
  <2>3. y.active \in SUBSET (Mods \X Buttons)
    BY <1>7 DEF MapSet
  <2>4. /\ \A e : e \in ButtonsOf(y.active) <=> \E a \in y.active : a[2] = e
        /\ \A e : e \in ButtonsOf(before) <=> \E a \in before : a[2] = e
        /\ ButtonsOf(y.active) \subseteq Buttons /\ ButtonsOf(before) \subseteq Buttons
    BY <2>3, <1>5, PairParts
  <2> HIDE DEF D, A
  <2>5. c \in ButtonsOf(map.active) <=> (\E a \in left : a[2] = c) \/ (\E a \in add : a[2] = c)
    BY <2>1 DEF ButtonsOf
  <2> QED BY <1>10, <2>2, <2>4, <2>5
<1>11. IsMapped(map, id, desired)
  BY <1>1, <1>2, <1>4, <1>5, <1>9, <1>10 DEF IsMapped, wish
<1> QED BY <1>11 DEF map

Same == UNCHANGED <<pressed, m_syntheticKeys, m_serverKeys, m_activeModifiers, m_mask, typed>>

PressesKey(key, id, mask, map) ==
  /\ m_serverKeys[key] = Null /\ map = MapKey(id, mask, FALSE) /\ map.found
  /\ m_activeModifiers' = map.active /\ m_mask' = map.state
  /\ m_syntheticKeys' = [m_syntheticKeys EXCEPT ![map.button] = @ + 1]
  /\ m_serverKeys' = [m_serverKeys EXCEPT ![key] = map.button]
  /\ FakeKeys(map.keys, map.button, [id |-> id, mask |-> mask])

RepeatsKey(key, id, mask, map) ==
  /\ m_serverKeys[key] # Null /\ map = MapKey(id, mask, TRUE) /\ map.found
  /\ map.button = m_serverKeys[key]
  /\ m_activeModifiers' = map.active /\ m_mask' = map.state
  /\ UNCHANGED <<m_syntheticKeys, m_serverKeys>>
  /\ FakeKeys(map.keys, map.button, [id |-> id, mask |-> mask])

ReplacesKey(key, id, mask, map) ==
  /\ m_serverKeys[key] # Null /\ map = MapKey(id, mask, TRUE) /\ map.found
  /\ map.button # m_serverKeys[key]
  /\ m_activeModifiers' = map.active /\ m_mask' = map.state
  /\ m_syntheticKeys' = [[m_syntheticKeys EXCEPT ![m_serverKeys[key]] = @ - 1] EXCEPT ![map.button] = @ + 1]
  /\ m_serverKeys' = [m_serverKeys EXCEPT ![key] = map.button]
  /\ FakeKeys(Substituted(map.keys, map.button, m_serverKeys[key]), map.button, [id |-> id, mask |-> mask])

\* The modifiers are put back, so no count but the key's changes.
LEMMA CountsStay ==
  ASSUME NEW map, NEW id, NEW desired, IsMapped(map, id, desired), NEW counts,
         counts = [c \in Buttons |-> counts[c]]
  PROVE  UpdateModifierKeyState(counts, map.button, m_activeModifiers, map.active) = counts
<1>1. \A c \in Buttons : c # map.button => (c \in ButtonsOf(map.active) <=> c \in ButtonsOf(m_activeModifiers))
  BY DEF IsMapped
<1>2. \A c \in Buttons :
        (IF c = map.button THEN counts[c]
         ELSE IF c \in ButtonsOf(m_activeModifiers) \ ButtonsOf(map.active) THEN 0
         ELSE IF c \in ButtonsOf(map.active) \ ButtonsOf(m_activeModifiers) THEN 1
         ELSE counts[c]) = counts[c]
  BY <1>1
<1>3. UpdateModifierKeyState(counts, map.button, m_activeModifiers, map.active) = [c \in Buttons |-> counts[c]]
  BY <1>2 DEF UpdateModifierKeyState
<1> QED BY <1>3

LEMMA RepeatCases ==
  ASSUME TypeOK, NEW key \in Keys, NEW id, NEW mask \in SUBSET Mods, FakeKeyRepeat(key, id, mask)
  PROVE  \/ Same
         \/ RepeatsKey(key, id, mask, MapKey(id, mask, TRUE))
         \/ ReplacesKey(key, id, mask, MapKey(id, mask, TRUE))
<1> DEFINE map == MapKey(id, mask, TRUE)
           old == m_serverKeys[key]
           new == map.button
           gone == [m_syntheticKeys EXCEPT ![old] = @ - 1]
<1>1. CASE old = Null \/ ~map.found
  BY <1>1 DEF FakeKeyRepeat, Same
<1>2. CASE old # Null /\ map.found /\ new = old
  BY <1>2 DEF FakeKeyRepeat, RepeatsKey
<1>3. CASE old # Null /\ map.found /\ new # old
  <2>1. IsMapped(map, id, mask)
    BY <1>3, Mapped
  <2>2. gone = [c \in Buttons |-> gone[c]]
    BY DEF TypeOK
  <2> HIDE DEF gone, map
  <2>3. UpdateModifierKeyState(gone, map.button, m_activeModifiers, map.active) = gone
    BY <2>1, <2>2, CountsStay
  <2>4. /\ m_activeModifiers' = map.active /\ m_mask' = map.state
        /\ m_syntheticKeys' = [UpdateModifierKeyState(gone, new, m_activeModifiers, map.active) EXCEPT ![new] = @ + 1]
        /\ m_serverKeys' = [m_serverKeys EXCEPT ![key] = new]
        /\ FakeKeys(Substituted(map.keys, new, old), new, [id |-> id, mask |-> mask])
    BY <1>3 DEF FakeKeyRepeat, map, gone
  <2>5. m_syntheticKeys' = [gone EXCEPT ![new] = @ + 1]
    BY <2>3, <2>4
  <2> QED BY <1>3, <2>4, <2>5 DEF ReplacesKey, map, gone
<1> QED BY <1>1, <1>2, <1>3

LEMMA DownCases ==
  ASSUME TypeOK, NEW key \in Keys, NEW id, NEW mask \in SUBSET Mods, FakeKeyDown(key, id, mask)
  PROVE  \/ Same
         \/ PressesKey(key, id, mask, MapKey(id, mask, FALSE))
         \/ RepeatsKey(key, id, mask, MapKey(id, mask, TRUE))
         \/ ReplacesKey(key, id, mask, MapKey(id, mask, TRUE))
<1> DEFINE map == MapKey(id, mask, FALSE)
           counts == UpdateModifierKeyState(m_syntheticKeys, map.button, m_activeModifiers, map.active)
<1>1. CASE m_serverKeys[key] # Null
  <2>1. FakeKeyRepeat(key, id, mask)
    BY <1>1 DEF FakeKeyDown
  <2> QED BY <2>1, RepeatCases
<1>2. CASE m_serverKeys[key] = Null /\ ~map.found
  BY <1>2 DEF FakeKeyDown, Same
<1>3. CASE m_serverKeys[key] = Null /\ map.found
  <2>1. IsMapped(map, id, mask)
    BY <1>3, Mapped
  <2>2. m_syntheticKeys = [c \in Buttons |-> m_syntheticKeys[c]]
    BY DEF TypeOK
  <2>3. counts = m_syntheticKeys
    <3> HIDE DEF map
    <3> QED BY <2>1, <2>2, CountsStay
  <2>4. /\ m_activeModifiers' = map.active /\ m_mask' = map.state
        /\ m_syntheticKeys' = [counts EXCEPT ![map.button] = @ + 1]
        /\ m_serverKeys' = [m_serverKeys EXCEPT ![key] = map.button]
        /\ FakeKeys(map.keys, map.button, [id |-> id, mask |-> mask])
    BY <1>3 DEF FakeKeyDown
  <2> HIDE DEF counts, map
  <2> QED BY <1>3, <2>3, <2>4 DEF PressesKey, map
<1> QED BY <1>1, <1>2, <1>3

-----------------------------------------------------------------------------
(* Types, and what m_syntheticKeys counts *)

KeysOn(buttons, b) == {k \in Keys : buttons[k] = b}

Counted(counts, buttons) == \A b \in Buttons : counts[b] = Cardinality(KeysOn(buttons, b))

TypeInv == TypeOK /\ Counted(m_syntheticKeys, m_serverKeys)

LEMMA KeysOnFinite ==
  \A buttons, b : /\ IsFiniteSet(KeysOn(buttons, b)) /\ Cardinality(KeysOn(buttons, b)) \in Nat
                  /\ Cardinality(KeysOn(buttons, b)) \in 0 .. Cardinality(Keys)
<1> SUFFICES ASSUME NEW buttons, NEW b
             PROVE  /\ IsFiniteSet(KeysOn(buttons, b)) /\ Cardinality(KeysOn(buttons, b)) \in Nat
                    /\ Cardinality(KeysOn(buttons, b)) \in 0 .. Cardinality(Keys)
  OBVIOUS
<1> DEFINE K == KeysOn(buttons, b)
<1>1. K \subseteq Keys /\ IsFiniteSet(Keys)
  BY KeyStateAssumption DEF KeysOn
<1> HIDE DEF K
<1>2. IsFiniteSet(K) /\ Cardinality(K) <= Cardinality(Keys)
  BY <1>1, FS_Subset
<1>3. Cardinality(K) \in Nat /\ Cardinality(Keys) \in Nat
  BY <1>1, <1>2, FS_CardinalityType
<1> QED BY <1>2, <1>3 DEF K

\* The key lets go of its button, if it had one, and takes another.
CountMoves(buttons, after, old, new, b) ==
  /\ b = new => Cardinality(KeysOn(after, b)) = Cardinality(KeysOn(buttons, b)) + 1
  /\ b = old => Cardinality(KeysOn(after, b)) = Cardinality(KeysOn(buttons, b)) - 1
  /\ b # new /\ b # old => KeysOn(after, b) = KeysOn(buttons, b)

LEMMA CountsMove ==
  ASSUME NEW buttons \in [Keys -> Buttons \cup {Null}], NEW key \in Keys,
         NEW new \in Buttons \cup {Null}, new # buttons[key],
         NEW b
  PROVE  CountMoves(buttons, [buttons EXCEPT ![key] = new], buttons[key], new, b)
<1> DEFINE after == [buttons EXCEPT ![key] = new]
           K == KeysOn(buttons, b)
           L == KeysOn(after, b)
<1>1. after[key] = new /\ \A k \in Keys : k # key => after[k] = buttons[k]
  OBVIOUS
<1> HIDE DEF after
<1>2. \A k : (k \in K <=> k \in Keys /\ buttons[k] = b) /\ (k \in L <=> k \in Keys /\ after[k] = b)
  BY DEF KeysOn
<1>3. IsFiniteSet(K) /\ Cardinality(K) \in Nat
  BY KeysOnFinite
<1> HIDE DEF K, L
<1>4. ASSUME b = new PROVE Cardinality(L) = Cardinality(K) + 1
  <2>1. L = K \cup {key} /\ key \notin K
    BY <1>1, <1>2, <1>4
  <2> QED BY <1>3, <2>1, FS_AddElement
<1>5. ASSUME b = buttons[key] PROVE Cardinality(L) = Cardinality(K) - 1
  <2>1. L = K \ {key} /\ key \in K
    BY <1>1, <1>2, <1>5
  <2> QED BY <1>3, <2>1, FS_RemoveElement
<1>6. ASSUME b # new, b # buttons[key] PROVE L = K
  BY <1>1, <1>2, <1>6
<1> QED BY <1>4, <1>5, <1>6 DEF after, K, L, CountMoves

LEMMA FakeKeysTyped ==
  ASSUME TypeOK, NEW keys \in Seq(Stroke), NEW button \in Buttons, NEW wish \in Asked,
         FakeKeys(keys, button, wish)
  PROVE  pressed' \in SUBSET Buttons /\ typed' \in Typed \cup {Null}
<1> DEFINE p == Sees(pressed, typed)
<1>1. p \in Sys
  BY SysStart
<1>2. PICK q \in Sys : Leads(Steps(button, wish), keys, p, q)
  BY <1>1, StrokesLead
<1>3. pressed' = q.down /\ typed' = q.out
  BY <1>2, FakeKeysLead
<1> QED BY <1>3 DEF Sys

\* The types hold afterwards, given the counts.
LEMMA TypedNext ==
  ASSUME TypeOK, NEW map, NEW id, NEW mask, IsMapped(map, id, mask),
         m_activeModifiers' = map.active, m_mask' = map.state, held' \subseteq Keys, entered' \in BOOLEAN,
         m_serverKeys' \in [Keys -> Buttons \cup {Null}],
         NEW keys \in Seq(Stroke), FakeKeys(keys, map.button, [id |-> id, mask |-> mask]),
         DOMAIN m_syntheticKeys' = Buttons, m_syntheticKeys' = [b \in Buttons |-> m_syntheticKeys'[b]],
         Counted(m_syntheticKeys, m_serverKeys)'
  PROVE  TypeInv'
<1>1. pressed' \in SUBSET Buttons /\ typed' \in Typed \cup {Null}
  BY FakeKeysTyped DEF IsMapped
<1>2. m_activeModifiers' \subseteq Mods \X Buttons /\ m_mask' \subseteq Mods
  BY DEF IsMapped, MapSet
<1>3. \A b \in Buttons : m_syntheticKeys'[b] \in 0 .. Cardinality(Keys)
  BY KeysOnFinite DEF Counted
<1>4. m_syntheticKeys' \in [Buttons -> 0 .. Cardinality(Keys)]
  BY <1>3
<1> QED BY <1>1, <1>2, <1>4 DEF TypeInv, TypeOK, Typed

LEMMA PressTypes ==
  ASSUME TypeInv, NEW key \in Keys, NEW id, NEW mask \in SUBSET Mods,
         PressesKey(key, id, mask, MapKey(id, mask, FALSE)), held' \subseteq Keys, entered' \in BOOLEAN
  PROVE  TypeInv'
<1> DEFINE map == MapKey(id, mask, FALSE)
           b == map.button
<1>1. map.found /\ TypeOK
  BY DEF PressesKey, TypeInv
<1>2. IsMapped(map, id, mask)
  BY <1>1, Mapped
<1> HIDE DEF map
<1>3. /\ m_serverKeys[key] = Null /\ m_activeModifiers' = map.active /\ m_mask' = map.state
      /\ m_syntheticKeys' = [m_syntheticKeys EXCEPT ![b] = @ + 1]
      /\ m_serverKeys' = [m_serverKeys EXCEPT ![key] = b]
      /\ FakeKeys(map.keys, b, [id |-> id, mask |-> mask])
  BY DEF PressesKey, map
<1>4. b \in Buttons /\ b # Null /\ map.keys \in Seq(Stroke)
  BY <1>2, ItemFacts DEF IsMapped, MapSet
<1>5. m_serverKeys \in [Keys -> Buttons \cup {Null}] /\ m_syntheticKeys \in [Buttons -> 0 .. Cardinality(Keys)]
  BY <1>1 DEF TypeOK
<1> HIDE DEF b
<1>6. m_serverKeys' \in [Keys -> Buttons \cup {Null}]
  BY <1>3, <1>4, <1>5
<1>7. ASSUME NEW c \in Buttons PROVE m_syntheticKeys'[c] = Cardinality(KeysOn(m_serverKeys', c))
  <2>1. m_syntheticKeys[c] = Cardinality(KeysOn(m_serverKeys, c)) /\ c # Null
    BY ItemFacts DEF TypeInv, Counted
  <2>2. /\ c = b => Cardinality(KeysOn(m_serverKeys', c)) = Cardinality(KeysOn(m_serverKeys, c)) + 1
        /\ c # b => KeysOn(m_serverKeys', c) = KeysOn(m_serverKeys, c)
    <3>1. CountMoves(m_serverKeys, m_serverKeys', Null, b, c)
      BY <1>3, <1>4, <1>5, CountsMove
    <3> QED BY <2>1, <3>1 DEF CountMoves
  <2> QED BY <1>3, <1>5, <2>1, <2>2
<1>8. Counted(m_syntheticKeys, m_serverKeys)'
  BY <1>7 DEF Counted
<1>9. DOMAIN m_syntheticKeys' = Buttons /\ m_syntheticKeys' = [c \in Buttons |-> m_syntheticKeys'[c]]
  BY <1>3, <1>5
<1> QED BY <1>1, <1>2, <1>3, <1>4, <1>6, <1>8, <1>9, TypedNext DEF b

LEMMA RepeatTypes ==
  ASSUME TypeInv, NEW key \in Keys, NEW id, NEW mask \in SUBSET Mods,
         RepeatsKey(key, id, mask, MapKey(id, mask, TRUE)), held' \subseteq Keys, entered' \in BOOLEAN
  PROVE  TypeInv'
<1> DEFINE map == MapKey(id, mask, TRUE)
<1>1. map.found /\ TypeOK
  BY DEF RepeatsKey, TypeInv
<1>2. IsMapped(map, id, mask)
  BY <1>1, Mapped
<1> HIDE DEF map
<1>3. /\ m_activeModifiers' = map.active /\ m_mask' = map.state
      /\ m_syntheticKeys' = m_syntheticKeys /\ m_serverKeys' = m_serverKeys
      /\ FakeKeys(map.keys, map.button, [id |-> id, mask |-> mask])
  BY DEF RepeatsKey, map
<1>4. map.keys \in Seq(Stroke)
  BY <1>2 DEF IsMapped, MapSet
<1>5. m_serverKeys \in [Keys -> Buttons \cup {Null}] /\ m_syntheticKeys \in [Buttons -> 0 .. Cardinality(Keys)]
  BY <1>1 DEF TypeOK
<1>6. Counted(m_syntheticKeys, m_serverKeys)'
  BY <1>3 DEF TypeInv, Counted
<1>7. DOMAIN m_syntheticKeys' = Buttons /\ m_syntheticKeys' = [c \in Buttons |-> m_syntheticKeys'[c]]
      /\ m_serverKeys' \in [Keys -> Buttons \cup {Null}]
  BY <1>3, <1>5
<1> QED BY <1>1, <1>2, <1>3, <1>4, <1>6, <1>7, TypedNext

LEMMA ReplaceTypes ==
  ASSUME TypeInv, NEW key \in Keys, NEW id, NEW mask \in SUBSET Mods,
         ReplacesKey(key, id, mask, MapKey(id, mask, TRUE)), held' \subseteq Keys, entered' \in BOOLEAN
  PROVE  TypeInv'
<1> DEFINE map == MapKey(id, mask, TRUE)
           new == map.button
           old == m_serverKeys[key]
           keys == Substituted(map.keys, new, old)
<1>1. map.found /\ TypeOK
  BY DEF ReplacesKey, TypeInv
<1>2. IsMapped(map, id, mask)
  BY <1>1, Mapped
<1> HIDE DEF map
<1>3. /\ old # Null /\ new # old /\ m_activeModifiers' = map.active /\ m_mask' = map.state
      /\ m_syntheticKeys' = [[m_syntheticKeys EXCEPT ![old] = @ - 1] EXCEPT ![new] = @ + 1]
      /\ m_serverKeys' = [m_serverKeys EXCEPT ![key] = new]
      /\ FakeKeys(keys, new, [id |-> id, mask |-> mask])
  BY DEF ReplacesKey, map
<1>4. new \in Buttons /\ new # Null /\ map.keys \in Seq(Stroke)
  BY <1>2, ItemFacts DEF IsMapped, MapSet
<1>5. m_serverKeys \in [Keys -> Buttons \cup {Null}] /\ m_syntheticKeys \in [Buttons -> 0 .. Cardinality(Keys)]
  BY <1>1 DEF TypeOK
<1>6. old \in Buttons
  BY <1>3, <1>5
<1>7. keys \in Seq(Stroke)
  BY <1>4, <1>6, SubstitutedType
<1> HIDE DEF new, old, keys
<1>8. m_serverKeys' \in [Keys -> Buttons \cup {Null}]
  BY <1>3, <1>4, <1>5
<1>9. ASSUME NEW c \in Buttons PROVE m_syntheticKeys'[c] = Cardinality(KeysOn(m_serverKeys', c))
  <2>1. m_syntheticKeys[c] = Cardinality(KeysOn(m_serverKeys, c)) /\ m_syntheticKeys[c] \in Nat
    BY KeysOnFinite DEF TypeInv, Counted
  <2>2. /\ c = new => Cardinality(KeysOn(m_serverKeys', c)) = Cardinality(KeysOn(m_serverKeys, c)) + 1
        /\ c = old => Cardinality(KeysOn(m_serverKeys', c)) = Cardinality(KeysOn(m_serverKeys, c)) - 1
        /\ c # new /\ c # old => KeysOn(m_serverKeys', c) = KeysOn(m_serverKeys, c)
    <3>1. CountMoves(m_serverKeys, m_serverKeys', old, new, c)
      BY <1>3, <1>4, <1>5, CountsMove DEF old
    <3> QED BY <3>1 DEF CountMoves
  <2>3. m_syntheticKeys'[c] = IF c = new THEN m_syntheticKeys[c] + 1
                              ELSE IF c = old THEN m_syntheticKeys[c] - 1 ELSE m_syntheticKeys[c]
    BY <1>3, <1>4, <1>5, <1>6
  <2> QED BY <1>3, <2>1, <2>2, <2>3
<1>10. Counted(m_syntheticKeys, m_serverKeys)'
  BY <1>9 DEF Counted
<1>11. DOMAIN m_syntheticKeys' = Buttons /\ m_syntheticKeys' = [c \in Buttons |-> m_syntheticKeys'[c]]
  BY <1>3, <1>5
<1> QED BY <1>1, <1>2, <1>3, <1>7, <1>8, <1>10, <1>11, TypedNext DEF new

LEMMA UpTypes ==
  ASSUME TypeInv, NEW key \in Keys, FakeKeyUp(key), held' \subseteq Keys, entered' \in BOOLEAN
  PROVE  TypeInv'
<1> DEFINE b == m_serverKeys[key]
           left == {a \in m_activeModifiers : a[2] # b}
<1>1. TypeOK /\ Counted(m_syntheticKeys, m_serverKeys)
  BY DEF TypeInv
<1>2. CASE b = Null
  <2>1. Same
    BY <1>2 DEF FakeKeyUp, Same
  <2> QED BY <1>1, <2>1 DEF Same, TypeInv, TypeOK, Counted
<1>3. CASE b # Null
  <2>1. /\ m_syntheticKeys' = [m_syntheticKeys EXCEPT ![b] = @ - 1]
        /\ m_serverKeys' = [m_serverKeys EXCEPT ![key] = Null]
        /\ m_activeModifiers' = left
        /\ m_mask' = m_mask \ (ModsOf(m_activeModifiers \ left) \ ModsOf(left))
        /\ pressed' = pressed \ {b} /\ typed' = typed
    BY <1>3 DEF FakeKeyUp
  <2>2. m_serverKeys \in [Keys -> Buttons \cup {Null}] /\ m_syntheticKeys \in [Buttons -> 0 .. Cardinality(Keys)]
    BY <1>1 DEF TypeOK
  <2>3. b \in Buttons
    BY <1>3, <2>2
  <2>4. m_activeModifiers' \subseteq Mods \X Buttons /\ m_mask' \subseteq Mods /\ pressed' \subseteq Buttons
    BY <1>1, <2>1 DEF TypeOK
  <2>5. m_serverKeys' \in [Keys -> Buttons \cup {Null}]
    BY <2>1, <2>2
  <2> HIDE DEF b
  <2>6. ASSUME NEW c \in Buttons PROVE m_syntheticKeys'[c] = Cardinality(KeysOn(m_serverKeys', c))
    <3>1. m_syntheticKeys[c] = Cardinality(KeysOn(m_serverKeys, c)) /\ c # Null
      BY <1>1, ItemFacts DEF Counted
    <3>2. /\ c = b => Cardinality(KeysOn(m_serverKeys', c)) = Cardinality(KeysOn(m_serverKeys, c)) - 1
          /\ c # b => KeysOn(m_serverKeys', c) = KeysOn(m_serverKeys, c)
      <4>1. CountMoves(m_serverKeys, m_serverKeys', b, Null, c)
        BY <1>3, <2>1, <2>2, CountsMove DEF b
      <4> QED BY <3>1, <4>1 DEF CountMoves
    <3> QED BY <2>1, <2>2, <3>1, <3>2
  <2>7. Counted(m_syntheticKeys, m_serverKeys)'
    BY <2>6 DEF Counted
  <2>8. \A c \in Buttons : m_syntheticKeys'[c] \in 0 .. Cardinality(Keys)
    BY <2>6, KeysOnFinite
  <2>9. m_syntheticKeys' \in [Buttons -> 0 .. Cardinality(Keys)]
    BY <2>1, <2>2, <2>8
  <2>10. typed' = Null \/ typed' \in Typed
    BY <1>1, <2>1 DEF TypeOK, Typed
  <2> QED BY <2>4, <2>5, <2>7, <2>9, <2>10 DEF TypeInv, TypeOK, Typed
<1> QED BY <1>2, <1>3

LEMMA NoneCounted ==
  ASSUME NEW counts, NEW buttons, counts = [b \in Buttons |-> 0], buttons = [k \in Keys |-> Null]
  PROVE  Counted(counts, buttons) /\ counts \in [Buttons -> 0 .. Cardinality(Keys)]
<1>1. \A b \in Buttons : KeysOn(buttons, b) = {}
  BY ItemFacts DEF KeysOn
<1>2. Cardinality(Keys) \in Nat
  BY KeyStateAssumption, FS_CardinalityType
<1> QED BY <1>1, <1>2, FS_EmptySet DEF Counted

LEMMA ServerMaskType ==
  ASSUME held \subseteq Keys
  PROVE  ServerMask \in SUBSET Mods
BY KeyStateAssumption DEF ServerMask

LEMMA KeyTypesStep ==
  ASSUME TypeInv, [Next]_vars
  PROVE  TypeInv'
<1>1. TypeOK /\ Counted(m_syntheticKeys, m_serverKeys) /\ held \subseteq Keys
  BY DEF TypeInv, TypeOK
<1>2. ServerMask \in SUBSET Mods
  BY <1>1, ServerMaskType
<1>3. ASSUME Same, held' \subseteq Keys, entered' \in BOOLEAN PROVE TypeInv'
  BY <1>1, <1>3 DEF Same, TypeInv, TypeOK, Counted
<1>4. CASE UNCHANGED vars
  BY <1>1, <1>4 DEF vars, TypeInv, TypeOK, Counted
<1>5. ASSUME NEW key \in Keys, KeyDown(key) PROVE TypeInv'
  <2>1. held' \subseteq Keys /\ entered' \in BOOLEAN
    BY <1>1, <1>5 DEF KeyDown, TypeOK
  <2>2. FakeKeyDown(key, IdOf(key), ServerMask)
    BY <1>5 DEF KeyDown
  <2> QED BY <1>1, <1>2, <1>3, <2>1, <2>2, DownCases, PressTypes, RepeatTypes, ReplaceTypes
<1>6. ASSUME NEW key \in Keys, KeyRepeat(key) PROVE TypeInv'
  <2>1. held' \subseteq Keys /\ entered' \in BOOLEAN
    BY <1>1, <1>6 DEF KeyRepeat, TypeOK
  <2>2. FakeKeyRepeat(key, IdOf(key), ServerMask)
    BY <1>6 DEF KeyRepeat
  <2> QED BY <1>1, <1>2, <1>3, <2>1, <2>2, RepeatCases, RepeatTypes, ReplaceTypes
<1>7. ASSUME NEW key \in Keys, KeyUp(key) PROVE TypeInv'
  <2>1. held' \subseteq Keys /\ entered' \in BOOLEAN /\ FakeKeyUp(key)
    BY <1>1, <1>7 DEF KeyUp, TypeOK
  <2> QED BY <2>1, UpTypes
<1>8. ASSUME NEW key \in Keys, TypeElsewhere(key) PROVE TypeInv'
  <2>1. Same /\ held' \subseteq Keys /\ entered' \in BOOLEAN
    BY <1>1, <1>8 DEF TypeElsewhere, TypeOK, Same
  <2> QED BY <1>3, <2>1
<1>9. CASE Enter
  <2>1. Same /\ held' \subseteq Keys /\ entered' \in BOOLEAN
    BY <1>1, <1>9 DEF Enter, TypeOK, Same
  <2> QED BY <1>3, <2>1
<1>10. CASE Leave
  <2>1. /\ pressed' \subseteq Buttons /\ held' = held /\ typed' = typed /\ entered' \in BOOLEAN
        /\ m_syntheticKeys' = [b \in Buttons |-> 0] /\ m_serverKeys' = [k \in Keys |-> Null]
        /\ m_activeModifiers' = {} /\ m_mask' = PollActiveModifiers(pressed')
    BY <1>1, <1>10 DEF Leave, FakeAllKeysUp, TypeOK
  <2>2. Counted(m_syntheticKeys', m_serverKeys') /\ m_syntheticKeys' \in [Buttons -> 0 .. Cardinality(Keys)]
    BY <2>1, NoneCounted
  <2>3. m_mask' \subseteq Mods
    BY <2>1, PollBy
  <2>4. m_serverKeys' \in [Keys -> Buttons \cup {Null}]
    BY <2>1
  <2> QED BY <1>1, <2>1, <2>2, <2>3, <2>4 DEF TypeInv, TypeOK, Counted
<1>11. CASE UpdateKeyState
  <2>1. /\ pressed' = pressed /\ held' = held /\ typed' = typed /\ entered' = entered
        /\ m_syntheticKeys' = [b \in Buttons |-> 0] /\ m_serverKeys' = [k \in Keys |-> Null]
        /\ m_mask' = PollActiveModifiers(pressed)
        /\ m_activeModifiers' = UNION {{m} \X {item.button : item \in Range(m_modifierKeys[m])} : m \in m_mask'}
    BY <1>11 DEF UpdateKeyState
  <2>2. Counted(m_syntheticKeys', m_serverKeys') /\ m_syntheticKeys' \in [Buttons -> 0 .. Cardinality(Keys)]
    BY <2>1, NoneCounted
  <2>3. m_mask' \subseteq Mods
    BY <2>1, PollBy
  <2>4. \A m \in Mods : \A item \in Range(m_modifierKeys[m]) : item.button \in Buttons
    BY KeyStateAssumption, ItemFacts
  <2>5. m_activeModifiers' \subseteq Mods \X Buttons
    BY <2>1, <2>3, <2>4
  <2>6. m_serverKeys' \in [Keys -> Buttons \cup {Null}]
    BY <2>1
  <2> QED BY <1>1, <2>1, <2>2, <2>3, <2>5, <2>6 DEF TypeInv, TypeOK, Counted
<1> QED BY <1>4, <1>5, <1>6, <1>7, <1>8, <1>9, <1>10, <1>11 DEF Next

LEMMA KeyTypesInit ==
  ASSUME Init
  PROVE  TypeInv
<1>1. Counted(m_syntheticKeys, m_serverKeys) /\ m_syntheticKeys \in [Buttons -> 0 .. Cardinality(Keys)]
  BY NoneCounted DEF Init
<1>2. m_serverKeys \in [Keys -> Buttons \cup {Null}]
  BY DEF Init
<1> QED BY <1>1, <1>2 DEF Init, TypeInv, TypeOK

\* Every variable has its type, and a button that KeyState has pressed n times
\* is the button of n keys of the server, on every platform and with any layout
\* (KeyState::m_syntheticKeys, m_serverKeys).
THEOREM KeyTypes ==
  /\ Spec => []TypeOK
  /\ Spec => [](\A b \in Buttons : m_syntheticKeys[b] = Cardinality(KeysOn(m_serverKeys, b)))
<1>1. Init => TypeInv
  BY KeyTypesInit
<1>2. TypeInv /\ [Next]_vars => TypeInv'
  BY KeyTypesStep
<1>3. TypeInv => TypeOK /\ \A b \in Buttons : m_syntheticKeys[b] = Cardinality(KeysOn(m_serverKeys, b))
  BY DEF TypeInv, Counted
<1> QED BY <1>1, <1>2, <1>3, PTL DEF Spec

-----------------------------------------------------------------------------
(* What is down, and what is believed to be *)

HeldInv ==
  /\ \A k \in Keys : m_serverKeys[k] # Null =>
       entered /\ k \in held /\ \E i \in ItemsOf(k) : i.button = m_serverKeys[k]
  /\ \A b \in pressed : \E k \in Keys : m_serverKeys[k] = b
  /\ m_activeModifiers \subseteq ActiveOf(pressed)

AgreeInv ==
  /\ m_activeModifiers = ActiveOf(pressed) /\ m_mask = ModsOf(m_activeModifiers)
  /\ \A k \in Keys : m_serverKeys[k] # Null /\ Gen(m_serverKeys[k]) # {} => m_serverKeys[k] \in pressed
  /\ typed # Null => RightlyTyped(typed)

KeyInv(exact) == TypeInv /\ HeldInv /\ (exact => AgreeInv)

LEMMA ItemOfKey ==
  ASSUME NEW key, NEW item, IdOf(key) \in DOMAIN Layout, item \in Range(Layout[IdOf(key)])
  PROVE  item \in ItemsOf(key)
<1>1. \E s \in BOOLEAN : IdOf(key) = KeyId[key][s]
  <2>1. ("Shift" \in ServerMask) \in BOOLEAN
    OBVIOUS
  <2> QED BY <2>1 DEF IdOf
<1> QED BY <1>1 DEF ItemsOf

\* The keys are mapped to items of the layout.
LEMMA ItemsOfKnown ==
  \A key : ItemsOf(key) \subseteq Items
BY KeyStateAssumption, InItsRange DEF ItemsOf, Items

MappedKeys(map, x, item, rep) ==
  /\ map.keys = (x.keys \o CoreOf(item.button, rep)) \o RestOf(x, item, rep)
  /\ x.keys \in Seq(Stroke) /\ RestOf(x, item, rep) \in Seq(Stroke)
  /\ map.button = item.button /\ item \in Items /\ item.button \in Buttons

LEMMA ConcatStrokes ==
  \A s, t, u \in Seq(Stroke) : (s \o t) \o u = s \o (t \o u)
BY ConcatAssociative

LEMMA KeysAre ==
  ASSUME TypeOK, NEW id, NEW desired, NEW rep \in BOOLEAN, NEW map, NEW item, NEW x, NEW wish, NEW exact,
         MappedFrom(map, id, desired, rep, item, x, wish, exact)
  PROVE  MappedKeys(map, x, item, rep)
<1> DEFINE y == AddKey(x, item, rep)
           b == item.button
           before == m_activeModifiers
           s == Strokes(DropOf(y.active, before, b), FALSE)
           t == Strokes(AddOf(y.active, before, b), TRUE)
<1>1. /\ item \in Items /\ map = KeysToRestoreModifiers(y, item, before)
      /\ x \in MapSet /\ x.button = b
  BY DEF MappedFrom, Wanted
<1>2. b \in Buttons /\ before \in SUBSET (Mods \X Buttons) /\ x.keys \in Seq(Stroke)
  BY <1>1, ItemFacts DEF TypeOK, MapSet
<1>3. RestOf(x, item, rep) = s \o t
  BY DEF RestOf
<1>4. Added(y, x, item, rep)
  BY <1>1, AddKeyParts
<1> HIDE DEF y
<1>5. y \in MapSet /\ y.button = b /\ y.keys = x.keys \o CoreOf(b, rep)
  BY <1>1, <1>4 DEF Added
<1>6. y.keys \in Seq(Stroke)
  BY <1>5 DEF MapSet
<1>7. MovedBack(map, y, b, before)
  BY <1>1, <1>2, <1>5, RestoreParts
<1>8. s \in Seq(Stroke) /\ t \in Seq(Stroke)
  <2>1. DropOf(y.active, before, b) \in SUBSET Buttons /\ AddOf(y.active, before, b) \in SUBSET Buttons
    BY DEF DropOf, AddOf
  <2> QED BY <2>1, StrokesOf
<1>9. map.button = b /\ map.keys = (y.keys \o s) \o t
  BY <1>5, <1>7 DEF MovedBack
<1> HIDE DEF s, t
<1>10. s \o t \in Seq(Stroke) /\ (y.keys \o s) \o t = y.keys \o (s \o t)
  <2>1. s \o t \in Seq(Stroke)
    BY <1>8, ConcatProperties
  <2>2. (y.keys \o s) \o t = y.keys \o (s \o t)
    BY <1>6, <1>8, ConcatStrokes
  <2> QED BY <2>1, <2>2
<1> QED BY <1>1, <1>2, <1>3, <1>5, <1>9, <1>10 DEF MappedKeys

\* The invariant holds again once the key has been typed.
LEMMA PlayedKeeps ==
  ASSUME NEW exact, KeyInv(exact), TypeInv', NEW key \in Keys, NEW b \in Buttons, NEW gone,
         gone \subseteq {c \in Buttons : c = b \/ Gen(c) = {}},
         m_serverKeys[key] = Null \/ m_serverKeys[key] = b \/ m_serverKeys[key] \in gone,
         m_serverKeys' = [m_serverKeys EXCEPT ![key] = b], \E i \in ItemsOf(key) : i.button = b,
         entered', held \subseteq held', key \in held',
         NEW keys, NEW down, NEW out, NEW wish, FakeKeys(keys, b, wish),
         Played(keys, m_activeModifiers', m_mask', b, gone, down, out, wish, exact)
  PROVE  KeyInv(exact)'
<1>1. pressed' = down /\ typed' = out
  BY FakeKeysLead DEF Played, Sees
<1>2. /\ TypeInv /\ HeldInv /\ (exact => AgreeInv)
      /\ m_serverKeys \in [Keys -> Buttons \cup {Null}] /\ pressed \subseteq Buttons
  BY DEF KeyInv, TypeInv, TypeOK
<1>3. m_serverKeys'[key] = b /\ \A k \in Keys : k # key => m_serverKeys'[k] = m_serverKeys[k]
  BY <1>2
<1>4. /\ down \subseteq (pressed \ gone) \cup {b} /\ Fits(m_activeModifiers', m_mask', down, exact)
      /\ exact => (pressed \ gone) \cup {b} \subseteq down /\ RightlyTyped(out)
  BY DEF Played
<1>5. HeldInv'
  <2>1. \A k \in Keys : m_serverKeys'[k] # Null =>
          entered' /\ k \in held' /\ \E i \in ItemsOf(k) : i.button = m_serverKeys'[k]
    BY <1>2, <1>3 DEF HeldInv
  <2>2. ASSUME NEW c \in pressed' PROVE \E k \in Keys : m_serverKeys'[k] = c
    <3>1. CASE c = b
      BY <1>3, <3>1
    <3>2. CASE c # b
      <4>1. c \in pressed \ gone /\ c # Null
        BY <1>1, <1>2, <1>4, <3>2, ItemFacts
      <4>2. PICK k \in Keys : m_serverKeys[k] = c
        BY <1>2, <4>1 DEF HeldInv
      <4>3. k # key
        BY <3>2, <4>1, <4>2
      <4> QED BY <1>3, <4>2, <4>3
    <3> QED BY <3>1, <3>2
  <2>3. m_activeModifiers' \subseteq ActiveOf(pressed')
    BY <1>1, <1>4 DEF Fits
  <2>4. ActiveOf(pressed)' = ActiveOf(pressed')
    BY DEF ActiveOf, Gen, PollActiveModifiers
  <2> QED BY <2>1, <2>2, <2>3, <2>4 DEF HeldInv, ItemsOf
<1>6. ASSUME exact PROVE AgreeInv'
  <2>1. m_activeModifiers' = ActiveOf(pressed') /\ m_mask' = ModsOf(m_activeModifiers')
    BY <1>1, <1>4, <1>6 DEF Fits
  <2>2. ASSUME NEW k \in Keys, m_serverKeys'[k] # Null, Gen(m_serverKeys'[k]) # {}
        PROVE  m_serverKeys'[k] \in pressed'
    <3>1. CASE k = key
      BY <1>1, <1>3, <1>4, <1>6, <3>1
    <3>2. CASE k # key
      <4>1. m_serverKeys[k] \in pressed /\ m_serverKeys'[k] = m_serverKeys[k]
        BY <1>2, <1>3, <1>6, <2>2, <3>2 DEF AgreeInv
      <4> QED BY <1>1, <1>4, <1>6, <2>2, <4>1
    <3> QED BY <3>1, <3>2
  <2>3. RightlyTyped(typed')
    BY <1>1, <1>4, <1>6
  <2>4. /\ ActiveOf(pressed)' = ActiveOf(pressed') /\ ModsOf(m_activeModifiers)' = ModsOf(m_activeModifiers')
        /\ \A k \in Keys : Gen(m_serverKeys[k])' = Gen(m_serverKeys'[k])
        /\ RightlyTyped(typed)' = RightlyTyped(typed')
    BY DEF ActiveOf, Gen, PollActiveModifiers, ModsOf, RightlyTyped, IsCommand
  <2> QED BY <2>1, <2>2, <2>3, <2>4 DEF AgreeInv
<1> QED BY <1>5, <1>6 DEF KeyInv

\* What the invariant gives to the keystrokes.
LEMMA InvFits ==
  ASSUME NEW exact, KeyInv(exact)
  PROVE  /\ TypeInv /\ TypeOK /\ Fits(m_activeModifiers, m_mask, pressed, exact)
         /\ \A k \in Keys : exact /\ m_serverKeys[k] # Null =>
              Gen(m_serverKeys[k]) = {} \/ m_serverKeys[k] \in pressed
<1>1. TypeInv /\ TypeOK /\ HeldInv /\ (exact => AgreeInv)
  BY DEF KeyInv, TypeInv
<1> QED BY <1>1 DEF HeldInv, AgreeInv, Fits

LEMMA PressKeeps ==
  ASSUME NEW exact, KeyInv(exact), TypeInv', NEW key \in Keys, NEW mask, mask = ServerMask,
         NEW id, id = IdOf(key), PressesKey(key, id, mask, MapKey(id, mask, FALSE)),
         entered', held \subseteq held', key \in held'
  PROVE  KeyInv(exact)'
<1> DEFINE map == MapKey(id, mask, FALSE)
           wish == [id |-> id, mask |-> mask]
<1>1. TypeOK /\ Fits(m_activeModifiers, m_mask, pressed, exact) /\ mask \in SUBSET Mods
  BY InvFits, ServerMaskType DEF TypeOK
<1>2. map.found
  BY DEF PressesKey
<1>3. IsMapped(map, id, mask)
  BY <1>1, <1>2, Mapped
<1>4. wish \in Asked
  BY <1>3 DEF IsMapped
<1>5. PICK item, x : MappedFrom(map, id, mask, FALSE, item, x, wish, exact)
  BY <1>1, <1>2, <1>4, MapKeyParts
<1> HIDE DEF map, wish
<1> DEFINE b == item.button
           core == <<Keystroke(b, TRUE, FALSE)>>
<1>6. /\ map.keys = (x.keys \o CoreOf(b, FALSE)) \o RestOf(x, item, FALSE)
      /\ map.button = b /\ item \in Items /\ b \in Buttons
  <2>1. MappedKeys(map, x, item, FALSE)
    BY <1>1, <1>5, KeysAre
  <2> QED BY <2>1 DEF MappedKeys
<1>7. CoreOf(b, FALSE) = core
  BY DEF CoreOf
<1>8. CorePlay(core, {}, b, wish)
  BY <1>1, <1>4, <1>6, FirstPlays
<1> HIDE DEF core
<1>9. \E down, out : Played((x.keys \o core) \o RestOf(x, item, FALSE), map.active, map.state, b, {}, down, out,
                            wish, exact)
  <2>1. wish = [id |-> id, mask |-> mask]
    BY DEF wish
  <2> QED BY <1>1, <1>2, <1>4, <1>5, <1>8, <2>1, KeyPlays
<1>10. PICK down, out : Played(map.keys, map.active, map.state, b, {}, down, out, wish, exact)
  BY <1>6, <1>7, <1>9
<1>11. /\ m_serverKeys[key] = Null /\ m_activeModifiers' = map.active /\ m_mask' = map.state
       /\ m_serverKeys' = [m_serverKeys EXCEPT ![key] = map.button]
       /\ FakeKeys(map.keys, map.button, wish)
  BY DEF PressesKey, map, wish
<1>12. item \in ItemsOf(key)
  BY <1>5, ItemOfKey DEF MappedFrom
<1>13. {} \subseteq {c \in Buttons : c = b \/ Gen(c) = {}}
  OBVIOUS
<1>14. Played(map.keys, m_activeModifiers', m_mask', b, {}, down, out, wish, exact)
  BY <1>10, <1>11
<1>15. \E i \in ItemsOf(key) : i.button = b
  BY <1>12
<1> HIDE DEF b
<1> QED BY <1>6, <1>11, <1>13, <1>14, <1>15, PlayedKeeps

LEMMA RepeatKeeps ==
  ASSUME NEW exact, KeyInv(exact), TypeInv', Platform = "windows",
         NEW key \in Keys, NEW mask, mask = ServerMask,
         NEW id, id = IdOf(key), RepeatsKey(key, id, mask, MapKey(id, mask, TRUE)),
         entered', held \subseteq held', key \in held'
  PROVE  KeyInv(exact)'
<1> DEFINE map == MapKey(id, mask, TRUE)
           wish == [id |-> id, mask |-> mask]
<1>1. TypeOK /\ Fits(m_activeModifiers, m_mask, pressed, exact) /\ mask \in SUBSET Mods
  BY InvFits, ServerMaskType DEF TypeOK
<1>2. map.found
  BY DEF RepeatsKey
<1>3. IsMapped(map, id, mask)
  BY <1>1, <1>2, Mapped
<1>4. wish \in Asked
  BY <1>3 DEF IsMapped
<1>5. PICK item, x : MappedFrom(map, id, mask, TRUE, item, x, wish, exact)
  BY <1>1, <1>2, <1>4, MapKeyParts
<1> HIDE DEF map, wish
<1> DEFINE b == item.button
           core == <<Keystroke(b, FALSE, TRUE), Keystroke(b, TRUE, TRUE)>>
<1>6. /\ map.keys = (x.keys \o CoreOf(b, TRUE)) \o RestOf(x, item, TRUE)
      /\ map.button = b /\ item \in Items /\ b \in Buttons
  <2>1. MappedKeys(map, x, item, TRUE)
    BY <1>1, <1>5, KeysAre
  <2> QED BY <2>1 DEF MappedKeys
<1>7. CoreOf(b, TRUE) = core
  BY DEF CoreOf
<1>8. CorePlay(core, {b}, b, wish)
  BY <1>1, <1>4, <1>6, AgainPlays
<1> HIDE DEF core
<1>9. /\ m_serverKeys[key] # Null /\ map.button = m_serverKeys[key]
      /\ m_activeModifiers' = map.active /\ m_mask' = map.state
      /\ m_serverKeys' = m_serverKeys /\ FakeKeys(map.keys, map.button, wish)
  BY DEF RepeatsKey, map, wish
<1>10. exact => Gen(b) = {} \/ b \in pressed
  BY <1>6, <1>9, InvFits
<1>11. \E down, out : Played((x.keys \o core) \o RestOf(x, item, TRUE), map.active, map.state, b, {b}, down, out,
                             wish, exact)
  <2>1. wish = [id |-> id, mask |-> mask]
    BY DEF wish
  <2> QED BY <1>1, <1>2, <1>4, <1>5, <1>8, <1>10, <2>1, KeyPlays
<1>12. PICK down, out : Played(map.keys, map.active, map.state, b, {b}, down, out, wish, exact)
  BY <1>6, <1>7, <1>11
<1>13. item \in ItemsOf(key)
  BY <1>5, ItemOfKey DEF MappedFrom
<1>14. {b} \subseteq {c \in Buttons : c = b \/ Gen(c) = {}}
  BY <1>6
<1>15. m_serverKeys' = [m_serverKeys EXCEPT ![key] = b]
  BY <1>1, <1>6, <1>9 DEF TypeOK
<1>16. Played(map.keys, m_activeModifiers', m_mask', b, {b}, down, out, wish, exact)
  BY <1>9, <1>12
<1>17. \E i \in ItemsOf(key) : i.button = b
  BY <1>13
<1> HIDE DEF b
<1> QED BY <1>6, <1>9, <1>14, <1>15, <1>16, <1>17, PlayedKeeps

LEMMA StrokePut ==
  \A b, old, p, q : IsPut(Keystroke(old, p, q), Keystroke(b, p, q), old)
BY DEF Keystroke, IsPut

\* A key changes its button only when neither is a modifier's.
LEMMA ReplaceKeeps ==
  ASSUME NEW exact, KeyInv(exact), TypeInv', Platform = "windows", SteadyModifiers,
         NEW key \in Keys, NEW mask, mask = ServerMask,
         NEW id, id = IdOf(key), ReplacesKey(key, id, mask, MapKey(id, mask, TRUE)),
         entered', held \subseteq held', key \in held'
  PROVE  KeyInv(exact)'
<1> DEFINE map == MapKey(id, mask, TRUE)
           wish == [id |-> id, mask |-> mask]
           old == m_serverKeys[key]
<1>1. TypeOK /\ Fits(m_activeModifiers, m_mask, pressed, exact) /\ mask \in SUBSET Mods
  BY InvFits, ServerMaskType DEF TypeOK
<1>2. map.found
  BY DEF ReplacesKey
<1>3. IsMapped(map, id, mask)
  BY <1>1, <1>2, Mapped
<1>4. wish \in Asked
  BY <1>3 DEF IsMapped
<1>5. PICK item, x : MappedFrom(map, id, mask, TRUE, item, x, wish, exact)
  BY <1>1, <1>2, <1>4, MapKeyParts
<1> HIDE DEF map, wish
<1> DEFINE b == item.button
           k == Keystroke(b, FALSE, TRUE)
           l == Keystroke(b, TRUE, TRUE)
           first == Keystroke(old, FALSE, TRUE)
           core == <<first, l>>
           rest == RestOf(x, item, TRUE)
           keys == Substituted(map.keys, b, old)
<1>6. /\ map.keys = (x.keys \o CoreOf(b, TRUE)) \o rest
      /\ x.keys \in Seq(Stroke) /\ rest \in Seq(Stroke)
      /\ map.button = b /\ item \in Items /\ b \in Buttons
  <2>1. MappedKeys(map, x, item, TRUE)
    BY <1>1, <1>5, KeysAre
  <2> QED BY <2>1 DEF MappedKeys
<1>7. CoreOf(b, TRUE) = <<k, l>>
  BY DEF CoreOf
<1>8. /\ old # Null /\ map.button # old
      /\ m_activeModifiers' = map.active /\ m_mask' = map.state
      /\ m_serverKeys' = [m_serverKeys EXCEPT ![key] = map.button]
      /\ FakeKeys(Substituted(map.keys, map.button, old), map.button, wish)
  BY DEF ReplacesKey, map, wish
<1>9. old \in Buttons
  BY <1>1, <1>8 DEF TypeOK
<1>10. item \in ItemsOf(key)
  BY <1>5, ItemOfKey DEF MappedFrom
<1>11. Gen(old) = {} /\ Gen(b) = {}
  <2>1. PICK i \in ItemsOf(key) : i.button = old
    BY <1>8 DEF KeyInv, HeldInv
  <2>2. i.generates = {} /\ item.generates = {}
    BY <1>6, <1>8, <1>10, <2>1 DEF SteadyModifiers
  <2> QED BY <1>6, <2>1, <2>2, ItemsOfKnown, GenOfItem
<1>12. k \in Stroke /\ l \in Stroke /\ k.button = b /\ IsPut(first, k, old)
  <2>1. k \in Stroke /\ l \in Stroke
    BY <1>6 DEF Keystroke, Stroke
  <2>2. k.button = b
    BY DEF Keystroke
  <2>3. IsPut(first, k, old)
    BY StrokePut
  <2> QED BY <2>1, <2>2, <2>3
<1>13. CorePlay(core, {old}, b, wish)
  BY <1>1, <1>4, <1>6, <1>9, <1>11, AgainPlays
<1>14. OnlyMods(x.keys, b)
  BY <1>1, <1>5 DEF MappedFrom, Wanted, Moves
<1>15. keys = (x.keys \o core) \o rest
  <2>1. map.keys = (x.keys \o <<k, l>>) \o rest
    BY <1>6, <1>7
  <2> HIDE DEF k, l, first, rest, old, b
  <2>2. Substituted((x.keys \o <<k, l>>) \o rest, b, old) = (x.keys \o core) \o rest
    <3>1. FirstReplaced(x.keys, k, l, first, rest, b, old)
      BY <1>6, <1>9, <1>12, <1>14, SubstitutedFirst
    <3> QED BY <3>1 DEF FirstReplaced
  <2> QED BY <2>1, <2>2
<1> HIDE DEF core, rest, k, l
<1>16. \E down, out : Played((x.keys \o core) \o rest, map.active, map.state, b, {old}, down, out,
                             wish, exact)
  <2>1. wish = [id |-> id, mask |-> mask]
    BY DEF wish
  <2> QED BY <1>1, <1>2, <1>4, <1>5, <1>11, <1>13, <2>1, KeyPlays DEF rest
<1>17. PICK down, out : Played(keys, map.active, map.state, b, {old}, down, out, wish, exact)
  <2> HIDE DEF keys
  <2> QED BY <1>15, <1>16
<1>18. {old} \subseteq {c \in Buttons : c = b \/ Gen(c) = {}}
  BY <1>9, <1>11
<1>19. Played(keys, m_activeModifiers', m_mask', b, {old}, down, out, wish, exact)
  BY <1>8, <1>17
<1>20. \E i \in ItemsOf(key) : i.button = b
  BY <1>10
<1>21. FakeKeys(keys, b, wish) /\ m_serverKeys' = [m_serverKeys EXCEPT ![key] = b] /\ old \in {old}
  BY <1>6, <1>8
<1> HIDE DEF b, keys
<1> QED BY <1>6, <1>18, <1>19, <1>20, <1>21, PlayedKeeps DEF old

LEMMA SameKeeps ==
  ASSUME NEW exact, KeyInv(exact), TypeInv', Same,
         \A k \in Keys : m_serverKeys[k] # Null => entered' /\ k \in held'
  PROVE  KeyInv(exact)'
<1>1. /\ pressed' = pressed /\ m_serverKeys' = m_serverKeys /\ m_activeModifiers' = m_activeModifiers
      /\ m_mask' = m_mask /\ typed' = typed
  BY DEF Same
<1>2. HeldInv /\ (exact => AgreeInv)
  BY DEF KeyInv
<1>3. HeldInv'
  <2>1. ActiveOf(pressed)' = ActiveOf(pressed')
    BY DEF ActiveOf, Gen, PollActiveModifiers
  <2> QED BY <1>1, <1>2, <2>1 DEF HeldInv, ItemsOf
<1>4. exact => AgreeInv'
  <2>1. /\ ActiveOf(pressed)' = ActiveOf(pressed') /\ ModsOf(m_activeModifiers)' = ModsOf(m_activeModifiers')
        /\ \A k \in Keys : Gen(m_serverKeys[k])' = Gen(m_serverKeys'[k])
        /\ RightlyTyped(typed)' = RightlyTyped(typed')
    BY DEF ActiveOf, Gen, PollActiveModifiers, ModsOf, RightlyTyped, IsCommand
  <2> QED BY <1>1, <1>2, <2>1 DEF AgreeInv
<1> QED BY <1>3, <1>4 DEF KeyInv

\* Everything is released.
LEMMA NoneKeeps ==
  ASSUME NEW exact, KeyInv(exact), TypeInv', pressed' = {}, m_serverKeys' = [k \in Keys |-> Null],
         m_activeModifiers' = {}, m_mask' = {}, typed' = typed
  PROVE  KeyInv(exact)'
<1>1. exact => AgreeInv
  BY DEF KeyInv
<1>2. HeldInv'
  BY DEF HeldInv
<1>3. exact => AgreeInv'
  <2>1. /\ ActiveOf(pressed)' = {} /\ ModsOf(m_activeModifiers)' = {}
        /\ RightlyTyped(typed)' = RightlyTyped(typed')
    BY DEF ActiveOf, ModsOf, RightlyTyped, IsCommand
  <2> QED BY <1>1, <2>1 DEF AgreeInv
<1> QED BY <1>2, <1>3 DEF KeyInv

LEMMA NonePolled == PollActiveModifiers({}) = {}
<1>1. \A m : m \notin PollActiveModifiers({})
  BY PollBy
<1> QED BY <1>1

LEMMA UpKeeps ==
  ASSUME NEW exact, KeyInv(exact), TypeInv', exact => OwnModifiers, NEW key \in Keys,
         FakeKeyUp(key), key \in held, held' = held \ {key}, entered' = entered
  PROVE  KeyInv(exact)'
<1> DEFINE b == m_serverKeys[key]
           left == {a \in m_activeModifiers : a[2] # b}
<1>1. /\ TypeOK /\ HeldInv /\ (exact => AgreeInv)
      /\ m_serverKeys \in [Keys -> Buttons \cup {Null}] /\ pressed \subseteq Buttons
  BY DEF KeyInv, TypeInv, TypeOK
<1>2. CASE b = Null
  <2>1. Same
    BY <1>2 DEF FakeKeyUp, Same
  <2>2. \A k \in Keys : m_serverKeys[k] # Null => entered' /\ k \in held'
    BY <1>1, <1>2 DEF HeldInv
  <2> QED BY <2>1, <2>2, SameKeeps
<1>3. CASE b # Null
  <2>1. /\ m_serverKeys' = [m_serverKeys EXCEPT ![key] = Null]
        /\ m_activeModifiers' = left
        /\ m_mask' = m_mask \ (ModsOf(m_activeModifiers \ left) \ ModsOf(left))
        /\ pressed' = pressed \ {b} /\ typed' = typed
    BY <1>3 DEF FakeKeyUp
  <2>2. m_serverKeys'[key] = Null /\ \A k \in Keys : k # key => m_serverKeys'[k] = m_serverKeys[k]
    BY <1>1, <2>1
  <2>3. ActiveOf(pressed)' = ActiveOf(pressed')
    BY DEF ActiveOf, Gen, PollActiveModifiers
  <2>4. HeldInv'
    <3>1. \A k \in Keys : m_serverKeys'[k] # Null =>
            entered' /\ k \in held' /\ \E i \in ItemsOf(k) : i.button = m_serverKeys'[k]
      BY <1>1, <2>2 DEF HeldInv
    <3>2. \A c \in pressed' : \E k \in Keys : m_serverKeys'[k] = c
      BY <1>1, <2>1, <2>2 DEF HeldInv
    <3>3. m_activeModifiers' \subseteq ActiveOf(pressed')
      <4>1. \A a \in m_activeModifiers : a \in ActiveOf(pressed)
        BY <1>1 DEF HeldInv
      <4> QED BY <2>1, <4>1 DEF ActiveOf
    <3> QED BY <2>3, <3>1, <3>2, <3>3 DEF HeldInv, ItemsOf
  <2>5. ASSUME exact PROVE AgreeInv'
    <3>1. /\ m_activeModifiers = ActiveOf(pressed) /\ m_mask = ModsOf(m_activeModifiers)
          /\ \A k \in Keys : m_serverKeys[k] # Null /\ Gen(m_serverKeys[k]) # {} => m_serverKeys[k] \in pressed
          /\ typed # Null => RightlyTyped(typed)
      BY <1>1, <2>5 DEF AgreeInv
    <3>2. m_activeModifiers' = ActiveOf(pressed')
      BY <2>1, <3>1 DEF ActiveOf
    <3>3. m_mask' = ModsOf(m_activeModifiers')
      <4>1. left \subseteq m_activeModifiers
        OBVIOUS
      <4> HIDE DEF left
      <4>2. ModsOf(m_activeModifiers) = ModsOf(m_activeModifiers \ left) \cup ModsOf(left)
        BY <4>1 DEF ModsOf
      <4> QED BY <2>1, <3>1, <4>2
    <3>4. ASSUME NEW k \in Keys, m_serverKeys'[k] # Null, Gen(m_serverKeys'[k]) # {}
          PROVE  m_serverKeys'[k] \in pressed'
      <4>1. k # key /\ m_serverKeys'[k] = m_serverKeys[k] /\ m_serverKeys[k] \in pressed
        BY <2>2, <3>1, <3>4
      <4>2. ASSUME m_serverKeys[k] = b PROVE FALSE
        <5>1. PICK i \in ItemsOf(key) : i.button = b
          BY <1>1, <1>3 DEF HeldInv
        <5>2. PICK j \in ItemsOf(k) : j.button = b
          BY <1>1, <1>3, <4>2 DEF HeldInv
        <5>3. i.generates = {}
          BY <2>5, <4>1, <5>1, <5>2 DEF OwnModifiers
        <5>4. Gen(b) = {}
          BY <5>1, <5>3, ItemsOfKnown, GenOfItem
        <5> QED BY <3>4, <4>1, <4>2, <5>4
      <4> QED BY <2>1, <4>1, <4>2
    <3>5. /\ ModsOf(m_activeModifiers)' = ModsOf(m_activeModifiers')
          /\ \A k \in Keys : Gen(m_serverKeys[k])' = Gen(m_serverKeys'[k])
          /\ RightlyTyped(typed)' = RightlyTyped(typed')
      BY DEF ModsOf, Gen, PollActiveModifiers, RightlyTyped, IsCommand
    <3>6. typed' # Null => RightlyTyped(typed')
      BY <2>1, <3>1
    <3> QED BY <2>3, <3>2, <3>3, <3>4, <3>5, <3>6 DEF AgreeInv
  <2> QED BY <2>4, <2>5 DEF KeyInv
<1> QED BY <1>2, <1>3

\* Every button that is down is counted, so leaving releases all of them.
LEMMA LeaveKeeps ==
  ASSUME NEW exact, KeyInv(exact), TypeInv', Leave
  PROVE  KeyInv(exact)'
<1>1. /\ pressed' = pressed \ {b \in Buttons : m_syntheticKeys[b] > 0} /\ typed' = typed
      /\ m_serverKeys' = [k \in Keys |-> Null]
      /\ m_activeModifiers' = {} /\ m_mask' = PollActiveModifiers(pressed')
  BY DEF Leave, FakeAllKeysUp
<1>2. ASSUME NEW b \in pressed PROVE b \in Buttons /\ m_syntheticKeys[b] > 0
  <2>1. b \in Buttons /\ m_syntheticKeys[b] = Cardinality(KeysOn(m_serverKeys, b))
    BY DEF KeyInv, TypeInv, TypeOK, Counted
  <2>2. KeysOn(m_serverKeys, b) # {}
    BY DEF KeyInv, HeldInv, KeysOn
  <2>3. Cardinality(KeysOn(m_serverKeys, b)) \in Nat /\ Cardinality(KeysOn(m_serverKeys, b)) # 0
    BY <2>2, KeysOnFinite, FS_EmptySet
  <2> QED BY <2>1, <2>3
<1>3. pressed' = {}
  BY <1>1, <1>2
<1>4. m_mask' = {}
  BY <1>1, <1>3, NonePolled
<1> QED BY <1>1, <1>3, <1>4, NoneKeeps

LEMMA KeyStep ==
  ASSUME NEW exact, Platform = "windows", ~RemapsHeld, SteadyModifiers, exact => OwnModifiers,
         KeyInv(exact), [Next]_vars
  PROVE  KeyInv(exact)'
<1>1. TypeInv /\ TypeOK /\ HeldInv
  BY DEF KeyInv, TypeInv
<1>2. TypeInv'
  BY <1>1, KeyTypesStep
<1>3. held \subseteq Keys /\ ServerMask \in SUBSET Mods
  BY <1>1, ServerMaskType DEF TypeOK
<1>4. \A k \in Keys : m_serverKeys[k] # Null => entered /\ k \in held
  BY <1>1 DEF HeldInv
<1>5. CASE UNCHANGED vars
  <2>1. Same /\ entered' = entered /\ held' = held
    BY <1>5 DEF vars, Same
  <2> QED BY <1>2, <1>4, <2>1, SameKeeps
<1>6. ASSUME NEW key \in Keys, KeyDown(key) PROVE KeyInv(exact)'
  <2>1. /\ FakeKeyDown(key, IdOf(key), ServerMask)
        /\ entered' /\ held \subseteq held' /\ key \in held'
    BY <1>6 DEF KeyDown
  <2>2. CASE Same
    <3>1. \A k \in Keys : m_serverKeys[k] # Null => entered' /\ k \in held'
      BY <1>4, <2>1
    <3> QED BY <1>2, <2>2, <3>1, SameKeeps
  <2> QED BY <1>1, <1>2, <1>3, <2>1, <2>2, DownCases, PressKeeps, RepeatKeeps, ReplaceKeeps
<1>7. ASSUME NEW key \in Keys, KeyRepeat(key) PROVE KeyInv(exact)'
  <2>1. /\ FakeKeyRepeat(key, IdOf(key), ServerMask)
        /\ entered' /\ held' = held /\ key \in held'
    BY <1>7 DEF KeyRepeat
  <2>2. CASE Same
    BY <1>2, <1>4, <2>1, <2>2, SameKeeps
  <2> QED BY <1>1, <1>2, <1>3, <2>1, <2>2, RepeatCases, RepeatKeeps, ReplaceKeeps
<1>8. ASSUME NEW key \in Keys, KeyUp(key) PROVE KeyInv(exact)'
  <2>1. FakeKeyUp(key) /\ key \in held /\ held' = held \ {key} /\ entered' = entered
    BY <1>8 DEF KeyUp
  <2> QED BY <1>2, <2>1, UpKeeps
<1>9. ASSUME NEW key \in Keys, TypeElsewhere(key) PROVE KeyInv(exact)'
  <2>1. Same /\ ~entered
    BY <1>9 DEF TypeElsewhere, Same
  <2> QED BY <1>2, <1>4, <2>1, SameKeeps
<1>10. CASE Enter
  <2>1. Same /\ ~entered
    BY <1>10 DEF Enter, Same
  <2> QED BY <1>2, <1>4, <2>1, SameKeeps
<1>11. CASE Leave
  BY <1>2, <1>11, LeaveKeeps
<1>12. CASE UpdateKeyState
  <2>1. /\ pressed = {} /\ pressed' = {} /\ typed' = typed
        /\ m_serverKeys' = [k \in Keys |-> Null] /\ m_mask' = PollActiveModifiers({})
        /\ m_activeModifiers' = UNION {{m} \X {item.button : item \in Range(m_modifierKeys[m])} : m \in m_mask'}
    BY <1>12 DEF UpdateKeyState
  <2>2. m_mask' = {} /\ m_activeModifiers' = {}
    BY <2>1, NonePolled
  <2> QED BY <1>2, <2>1, <2>2, NoneKeeps
<1> QED BY <1>5, <1>6, <1>7, <1>8, <1>9, <1>10, <1>11, <1>12 DEF Next

LEMMA KeyInit ==
  ASSUME NEW exact, Init
  PROVE  KeyInv(exact)
<1>1. TypeInv
  BY KeyTypesInit
<1>2. pressed = {} /\ m_activeModifiers = {} /\ m_mask = {} /\ typed = Null
      /\ m_serverKeys = [k \in Keys |-> Null]
  BY DEF Init
<1>3. ActiveOf({}) = {} /\ ModsOf({}) = {}
  BY DEF ActiveOf, ModsOf
<1> QED BY <1>1, <1>2, <1>3 DEF KeyInv, HeldInv, AgreeInv

\* On Windows, where an auto-repeat releases the button and presses it again,
\* while the layout does not change under a held key and when a modifier key
\* stays that key whatever Shift does: every button that is down at the client
\* is down for a key that is down at the server (KeyState::fakeKeyUp,
\* fakeKeyRepeat, fakeAllKeysUp).
THEOREM NothingStuckAlways ==
  ASSUME Platform = "windows", ~RemapsHeld, SteadyModifiers
  PROVE  Spec => []NothingStuck
<1>1. Init => KeyInv(FALSE)
  BY KeyInit
<1>2. KeyInv(FALSE) /\ [Next]_vars => KeyInv(FALSE)'
  BY KeyStep
<1>3. KeyInv(FALSE) => NothingStuck
  <2> SUFFICES ASSUME KeyInv(FALSE), NEW b \in pressed
               PROVE  entered /\ \E key \in held : m_serverKeys[key] = b
    BY DEF NothingStuck
  <2>1. PICK k \in Keys : m_serverKeys[k] = b
    BY DEF KeyInv, HeldInv
  <2>2. b # Null
    BY ItemFacts DEF KeyInv, TypeInv, TypeOK
  <2> QED BY <2>1, <2>2 DEF KeyInv, HeldInv
<1> QED BY <1>1, <1>2, <1>3, PTL DEF Spec

LEMMA AgreeAlways ==
  ASSUME Platform = "windows", ~RemapsHeld, SteadyModifiers, OwnModifiers
  PROVE  Spec => []KeyInv(TRUE)
<1>1. Init => KeyInv(TRUE)
  BY KeyInit
<1>2. KeyInv(TRUE) /\ [Next]_vars => KeyInv(TRUE)'
  BY KeyStep
<1> QED BY <1>1, <1>2, PTL DEF Spec

\* When besides no two keys of the server share a modifier button of the client,
\* the modifiers that KeyState believes to be on, and the buttons that it would
\* release for them, are those that the operating system sees (KeyState::m_mask,
\* m_activeModifiers).
THEOREM ModifiersAgreeAlways ==
  ASSUME Platform = "windows", ~RemapsHeld, SteadyModifiers, OwnModifiers
  PROVE  Spec => []ModifiersAgree
<1>1. KeyInv(TRUE) => ModifiersAgree
  <2> SUFFICES ASSUME KeyInv(TRUE) PROVE ModifiersAgree
    OBVIOUS
  <2>1. m_activeModifiers = ActiveOf(pressed) /\ m_mask = ModsOf(m_activeModifiers)
        /\ pressed \in SUBSET Buttons
    BY DEF KeyInv, AgreeInv, TypeInv, TypeOK
  <2>2. /\ PollActiveModifiers(pressed) = ModsOf(ActiveOf(pressed))
        /\ ButtonsOf(ActiveOf(pressed)) = {b \in pressed : Gen(b) # {}}
    BY <2>1, ActiveBy
  <2> QED BY <2>1, <2>2 DEF ModifiersAgree, Gen
<1> QED BY <1>1, AgreeAlways, PTL

\* Under the same conditions a key types what the server asked for
\* (KeyMap::mapKey).
THEOREM TypedAsAskedAlways ==
  ASSUME Platform = "windows", ~RemapsHeld, SteadyModifiers, OwnModifiers
  PROVE  Spec => []TypedAsAsked
<1>1. KeyInv(TRUE) => TypedAsAsked
  BY DEF KeyInv, AgreeInv, TypedAsAsked, RightlyTyped
<1> QED BY <1>1, AgreeAlways, PTL
=============================================================================
