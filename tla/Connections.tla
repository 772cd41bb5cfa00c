---------------------------- MODULE Connections ----------------------------
(***************************************************************************)
(* What a client and the server share: the TCP connections between them,   *)
(* and the event queue of each (src/src/lib/base/EventQueue.cpp).  A       *)
(* connection carries its messages in order, and its end behind them.      *)
(* Once a connection is cut nothing arrives any more, the end included.    *)
(*                                                                         *)
(* An event is on the queue with the connection whose object it was posted *)
(* for.  An event whose handler has been removed meanwhile is taken from   *)
(* the queue and nothing happens; the client's events of a stream it has   *)
(* deleted are left out of its queue at once.  A timer expires only when   *)
(* no event is waiting.                                                    *)
(***************************************************************************)
EXTENDS Naturals, Sequences, FiniteSets, SequencesExt

CONSTANTS
    Conns,            \* connections that exist at a time
    None,             \* no connection: nullptr, or an event for the application
    MaxTroubles       \* bound: times that something goes wrong

ASSUME ConnectionsAssumption == 
    IsFiniteSet(Conns) /\ None \notin Conns /\ MaxTroubles \in Nat

VARIABLES
    toClient,         \* connection -> messages on their way to the client
    toServer,         \* connection -> messages on their way to the server
    cut,              \* connections the network has lost
    clientEvents,     \* the client's event queue
    serverEvents,     \* the server's event queue
    troubles          \* how many times more something may go wrong

network == <<toClient, toServer, cut>>

Message == {"Connected", "ConnectFailed", "Hello", "QInfo", "CInfoAck", "DSetOptions",
            "CClose", "EBusy", "EUnknown", "Connecting", "HelloBack", "DInfo", "End"}

ConnectionsTypeOK ==
    /\ toClient \in [Conns -> Seq(Message)]
    /\ toServer \in [Conns -> Seq(Message)]
    /\ cut \subseteq Conns
    /\ troubles \in 0 .. MaxTroubles

ConnectionsInit ==
    /\ toClient = [k \in Conns |-> <<>>]
    /\ toServer = [k \in Conns |-> <<>>]
    /\ cut = {}
    /\ clientEvents = <<>> /\ serverEvents = <<>>
    /\ troubles = MaxTroubles

Event(k, type) == [conn |-> k, type |-> type]

\* EventQueue::dispatchEvent takes the oldest event.
ClientDispatches(k, type) == clientEvents # <<>> /\ Head(clientEvents) = Event(k, type)
ServerDispatches(k, type) == serverEvents # <<>> /\ Head(serverEvents) = Event(k, type)
ClientPosts(events) == clientEvents' = Tail(clientEvents) \o events
ServerPosts(events) == serverEvents' = Tail(serverEvents) \o events

Send(wire, k, messages) == [wire EXCEPT ![k] = IF k \in cut THEN @ ELSE @ \o messages]

\* Something goes wrong: a connection is lost, the user or the system changes
\* something, or an answer is so late that a timer expires before it.
Trouble == troubles > 0 /\ troubles' = troubles - 1

\* A timer that expires although what it waits for would still come.
Expires(inVain) == IF inVain THEN UNCHANGED troubles ELSE Trouble

\* Nothing is on its way on connection k, and nobody has an event of it.
AtRest(k) ==
    /\ toClient[k] = <<>> /\ toServer[k] = <<>>
    /\ \A i \in DOMAIN clientEvents : clientEvents[i].conn # k
    /\ \A i \in DOMAIN serverEvents : serverEvents[i].conn # k

-----------------------------------------------------------------------------
(* The network *)

\* A message arrives: the socket posts the event for it.  What arrives for a
\* socket the client has closed is lost.
ArriveAtClient(k, open) ==
    /\ toClient[k] # <<>>
    /\ IF open
       THEN /\ clientEvents' = Append(clientEvents, Event(k, Head(toClient[k])))
            /\ toClient' = [toClient EXCEPT ![k] = Tail(@)]
       ELSE /\ toClient' = [toClient EXCEPT ![k] = <<>>]
            /\ UNCHANGED clientEvents
    /\ UNCHANGED <<toServer, cut, serverEvents, troubles>>

ArriveAtServer(k) ==
    /\ toServer[k] # <<>>
    /\ serverEvents' = Append(serverEvents, Event(k, Head(toServer[k])))
    /\ toServer' = [toServer EXCEPT ![k] = Tail(@)]
    /\ UNCHANGED <<toClient, cut, clientEvents, troubles>>

Cut(k) ==
    /\ Trouble /\ k \notin cut
    /\ cut' = cut \cup {k}
    /\ toClient' = [toClient EXCEPT ![k] = <<>>]
    /\ toServer' = [toServer EXCEPT ![k] = <<>>]
    /\ UNCHANGED <<clientEvents, serverEvents>>
=============================================================================
