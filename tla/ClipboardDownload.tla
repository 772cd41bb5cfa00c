-------------------------- MODULE ClipboardDownload --------------------------
(***************************************************************************)
(* The server's clipboards on their way to one client: the dirty flags and *)
(* the sender of ClientProxy1_6, the connection, and ServerProxy, which    *)
(* assembles the chunks (src/src/lib/server/ClientProxy1_6.cpp,            *)
(* src/src/lib/client/ServerProxy.cpp).  A long transfer takes several     *)
(* turns of the server's event loop, and other events come between them.   *)
(***************************************************************************)
EXTENDS ClipboardChunks

CONSTANTS
    ClipboardEnd,      \* kClipboardEnd, the number of clipboards
    Sizes,             \* sizes of contents, in chunks
    Limit,             \* the largest size the client receives
    MaxContents,       \* bound: contents made
    MaxEnters,         \* bound: switches to the client
    MaxBreaks          \* bound: broken connections

ASSUME DownloadAssumption ==
    /\ ClipboardEnd \in Nat
    /\ Sizes \subseteq Nat \ {0} /\ Limit \in Nat
    /\ {MaxContents, MaxEnters, MaxBreaks} \subseteq Nat

VARIABLES
    made,              \* the contents so far, with their clipboards and sizes
    value,             \* clipboard -> the server's content, 0 for an empty one
    dirty,             \* clipboards the client does not have
    active,            \* the client has the cursor
    sender,            \* the proxy's m_clipboardSender, while it has turns left
    wire,              \* messages to the client
    transfer,          \* the client's assembly state and cache
    got,               \* clipboard -> content of the client's system clipboard
    enters, breaks     \* counters for the bounds

vars == <<made, value, dirty, active, sender, wire, transfer, got, enters, breaks>>

Ids == 0 .. ClipboardEnd - 1
Numbers == 0 .. MaxContents
Message == [id : Ids, mark : {"DataStart", "DataChunk", "DataEnd"},
            content : Numbers, part : Nat]

TypeOK ==
    /\ made \in Seq([id : Ids, size : Sizes]) /\ Len(made) \in Numbers
    /\ value \in [Ids -> Numbers]
    /\ dirty \subseteq Ids
    /\ active \in BOOLEAN
    /\ sender \in [active : BOOLEAN, id : Nat, content : Numbers, size : Nat,
                   offset : Nat, chunksThisTurn : Nat]
    /\ sender.active => sender.id \in Ids /\ sender.offset < sender.size
    /\ wire \in Seq(Message)
    /\ transfer \in [expected : Nat, received : Nat, active : BOOLEAN,
                     discarding : BOOLEAN, cache : Seq(Numbers \X Nat)]
    /\ transfer.received <= transfer.expected
    /\ got \in [Ids -> Numbers]
    /\ enters \in 0 .. MaxEnters
    /\ breaks \in 0 .. MaxBreaks

Init ==
    /\ made = <<>>
    /\ value = [id \in Ids |-> 0]
    /\ dirty = Ids
    /\ active = FALSE
    /\ sender = NoSender
    /\ wire = <<>>
    /\ transfer = NoTransfer
    /\ got = [id \in Ids |-> 0]
    /\ enters = 0
    /\ breaks = 0

SizeOf(c) == IF c = 0 THEN 1 ELSE made[c].size

-----------------------------------------------------------------------------
(* The server *)

Connection == [wire |-> wire, sender |-> sender]

\* Mutant: a new transfer does not cancel the one under way.
SetClipboardNoCancel(s, id, content, size) ==
    [wire |-> s.wire \o StartMessages(id, content, size),
     sender |-> IF s.sender.active THEN s.sender
                ELSE AfterTurn(NewSender(id, content, size))]

\* setClipboard on a connection s: the start of a transfer and its first turn.
\* The sender that has turns left is cancelled.
SetClipboard(s, id, content, size) ==
    [wire |-> s.wire \o StartMessages(id, content, size),
     sender |-> AfterTurn(NewSender(id, content, size))]

\* The connection after the loop of switchScreen over the clipboards, which
\* sends the dirty ones.
SendDirty ==
    LET after[n \in 0 .. ClipboardEnd] ==
            IF n = 0 THEN Connection
            ELSE IF n - 1 \notin dirty THEN after[n - 1]
            ELSE SetClipboard(after[n - 1], n - 1, value[n - 1], SizeOf(value[n - 1]))
    IN  after[ClipboardEnd]

\* onClipboardChanged: the server has new data for a clipboard, which goes to
\* the active screen at once.
NewData(id, size) ==
    LET c == Len(made) + 1
    IN  /\ c <= MaxContents
        /\ made' = Append(made, [id |-> id, size |-> size])
        /\ value' = [value EXCEPT ![id] = c]
        /\ IF active
           THEN /\ dirty' = dirty \ {id}
                /\ wire' = SetClipboard(Connection, id, c, size).wire
                /\ sender' = SetClipboard(Connection, id, c, size).sender
           ELSE dirty' = dirty \cup {id} /\ UNCHANGED <<wire, sender>>
        /\ UNCHANGED <<active, transfer, got, enters, breaks>>

\* Mutant: the clipboards are marked clean but not sent.
EnterCleansOnly ==
    /\ ~active /\ enters < MaxEnters
    /\ enters' = enters + 1
    /\ active' = TRUE
    /\ dirty' = {}
    /\ UNCHANGED <<made, value, sender, wire, transfer, got, breaks>>

\* switchScreen to the client: the clipboards that are not clean are sent in
\* the order of their numbers.
Enter ==
    /\ ~active /\ enters < MaxEnters
    /\ enters' = enters + 1
    /\ active' = TRUE
    /\ dirty' = {}
    /\ wire' = SendDirty.wire /\ sender' = SendDirty.sender
    /\ UNCHANGED <<made, value, transfer, got, breaks>>

Leave ==
    /\ active
    /\ active' = FALSE
    /\ UNCHANGED <<made, value, dirty, sender, wire, transfer, got, enters, breaks>>

\* A ClipboardSending event of the current sender: sendNext.
Tick ==
    /\ sender.active
    /\ wire' = wire \o TurnMessages(sender)
    /\ sender' = AfterTurn(sender)
    /\ UNCHANGED <<made, value, dirty, active, transfer, got, enters, breaks>>

-----------------------------------------------------------------------------
(* The client *)

\* ServerProxy::setClipboard.
Receive ==
    /\ wire # <<>>
    /\ wire' = Tail(wire)
    /\ LET m == Head(wire)
           a == Assemble(transfer, m, Limit, TRUE)
       IN  /\ transfer' = IF a.result = "Finished"
                          THEN [a.next EXCEPT !.cache = <<>>] ELSE a.next
           /\ got' = IF a.result = "Finished"
                     THEN [got EXCEPT ![m.id] = a.next.cache[1][1]] ELSE got
    /\ UNCHANGED <<made, value, dirty, active, sender, enters, breaks>>

\* The connection breaks and the client connects again: a new proxy, all of
\* whose clipboards are dirty, a new ServerProxy, and nothing on the wire.
Reconnect ==
    /\ breaks < MaxBreaks
    /\ breaks' = breaks + 1
    /\ active' = FALSE
    /\ dirty' = Ids
    /\ sender' = NoSender
    /\ wire' = <<>>
    /\ transfer' = NoTransfer
    /\ UNCHANGED <<made, value, got, enters>>

-----------------------------------------------------------------------------
(* The specification *)

Next == \/ \E id \in Ids, size \in Sizes : NewData(id, size)
        \/ Enter \/ Leave \/ Tick \/ Receive \/ Reconnect

\* The sender posts itself to the event queue, and what is written arrives.
Fairness == WF_vars(Tick) /\ WF_vars(Receive)

Spec == Init /\ [][Next]_vars /\ Fairness

-----------------------------------------------------------------------------
(* Properties *)

\* The client never finds a transfer corrupt, and what it takes at the end of
\* one is all the chunks of one content of that clipboard (StreamChunker.h:
\* "their chunks cannot interleave").
NeverCorrupt ==
    wire # <<>> =>
        LET m == Head(wire)
            a == Assemble(transfer, m, Limit, TRUE)
        IN  /\ a.result # "Error"
            /\ a.result = "Finished" =>
                   Whole(a.next.cache, m.content, SizeOf(m.content))

\* The transfers implement the delivery of whole contents, in order.
Delivery == INSTANCE ClipboardDelivery WITH made <- [c \in DOMAIN made |-> made[c].id]
DeliverySpec == Delivery!Spec

\* If the cursor stays on the client, the client ends up with the server's
\* clipboards that are not too large (switchScreen: "send the clipboard data
\* to new active screen").
FinallyUpToDate ==
    \A id \in Ids :
        <>[]active => <>[](got[id] = value[id] \/ SizeOf(value[id]) > Limit)

\* A turn with more data left has written all the chunks a turn may
\* (ClipboardChunkPacer.h: "True when this turn's chunk budget is spent").
YieldsWhenSpent ==
    [][sender.active /\ sender'.active /\ sender'.content = sender.content
       => sender'.offset = sender.offset + MaxChunksPerTurn]_sender
=============================================================================
