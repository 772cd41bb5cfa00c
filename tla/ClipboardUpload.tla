--------------------------- MODULE ClipboardUpload ---------------------------
(***************************************************************************)
(* A client's clipboards on their way to the server, and the size limit    *)
(* that the server announces with its options                              *)
(* (src/src/lib/client/Client.cpp, src/src/lib/client/ServerProxy.cpp,     *)
(* src/src/lib/server/ClientProxy1_6.cpp), from the end of the handshake.  *)
(* The server refuses the start of a transfer above its limit as an        *)
(* invalid message, and then throws away everything that has arrived       *)
(* behind it.                                                              *)
(***************************************************************************)
EXTENDS ClipboardChunks

CONSTANTS
    ClipboardEnd,      \* kClipboardEnd, the number of clipboards
    Sizes,             \* sizes of contents, in chunks
    Limits,            \* the server's limits, one after the other by reloads
    MaxContents,       \* bound: contents copied
    MaxLeaves          \* bound: times the cursor leaves the client

ASSUME UploadAssumption ==
    /\ ClipboardEnd \in Nat
    /\ Sizes \subseteq Nat \ {0}
    /\ Limits \in Seq(Nat) /\ Limits # <<>>
    /\ {MaxContents, MaxLeaves} \subseteq Nat

VARIABLES
    made,              \* the contents so far, with their clipboards and sizes
    system,            \* clipboard -> content of the client's system clipboard
    m_active,          \* Client::m_active
    own, sent,         \* clipboards with m_ownClipboard, m_sentClipboard
    known,             \* Client::m_maximumClipboardSize
    sender,            \* ServerProxy's m_clipboardSender, while it has turns left
    wire,              \* messages to the server
    options,           \* limits on their way to the client
    reloads,           \* number of reloads of the server's configuration
    transfer,          \* the proxy's assembly state and cache
    got,               \* clipboard -> last content the proxy saved
    seen,              \* clipboard -> last grab the server handled
    leaves             \* counter for the bound

clientVars == <<made, system, m_active, own, sent, known, sender, leaves>>
serverVars == <<reloads, transfer, got, seen>>
vars == <<clientVars, serverVars, wire, options>>

Ids == 0 .. ClipboardEnd - 1
Numbers == 0 .. MaxContents
Limit == Limits[reloads + 1]
Message == [id : Ids, mark : {"Grab", "DataStart", "DataChunk", "DataEnd"},
            content : Numbers, part : Nat]
Grab(id, content) == [id |-> id, mark |-> "Grab", content |-> content, part |-> 0]

TypeOK ==
    /\ made \in Seq([id : Ids, size : Sizes]) /\ Len(made) \in Numbers
    /\ system \in [Ids -> Numbers]
    /\ m_active \in BOOLEAN
    /\ own \subseteq Ids /\ sent \subseteq Ids
    /\ known \in Nat
    /\ sender \in [active : BOOLEAN, id : Nat, content : Numbers, size : Nat,
                   offset : Nat, chunksThisTurn : Nat]
    /\ sender.active => sender.id \in Ids /\ sender.offset < sender.size
    /\ wire \in Seq(Message)
    /\ options \in Seq(Nat)
    /\ reloads \in 0 .. Len(Limits) - 1
    /\ transfer \in [expected : Nat, received : Nat, active : BOOLEAN,
                     discarding : BOOLEAN, cache : Seq(Numbers \X Nat)]
    /\ transfer.received <= transfer.expected
    /\ got \in [Ids -> Numbers] /\ seen \in [Ids -> Numbers]
    /\ leaves \in 0 .. MaxLeaves

\* The handshake is over: the options, with the first limit, have come.
Init ==
    /\ made = <<>>
    /\ system = [id \in Ids |-> 0]
    /\ m_active = FALSE
    /\ own = {} /\ sent = {}
    /\ known = Limits[1]
    /\ sender = NoSender
    /\ wire = <<>>
    /\ options = <<>>
    /\ reloads = 0
    /\ transfer = NoTransfer
    /\ got = [id \in Ids |-> 0]
    /\ seen = [id \in Ids |-> 0]
    /\ leaves = 0

-----------------------------------------------------------------------------
(* The client *)

\* Mutant: the limit is not looked at.
SendableAnySize(size) == TRUE

\* sendClipboard: data.size() >= limit is not sent.
Sendable(size) == size < known

Connection == [wire |-> wire, sender |-> sender, sent |-> sent]

\* sendClipboard on a connection s, for a clipboard that is not sent yet: its
\* transfer starts and cancels the turns the one before it has left.
SendClipboard(s, id, content, size) ==
    IF ~ Sendable(size) THEN s
    ELSE [wire |-> s.wire \o StartMessages(id, content, size),
          sender |-> AfterTurn(NewSender(id, content, size)),
          sent |-> s.sent \cup {id}]

ConnectionBecomes(s) == wire' = s.wire /\ sender' = s.sender /\ sent' = s.sent

\* The user copies something: Client::handleClipboardGrabbed.  The platform's
\* event is handled at once here, so that a clipboard that was sent has not
\* changed since; Clipboard has the copy and its event apart.
Copy(id, size) ==
    LET c == Len(made) + 1
        grabbed == [wire |-> Append(wire, Grab(id, c)), sender |-> sender,
                    sent |-> sent \ {id}]
    IN  /\ c <= MaxContents
        /\ made' = Append(made, [id |-> id, size |-> size])
        /\ system' = [system EXCEPT ![id] = c]
        /\ own' = own \cup {id}
        /\ ConnectionBecomes(IF m_active THEN grabbed
                             ELSE SendClipboard(grabbed, id, c, size))
        /\ UNCHANGED <<m_active, known, leaves, serverVars, options>>

Enter ==
    /\ ~m_active
    /\ m_active' = TRUE
    /\ UNCHANGED <<made, system, own, sent, known, sender, leaves, serverVars,
                   wire, options>>

\* The connection after the loop of Client::leave over the clipboards, which
\* sends those it owns and has not sent.
SendOwned ==
    LET after[n \in 0 .. ClipboardEnd] ==
            IF n = 0 THEN Connection
            ELSE IF n - 1 \notin own \ sent THEN after[n - 1]
            ELSE SendClipboard(after[n - 1], n - 1, system[n - 1],
                               made[system[n - 1]].size)
    IN  after[ClipboardEnd]

Leave ==
    /\ m_active /\ leaves < MaxLeaves
    /\ leaves' = leaves + 1
    /\ m_active' = FALSE
    /\ ConnectionBecomes(SendOwned)
    /\ UNCHANGED <<made, system, own, known, serverVars, options>>

\* A ClipboardSending event of the current sender: sendNext.
Tick ==
    /\ sender.active
    /\ wire' = wire \o TurnMessages(sender)
    /\ sender' = AfterTurn(sender)
    /\ UNCHANGED <<made, system, m_active, own, sent, known, leaves, serverVars,
                   options>>

\* Client::setOptions.
ReceiveOptions ==
    /\ options # <<>>
    /\ known' = Head(options)
    /\ options' = Tail(options)
    /\ UNCHANGED <<made, system, m_active, own, sent, sender, leaves, serverVars,
                   wire>>

-----------------------------------------------------------------------------
(* The server *)

\* A reload of the configuration: processOptions, and sendOptions to clients.
Reload ==
    /\ reloads + 1 < Len(Limits)
    /\ reloads' = reloads + 1
    /\ options' = Append(options, Limits[reloads + 2])
    /\ UNCHANGED <<clientVars, transfer, got, seen, wire>>

\* recvGrabClipboard, and Server::handleClipboardGrabbed.
ReceiveGrab ==
    /\ wire # <<>> /\ Head(wire).mark = "Grab"
    /\ seen' = [seen EXCEPT ![Head(wire).id] = Head(wire).content]
    /\ wire' = Tail(wire)
    /\ UNCHANGED <<clientVars, reloads, transfer, got, options>>

\* recvClipboard.  When it fails, handleData reads all that has arrived, which
\* is any part of what is on the wire.
ReceiveChunk ==
    /\ wire # <<>> /\ Head(wire).mark # "Grab"
    /\ LET m == Head(wire)
           a == Assemble(transfer, m, Limit, FALSE)
       IN  /\ transfer' = IF a.result = "Finished"
                          THEN [a.next EXCEPT !.cache = <<>>] ELSE a.next
           /\ got' = IF a.result = "Finished"
                     THEN [got EXCEPT ![m.id] = a.next.cache[1][1]] ELSE got
           /\ \E n \in IF a.result = "Error" THEN 1 .. Len(wire) ELSE {1} :
                  wire' = SubSeq(wire, n + 1, Len(wire))
    /\ UNCHANGED <<clientVars, reloads, seen, options>>

-----------------------------------------------------------------------------
(* The specification *)

Next == \/ \E id \in Ids, size \in Sizes : Copy(id, size)
        \/ Enter \/ Leave \/ Tick \/ ReceiveOptions
        \/ Reload \/ ReceiveGrab \/ ReceiveChunk

Spec == Init /\ [][Next]_vars

-----------------------------------------------------------------------------
(* Properties *)

\* The server finds no transfer invalid, and what it saves is all the chunks
\* of one content of that clipboard (ClientProxy1_6::recvClipboard).
NeverRefused ==
    wire # <<>> /\ Head(wire).mark # "Grab" =>
        LET m == Head(wire)
            a == Assemble(transfer, m, Limit, FALSE)
        IN  /\ a.result # "Error"
            /\ a.result = "Finished" =>
                   Whole(a.next.cache, m.content, made[m.content].size)

\* Every grab a client reports reaches the server, whatever else it sends
\* (recvClipboard: "The client sent data above the limit; the sequence stays
\* readable").
GrabsArrive ==
    wire = <<>> => \A id \in own : seen[id] = system[id]

\* The uploads implement the delivery of whole contents, in order.
Delivery == INSTANCE ClipboardDelivery WITH made <- [c \in DOMAIN made |-> made[c].id]
DeliverySpec == Delivery!Spec
=============================================================================
