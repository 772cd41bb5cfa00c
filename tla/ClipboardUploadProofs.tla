----------------------- MODULE ClipboardUploadProofs -----------------------
(***************************************************************************)
(* Proofs about ClipboardUpload, for limits that a reload only raises.     *)
(* The inductive invariant says that the messages on the wire lead from    *)
(* what the server has assembled and seen so far to what the client's      *)
(* sender goes on with: at each place of the wire there is a point, the    *)
(* clipboard whose transfer is open there, how many chunks of it have been *)
(* sent, the last content of each clipboard and its last grab.             *)
(***************************************************************************)
EXTENDS ClipboardUpload, QueuesProofs

\* The condition of the theorems: no reload lowers the limit.
LimitsGrow == \A i, j \in DOMAIN Limits : i <= j => Limits[i] <= Limits[j]

-----------------------------------------------------------------------------
(* The invariant *)

Contents == Seq([id : Ids, size : Sizes])
Values == [Ids -> Numbers]
Points == [open : BOOLEAN, id : Nat, sent : Nat, latest : Values, seen : Values]
Senders == [active : BOOLEAN, id : Nat, content : Numbers, size : Nat,
            offset : Nat, chunksThisTurn : Nat]
Transfers == [expected : Nat, received : Nat, active : BOOLEAN,
              discarding : BOOLEAN, cache : Seq(Numbers \X Nat)]
Connections == [wire : Seq(Message), sender : Senders, sent : SUBSET Ids]

\* Content c, when the contents md have been made, is one of clipboard id.
MadeFor(md, id, c) == c \in DOMAIN md /\ md[c].id = id
Chunks(md, c) == md[c].size

\* Message m takes the wire from point p to point q; v are the client's
\* contents and lim is the server's limit.
Opens(md, v, lim, p, m, q) ==
  /\ m.mark = "DataStart" /\ MadeFor(md, m.id, m.content)
  /\ m.part = Chunks(md, m.content) /\ m.part <= lim
  /\ p.latest[m.id] <= m.content /\ m.content <= v[m.id]
  /\ q = [open |-> TRUE, id |-> m.id, sent |-> 0,
          latest |-> [p.latest EXCEPT ![m.id] = m.content], seen |-> p.seen]
Goes(md, p, m, q) ==
  /\ m.mark = "DataChunk" /\ p.open /\ m.id = p.id /\ m.content = p.latest[m.id]
  /\ MadeFor(md, m.id, m.content)
  /\ m.part = p.sent + 1 /\ m.part <= Chunks(md, m.content)
  /\ q = [p EXCEPT !.sent = m.part]
Closes(md, p, m, q) ==
  /\ m.mark = "DataEnd" /\ p.open /\ m.id = p.id /\ m.content = p.latest[m.id]
  /\ MadeFor(md, m.id, m.content)
  /\ p.sent = Chunks(md, m.content)
  /\ q = [p EXCEPT !.open = FALSE]
Grabs(p, m, q) ==
  /\ m.mark = "Grab"
  /\ q = [p EXCEPT !.seen = [p.seen EXCEPT ![m.id] = m.content]]

Steps(md, v, lim) ==
  {e \in Points \X Message \X Points :
      Opens(md, v, lim, e[1], e[2], e[3]) \/ Goes(md, e[1], e[2], e[3])
      \/ Closes(md, e[1], e[2], e[3]) \/ Grabs(e[1], e[2], e[3])}

\* The server's transfer t is at point p.
Receives(md, v, t, g, p) ==
  /\ \A id \in Ids : g[id] <= p.latest[id] /\ p.latest[id] <= v[id]
  /\ t.active = p.open
  /\ p.open =>
        /\ p.id \in Ids /\ MadeFor(md, p.id, p.latest[p.id])
        /\ t.expected = Chunks(md, p.latest[p.id])
        /\ t.received = p.sent /\ t.received <= t.expected
        /\ t.discarding = FALSE
        /\ t.cache = [i \in 1 .. t.received |-> <<p.latest[p.id], i>>]

\* The client's sender s is at point q, and all its grabs have been sent; it
\* owns the clipboards o.
Sends(md, v, o, s, q) ==
  /\ \A id \in Ids : q.latest[id] <= v[id]
  /\ \A id \in o : q.seen[id] = v[id]
  /\ s.active =>
        /\ q.open /\ q.id \in Ids /\ s.id = q.id /\ s.content = q.latest[q.id]
        /\ MadeFor(md, s.id, s.content) /\ s.size = Chunks(md, s.content)
        /\ s.offset = q.sent /\ s.offset < s.size

\* What has been written on the connection leads from point p to its sender.
Writes(md, v, lim, o, connection, p) ==
  \E q \in Points : Leads(Steps(md, v, lim), connection.wire, p, q)
                    /\ Sends(md, v, o, connection.sender, q)

Stream(md, v, lim, o, t, g, sn, connection) ==
  \E p \in Points : /\ p.seen = sn /\ Receives(md, v, t, g, p)
                    /\ Writes(md, v, lim, o, connection, p)

TypeInv ==
  /\ made \in Contents /\ Len(made) \in Numbers
  /\ system \in Values /\ got \in Values /\ seen \in Values
  /\ m_active \in BOOLEAN /\ own \subseteq Ids /\ sent \subseteq Ids
  /\ known \in Nat /\ options \in Seq(Nat)
  /\ sender \in Senders /\ wire \in Seq(Message) /\ transfer \in Transfers
  /\ reloads \in 0 .. Len(Limits) - 1 /\ leaves \in 0 .. MaxLeaves
  /\ transfer.received <= transfer.expected

\* The client has data for the clipboards it owns.
OwnData ==
  /\ \A id \in own : MadeFor(made, id, system[id])
  /\ \A id \in Ids : system[id] <= Len(made)

\* No limit that the client knows or will hear of is above the server's.
LimitsKnown ==
  known <= Limit /\ \A i \in DOMAIN options : options[i] <= Limit

UploadInv ==
  /\ TypeInv /\ OwnData /\ LimitsKnown
  /\ Stream(made, system, Limit, own, transfer, got, seen, Connection)

-----------------------------------------------------------------------------
(* Facts about the operators *)

\* Every content has at least one chunk.
LEMMA ChunksType ==
  ASSUME NEW md \in Contents, NEW id, NEW c, MadeFor(md, id, c)
  PROVE  Chunks(md, c) \in Nat \ {0}
<1>1. md[c] \in [id : Ids, size : Sizes]
  BY ElementOfSeq, LenProperties DEF MadeFor, Contents
<1> QED BY <1>1, UploadAssumption DEF Chunks

\* More contents made: those made before stay what they are.
LEMMA MadeMore ==
  ASSUME NEW md \in Contents, NEW r \in [id : Ids, size : Sizes], NEW id, NEW c,
         MadeFor(md, id, c)
  PROVE  MadeFor(Append(md, r), id, c) /\ Chunks(Append(md, r), c) = Chunks(md, c)
<1>1. c \in DOMAIN Append(md, r) /\ Append(md, r)[c] = md[c]
  BY AppendOne DEF Contents, MadeFor
<1> QED BY <1>1 DEF Chunks, MadeFor

\* A turn writes at least one chunk and no more than are left.
LEMMA TurnLengthBounds ==
  ASSUME NEW s \in Senders, s.offset < s.size
  PROVE  TurnLength(s) \in Nat \ {0} /\ s.offset + TurnLength(s) <= s.size
<1> DEFINE a == s.size - s.offset
           b == IF s.chunksThisTurn < MaxChunksPerTurn
                THEN MaxChunksPerTurn - s.chunksThisTurn ELSE 1
<1>1. a \in Nat \ {0} /\ b \in Nat \ {0}
  BY TurnAssumption DEF Senders
<1>2. TurnLength(s) = CHOOSE x \in {a, b} : \A y \in {a, b} : x <= y
  BY DEF TurnLength, Min
<1> HIDE DEF a, b
<1>3. \E x \in {a, b} : \A y \in {a, b} : x <= y
  BY <1>1
<1>4. TurnLength(s) \in {a, b} /\ TurnLength(s) <= a
  BY <1>2, <1>3
<1>5. TurnLength(s) \in Nat \ {0}
  BY <1>1, <1>4
<1> QED BY <1>4, <1>5 DEF a, Senders

\* The record types of what a transfer is made of.
LEMMA StartType ==
  ASSUME NEW id \in Ids, NEW c \in Numbers, NEW size \in Nat
  PROVE  /\ Start(id, c, size) \in Message /\ End(id, c) \in Message
         /\ NewSender(id, c, size) \in Senders /\ NoSender \in Senders
         /\ \A i \in Nat : Data(id, c, i) \in Message
<1>1. Ids \subseteq Nat /\ 0 \in Numbers
  BY UploadAssumption DEF Ids, Numbers
<1> QED BY <1>1 DEF Start, End, Data, NewSender, NoSender, Message, Senders

-----------------------------------------------------------------------------
(* The client writes *)

\* The chunks of a turn lead from the point of the sender to one n chunks on.
LEMMA ChunksLead ==
  ASSUME NEW md \in Contents, NEW v \in Values, NEW lim,
         NEW q \in Points, q.open, q.id \in Ids, MadeFor(md, q.id, q.latest[q.id]),
         NEW n \in Nat, q.sent + n <= Chunks(md, q.latest[q.id])
  PROVE  LET turn == [i \in 1 .. n |-> Data(q.id, q.latest[q.id], q.sent + i)]
         IN  /\ turn \in Seq(Message)
             /\ [q EXCEPT !.sent = q.sent + n] \in Points
             /\ Leads(Steps(md, v, lim), turn, q, [q EXCEPT !.sent = q.sent + n])
<1> DEFINE c == q.latest[q.id]
           turn == [i \in 1 .. n |-> Data(q.id, c, q.sent + i)]
           point(i) == [q EXCEPT !.sent = q.sent + i]
           f == [i \in 0 .. n |-> point(i)]
<1>1. /\ q.sent \in Nat /\ c \in Numbers
      /\ q \in [open : BOOLEAN, id : Nat, sent : Nat, latest : Values, seen : Values]
      /\ Chunks(md, c) \in Nat
  BY ChunksType DEF Points, Values
<1>2. \A i \in Nat : Data(q.id, c, q.sent + i) \in Message
  BY <1>1, StartType, UploadAssumption
<1>3. turn \in Seq(Message) /\ Len(turn) = n /\ \A i \in 1 .. n : turn[i] = Data(q.id, c, q.sent + i)
  BY <1>2
<1>4. \A i \in Nat : point(i) \in Points /\ point(i).sent = q.sent + i
                     /\ point(i).open /\ point(i).id = q.id /\ point(i).latest = q.latest
                     /\ point(i).seen = q.seen
  BY <1>1 DEF Points
<1>5. point(0) = q
  BY <1>1
<1>6. ASSUME NEW i \in 1 .. n PROVE <<point(i - 1), Data(q.id, c, q.sent + i), point(i)>> \in Steps(md, v, lim)
  <2> DEFINE m == Data(q.id, c, q.sent + i)
  <2>1. i \in Nat /\ i - 1 \in Nat /\ (i - 1) + 1 = i /\ q.sent + i = q.sent + (i - 1) + 1
        /\ q.sent + i <= Chunks(md, c)
    BY <1>1
  <2>2. m.mark = "DataChunk" /\ m.id = q.id /\ m.content = c /\ m.part = q.sent + i
    BY DEF Data
  <2>3. [point(i - 1) EXCEPT !.sent = q.sent + i] = point(i)
    BY <1>1, <2>1
  <2>4. Goes(md, point(i - 1), m, point(i))
    BY <2>1, <2>2, <2>3, <1>4 DEF Goes
  <2> HIDE DEF m, point
  <2>5. <<point(i - 1), m, point(i)>> \in Points \X Message \X Points
    BY <2>1, <1>2, <1>4 DEF m
  <2> QED BY <2>4, <2>5 DEF Steps, m
<1>7. DOMAIN f = 0 .. n /\ \A i \in 0 .. n : f[i] = point(i)
  OBVIOUS
<1> HIDE DEF f, point, turn, c
<1>8. \A i \in 1 .. n : i \in 0 .. n /\ i - 1 \in 0 .. n
  OBVIOUS
<1>9. \A i \in 1 .. n : <<f[i - 1], turn[i], f[i]>> \in Steps(md, v, lim)
  BY <1>3, <1>6, <1>7, <1>8
<1>10. f[0] = q /\ f[n] = point(n)
  BY <1>5, <1>7
<1>11. Leads(Steps(md, v, lim), turn, q, point(n))
  BY <1>3, <1>7, <1>9, <1>10 DEF Leads
<1> QED BY <1>3, <1>4, <1>11 DEF point, turn, c

\* A turn of the sender leads on from its point to the point after the turn.
LEMMA TurnLeads ==
  ASSUME NEW md \in Contents, NEW v \in Values, NEW lim, NEW o \in SUBSET Ids,
         NEW s \in Senders, s.active,
         NEW q \in Points, Sends(md, v, o, s, q)
  PROVE  /\ TurnMessages(s) \in Seq(Message) /\ AfterTurn(s) \in Senders
         /\ \E x \in Points : Leads(Steps(md, v, lim), TurnMessages(s), q, x)
                              /\ Sends(md, v, o, AfterTurn(s), x)
<1> DEFINE n == TurnLength(s)
           chunks == [i \in 1 .. n |-> Data(s.id, s.content, s.offset + i)]
           mid == [q EXCEPT !.sent = q.sent + n]
<1>1. /\ q.open /\ q.id \in Ids /\ s.id = q.id /\ s.content = q.latest[q.id]
      /\ MadeFor(md, s.id, s.content) /\ s.size = Chunks(md, s.content)
      /\ s.offset = q.sent /\ s.offset < s.size
      /\ \A id \in Ids : q.latest[id] <= v[id]
      /\ \A id \in o : q.seen[id] = v[id]
  BY DEF Sends
<1>2. n \in Nat \ {0} /\ s.offset + n <= s.size
  BY <1>1, TurnLengthBounds
<1>3. /\ chunks \in Seq(Message) /\ mid \in Points
      /\ Leads(Steps(md, v, lim), chunks, q, mid)
  <2>1. q.sent + n <= Chunks(md, q.latest[q.id]) /\ MadeFor(md, q.id, q.latest[q.id])
    BY <1>1, <1>2
  <2>2. chunks = [i \in 1 .. n |-> Data(q.id, q.latest[q.id], q.sent + i)]
    BY <1>1
  <2> HIDE DEF n, mid, chunks
  <2> QED BY <1>1, <1>2, <2>1, <2>2, ChunksLead DEF mid
<1>4. q \in [open : BOOLEAN, id : Nat, sent : Nat, latest : Values, seen : Values]
  BY DEF Points
<1> HIDE DEF n
<1>5. mid.open /\ mid.id = q.id /\ mid.sent = q.sent + n /\ mid.latest = q.latest /\ mid.seen = q.seen
  BY <1>1, <1>4
<1> HIDE DEF n, mid, chunks
<1>6. CASE Drained(s)
  <2> DEFINE end == End(s.id, s.content)
             x == [mid EXCEPT !.open = FALSE]
  <2>1. TurnMessages(s) = chunks \o <<end>> /\ AfterTurn(s) = NoSender
    BY <1>6 DEF TurnMessages, AfterTurn, chunks, n
  <2>2. end \in Message /\ NoSender \in Senders
    <3>1. s.content \in Numbers
      BY DEF Senders
    <3> QED BY <1>1, <3>1, StartType
  <2>3. x \in Points /\ x.latest = q.latest /\ x.seen = q.seen
    BY <1>3, <1>5 DEF Points
  <2>4. Closes(md, mid, end, x)
    <3>1. mid.sent = Chunks(md, s.content)
      BY <1>1, <1>5, <1>6 DEF Drained, n
    <3>2. end.mark = "DataEnd" /\ end.id = s.id /\ end.content = s.content
      BY DEF End
    <3> HIDE DEF end
    <3> QED BY <1>1, <1>5, <3>1, <3>2 DEF Closes
  <2> HIDE DEF end, x
  <2>5. <<mid, end, x>> \in Steps(md, v, lim)
    <3>1. <<mid, end, x>> \in Points \X Message \X Points
      BY <1>3, <2>2, <2>3
    <3> QED BY <3>1, <2>4 DEF Steps
  <2>6. Leads(Steps(md, v, lim), <<end>>, mid, x)
    BY <2>5, LeadsOne
  <2>7. <<end>> \in Seq(Message)
    BY <2>2
  <2>8. Leads(Steps(md, v, lim), TurnMessages(s), q, x)
    BY <1>3, <2>1, <2>6, <2>7, LeadsConcat
  <2>9. Sends(md, v, o, NoSender, x)
    BY <1>1, <2>3 DEF Sends, NoSender
  <2>10. TurnMessages(s) \in Seq(Message)
    BY <2>1, <2>7, <1>3, ConcatProperties
  <2> QED BY <2>1, <2>2, <2>3, <2>8, <2>9, <2>10
<1>7. CASE ~ Drained(s)
  <2> DEFINE t == [s EXCEPT !.offset = s.offset + n, !.chunksThisTurn = s.chunksThisTurn + n]
  <2>1. TurnMessages(s) = chunks \o <<>> /\ AfterTurn(s) = t
    BY <1>7 DEF TurnMessages, AfterTurn, chunks, n
  <2>2. chunks \o <<>> = chunks
    BY <1>3, ConcatEmptySeq
  <2>3. t \in Senders /\ t.active /\ t.id = s.id /\ t.content = s.content
        /\ t.size = s.size /\ t.offset = s.offset + n
    <3>1. s.offset + n \in Nat /\ s.chunksThisTurn + n \in Nat
      BY <1>2 DEF Senders
    <3>2. s.active = TRUE
      BY DEF Senders
    <3> QED BY <3>1, <3>2 DEF Senders
  <2>4. s.offset + n < s.size
    <3>1. s.offset + n # s.size
      BY <1>7 DEF Drained, n
    <3>2. s.offset \in Nat /\ s.size \in Nat
      BY DEF Senders
    <3> QED BY <3>1, <3>2, <1>2
  <2> HIDE DEF t
  <2>5. Sends(md, v, o, t, mid)
    BY <1>1, <1>5, <2>3, <2>4 DEF Sends
  <2> QED BY <1>3, <2>1, <2>2, <2>3, <2>5
<1> QED BY <1>6, <1>7

\* The start message opens the transfer that a new sender goes on with.
LEMMA StartLeads ==
  ASSUME NEW md \in Contents, NEW v \in Values, NEW lim \in Nat, NEW o \in SUBSET Ids,
         NEW id \in Ids, MadeFor(md, id, v[id]), Chunks(md, v[id]) <= lim,
         NEW s, NEW q \in Points, Sends(md, v, o, s, q)
  PROVE  LET c == v[id]
             size == Chunks(md, v[id])
         IN  /\ Start(id, c, size) \in Message /\ NewSender(id, c, size) \in Senders
             /\ NewSender(id, c, size).active
             /\ \E x \in Points : /\ <<q, Start(id, c, size), x>> \in Steps(md, v, lim)
                                  /\ Sends(md, v, o, NewSender(id, c, size), x)
<1> DEFINE c == v[id]
           size == Chunks(md, c)
           start == Start(id, c, size)
           new == NewSender(id, c, size)
           x == [open |-> TRUE, id |-> id, sent |-> 0,
                 latest |-> [q.latest EXCEPT ![id] = c], seen |-> q.seen]
<1>2. c \in Numbers /\ size \in Nat \ {0} /\ id \in Nat
  BY ChunksType, UploadAssumption DEF Values, Ids
<1>3. start \in Message /\ new \in Senders
  BY <1>2, StartType
<1>4. q.latest \in Values /\ q.seen \in Values /\ [q.latest EXCEPT ![id] = c] \in Values
  BY <1>2 DEF Points, Values
<1>5. x \in Points
  BY <1>2, <1>4 DEF Points
<1>6. <<q, start, x>> \in Steps(md, v, lim)
  <2>1. start.mark = "DataStart" /\ start.id = id /\ start.content = c /\ start.part = size
    BY DEF Start
  <2>2. q.latest[id] <= c /\ c <= v[id]
    BY <1>2 DEF Sends, Numbers
  <2> HIDE DEF start, c, size
  <2>3. Opens(md, v, lim, q, start, x)
    BY <2>1, <2>2 DEF Opens, size, c
  <2> HIDE DEF x
  <2>4. <<q, start, x>> \in Points \X Message \X Points
    BY <1>3, <1>5
  <2> QED BY <2>3, <2>4 DEF Steps
<1>7. Sends(md, v, o, new, x)
  <2>1. \A i \in Ids : x.latest[i] <= v[i]
    <3>1. \A i \in Ids : x.latest[i] = IF i = id THEN c ELSE q.latest[i]
      BY <1>4 DEF Values
    <3>2. \A i \in Ids : q.latest[i] <= v[i] /\ v[i] \in Nat
      BY DEF Sends, Values, Numbers
    <3> HIDE DEF x
    <3> QED BY <3>1, <3>2
  <2>2. x.open /\ x.id = id /\ x.sent = 0 /\ x.latest[id] = c /\ x.seen = q.seen
    BY <1>4 DEF Values
  <2>3. new.active /\ new.id = id /\ new.content = c /\ new.size = size /\ new.offset = 0
    BY DEF NewSender
  <2>4. \A i \in o : q.seen[i] = v[i]
    BY DEF Sends
  <2> HIDE DEF x, new, size
  <2> QED BY <2>1, <2>2, <2>3, <2>4, <1>2 DEF Sends, size
<1>8. new.active
  BY DEF NewSender
<1> HIDE DEF x
<1> QED BY <1>3, <1>5, <1>6, <1>7, <1>8

\* sendClipboard with the clipboard's newest content, when the limit the
\* client knows is not above lim.
LEMMA SendClipboardWrites ==
  ASSUME NEW md \in Contents, NEW v \in Values, NEW lim \in Nat, NEW o \in SUBSET Ids,
         NEW id \in Ids, MadeFor(md, id, v[id]), known \in Nat, known <= lim,
         NEW conn \in Connections, NEW p \in Points, Writes(md, v, lim, o, conn, p)
  PROVE  LET next == SendClipboard(conn, id, v[id], Chunks(md, v[id]))
         IN  next \in Connections /\ Writes(md, v, lim, o, next, p)
<1> DEFINE c == v[id]
           size == Chunks(md, c)
           start == Start(id, c, size)
           s == NewSender(id, c, size)
           next == SendClipboard(conn, id, c, size)
<1>1. CASE ~ Sendable(size)
  <2>1. next = conn
    BY <1>1 DEF SendClipboard
  <2> QED BY <2>1
<1>2. CASE Sendable(size)
  <2>1. PICK q \in Points : Leads(Steps(md, v, lim), conn.wire, p, q)
                            /\ Sends(md, v, o, conn.sender, q)
    BY DEF Writes
  <2>2. size <= lim
    BY <1>2, ChunksType DEF Sendable
  <2>3. /\ start \in Message /\ s \in Senders /\ s.active
        /\ \E x \in Points : <<q, start, x>> \in Steps(md, v, lim) /\ Sends(md, v, o, s, x)
    BY <2>1, <2>2, StartLeads
  <2> HIDE DEF start, s, size
  <2>4. PICK x \in Points : <<q, start, x>> \in Steps(md, v, lim) /\ Sends(md, v, o, s, x)
    BY <2>3
  <2>5. /\ TurnMessages(s) \in Seq(Message) /\ AfterTurn(s) \in Senders
        /\ \E y \in Points : Leads(Steps(md, v, lim), TurnMessages(s), x, y)
                             /\ Sends(md, v, o, AfterTurn(s), y)
    BY <2>3, <2>4, TurnLeads
  <2>6. PICK y \in Points : Leads(Steps(md, v, lim), TurnMessages(s), x, y)
                            /\ Sends(md, v, o, AfterTurn(s), y)
    BY <2>5
  <2>7. next = [wire |-> conn.wire \o (<<start>> \o TurnMessages(s)),
                sender |-> AfterTurn(s), sent |-> conn.sent \cup {id}]
    BY <1>2 DEF SendClipboard, StartMessages, start, s
  <2> HIDE DEF next
  <2>8. <<start>> \in Seq(Message) /\ Leads(Steps(md, v, lim), <<start>>, q, x)
    BY <2>3, <2>4, LeadsOne
  <2>9. <<start>> \o TurnMessages(s) \in Seq(Message)
        /\ Leads(Steps(md, v, lim), <<start>> \o TurnMessages(s), q, y)
    BY <2>5, <2>6, <2>8, LeadsConcat, ConcatProperties
  <2>10. conn.wire \in Seq(Message) /\ conn.sent \in SUBSET Ids
    BY DEF Connections
  <2>11. conn.wire \o (<<start>> \o TurnMessages(s)) \in Seq(Message)
         /\ Leads(Steps(md, v, lim), conn.wire \o (<<start>> \o TurnMessages(s)), p, y)
    BY <2>1, <2>9, <2>10, LeadsConcat, ConcatProperties
  <2>12. next \in Connections
    BY <2>5, <2>7, <2>10, <2>11 DEF Connections
  <2>13. next.wire = conn.wire \o (<<start>> \o TurnMessages(s)) /\ next.sender = AfterTurn(s)
    BY <2>7
  <2> QED BY <2>6, <2>11, <2>12, <2>13 DEF Writes, size, next
<1> QED BY <1>1, <1>2

\* The grab of a clipboard, when it is the only one of o whose grab the point
\* has not seen.
LEMMA GrabWrites ==
  ASSUME NEW md \in Contents, NEW v \in Values, NEW lim, NEW o \in SUBSET Ids,
         NEW id \in Ids, NEW w \in Seq(Message), NEW s, NEW p \in Points,
         NEW q \in Points, Leads(Steps(md, v, lim), w, p, q),
         Sends(md, v, o \ {id}, s, q)
  PROVE  /\ Append(w, Grab(id, v[id])) \in Seq(Message)
         /\ \E x \in Points : Leads(Steps(md, v, lim), Append(w, Grab(id, v[id])), p, x)
                              /\ Sends(md, v, o, s, x)
<1> DEFINE m == Grab(id, v[id])
           x == [q EXCEPT !.seen = [q.seen EXCEPT ![id] = v[id]]]
<1>1. m \in Message /\ m.mark = "Grab" /\ m.id = id /\ m.content = v[id]
  BY DEF Grab, Message, Values
<1> HIDE DEF m
<1>2. q.seen \in Values /\ [q.seen EXCEPT ![id] = v[id]] \in Values
  BY DEF Points, Values
<1>3. x \in Points /\ x.open = q.open /\ x.id = q.id /\ x.sent = q.sent
      /\ x.latest = q.latest /\ x.seen = [q.seen EXCEPT ![id] = v[id]]
  BY <1>2 DEF Points
<1>4. Grabs(q, m, x)
  BY <1>1 DEF Grabs
<1> HIDE DEF x
<1>5. <<q, m, x>> \in Steps(md, v, lim)
  <2>1. <<q, m, x>> \in Points \X Message \X Points
    BY <1>1, <1>3
  <2> QED BY <2>1, <1>4 DEF Steps
<1>6. <<m>> \in Seq(Message) /\ Leads(Steps(md, v, lim), <<m>>, q, x)
  BY <1>1, <1>5, LeadsOne
<1>7. w \o <<m>> = Append(w, m) /\ Append(w, m) \in Seq(Message)
  BY <1>1, AppendOne
<1>8. Leads(Steps(md, v, lim), Append(w, m), p, x)
  BY <1>6, <1>7, LeadsConcat
<1>9. \A i \in o : x.seen[i] = v[i]
  <2>1. \A i \in o \ {id} : q.seen[i] = v[i]
    BY DEF Sends
  <2> QED BY <2>1, <1>2, <1>3 DEF Values
<1>10. Sends(md, v, o, s, x)
  BY <1>3, <1>9 DEF Sends
<1> QED BY <1>3, <1>7, <1>8, <1>10 DEF m

-----------------------------------------------------------------------------
(* The server reads *)

\* What ReceiveChunk makes of the assembly state and of the clipboards.
After(t, m, lim) ==
  LET a == Assemble(t, m, lim, FALSE)
  IN  IF a.result = "Finished" THEN [a.next EXCEPT !.cache = <<>>] ELSE a.next
Taken(t, g, m, lim) ==
  LET a == Assemble(t, m, lim, FALSE)
  IN  IF a.result = "Finished" THEN [g EXCEPT ![m.id] = a.next.cache[1][1]] ELSE g

\* The message m is no error, and what it completes is whole.
Sound(md, t, m, lim) ==
  LET a == Assemble(t, m, lim, FALSE)
  IN  /\ a.result # "Error"
      /\ a.result = "Finished" => Whole(a.next.cache, m.content, Chunks(md, m.content))

\* The clipboards stay what they are, or one takes a content made for it that
\* is not older than the one it has.
Delivers(md, g, g2) ==
  g2 = g \/ \E id \in Ids, c \in Numbers : /\ MadeFor(md, id, c) /\ g[id] <= c
                                           /\ g2 = [g EXCEPT ![id] = c]

\* A start message is accepted.
LEMMA StartTaken ==
  ASSUME NEW md \in Contents, NEW v \in Values, NEW t \in Transfers, NEW g \in Values,
         NEW p \in Points, NEW m \in Message, NEW x \in Points, NEW lim \in Nat,
         Receives(md, v, t, g, p), Opens(md, v, lim, p, m, x)
  PROVE  /\ Sound(md, t, m, lim) /\ Taken(t, g, m, lim) = g
         /\ After(t, m, lim) \in Transfers
         /\ After(t, m, lim).received <= After(t, m, lim).expected
         /\ Receives(md, v, After(t, m, lim), g, x)
<1>1. /\ m.mark = "DataStart" /\ MadeFor(md, m.id, m.content)
      /\ m.part = Chunks(md, m.content) /\ m.part <= lim
      /\ p.latest[m.id] <= m.content /\ m.content <= v[m.id]
      /\ x = [open |-> TRUE, id |-> m.id, sent |-> 0,
              latest |-> [p.latest EXCEPT ![m.id] = m.content], seen |-> p.seen]
  BY DEF Opens
<1>2. m.id \in Ids /\ m.content \in Numbers /\ m.part \in Nat
  BY DEF Message
<1> DEFINE a == Assemble(t, m, lim, FALSE)
           big == m.part > lim
           next == [NoTransfer EXCEPT !.expected = m.part, !.active = TRUE, !.discarding = big]
<1>3. a = [result |-> "Started", next |-> next] /\ big = FALSE
  BY <1>1, <1>2 DEF Assemble, AssembleStart
<1> HIDE DEF a
<1>4. a.result = "Started" /\ a.next = next
  BY <1>3
<1>5. After(t, m, lim) = next /\ Taken(t, g, m, lim) = g /\ Sound(md, t, m, lim)
  BY <1>4 DEF After, Taken, Sound, a
<1>6. /\ next.expected = m.part /\ next.received = 0 /\ next.active = TRUE
      /\ next.discarding = big /\ next.cache = <<>>
  <2> HIDE DEF big
  <2> QED BY DEF NoTransfer
<1>7. next \in Transfers
  <2>1. big \in BOOLEAN /\ <<>> \in Seq(Numbers \X Nat)
    OBVIOUS
  <2>2. NoTransfer \in Transfers
    BY <2>1 DEF NoTransfer, Transfers
  <2> HIDE DEF big
  <2> QED BY <1>2, <2>1, <2>2 DEF Transfers
<1> HIDE DEF next
<1>8. Receives(md, v, next, g, x)
  <2>1. \A id \in Ids : x.latest[id] = IF id = m.id THEN m.content ELSE p.latest[id]
    BY <1>1, <1>2 DEF Points, Values
  <2>2. \A id \in Ids : g[id] <= p.latest[id] /\ p.latest[id] <= v[id]
    BY DEF Receives
  <2>3. \A id \in Ids : g[id] \in Nat /\ p.latest[id] \in Nat /\ v[id] \in Nat
    BY DEF Points, Values, Numbers
  <2>4. m.content \in Nat
    BY <1>2 DEF Numbers
  <2>5. \A id \in Ids : g[id] <= x.latest[id] /\ x.latest[id] <= v[id]
    BY <1>1, <1>2, <2>1, <2>2, <2>3, <2>4
  <2>6. x.open = TRUE /\ x.id = m.id /\ x.sent = 0 /\ x.latest[m.id] = m.content
    BY <1>1, <1>2, <2>1
  <2>7. [i \in 1 .. 0 |-> <<m.content, i>>] = <<>>
    OBVIOUS
  <2>8. /\ next.expected = Chunks(md, x.latest[x.id]) /\ next.received = x.sent
        /\ next.received <= next.expected /\ x.id \in Ids
        /\ MadeFor(md, x.id, x.latest[x.id])
    BY <1>1, <1>2, <1>6, <2>6
  <2>9. next.cache = [i \in 1 .. next.received |-> <<x.latest[x.id], i>>]
    BY <1>6, <2>6, <2>7
  <2>10. next.discarding = FALSE /\ next.active = x.open
    BY <1>3, <1>6, <2>6
  <2> QED BY <2>5, <2>8, <2>9, <2>10 DEF Receives
<1>9. next.received <= next.expected
  BY <1>2, <1>6
<1> QED BY <1>5, <1>7, <1>8, <1>9

\* A chunk is the next one of the transfer.
LEMMA ChunkTaken ==
  ASSUME NEW md \in Contents, NEW v \in Values, NEW t \in Transfers, NEW g \in Values,
         NEW p \in Points, NEW m \in Message, NEW x \in Points, NEW lim \in Nat,
         Receives(md, v, t, g, p), Goes(md, p, m, x)
  PROVE  /\ Sound(md, t, m, lim) /\ Taken(t, g, m, lim) = g
         /\ After(t, m, lim) \in Transfers
         /\ After(t, m, lim).received <= After(t, m, lim).expected
         /\ Receives(md, v, After(t, m, lim), g, x)
<1>1. /\ m.mark = "DataChunk" /\ p.open /\ m.id = p.id /\ m.content = p.latest[m.id]
      /\ m.part = p.sent + 1 /\ m.part <= Chunks(md, m.content)
      /\ x = [p EXCEPT !.sent = m.part]
  BY DEF Goes
<1>2. /\ t.active = TRUE /\ p.id \in Ids /\ MadeFor(md, p.id, m.content)
      /\ t.expected = Chunks(md, m.content)
      /\ t.received = p.sent /\ t.discarding = FALSE
      /\ t.cache = [i \in 1 .. t.received |-> <<m.content, i>>]
  BY <1>1 DEF Receives
<1>3. m.part \in Nat /\ m.content \in Numbers /\ p.sent \in Nat
      /\ t.expected \in Nat /\ t.received \in Nat /\ t.cache \in Seq(Numbers \X Nat)
  BY DEF Message, Points, Transfers
<1> DEFINE a == Assemble(t, m, lim, FALSE)
           cache == IF t.discarding THEN t.cache ELSE Append(t.cache, <<m.content, m.part>>)
           next == [t EXCEPT !.received = t.received + 1, !.cache = cache]
<1>4. t.received + 1 = m.part /\ m.part <= t.expected /\ ~ (t.received + 1 > t.expected)
  BY <1>1, <1>2, <1>3
<1>5. a = [result |-> "InProgress", next |-> next]
  BY <1>1, <1>2, <1>4 DEF Assemble, AssembleData
<1> HIDE DEF a
<1>6. a.result = "InProgress" /\ a.next = next
  <2> HIDE DEF next
  <2> QED BY <1>5
<1>7. After(t, m, lim) = next /\ Taken(t, g, m, lim) = g /\ Sound(md, t, m, lim)
  BY <1>6 DEF After, Taken, Sound, a
<1>8. cache = [i \in 1 .. m.part |-> <<m.content, i>>]
  <2>1. Append([i \in 1 .. t.received |-> <<m.content, i>>], <<m.content, t.received + 1>>)
          = [i \in 1 .. t.received + 1 |-> <<m.content, i>>]
    BY <1>3
  <2> QED BY <1>2, <1>4, <2>1
<1>9. cache \in Seq(Numbers \X Nat)
  BY <1>3
<1> HIDE DEF cache
<1>10. /\ next.expected = t.expected /\ next.received = m.part /\ next.active = TRUE
       /\ next.discarding = t.discarding /\ next.cache = cache
       /\ next \in Transfers
  BY <1>2, <1>3, <1>4, <1>9 DEF Transfers
<1> HIDE DEF next
<1>11. Receives(md, v, next, g, x)
  <2>1. x.open = TRUE /\ x.id = p.id /\ x.sent = m.part /\ x.latest = p.latest
    BY <1>1 DEF Points
  <2>2. \A id \in Ids : g[id] <= p.latest[id] /\ p.latest[id] <= v[id]
    BY DEF Receives
  <2>3. m.content = p.latest[p.id] /\ x.latest[x.id] = m.content /\ x.id \in Ids
    BY <1>1, <1>2, <2>1
  <2>4. next.expected = Chunks(md, m.content) /\ next.received = x.sent
        /\ next.received <= next.expected /\ MadeFor(md, x.id, m.content)
    BY <1>1, <1>2, <1>4, <1>10, <2>1
  <2>5. next.cache = [i \in 1 .. next.received |-> <<m.content, i>>]
    BY <1>8, <1>10
  <2>6. next.discarding = FALSE /\ next.active = x.open
    BY <1>2, <1>10, <2>1
  <2> QED BY <2>1, <2>2, <2>3, <2>4, <2>5, <2>6 DEF Receives
<1> QED BY <1>4, <1>7, <1>10, <1>11

\* The end finds the transfer complete, and the clipboard takes its content
\* unless it is above the limit.
LEMMA EndTaken ==
  ASSUME NEW md \in Contents, NEW v \in Values, NEW t \in Transfers, NEW g \in Values,
         NEW p \in Points, NEW m \in Message, NEW x \in Points, NEW lim \in Nat,
         Receives(md, v, t, g, p), Closes(md, p, m, x),
         t.received <= t.expected
  PROVE  /\ Sound(md, t, m, lim) /\ Delivers(md, g, Taken(t, g, m, lim))
         /\ Taken(t, g, m, lim) \in Values /\ After(t, m, lim) \in Transfers
         /\ After(t, m, lim).received <= After(t, m, lim).expected
         /\ Receives(md, v, After(t, m, lim), Taken(t, g, m, lim), x)
<1>1. /\ m.mark = "DataEnd" /\ p.open /\ m.id = p.id /\ m.content = p.latest[m.id]
      /\ p.sent = Chunks(md, m.content)
      /\ x = [p EXCEPT !.open = FALSE]
  BY DEF Closes
<1>2. /\ t.active = TRUE /\ m.id \in Ids /\ MadeFor(md, m.id, m.content)
      /\ t.expected = Chunks(md, m.content)
      /\ t.received = p.sent /\ t.discarding = FALSE
      /\ t.cache = [i \in 1 .. t.received |-> <<m.content, i>>]
  BY <1>1 DEF Receives
<1>3. x.open = FALSE /\ x.latest = p.latest
  BY <1>1 DEF Points
<1>4. \A id \in Ids : g[id] <= p.latest[id] /\ p.latest[id] <= v[id]
  BY DEF Receives
<1>5. m.content \in Numbers /\ g[m.id] <= m.content
  BY <1>1, <1>2, <1>4 DEF Message
<1>6. t.received = t.expected
  BY <1>1, <1>2
<1> DEFINE a == Assemble(t, m, lim, FALSE)
<1> DEFINE done == [t EXCEPT !.active = FALSE]
           next == [done EXCEPT !.cache = <<>>]
           g2 == [g EXCEPT ![m.id] = m.content]
<1>7. a = [result |-> "Finished", next |-> done]
  BY <1>1, <1>2, <1>6 DEF Assemble, AssembleEnd
<1>8. a.result = "Finished" /\ a.next = done
  <2> HIDE DEF a, done
  <2> QED BY <1>7
<1>9. done.cache = [i \in 1 .. Chunks(md, m.content) |-> <<m.content, i>>]
  BY <1>2, <1>6 DEF Transfers
<1>10. done.cache[1][1] = m.content
  <2>1. 1 \in 1 .. Chunks(md, m.content)
    BY <1>2, ChunksType
  <2>2. done.cache[1] = <<m.content, 1>>
    BY <1>9, <2>1
  <2> QED BY <2>2
<1> HIDE DEF a, done
<1>11. After(t, m, lim) = next /\ Taken(t, g, m, lim) = g2 /\ Sound(md, t, m, lim)
  BY <1>8, <1>9, <1>10 DEF After, Taken, Sound, Whole, a
<1>12. done \in Transfers /\ done.active = FALSE /\ done.received = t.received
      /\ done.expected = t.expected
  BY DEF done, Transfers
<1>13. next \in Transfers /\ next.active = FALSE /\ next.received <= next.expected
  <2>1. <<>> \in Seq(Numbers \X Nat) /\ t.received \in Nat /\ t.expected \in Nat
    BY DEF Transfers
  <2> QED BY <1>6, <1>12, <2>1 DEF Transfers
<1>14. g2 \in Values
  BY <1>2, <1>5 DEF Values
<1>15. \A id \in Ids : g2[id] <= p.latest[id]
  <2>1. \A id \in Ids : g2[id] = IF id = m.id THEN m.content ELSE g[id]
    BY DEF Values
  <2>2. m.content <= p.latest[m.id]
    BY <1>1, <1>5 DEF Numbers
  <2> HIDE DEF g2
  <2> QED BY <2>1, <2>2, <1>4
<1> HIDE DEF next
<1>16. Receives(md, v, next, g2, x)
  BY <1>3, <1>4, <1>13, <1>15 DEF Receives
<1>17. Delivers(md, g, g2)
  BY <1>2, <1>5 DEF Delivers
<1> HIDE DEF g2
<1> QED BY <1>11, <1>13, <1>14, <1>16, <1>17

\* Any message that the wire leads on with, other than a grab.
LEMMA MessageTaken ==
  ASSUME NEW md \in Contents, NEW v \in Values, NEW t \in Transfers, NEW g \in Values,
         NEW lim \in Nat, NEW p \in Points, NEW m, NEW x, <<p, m, x>> \in Steps(md, v, lim),
         m.mark # "Grab", Receives(md, v, t, g, p), t.received <= t.expected
  PROVE  /\ Sound(md, t, m, lim) /\ Delivers(md, g, Taken(t, g, m, lim))
         /\ Taken(t, g, m, lim) \in Values /\ After(t, m, lim) \in Transfers
         /\ After(t, m, lim).received <= After(t, m, lim).expected
         /\ Receives(md, v, After(t, m, lim), Taken(t, g, m, lim), x)
         /\ x.seen = p.seen
<1>1. /\ m \in Message /\ x \in Points
      /\ Opens(md, v, lim, p, m, x) \/ Goes(md, p, m, x) \/ Closes(md, p, m, x)
  BY DEF Steps, Grabs
<1>2. CASE Opens(md, v, lim, p, m, x)
  <2>1. x.seen = p.seen
    BY <1>2 DEF Opens
  <2> QED BY <1>1, <1>2, <2>1, StartTaken DEF Delivers
<1>3. CASE Goes(md, p, m, x)
  <2>1. x.seen = p.seen
    BY <1>3 DEF Goes, Points
  <2> QED BY <1>1, <1>3, <2>1, ChunkTaken DEF Delivers
<1>4. CASE Closes(md, p, m, x)
  <2>1. x.seen = p.seen
    BY <1>4 DEF Closes, Points
  <2> QED BY <1>1, <1>4, <2>1, EndTaken
<1> QED BY <1>1, <1>2, <1>3, <1>4


-----------------------------------------------------------------------------
(* What stays true of a stream *)

\* When a new content is made: only the grab of its clipboard is missing.
LEMMA Newer ==
  ASSUME NEW md \in Contents, NEW v \in Values, \A id \in Ids : v[id] <= Len(md),
         NEW r \in [id : Ids, size : Sizes], Len(md) + 1 \in Numbers, NEW lim
  PROVE  LET md2 == Append(md, r)
             v2 == [v EXCEPT ![r.id] = Len(md) + 1]
         IN  /\ md2 \in Contents /\ v2 \in Values /\ Len(md2) = Len(md) + 1
             /\ \A id \in Ids : v2[id] <= Len(md2)
             /\ \A id \in Ids : MadeFor(md, id, v[id]) => MadeFor(md2, id, v2[id])
             /\ MadeFor(md2, r.id, v2[r.id])
             /\ Chunks(md2, Len(md) + 1) = r.size /\ v2[r.id] = Len(md) + 1
             /\ Steps(md, v, lim) \subseteq Steps(md2, v2, lim)
             /\ \A t, g : \A p \in Points : Receives(md, v, t, g, p) => Receives(md2, v2, t, g, p)
             /\ \A s : \A o \in SUBSET Ids : \A q \in Points :
                    Sends(md, v, o, s, q) => Sends(md2, v2, o \ {r.id}, s, q)
<1> DEFINE c == Len(md) + 1
           md2 == Append(md, r)
           v2 == [v EXCEPT ![r.id] = c]
<1>1. Len(md) \in Nat /\ DOMAIN md = 1 .. Len(md) /\ md \in Seq([id : Ids, size : Sizes])
  BY LenProperties DEF Contents
<1>2. /\ md2 \in Contents /\ c \in DOMAIN md2 /\ md2[c] = r /\ Len(md2) = c
  BY <1>1, AppendOne DEF Contents
<1>3. c \in Nat \ {0} /\ r.id \in Ids
  BY <1>1
<1>4. v2 \in Values /\ \A id \in Ids : v2[id] = IF id = r.id THEN c ELSE v[id]
  BY <1>3 DEF Values
<1> HIDE DEF md2, v2
<1>5. \A id, x : MadeFor(md, id, x) => MadeFor(md2, id, x) /\ Chunks(md2, x) = Chunks(md, x)
  BY MadeMore DEF md2
<1>6. /\ \A id \in Ids : MadeFor(md, id, v[id]) => MadeFor(md2, id, v2[id])
      /\ MadeFor(md2, r.id, v2[r.id])
  <2>1. MadeFor(md2, r.id, c)
    BY <1>2 DEF MadeFor
  <2> QED BY <2>1, <1>3, <1>4, <1>5
<1>7. Chunks(md2, c) = r.size
  BY <1>2 DEF Chunks
<1>8. \A id \in Ids : v[id] \in Nat /\ v2[id] \in Nat /\ v[id] <= v2[id] /\ v2[id] <= Len(md2)
  <2> TAKE id \in Ids
  <2>1. v[id] \in Nat /\ v2[id] \in Nat /\ v[id] <= Len(md)
    BY <1>4 DEF Values, Numbers
  <2> QED BY <1>1, <1>2, <1>4, <2>1
<1>9. \A p \in Points, id \in Ids : p.latest[id] \in Nat
  BY DEF Points, Values, Numbers
<1>10. \A p \in Points, id \in Ids : p.latest[id] <= v[id] => p.latest[id] <= v2[id]
  BY <1>8, <1>9
<1>11. Steps(md, v, lim) \subseteq Steps(md2, v2, lim)
  <2> SUFFICES ASSUME NEW e \in Steps(md, v, lim) PROVE e \in Steps(md2, v2, lim)
    OBVIOUS
  <2>1. e \in Points \X Message \X Points
    BY DEF Steps
  <2>2. CASE Opens(md, v, lim, e[1], e[2], e[3])
    <3>1. e[2].content \in Nat /\ e[2].id \in Ids
      BY <2>1 DEF Message, Numbers
    <3>2. e[2].content <= v[e[2].id] /\ MadeFor(md, e[2].id, e[2].content)
      BY <2>2 DEF Opens
    <3>3. e[2].content <= v2[e[2].id]
      BY <3>1, <3>2, <1>8
    <3>4. Opens(md2, v2, lim, e[1], e[2], e[3])
      BY <2>2, <3>2, <3>3, <1>5 DEF Opens
    <3> QED BY <2>1, <3>4 DEF Steps
  <2>3. CASE Goes(md, e[1], e[2], e[3])
    BY <2>1, <2>3, <1>5 DEF Steps, Goes
  <2>4. CASE Closes(md, e[1], e[2], e[3])
    BY <2>1, <2>4, <1>5 DEF Steps, Closes
  <2>5. CASE Grabs(e[1], e[2], e[3])
    BY <2>1, <2>5 DEF Steps
  <2> QED BY <2>2, <2>3, <2>4, <2>5 DEF Steps
<1>12. ASSUME NEW t, NEW g, NEW p \in Points, Receives(md, v, t, g, p)
       PROVE  Receives(md2, v2, t, g, p)
  BY <1>5, <1>10, <1>12 DEF Receives
<1>13. ASSUME NEW s, NEW o \in SUBSET Ids, NEW q \in Points, Sends(md, v, o, s, q)
       PROVE  Sends(md2, v2, o \ {r.id}, s, q)
  <2>1. \A id \in o \ {r.id} : q.seen[id] = v2[id]
    BY <1>4, <1>13 DEF Sends
  <2> QED BY <1>5, <1>10, <1>13, <2>1 DEF Sends
<1>14. v2[r.id] = c
  BY <1>3, <1>4
<1> QED BY <1>2, <1>4, <1>6, <1>7, <1>8, <1>11, <1>12, <1>13, <1>14 DEF md2, v2

\* When the limit is raised.
LEMMA Raised ==
  ASSUME NEW md, NEW v, NEW lim \in Nat, NEW lim2 \in Nat, lim <= lim2, md \in Contents
  PROVE  Steps(md, v, lim) \subseteq Steps(md, v, lim2)
<1> SUFFICES ASSUME NEW e \in Steps(md, v, lim) PROVE e \in Steps(md, v, lim2)
  OBVIOUS
<1>1. e \in Points \X Message \X Points /\ e[2].part \in Nat
  BY DEF Steps, Message
<1>2. CASE Opens(md, v, lim, e[1], e[2], e[3])
  <2>1. e[2].part <= lim2
    BY <1>1, <1>2 DEF Opens
  <2>2. Opens(md, v, lim2, e[1], e[2], e[3])
    BY <1>2, <2>1 DEF Opens
  <2> QED BY <1>1, <2>2 DEF Steps
<1>3. CASE ~ Opens(md, v, lim, e[1], e[2], e[3])
  BY <1>1, <1>3 DEF Steps
<1> QED BY <1>2, <1>3

-----------------------------------------------------------------------------
(* The invariant holds at first and is kept by every step *)

LEMMA ConnectionType ==
  ASSUME TypeInv
  PROVE  /\ Connection \in Connections /\ Connection.wire = wire
         /\ Connection.sender = sender /\ Connection.sent = sent
BY DEF TypeInv, Connection, Connections

\* The server's limit is one of the constant limits.
LEMMA LimitType ==
  \A r \in 0 .. Len(Limits) - 1 : Limits[r + 1] \in Nat /\ r + 1 \in DOMAIN Limits
<1> TAKE r \in 0 .. Len(Limits) - 1
<1>1. Limits \in Seq(Nat) /\ Len(Limits) \in Nat /\ DOMAIN Limits = 1 .. Len(Limits)
  BY UploadAssumption, LenProperties
<1>2. r + 1 \in 1 .. Len(Limits)
  BY <1>1
<1> QED BY <1>1, <1>2, ElementOfSeq

\* The loop of leave leaves a connection that leads from p to its sender one
\* that does.
LEMMA SendOwnedWrites ==
  ASSUME TypeInv, OwnData, LimitsKnown,
         NEW p \in Points, Writes(made, system, Limit, own, Connection, p)
  PROVE  SendOwned \in Connections /\ Writes(made, system, Limit, own, SendOwned, p)
<1> DEFINE S == {c \in Connections : Writes(made, system, Limit, own, c, p)}
           Set(c, n) == SendClipboard(c, n - 1, system[n - 1], made[system[n - 1]].size)
           Loop(f) == [n \in 0 .. ClipboardEnd |->
                         IF n = 0 THEN Connection
                         ELSE IF n - 1 \notin own \ sent THEN f[n - 1]
                         ELSE Set(f[n - 1], n)]
           after == CHOOSE f : f = Loop(f)
           pass == [e \in (1 .. ClipboardEnd) \X S |->
                      IF e[1] - 1 \notin own \ sent THEN e[2] ELSE Set(e[2], e[1])]
<1>1. Connection \in S
  BY ConnectionType
<1>2. ASSUME NEW n \in 1 .. ClipboardEnd, n - 1 \in own \ sent, NEW c \in S PROVE Set(c, n) \in S
  <2>1. /\ n - 1 \in Ids /\ system \in Values /\ made \in Contents /\ own \in SUBSET Ids
        /\ MadeFor(made, n - 1, system[n - 1]) /\ known \in Nat
    BY <1>2 DEF OwnData, TypeInv
  <2>2. Limit \in Nat /\ known <= Limit
    BY LimitType DEF TypeInv, LimitsKnown, Limit
  <2>3. Set(c, n) = SendClipboard(c, n - 1, system[n - 1], Chunks(made, system[n - 1]))
    BY DEF Chunks
  <2> HIDE DEF Set
  <2> QED BY <2>1, <2>2, <2>3, SendClipboardWrites
<1> HIDE DEF S, Set
<1>3. pass \in [(1 .. ClipboardEnd) \X S -> S]
  BY <1>2
<1>4. \A n \in 1 .. ClipboardEnd, c \in S :
          pass[<<n, c>>] = IF n - 1 \notin own \ sent THEN c ELSE Set(c, n)
  OBVIOUS
<1> HIDE DEF pass
<1>5. ClipboardEnd \in Nat
  BY UploadAssumption
<1>6. PICK f \in [0 .. ClipboardEnd -> S] :
          f[0] = Connection /\ \A n \in 1 .. ClipboardEnd : f[n] = pass[<<n, f[n - 1]>>]
  <2>1. \E f : IsLoop(f, S, Connection, ClipboardEnd, pass)
    BY <1>1, <1>3, <1>5, LoopExists
  <2> QED BY <2>1 DEF IsLoop
<1>7. f = Loop(f)
  <2>1. \A n \in 0 .. ClipboardEnd :
            f[n] = IF n = 0 THEN Connection
                   ELSE IF n - 1 \notin own \ sent THEN f[n - 1] ELSE Set(f[n - 1], n)
    <3> TAKE n \in 0 .. ClipboardEnd
    <3>1. CASE n = 0
      BY <3>1, <1>6
    <3>2. CASE n # 0
      <4>1. n \in 1 .. ClipboardEnd /\ n - 1 \in 0 .. ClipboardEnd /\ f[n - 1] \in S
        BY <3>2, <1>5, <1>6
      <4> QED BY <3>2, <4>1, <1>4, <1>6
    <3> QED BY <3>1, <3>2
  <2> QED BY <2>1, <1>6
<1>8. after = Loop(after)
  BY <1>7
<1>9. SendOwned = after[ClipboardEnd]
  BY DEF SendOwned, Set
<1>10. /\ after[0] = Connection
       /\ \A n \in 1 .. ClipboardEnd :
              after[n] = IF n - 1 \notin own \ sent THEN after[n - 1] ELSE Set(after[n - 1], n)
  <2> HIDE DEF after
  <2>1. \A n \in 0 .. ClipboardEnd :
            after[n] = IF n = 0 THEN Connection
                       ELSE IF n - 1 \notin own \ sent THEN after[n - 1] ELSE Set(after[n - 1], n)
    BY <1>8
  <2> QED BY <2>1, <1>5
<1> HIDE DEF after, Loop
<1>11. \A n \in 1 .. ClipboardEnd : after[n - 1] \in S => after[n] \in S
  BY <1>2, <1>10
<1>12. after[0] \in S
  BY <1>1, <1>10
<1>13. \A n \in 0 .. ClipboardEnd : after[n] \in S
  BY <1>5, <1>11, <1>12, LoopInvariant
<1> QED BY <1>5, <1>9, <1>13 DEF S

LEMMA InitHolds ==
  Init => UploadInv
<1> SUFFICES ASSUME Init PROVE UploadInv
  OBVIOUS
<1> DEFINE zero == [id \in Ids |-> 0]
           p == [open |-> FALSE, id |-> 0, sent |-> 0, latest |-> zero, seen |-> zero]
<1>1. /\ 0 \in Numbers /\ zero \in Values /\ p \in Points
      /\ \A id \in Ids : zero[id] = 0
  BY UploadAssumption DEF Numbers, Values, Points
<1>2. /\ Limits[1] \in Nat /\ Limit = Limits[1] /\ reloads \in 0 .. Len(Limits) - 1
  <2>1. Limits \in Seq(Nat) /\ Len(Limits) \in Nat \ {0}
    BY UploadAssumption, LenProperties, EmptySeq
  <2>2. reloads = 0 /\ reloads \in 0 .. Len(Limits) - 1
    BY <2>1 DEF Init
  <2> QED BY <2>2, LimitType DEF Limit
<1>3. TypeInv
  <2>1. wire \in Seq(Message) /\ made \in Contents /\ Len(made) = 0 /\ options \in Seq(Nat)
    BY DEF Init, Contents
  <2>2. sender \in Senders
    BY <1>1 DEF Init, NoSender, Senders
  <2>3. transfer \in Transfers /\ transfer.received <= transfer.expected
    <3>1. <<>> \in Seq(Numbers \X Nat)
      OBVIOUS
    <3> QED BY <3>1 DEF Init, NoTransfer, Transfers
  <2>4. system \in Values /\ got \in Values /\ seen \in Values
    BY <1>1 DEF Init
  <2>5. 0 \in 0 .. MaxLeaves
    BY UploadAssumption
  <2> QED BY <1>1, <1>2, <2>1, <2>2, <2>3, <2>4, <2>5 DEF Init, TypeInv
<1>4. Receives(made, system, transfer, got, p)
  BY <1>1 DEF Init, Receives, NoTransfer
<1>5. Writes(made, system, Limit, own, Connection, p)
  <2>1. Leads(Steps(made, system, Limit), Connection.wire, p, p)
    BY LeadsEmpty DEF Init, Connection
  <2>2. Sends(made, system, own, Connection.sender, p)
    BY <1>1 DEF Init, Connection, Sends, NoSender
  <2> QED BY <1>1, <2>1, <2>2 DEF Writes
<1>6. OwnData
  BY <1>1 DEF Init, OwnData
<1>7. LimitsKnown
  BY <1>2 DEF Init, LimitsKnown
<1>8. p.seen = seen
  BY DEF Init
<1> HIDE DEF p
<1> QED BY <1>1, <1>3, <1>4, <1>5, <1>6, <1>7, <1>8 DEF UploadInv, Stream

\* A step of the client that writes on the connection and leaves the rest.
LEMMA Writing ==
  ASSUME UploadInv, UNCHANGED <<made, system, own, known, options, reloads, transfer, got, seen>>,
         NEW next, ConnectionBecomes(next),
         \A p \in Points : Writes(made, system, Limit, own, Connection, p)
             => next \in Connections /\ Writes(made, system, Limit, own, next, p),
         m_active' \in BOOLEAN, leaves' \in 0 .. MaxLeaves
  PROVE  UploadInv'
<1>1. PICK p \in Points : /\ p.seen = seen /\ Receives(made, system, transfer, got, p)
                          /\ Writes(made, system, Limit, own, Connection, p)
  BY DEF UploadInv, Stream
<1>2. next \in Connections /\ Writes(made, system, Limit, own, next, p)
  BY <1>1
<1>3. Connection' = [wire |-> next.wire, sender |-> next.sender, sent |-> next.sent]
  BY DEF ConnectionBecomes, Connection
<1>4. Connection' = next
  BY <1>2, <1>3 DEF Connections
<1>5. Limit' = Limit
  BY DEF Limit
<1>6. Stream(made', system', Limit', own', transfer', got', seen', Connection')
  BY <1>1, <1>2, <1>4, <1>5 DEF Stream
<1>7. sender' \in Senders /\ wire' \in Seq(Message) /\ sent' \subseteq Ids
  BY <1>2 DEF ConnectionBecomes, Connections
<1>8. TypeInv'
  BY <1>7 DEF UploadInv, TypeInv
<1>9. OwnData' /\ LimitsKnown'
  BY <1>5 DEF UploadInv, OwnData, LimitsKnown
<1> QED BY <1>6, <1>8, <1>9 DEF UploadInv

LEMMA LeaveKeeps ==
  UploadInv /\ Leave => UploadInv'
<1> SUFFICES ASSUME UploadInv, Leave PROVE UploadInv'
  OBVIOUS
<1>1. TypeInv /\ OwnData /\ LimitsKnown
  BY DEF UploadInv
<1>2. \A p \in Points : Writes(made, system, Limit, own, Connection, p)
          => SendOwned \in Connections /\ Writes(made, system, Limit, own, SendOwned, p)
  BY <1>1, SendOwnedWrites
<1>3. /\ UNCHANGED <<made, system, own, known, options, reloads, transfer, got, seen>>
      /\ ConnectionBecomes(SendOwned)
      /\ m_active' = FALSE /\ leaves' = leaves + 1 /\ leaves < MaxLeaves
  BY DEF Leave, serverVars
<1>4. leaves' \in 0 .. MaxLeaves
  BY <1>1, <1>3, UploadAssumption DEF TypeInv
<1> QED BY <1>2, <1>3, <1>4, Writing

LEMMA TickKeeps ==
  UploadInv /\ Tick => UploadInv'
<1> SUFFICES ASSUME UploadInv, Tick PROVE UploadInv'
  OBVIOUS
<1> DEFINE next == [wire |-> wire \o TurnMessages(sender), sender |-> AfterTurn(sender),
                    sent |-> sent]
<1>1. /\ TypeInv /\ made \in Contents /\ system \in Values /\ own \in SUBSET Ids
      /\ sender \in Senders /\ wire \in Seq(Message) /\ sender.active /\ sent \subseteq Ids
  BY DEF UploadInv, TypeInv, Tick
<1>2. Limit \in Nat
  BY <1>1, LimitType DEF Limit, TypeInv
<1>3. ASSUME NEW p \in Points, Writes(made, system, Limit, own, Connection, p)
      PROVE  next \in Connections /\ Writes(made, system, Limit, own, next, p)
  <2>1. PICK q \in Points : Leads(Steps(made, system, Limit), wire, p, q)
                            /\ Sends(made, system, own, sender, q)
    BY <1>1, <1>3, ConnectionType DEF Writes
  <2>2. /\ TurnMessages(sender) \in Seq(Message) /\ AfterTurn(sender) \in Senders
        /\ \E x \in Points : Leads(Steps(made, system, Limit), TurnMessages(sender), q, x)
                             /\ Sends(made, system, own, AfterTurn(sender), x)
    BY <1>1, <2>1, TurnLeads
  <2>3. PICK x \in Points : Leads(Steps(made, system, Limit), TurnMessages(sender), q, x)
                            /\ Sends(made, system, own, AfterTurn(sender), x)
    BY <2>2
  <2>4. /\ wire \o TurnMessages(sender) \in Seq(Message)
        /\ Leads(Steps(made, system, Limit), wire \o TurnMessages(sender), p, x)
    BY <1>1, <2>1, <2>2, <2>3, LeadsConcat, ConcatProperties
  <2>5. next \in Connections
    BY <1>1, <2>2, <2>4 DEF Connections
  <2>6. next.wire = wire \o TurnMessages(sender) /\ next.sender = AfterTurn(sender)
    OBVIOUS
  <2> HIDE DEF next
  <2> QED BY <2>3, <2>4, <2>5, <2>6 DEF Writes
<1>4. /\ UNCHANGED <<made, system, own, known, options, reloads, transfer, got, seen>>
      /\ ConnectionBecomes(next) /\ UNCHANGED <<m_active, leaves>>
  BY DEF Tick, serverVars, ConnectionBecomes
<1> HIDE DEF next
<1>5. m_active' \in BOOLEAN /\ leaves' \in 0 .. MaxLeaves
  BY <1>1, <1>4 DEF TypeInv
<1> QED BY <1>3, <1>4, <1>5, Writing

LEMMA EnterKeeps ==
  UploadInv /\ Enter => UploadInv'
<1> SUFFICES ASSUME UploadInv, Enter PROVE UploadInv'
  OBVIOUS
<1>1. TypeInv
  BY DEF UploadInv
<1>2. /\ UNCHANGED <<made, system, own, known, options, reloads, transfer, got, seen>>
      /\ ConnectionBecomes(Connection) /\ m_active' = TRUE /\ leaves' = leaves
  BY DEF Enter, serverVars, ConnectionBecomes, Connection
<1>3. Connection \in Connections
  BY <1>1, ConnectionType
<1>4. leaves' \in 0 .. MaxLeaves
  BY <1>1, <1>2 DEF TypeInv
<1> QED BY <1>2, <1>3, <1>4, Writing

LEMMA CopyKeeps ==
  ASSUME UploadInv, NEW id \in Ids, NEW size \in Sizes, Copy(id, size)
  PROVE  UploadInv'
<1> DEFINE c == Len(made) + 1
           r == [id |-> id, size |-> size]
           grabbed == [wire |-> Append(wire, Grab(id, c)), sender |-> sender, sent |-> sent \ {id}]
           next == IF m_active THEN grabbed ELSE SendClipboard(grabbed, id, c, size)
<1>1. /\ TypeInv /\ made \in Contents /\ system \in Values /\ own \in SUBSET Ids
      /\ c \in Nat /\ c <= MaxContents
      /\ Connection \in Connections /\ r \in [id : Ids, size : Sizes] /\ r.id = id /\ r.size = size
      /\ \A i \in own : MadeFor(made, i, system[i])
      /\ \A i \in Ids : system[i] <= Len(made)
  BY ConnectionType DEF UploadInv, OwnData, TypeInv, Copy, Contents
<1>2. c \in Numbers
  BY <1>1 DEF Numbers
<1>3. /\ made' = Append(made, r) /\ system' = [system EXCEPT ![r.id] = c]
      /\ own' = own \cup {id} /\ ConnectionBecomes(next)
      /\ UNCHANGED <<m_active, known, leaves, reloads, transfer, got, seen, options>>
  BY DEF Copy, serverVars
<1> HIDE DEF r
<1>4. Limit \in Nat /\ known \in Nat /\ known <= Limit /\ Limit' = Limit
  BY <1>1, <1>3, LimitType DEF Limit, TypeInv, UploadInv, LimitsKnown
<1>5. /\ made' \in Contents /\ system' \in Values /\ Len(made') = c
      /\ \A i \in Ids : system'[i] <= Len(made')
      /\ \A i \in Ids : MadeFor(made, i, system[i]) => MadeFor(made', i, system'[i])
      /\ MadeFor(made', id, system'[id])
      /\ Chunks(made', c) = size /\ system'[id] = c
      /\ Steps(made, system, Limit) \subseteq Steps(made', system', Limit)
      /\ \A t, g : \A p \in Points : Receives(made, system, t, g, p) => Receives(made', system', t, g, p)
      /\ \A s : \A o \in SUBSET Ids : \A q \in Points :
             Sends(made, system, o, s, q) => Sends(made', system', o \ {id}, s, q)
  <2>1. c = Len(made) + 1
    OBVIOUS
  <2> HIDE DEF c
  <2>2. Len(made) + 1 \in Numbers
    BY <1>2, <2>1
  <2>3. made' = Append(made, r) /\ system' = [system EXCEPT ![r.id] = Len(made) + 1]
    BY <1>3, <2>1
  <2> DEFINE md2 == Append(made, r)
             v2 == [system EXCEPT ![r.id] = Len(made) + 1]
  <2>4. /\ md2 \in Contents /\ v2 \in Values /\ Len(md2) = Len(made) + 1
        /\ \A i \in Ids : v2[i] <= Len(md2)
        /\ \A i \in Ids : MadeFor(made, i, system[i]) => MadeFor(md2, i, v2[i])
        /\ MadeFor(md2, r.id, v2[r.id])
        /\ Chunks(md2, Len(made) + 1) = r.size /\ v2[r.id] = Len(made) + 1
        /\ Steps(made, system, Limit) \subseteq Steps(md2, v2, Limit)
        /\ \A t, g : \A p \in Points : Receives(made, system, t, g, p) => Receives(md2, v2, t, g, p)
        /\ \A s : \A o \in SUBSET Ids : \A q \in Points :
               Sends(made, system, o, s, q) => Sends(md2, v2, o \ {r.id}, s, q)
    <3> HIDE DEF Limit
    <3> QED BY <1>1, <2>2, Newer
  <2>5. made' = md2 /\ system' = v2
    BY <2>3
  <2> HIDE DEF md2, v2
  <2> QED BY <1>1, <2>1, <2>4, <2>5
<1>6. PICK p \in Points : /\ p.seen = seen /\ Receives(made, system, transfer, got, p)
                          /\ Writes(made, system, Limit, own, Connection, p)
  BY DEF UploadInv, Stream
<1>8. grabbed \in Connections /\ Writes(made', system', Limit, own', grabbed, p)
  <2>1. PICK q \in Points : Leads(Steps(made, system, Limit), wire, p, q)
                            /\ Sends(made, system, own, sender, q)
    BY <1>1, <1>6, ConnectionType DEF Writes
  <2>2. Leads(Steps(made', system', Limit), wire, p, q)
    BY <1>5, <2>1, LeadsMore
  <2>3. Sends(made', system', own' \ {id}, sender, q)
    <3>1. Sends(made', system', own \ {id}, sender, q)
      BY <1>1, <1>5, <2>1
    <3>2. own' \ {id} = own \ {id}
      BY <1>3
    <3> QED BY <3>1, <3>2
  <2>4. wire \in Seq(Message) /\ own' \in SUBSET Ids /\ sent \ {id} \in SUBSET Ids
        /\ sender \in Senders
    BY <1>1, <1>3 DEF TypeInv
  <2>5. /\ Append(wire, Grab(id, c)) \in Seq(Message)
        /\ \E x \in Points : Leads(Steps(made', system', Limit), Append(wire, Grab(id, c)), p, x)
                             /\ Sends(made', system', own', sender, x)
    BY <1>5, <2>2, <2>3, <2>4, GrabWrites
  <2> HIDE DEF grabbed, c
  <2>6. grabbed \in Connections
    BY <2>4, <2>5 DEF Connections, grabbed
  <2>7. grabbed.wire = Append(wire, Grab(id, c)) /\ grabbed.sender = sender
    BY DEF grabbed
  <2> QED BY <2>5, <2>6, <2>7 DEF Writes
<1> HIDE DEF grabbed
<1>9. next \in Connections /\ Writes(made', system', Limit, own', next, p)
  <2>1. CASE m_active
    BY <2>1, <1>8
  <2>2. CASE ~ m_active
    <3>1. next = SendClipboard(grabbed, id, system'[id], Chunks(made', system'[id]))
      BY <2>2, <1>5
    <3>2. own' \in SUBSET Ids
      BY <1>1, <1>3
    <3> HIDE DEF next
    <3> QED BY <3>1, <3>2, <1>4, <1>5, <1>8, SendClipboardWrites
  <2> QED BY <2>1, <2>2
<1> HIDE DEF next
<1>10. Connection' = [wire |-> next.wire, sender |-> next.sender, sent |-> next.sent]
  BY <1>3 DEF ConnectionBecomes, Connection
<1>11. Connection' = next
  BY <1>9, <1>10 DEF Connections
<1>12. Stream(made', system', Limit', own', transfer', got', seen', Connection')
  BY <1>3, <1>4, <1>5, <1>6, <1>9, <1>11 DEF Stream
<1>13. sender' \in Senders /\ wire' \in Seq(Message) /\ sent' \subseteq Ids
  BY <1>3, <1>9 DEF ConnectionBecomes, Connections
<1>14. TypeInv'
  BY <1>1, <1>2, <1>3, <1>5, <1>13 DEF TypeInv
<1>15. OwnData'
  BY <1>1, <1>3, <1>5 DEF OwnData
<1>16. LimitsKnown'
  BY <1>3, <1>4 DEF UploadInv, LimitsKnown
<1> QED BY <1>12, <1>14, <1>15, <1>16 DEF UploadInv

LEMMA ReceiveOptionsKeeps ==
  UploadInv /\ ReceiveOptions => UploadInv'
<1> SUFFICES ASSUME UploadInv, ReceiveOptions PROVE UploadInv'
  OBVIOUS
<1>1. TypeInv /\ OwnData /\ LimitsKnown
  BY DEF UploadInv
<1>2. /\ options # <<>> /\ known' = Head(options) /\ options' = Tail(options)
      /\ UNCHANGED <<made, system, m_active, own, sent, sender, leaves, reloads,
                     transfer, got, seen, wire>>
  BY DEF ReceiveOptions, serverVars
<1>3. options \in Seq(Nat)
  BY <1>1 DEF TypeInv
<1>4. /\ known' \in Nat /\ options' \in Seq(Nat) /\ known' = options[1] /\ 1 \in DOMAIN options
      /\ \A i \in DOMAIN options' : i + 1 \in DOMAIN options /\ options'[i] = options[i + 1]
  BY <1>2, <1>3, HeadTail
<1>5. Limit' = Limit /\ Connection' = Connection
  BY <1>2 DEF Limit, Connection
<1>6. LimitsKnown'
  BY <1>1, <1>4, <1>5 DEF LimitsKnown
<1>7. TypeInv' /\ OwnData'
  BY <1>1, <1>2, <1>4 DEF TypeInv, OwnData
<1>8. Stream(made', system', Limit', own', transfer', got', seen', Connection')
  BY <1>2, <1>5 DEF UploadInv
<1> QED BY <1>6, <1>7, <1>8 DEF UploadInv

LEMMA ReloadKeeps ==
  ASSUME LimitsGrow, UploadInv, Reload
  PROVE  UploadInv'
<1>1. TypeInv /\ OwnData /\ LimitsKnown
  BY DEF UploadInv
<1>2. /\ reloads + 1 < Len(Limits) /\ reloads' = reloads + 1
      /\ options' = Append(options, Limits[reloads + 2])
      /\ UNCHANGED <<made, system, m_active, own, sent, known, sender, leaves,
                     transfer, got, seen, wire>>
  BY DEF Reload, clientVars
<1>3. reloads \in Nat /\ Len(Limits) \in Nat /\ reloads \in 0 .. Len(Limits) - 1
  BY <1>1, UploadAssumption, LenProperties DEF TypeInv
<1>4. reloads' \in 0 .. Len(Limits) - 1 /\ reloads' + 1 = reloads + 2
  BY <1>2, <1>3
<1>5. /\ Limit \in Nat /\ Limit' \in Nat /\ Limit' = Limits[reloads + 2]
      /\ reloads + 1 \in DOMAIN Limits /\ reloads + 2 \in DOMAIN Limits
  BY <1>3, <1>4, LimitType DEF Limit
<1>6. Limit <= Limit'
  BY <1>3, <1>5 DEF LimitsGrow, Limit
<1>7. options \in Seq(Nat) /\ options' = Append(options, Limit')
  BY <1>1, <1>2, <1>5 DEF TypeInv
<1>8. /\ options' \in Seq(Nat) /\ options'[Len(options) + 1] = Limit'
      /\ \A i \in DOMAIN options' : i = Len(options) + 1 \/ i \in DOMAIN options
      /\ \A i \in DOMAIN options : options'[i] = options[i] /\ options[i] \in Nat
  <2> HIDE DEF Limit
  <2> QED BY <1>5, <1>7, AppendOne, ElementOfSeq, LenProperties
<1>9. known' <= Limit'
  BY <1>1, <1>2, <1>5, <1>6 DEF LimitsKnown, TypeInv
<1>10. \A i \in DOMAIN options' : options'[i] <= Limit'
  <2> TAKE i \in DOMAIN options'
  <2>1. CASE i = Len(options) + 1
    BY <2>1, <1>5, <1>8
  <2>2. CASE i \in DOMAIN options
    BY <2>2, <1>1, <1>5, <1>6, <1>8 DEF LimitsKnown
  <2> QED BY <2>1, <2>2, <1>8
<1>11. LimitsKnown'
  BY <1>9, <1>10 DEF LimitsKnown
<1>12. TypeInv' /\ OwnData'
  BY <1>1, <1>2, <1>4, <1>8 DEF TypeInv, OwnData
<1>13. Connection' = Connection /\ made \in Contents
  BY <1>1, <1>2 DEF Connection, TypeInv
<1>14. Stream(made', system', Limit', own', transfer', got', seen', Connection')
  <2>1. PICK p \in Points : /\ p.seen = seen /\ Receives(made, system, transfer, got, p)
                            /\ Writes(made, system, Limit, own, Connection, p)
    BY DEF UploadInv, Stream
  <2>2. PICK q \in Points : Leads(Steps(made, system, Limit), Connection.wire, p, q)
                            /\ Sends(made, system, own, Connection.sender, q)
    BY <2>1 DEF Writes
  <2>3. Steps(made, system, Limit) \subseteq Steps(made, system, Limit')
    BY <1>5, <1>6, <1>13, Raised
  <2>4. Writes(made, system, Limit', own, Connection, p)
    BY <2>2, <2>3, LeadsMore DEF Writes
  <2>5. Stream(made, system, Limit', own, transfer, got, seen, Connection)
    BY <2>1, <2>4 DEF Stream
  <2> QED BY <1>2, <1>13, <2>5
<1> QED BY <1>11, <1>12, <1>14 DEF UploadInv

\* What the server takes from the wire: where the head of the wire leads.
LEMMA Taking ==
  ASSUME UploadInv, wire # <<>>
  PROVE  /\ Tail(wire) \in Seq(Message) /\ Head(wire) \in Message
         /\ \E p \in Points, x \in Points :
                /\ p.seen = seen /\ Receives(made, system, transfer, got, p)
                /\ <<p, Head(wire), x>> \in Steps(made, system, Limit)
                /\ Writes(made, system, Limit, own,
                          [wire |-> Tail(wire), sender |-> sender, sent |-> sent], x)
<1> DEFINE rest == [wire |-> Tail(wire), sender |-> sender, sent |-> sent]
<1>1. wire \in Seq(Message)
  BY DEF UploadInv, TypeInv
<1>2. PICK p \in Points : /\ p.seen = seen /\ Receives(made, system, transfer, got, p)
                          /\ Writes(made, system, Limit, own, Connection, p)
  BY DEF UploadInv, Stream
<1>3. PICK q \in Points : Leads(Steps(made, system, Limit), wire, p, q)
                          /\ Sends(made, system, own, sender, q)
  BY <1>2 DEF Writes, Connection
<1>4. PICK x : /\ <<p, Head(wire), x>> \in Steps(made, system, Limit)
               /\ Leads(Steps(made, system, Limit), Tail(wire), x, q)
  BY <1>1, <1>3, LeadsHead
<1>5. x \in Points /\ Tail(wire) \in Seq(Message) /\ Head(wire) \in Message
  BY <1>1, <1>4, HeadTail DEF Steps
<1>6. rest.wire = Tail(wire) /\ rest.sender = sender
  OBVIOUS
<1> HIDE DEF rest
<1>7. Writes(made, system, Limit, own, rest, x)
  BY <1>3, <1>4, <1>6 DEF Writes
<1> QED BY <1>2, <1>4, <1>5, <1>7 DEF rest

LEMMA ReceiveGrabKeeps ==
  UploadInv /\ ReceiveGrab => UploadInv'
<1> SUFFICES ASSUME UploadInv, ReceiveGrab PROVE UploadInv'
  OBVIOUS
<1> DEFINE m == Head(wire)
           rest == [wire |-> Tail(wire), sender |-> sender, sent |-> sent]
<1>1. TypeInv /\ OwnData /\ LimitsKnown /\ seen \in Values
  BY DEF UploadInv, TypeInv
<1>2. /\ wire # <<>> /\ m.mark = "Grab" /\ wire' = Tail(wire)
      /\ seen' = [seen EXCEPT ![m.id] = m.content]
      /\ UNCHANGED <<made, system, m_active, own, sent, known, sender, leaves,
                     reloads, transfer, got, options>>
  BY DEF ReceiveGrab, clientVars
<1>3. PICK p \in Points, x \in Points :
                /\ p.seen = seen /\ Receives(made, system, transfer, got, p)
                /\ <<p, m, x>> \in Steps(made, system, Limit)
                /\ Writes(made, system, Limit, own, rest, x)
  BY <1>2, Taking
<1>4. m \in Message /\ wire' \in Seq(Message)
  BY <1>2, Taking
<1>5. Connection' = rest
  BY <1>2 DEF Connection
<1> HIDE DEF m, rest
<1>6. Grabs(p, m, x)
  BY <1>2, <1>3 DEF Steps, Opens, Goes, Closes
<1>7. x.seen = seen' /\ x.open = p.open /\ x.id = p.id /\ x.sent = p.sent
      /\ x.latest = p.latest
  BY <1>2, <1>3, <1>6 DEF Grabs, Points
<1>8. Receives(made, system, transfer, got, x)
  BY <1>3, <1>7 DEF Receives
<1>9. Stream(made, system, Limit, own, transfer, got, seen', rest)
  BY <1>3, <1>7, <1>8 DEF Stream
<1>10. Limit' = Limit
  BY <1>2 DEF Limit
<1>11. Stream(made', system', Limit', own', transfer', got', seen', Connection')
  BY <1>2, <1>5, <1>9, <1>10
<1>12. seen' \in Values
  BY <1>1, <1>2, <1>4 DEF Values, Message
<1>13. TypeInv' /\ OwnData' /\ LimitsKnown'
  BY <1>1, <1>2, <1>4, <1>10, <1>12 DEF TypeInv, OwnData, LimitsKnown
<1> QED BY <1>11, <1>13 DEF UploadInv

LEMMA ReceiveChunkKeeps ==
  UploadInv /\ ReceiveChunk => UploadInv' /\ Delivers(made, got, got')
<1> SUFFICES ASSUME UploadInv, ReceiveChunk PROVE UploadInv' /\ Delivers(made, got, got')
  OBVIOUS
<1> DEFINE m == Head(wire)
           rest == [wire |-> Tail(wire), sender |-> sender, sent |-> sent]
           a == Assemble(transfer, m, Limit, FALSE)
<1>1. /\ TypeInv /\ OwnData /\ LimitsKnown /\ made \in Contents /\ system \in Values
      /\ transfer \in Transfers /\ got \in Values /\ wire \in Seq(Message)
      /\ transfer.received <= transfer.expected
  BY DEF UploadInv, TypeInv
<1>2. Limit \in Nat
  BY <1>1, LimitType DEF Limit, TypeInv
<1>3. /\ wire # <<>> /\ m.mark # "Grab"
      /\ transfer' = After(transfer, m, Limit) /\ got' = Taken(transfer, got, m, Limit)
      /\ \E n \in IF a.result = "Error" THEN 1 .. Len(wire) ELSE {1} :
             wire' = SubSeq(wire, n + 1, Len(wire))
      /\ UNCHANGED <<made, system, m_active, own, sent, known, sender, leaves,
                     reloads, seen, options>>
  BY DEF ReceiveChunk, clientVars, After, Taken
<1>4. PICK p \in Points, x \in Points :
                /\ p.seen = seen /\ Receives(made, system, transfer, got, p)
                /\ <<p, m, x>> \in Steps(made, system, Limit)
                /\ Writes(made, system, Limit, own, rest, x)
  BY <1>3, Taking
<1>5. Tail(wire) \in Seq(Message)
  BY <1>3, Taking
<1>6. Limit' = Limit
  BY <1>3 DEF Limit
<1> HIDE DEF m, rest, a, Limit
<1>7. /\ Sound(made, transfer, m, Limit) /\ Delivers(made, got, got')
      /\ got' \in Values /\ transfer' \in Transfers
      /\ transfer'.received <= transfer'.expected
      /\ Receives(made, system, transfer', got', x) /\ x.seen = seen
  BY <1>1, <1>2, <1>3, <1>4, MessageTaken
<1>8. wire' = Tail(wire)
  <2>1. a.result # "Error"
    BY <1>7 DEF Sound, a
  <2>2. wire' = SubSeq(wire, 2, Len(wire))
    BY <1>3, <2>1
  <2> QED BY <1>1, <1>3, <2>2
<1>9. Connection' = rest
  BY <1>3, <1>8 DEF Connection, rest
<1>10. Stream(made, system, Limit, own, transfer', got', seen, rest)
  BY <1>4, <1>7 DEF Stream
<1>11. Stream(made', system', Limit', own', transfer', got', seen', Connection')
  BY <1>3, <1>6, <1>9, <1>10
<1>12. TypeInv' /\ OwnData' /\ LimitsKnown'
  BY <1>1, <1>3, <1>5, <1>6, <1>7, <1>8 DEF TypeInv, OwnData, LimitsKnown
<1> QED BY <1>7, <1>11, <1>12 DEF UploadInv

LEMMA NextKeeps ==
  ASSUME LimitsGrow, UploadInv, [Next]_vars
  PROVE  UploadInv'
<1>1. CASE \E id \in Ids, size \in Sizes : Copy(id, size)
  BY <1>1, CopyKeeps
<1>2. CASE Enter
  BY <1>2, EnterKeeps
<1>3. CASE Leave
  BY <1>3, LeaveKeeps
<1>4. CASE Tick
  BY <1>4, TickKeeps
<1>5. CASE ReceiveOptions
  BY <1>5, ReceiveOptionsKeeps
<1>6. CASE Reload
  BY <1>6, ReloadKeeps
<1>7. CASE ReceiveGrab
  BY <1>7, ReceiveGrabKeeps
<1>8. CASE ReceiveChunk
  BY <1>8, ReceiveChunkKeeps
<1>9. CASE UNCHANGED vars
  <2>1. Connection' = Connection /\ Limit' = Limit
    BY <1>9 DEF vars, clientVars, serverVars, Connection, Limit
  <2>2. Stream(made', system', Limit', own', transfer', got', seen', Connection')
    BY <1>9, <2>1 DEF vars, clientVars, serverVars, UploadInv
  <2>3. TypeInv' /\ OwnData' /\ LimitsKnown'
    BY <1>9, <2>1 DEF vars, clientVars, serverVars, UploadInv, TypeInv, OwnData, LimitsKnown
  <2> QED BY <2>2, <2>3 DEF UploadInv
<1> QED BY <1>1, <1>2, <1>3, <1>4, <1>5, <1>6, <1>7, <1>8, <1>9 DEF Next

-----------------------------------------------------------------------------
(* The theorems *)

\* While reloads only raise the limit, the messages on the wire lead from what
\* the server has assembled and seen to what the client's sender goes on with.
THEOREM UploadInvariant ==
  ASSUME LimitsGrow PROVE Spec => []UploadInv
<1>1. Init => UploadInv
  BY InitHolds
<1>2. UploadInv /\ [Next]_vars => UploadInv'
  BY NextKeeps
<1> QED BY <1>1, <1>2, PTL DEF Spec

\* The state of an upload has its types: a sender with turns left has chunks
\* left, and the server never counts more than it expects.
THEOREM UploadTypes ==
  ASSUME LimitsGrow PROVE Spec => []TypeOK
<1>1. UploadInv => TypeOK
  <2> SUFFICES ASSUME UploadInv PROVE TypeOK
    OBVIOUS
  <2>1. PICK q : Sends(made, system, own, sender, q)
    BY DEF UploadInv, Stream, Writes, Connection
  <2>2. sender.active => sender.id \in Ids /\ sender.offset < sender.size
    BY <2>1 DEF Sends
  <2> QED BY <2>2 DEF UploadInv, TypeInv, TypeOK, Contents, Values, Senders, Transfers
<1> QED BY <1>1, UploadInvariant, PTL

\* While reloads only raise the limit, the server refuses no transfer and what
\* it saves is whole, whatever transfers cancel each other.
THEOREM NeverRefusedAlways ==
  ASSUME LimitsGrow PROVE Spec => []NeverRefused
<1>1. UploadInv => NeverRefused
  <2> DEFINE m == Head(wire)
  <2> SUFFICES ASSUME UploadInv, wire # <<>>, m.mark # "Grab"
               PROVE  LET a == Assemble(transfer, m, Limit, FALSE)
                      IN  /\ a.result # "Error"
                          /\ a.result = "Finished" =>
                                 Whole(a.next.cache, m.content, made[m.content].size)
    BY DEF NeverRefused
  <2>1. /\ made \in Contents /\ system \in Values /\ transfer \in Transfers
        /\ got \in Values /\ transfer.received <= transfer.expected /\ Limit \in Nat
    BY LimitType DEF UploadInv, TypeInv, Limit
  <2>2. \E p \in Points, x \in Points : /\ Receives(made, system, transfer, got, p)
                                       /\ <<p, m, x>> \in Steps(made, system, Limit)
    BY Taking
  <2> HIDE DEF m, Limit
  <2>3. Sound(made, transfer, m, Limit)
    BY <2>1, <2>2, MessageTaken
  <2> QED BY <2>3 DEF Sound, Chunks
<1> QED BY <1>1, UploadInvariant, PTL

\* While reloads only raise the limit, the server has seen the last grab of
\* every clipboard the client owns once the wire is empty.
THEOREM GrabsArriveAlways ==
  ASSUME LimitsGrow PROVE Spec => []GrabsArrive
<1>1. UploadInv => GrabsArrive
  <2> SUFFICES ASSUME UploadInv, wire = <<>>, NEW id \in own PROVE seen[id] = system[id]
    BY DEF GrabsArrive
  <2>1. PICK p \in Points, q \in Points :
            /\ p.seen = seen /\ Leads(Steps(made, system, Limit), wire, p, q)
            /\ Sends(made, system, own, sender, q)
    BY DEF UploadInv, Stream, Writes, Connection
  <2>2. q = p
    BY <2>1, LeadsEmpty
  <2> QED BY <2>1, <2>2 DEF Sends
<1> QED BY <1>1, UploadInvariant, PTL

\* The clipboards of the contents, as the delivery sees them.
LEMMA MadeIds ==
  ASSUME NEW md \in Contents
  PROVE  LET ids == [c \in DOMAIN md |-> md[c].id]
         IN  /\ ids \in Seq(Ids) /\ DOMAIN ids = DOMAIN md /\ DOMAIN ids = 1 .. Len(ids)
             /\ \A r \in [id : Ids, size : Sizes] :
                    [c \in DOMAIN Append(md, r) |-> Append(md, r)[c].id] = Append(ids, r.id)
<1> DEFINE n == Len(md)
           ids == [c \in DOMAIN md |-> md[c].id]
<1>1. md \in Seq([id : Ids, size : Sizes]) /\ n \in Nat /\ DOMAIN md = 1 .. n
  BY LenProperties DEF Contents
<1>2. \A c \in 1 .. n : md[c].id \in Ids
  <2> TAKE c \in 1 .. n
  <2>1. md[c] \in [id : Ids, size : Sizes]
    BY <1>1, ElementOfSeq
  <2> QED BY <2>1
<1> HIDE DEF n
<1>3. ids \in [1 .. n -> Ids]
  BY <1>1, <1>2
<1>4. ids \in Seq(Ids) /\ DOMAIN ids = DOMAIN md /\ Len(ids) = n
  BY <1>1, <1>3
<1>5. ASSUME NEW r \in [id : Ids, size : Sizes]
      PROVE  [c \in DOMAIN Append(md, r) |-> Append(md, r)[c].id] = Append(ids, r.id)
  <2>1. /\ DOMAIN Append(md, r) = 1 .. n + 1 /\ Append(md, r)[n + 1] = r
        /\ \A c \in 1 .. n : Append(md, r)[c] = md[c]
    BY <1>1 DEF n
  <2>2. /\ DOMAIN Append(ids, r.id) = 1 .. n + 1 /\ Append(ids, r.id)[n + 1] = r.id
        /\ \A c \in 1 .. n : Append(ids, r.id)[c] = ids[c]
        /\ Append(ids, r.id) = [c \in 1 .. n + 1 |-> Append(ids, r.id)[c]]
    <3> HIDE DEF ids
    <3> QED BY <1>1, <1>4
  <2>3. \A c \in 1 .. n + 1 : Append(md, r)[c].id = Append(ids, r.id)[c]
    <3> TAKE c \in 1 .. n + 1
    <3>1. CASE c = n + 1
      BY <2>1, <2>2, <3>1
    <3>2. CASE c # n + 1
      <4>1. c \in 1 .. n
        BY <1>1, <3>2
      <4>2. ids[c] = md[c].id
        BY <1>1, <4>1
      <4> QED BY <2>1, <2>2, <4>1, <4>2
    <3> QED BY <3>1, <3>2
  <2> QED BY <2>1, <2>2, <2>3
<1> QED BY <1>1, <1>4, <1>5

\* A step of the uploads makes a content, delivers one, or is none of the
\* delivery's business.
LEMMA StepDelivers ==
  UploadInv /\ [Next]_vars
    => [Delivery!Next]_<<[c \in DOMAIN made |-> made[c].id], got>>
<1> DEFINE ids == [c \in DOMAIN made |-> made[c].id]
           changed == [Delivery!Next]_<<ids, got>>
<1> SUFFICES ASSUME UploadInv, [Next]_vars PROVE changed
  OBVIOUS
<1>1. made \in Contents
  BY DEF UploadInv, TypeInv
<1>2. ASSUME NEW id \in Ids, NEW size \in Sizes, Copy(id, size) PROVE changed
  <2> DEFINE r == [id |-> id, size |-> size]
  <2>1. made' = Append(made, r) /\ got' = got /\ r \in [id : Ids, size : Sizes] /\ r.id = id
    BY <1>2 DEF Copy, serverVars
  <2> HIDE DEF r
  <2>2. ids' = Append(ids, id)
    BY <1>1, <2>1, MadeIds
  <2>3. Delivery!Make(id)
    BY <2>1, <2>2 DEF Delivery!Make, ids
  <2> QED BY <2>3 DEF Delivery!Next, ids
<1>3. CASE ReceiveChunk
  <2>1. Delivers(made, got, got') /\ made' = made
    BY <1>3, ReceiveChunkKeeps DEF ReceiveChunk, clientVars
  <2>2. ids' = ids
    BY <2>1
  <2>3. CASE got' = got
    BY <2>2, <2>3
  <2>4. ASSUME NEW id \in Ids, NEW c \in Numbers, MadeFor(made, id, c), got[id] <= c,
               got' = [got EXCEPT ![id] = c]
        PROVE  changed
    <3>1. c \in DOMAIN made /\ made[c].id = id
      BY <2>4 DEF MadeFor
    <3>2. ids[c] = id /\ c \in 1 .. Len(ids)
      BY <1>1, <3>1, MadeIds
    <3>3. Delivery!Deliver(id)
      BY <2>2, <2>4, <3>2 DEF Delivery!Deliver
    <3> QED BY <3>3 DEF Delivery!Next
  <2> QED BY <2>1, <2>3, <2>4 DEF Delivers
<1>4. ASSUME UNCHANGED <<made, got>> PROVE changed
  BY <1>4
<1>5. CASE Enter \/ Leave \/ Tick \/ ReceiveOptions \/ Reload \/ ReceiveGrab \/ UNCHANGED vars
  BY <1>4, <1>5 DEF Enter, Leave, Tick, ReceiveOptions, Reload, ReceiveGrab, vars,
                    clientVars, serverVars
<1> QED BY <1>2, <1>3, <1>5 DEF Next

\* While reloads only raise the limit, the uploads implement the delivery: the
\* server saves whole contents of the right clipboards, in order.
THEOREM UploadDelivers ==
  ASSUME LimitsGrow PROVE Spec => DeliverySpec
<1>1. Init => Delivery!Init
  <2> SUFFICES ASSUME Init PROVE Delivery!Init
    OBVIOUS
  <2>1. [c \in DOMAIN made |-> made[c].id] = <<>>
    BY DEF Init
  <2> QED BY <2>1 DEF Init, Delivery!Init
<1>2. UploadInv /\ [Next]_vars
        => [Delivery!Next]_<<[c \in DOMAIN made |-> made[c].id], got>>
  BY StepDelivers
<1> QED BY <1>1, <1>2, UploadInvariant, PTL DEF Spec, DeliverySpec, Delivery!Spec
=============================================================================
