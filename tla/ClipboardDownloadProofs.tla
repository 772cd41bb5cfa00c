---------------------- MODULE ClipboardDownloadProofs ----------------------
(***************************************************************************)
(* Proofs about ClipboardDownload.  The inductive invariant says that the  *)
(* messages on the wire lead from what the client has assembled so far to  *)
(* what the sender goes on with: at each place of the wire there is a      *)
(* point, the clipboard whose transfer is open there, how many chunks of   *)
(* it have been sent, and the last content of each clipboard.              *)
(***************************************************************************)
EXTENDS ClipboardDownload, QueuesProofs

-----------------------------------------------------------------------------
(* The invariant *)

Contents == Seq([id : Ids, size : Sizes])
Values == [Ids -> Numbers]
Points == [open : BOOLEAN, id : Nat, sent : Nat, latest : Values]
Senders == [active : BOOLEAN, id : Nat, content : Numbers, size : Nat,
            offset : Nat, chunksThisTurn : Nat]
Transfers == [expected : Nat, received : Nat, active : BOOLEAN,
              discarding : BOOLEAN, cache : Seq(Numbers \X Nat)]
Connections == [wire : Seq(Message), sender : Senders]

\* Content c, when the contents md have been made, is one of clipboard id.
MadeFor(md, id, c) == c = 0 \/ (c \in DOMAIN md /\ md[c].id = id)
Chunks(md, c) == IF c = 0 THEN 1 ELSE md[c].size

\* Message m takes the wire from point p to point q; v are the server's
\* contents.
Opens(md, v, p, m, q) ==
  /\ m.mark = "DataStart" /\ MadeFor(md, m.id, m.content)
  /\ m.part = Chunks(md, m.content)
  /\ p.latest[m.id] <= m.content /\ m.content <= v[m.id]
  /\ q = [open |-> TRUE, id |-> m.id, sent |-> 0,
          latest |-> [p.latest EXCEPT ![m.id] = m.content]]
Goes(md, p, m, q) ==
  /\ m.mark = "DataChunk" /\ p.open /\ m.id = p.id /\ m.content = p.latest[m.id]
  /\ MadeFor(md, m.id, m.content)
  /\ m.part = p.sent + 1 /\ m.part <= Chunks(md, m.content)
  /\ q = [p EXCEPT !.sent = m.part]
Closes(md, p, m, q) ==
  /\ m.mark = "DataEnd" /\ p.open /\ m.id = p.id /\ m.content = p.latest[m.id]
  /\ MadeFor(md, m.id, m.content)
  /\ p.sent = Chunks(md, m.content)
  /\ q = [p EXCEPT !.open = FALSE]

Steps(md, v) ==
  {e \in Points \X Message \X Points :
      Opens(md, v, e[1], e[2], e[3]) \/ Goes(md, e[1], e[2], e[3])
      \/ Closes(md, e[1], e[2], e[3])}

\* The client's transfer t is at point p.
Receives(md, v, t, g, p) ==
  /\ \A id \in Ids : g[id] <= p.latest[id] /\ p.latest[id] <= v[id]
  /\ t.active = p.open
  /\ p.open =>
        /\ p.id \in Ids /\ MadeFor(md, p.id, p.latest[p.id])
        /\ t.expected = Chunks(md, p.latest[p.id])
        /\ t.received = p.sent /\ t.received <= t.expected
        /\ t.discarding = (t.expected > Limit)
        /\ t.cache = IF t.discarding THEN <<>>
                     ELSE [i \in 1 .. t.received |-> <<p.latest[p.id], i>>]

\* The server's sender s is at point q.
Sends(md, v, s, q) ==
  /\ \A id \in Ids : q.latest[id] <= v[id]
  /\ s.active =>
        /\ q.open /\ q.id \in Ids /\ s.id = q.id /\ s.content = q.latest[q.id]
        /\ MadeFor(md, s.id, s.content) /\ s.size = Chunks(md, s.content)
        /\ s.offset = q.sent /\ s.offset < s.size

\* What has been written on the connection leads from point p to its sender.
Writes(md, v, connection, p) ==
  \E q \in Points : Leads(Steps(md, v), connection.wire, p, q)
                    /\ Sends(md, v, connection.sender, q)

Stream(md, v, t, g, connection) ==
  \E p \in Points : Receives(md, v, t, g, p) /\ Writes(md, v, connection, p)

TypeInv ==
  /\ made \in Contents /\ Len(made) \in Numbers
  /\ value \in Values /\ got \in Values
  /\ dirty \subseteq Ids /\ active \in BOOLEAN
  /\ sender \in Senders /\ wire \in Seq(Message) /\ transfer \in Transfers
  /\ enters \in 0 .. MaxEnters /\ breaks \in 0 .. MaxBreaks
  /\ transfer.received <= transfer.expected

DownloadInv ==
  /\ TypeInv
  /\ \A id \in Ids : MadeFor(made, id, value[id])
  /\ Stream(made, value, transfer, got, Connection)

-----------------------------------------------------------------------------
(* Facts about the operators *)

\* Every content has at least one chunk.
LEMMA ChunksType ==
  ASSUME NEW md \in Contents, NEW id, NEW c, MadeFor(md, id, c)
  PROVE  Chunks(md, c) \in Nat \ {0}
<1>1. CASE c = 0
  BY <1>1 DEF Chunks
<1>2. CASE c # 0
  <2>1. md[c] \in [id : Ids, size : Sizes]
    BY <1>2, ElementOfSeq, LenProperties DEF MadeFor, Contents
  <2> QED BY <1>2, <2>1, DownloadAssumption DEF Chunks
<1> QED BY <1>1, <1>2

\* More contents made: those made before stay what they are.
LEMMA MadeMore ==
  ASSUME NEW md \in Contents, NEW r \in [id : Ids, size : Sizes], NEW id, NEW c,
         MadeFor(md, id, c)
  PROVE  MadeFor(Append(md, r), id, c) /\ Chunks(Append(md, r), c) = Chunks(md, c)
<1>1. CASE c = 0
  BY <1>1 DEF Chunks, MadeFor
<1>2. CASE c # 0
  <2>1. c \in DOMAIN md /\ md[c].id = id
    BY <1>2 DEF MadeFor
  <2>2. c \in DOMAIN Append(md, r) /\ Append(md, r)[c] = md[c]
    BY <2>1, AppendOne DEF Contents
  <2> QED BY <2>1, <2>2 DEF Chunks, MadeFor
<1> QED BY <1>1, <1>2

\* A turn writes at least one chunk and no more than are left.
LEMMA TurnLengthBounds ==
  ASSUME NEW s \in Senders, s.offset < s.size
  PROVE  TurnLength(s) \in Nat \ {0} /\ s.offset + TurnLength(s) <= s.size
<1> DEFINE a == s.size - s.offset
           b == IF s.chunksThisTurn < MaxChunksPerTurn
                THEN MaxChunksPerTurn - s.chunksThisTurn ELSE 1
<1>1. a \in Nat \ {0} /\ b \in Nat \ {0}
  BY TurnAssumption DEF Senders
<1>2. TurnLength(s) = CHOOSE x \in {a, b} : \A y \in {a, b} : x <= y
  BY DEF TurnLength, Min
<1> HIDE DEF a, b
<1>3. \E x \in {a, b} : \A y \in {a, b} : x <= y
  BY <1>1
<1>4. TurnLength(s) \in {a, b} /\ TurnLength(s) <= a
  BY <1>2, <1>3
<1>5. TurnLength(s) \in Nat \ {0}
  BY <1>1, <1>4
<1> QED BY <1>4, <1>5 DEF a, Senders

\* The record types of what a transfer is made of.
LEMMA StartType ==
  ASSUME NEW id \in Ids, NEW c \in Numbers, NEW size \in Nat
  PROVE  /\ Start(id, c, size) \in Message /\ End(id, c) \in Message
         /\ NewSender(id, c, size) \in Senders /\ NoSender \in Senders
         /\ \A i \in Nat : Data(id, c, i) \in Message
<1>1. Ids \subseteq Nat /\ 0 \in Numbers
  BY DownloadAssumption DEF Ids, Numbers
<1> QED BY <1>1 DEF Start, End, Data, NewSender, NoSender, Message, Senders

-----------------------------------------------------------------------------
(* The server writes *)

\* The chunks of a turn lead from the point of the sender to one n chunks on.
LEMMA ChunksLead ==
  ASSUME NEW md \in Contents, NEW v \in Values,
         NEW q \in Points, q.open, q.id \in Ids, MadeFor(md, q.id, q.latest[q.id]),
         NEW n \in Nat, q.sent + n <= Chunks(md, q.latest[q.id])
  PROVE  LET turn == [i \in 1 .. n |-> Data(q.id, q.latest[q.id], q.sent + i)]
         IN  /\ turn \in Seq(Message)
             /\ [q EXCEPT !.sent = q.sent + n] \in Points
             /\ Leads(Steps(md, v), turn, q, [q EXCEPT !.sent = q.sent + n])
<1> DEFINE c == q.latest[q.id]
           turn == [i \in 1 .. n |-> Data(q.id, c, q.sent + i)]
           point(i) == [q EXCEPT !.sent = q.sent + i]
           f == [i \in 0 .. n |-> point(i)]
<1>1. /\ q.sent \in Nat /\ c \in Numbers
      /\ q \in [open : BOOLEAN, id : Nat, sent : Nat, latest : Values]
      /\ Chunks(md, c) \in Nat
  BY ChunksType DEF Points, Values
<1>2. \A i \in Nat : Data(q.id, c, q.sent + i) \in Message
  BY <1>1, StartType, DownloadAssumption
<1>3. turn \in Seq(Message) /\ Len(turn) = n /\ \A i \in 1 .. n : turn[i] = Data(q.id, c, q.sent + i)
  BY <1>2
<1>4. \A i \in Nat : point(i) \in Points /\ point(i).sent = q.sent + i
                     /\ point(i).open /\ point(i).id = q.id /\ point(i).latest = q.latest
  BY <1>1 DEF Points
<1>5. point(0) = q
  BY <1>1
<1>6. ASSUME NEW i \in 1 .. n PROVE <<point(i - 1), Data(q.id, c, q.sent + i), point(i)>> \in Steps(md, v)
  <2> DEFINE m == Data(q.id, c, q.sent + i)
  <2>1. i \in Nat /\ i - 1 \in Nat /\ (i - 1) + 1 = i /\ q.sent + i = q.sent + (i - 1) + 1
        /\ q.sent + i <= Chunks(md, c)
    BY <1>1
  <2>2. m.mark = "DataChunk" /\ m.id = q.id /\ m.content = c /\ m.part = q.sent + i
    BY DEF Data
  <2>3. [point(i - 1) EXCEPT !.sent = q.sent + i] = point(i)
    BY <1>1, <2>1
  <2>4. Goes(md, point(i - 1), m, point(i))
    BY <2>1, <2>2, <2>3, <1>4 DEF Goes
  <2> HIDE DEF m, point
  <2>5. <<point(i - 1), m, point(i)>> \in Points \X Message \X Points
    BY <2>1, <1>2, <1>4 DEF m
  <2> QED BY <2>4, <2>5 DEF Steps, m
<1>7. DOMAIN f = 0 .. n /\ \A i \in 0 .. n : f[i] = point(i)
  OBVIOUS
<1> HIDE DEF f, point, turn, c
<1>8. \A i \in 1 .. n : i \in 0 .. n /\ i - 1 \in 0 .. n
  OBVIOUS
<1>9. \A i \in 1 .. n : <<f[i - 1], turn[i], f[i]>> \in Steps(md, v)
  BY <1>3, <1>6, <1>7, <1>8
<1>10. f[0] = q /\ f[n] = point(n)
  BY <1>5, <1>7
<1>11. Leads(Steps(md, v), turn, q, point(n))
  BY <1>3, <1>7, <1>9, <1>10 DEF Leads
<1> QED BY <1>3, <1>4, <1>11 DEF point, turn, c

\* A turn of the sender leads on from its point to the point after the turn.
LEMMA TurnLeads ==
  ASSUME NEW md \in Contents, NEW v \in Values, NEW s \in Senders, s.active,
         NEW q \in Points, Sends(md, v, s, q)
  PROVE  /\ TurnMessages(s) \in Seq(Message) /\ AfterTurn(s) \in Senders
         /\ \E x \in Points : Leads(Steps(md, v), TurnMessages(s), q, x)
                              /\ Sends(md, v, AfterTurn(s), x)
<1> DEFINE n == TurnLength(s)
           chunks == [i \in 1 .. n |-> Data(s.id, s.content, s.offset + i)]
           mid == [q EXCEPT !.sent = q.sent + n]
<1>1. /\ q.open /\ q.id \in Ids /\ s.id = q.id /\ s.content = q.latest[q.id]
      /\ MadeFor(md, s.id, s.content) /\ s.size = Chunks(md, s.content)
      /\ s.offset = q.sent /\ s.offset < s.size
      /\ \A id \in Ids : q.latest[id] <= v[id]
  BY DEF Sends
<1>2. n \in Nat \ {0} /\ s.offset + n <= s.size
  BY <1>1, TurnLengthBounds
<1>3. /\ chunks \in Seq(Message) /\ mid \in Points
      /\ Leads(Steps(md, v), chunks, q, mid)
  <2>1. q.sent + n <= Chunks(md, q.latest[q.id]) /\ MadeFor(md, q.id, q.latest[q.id])
    BY <1>1, <1>2
  <2>2. chunks = [i \in 1 .. n |-> Data(q.id, q.latest[q.id], q.sent + i)]
    BY <1>1
  <2> HIDE DEF n, mid, chunks
  <2> QED BY <1>1, <1>2, <2>1, <2>2, ChunksLead DEF mid
<1>4. q \in [open : BOOLEAN, id : Nat, sent : Nat, latest : Values]
  BY DEF Points
<1> HIDE DEF n
<1>5. mid.open /\ mid.id = q.id /\ mid.sent = q.sent + n /\ mid.latest = q.latest
  BY <1>1, <1>4
<1> HIDE DEF n, mid, chunks
<1>6. CASE Drained(s)
  <2> DEFINE end == End(s.id, s.content)
             x == [mid EXCEPT !.open = FALSE]
  <2>1. TurnMessages(s) = chunks \o <<end>> /\ AfterTurn(s) = NoSender
    BY <1>6 DEF TurnMessages, AfterTurn, chunks, n
  <2>2. end \in Message /\ NoSender \in Senders
    <3>1. s.content \in Numbers
      BY DEF Senders
    <3> QED BY <1>1, <3>1, StartType
  <2>3. x \in Points /\ x.latest = q.latest
    BY <1>3, <1>5 DEF Points
  <2>4. Closes(md, mid, end, x)
    <3>1. mid.sent = Chunks(md, s.content)
      BY <1>1, <1>5, <1>6 DEF Drained, n
    <3>2. end.mark = "DataEnd" /\ end.id = s.id /\ end.content = s.content
      BY DEF End
    <3> HIDE DEF end
    <3> QED BY <1>1, <1>5, <3>1, <3>2 DEF Closes
  <2> HIDE DEF end, x
  <2>5. <<mid, end, x>> \in Steps(md, v)
    <3>1. <<mid, end, x>> \in Points \X Message \X Points
      BY <1>3, <2>2, <2>3
    <3> QED BY <3>1, <2>4 DEF Steps
  <2>6. Leads(Steps(md, v), <<end>>, mid, x)
    BY <2>5, LeadsOne
  <2>7. <<end>> \in Seq(Message)
    BY <2>2
  <2>8. Leads(Steps(md, v), TurnMessages(s), q, x)
    BY <1>3, <2>1, <2>6, <2>7, LeadsConcat
  <2>9. Sends(md, v, NoSender, x)
    BY <1>1, <2>3 DEF Sends, NoSender
  <2>10. TurnMessages(s) \in Seq(Message)
    BY <2>1, <2>7, <1>3, ConcatProperties
  <2> QED BY <2>1, <2>2, <2>3, <2>8, <2>9, <2>10
<1>7. CASE ~ Drained(s)
  <2> DEFINE t == [s EXCEPT !.offset = s.offset + n, !.chunksThisTurn = s.chunksThisTurn + n]
  <2>1. TurnMessages(s) = chunks \o <<>> /\ AfterTurn(s) = t
    BY <1>7 DEF TurnMessages, AfterTurn, chunks, n
  <2>2. chunks \o <<>> = chunks
    BY <1>3, ConcatEmptySeq
  <2>3. t \in Senders /\ t.active /\ t.id = s.id /\ t.content = s.content
        /\ t.size = s.size /\ t.offset = s.offset + n
    <3>1. s.offset + n \in Nat /\ s.chunksThisTurn + n \in Nat
      BY <1>2 DEF Senders
    <3>2. s.active = TRUE
      BY DEF Senders
    <3> QED BY <3>1, <3>2 DEF Senders
  <2>4. s.offset + n < s.size
    <3>1. s.offset + n # s.size
      BY <1>7 DEF Drained, n
    <3>2. s.offset \in Nat /\ s.size \in Nat
      BY DEF Senders
    <3> QED BY <3>1, <3>2, <1>2
  <2> HIDE DEF t
  <2>5. Sends(md, v, t, mid)
    BY <1>1, <1>5, <2>3, <2>4 DEF Sends
  <2> QED BY <1>3, <2>1, <2>2, <2>3, <2>5
<1> QED BY <1>6, <1>7

\* setClipboard with the clipboard's newest content, on a connection whose
\* messages lead from p to its sender: they still do.
LEMMA SetClipboardWrites ==
  ASSUME NEW md \in Contents, NEW v \in Values, NEW id \in Ids, MadeFor(md, id, v[id]),
         NEW conn \in Connections, NEW p \in Points, Writes(md, v, conn, p)
  PROVE  LET next == SetClipboard(conn, id, v[id], Chunks(md, v[id]))
         IN  next \in Connections /\ Writes(md, v, next, p)
<1> DEFINE c == v[id]
           size == Chunks(md, c)
           start == Start(id, c, size)
           s == NewSender(id, c, size)
           next == SetClipboard(conn, id, c, size)
<1>1. PICK q \in Points : Leads(Steps(md, v), conn.wire, p, q) /\ Sends(md, v, conn.sender, q)
  BY DEF Writes
<1> DEFINE x == [open |-> TRUE, id |-> id, sent |-> 0, latest |-> [q.latest EXCEPT ![id] = c]]
<1>2. c \in Numbers /\ size \in Nat \ {0} /\ id \in Nat
  BY ChunksType, DownloadAssumption DEF Values, Ids
<1>3. start \in Message /\ s \in Senders
  BY <1>2, StartType
<1>4. q.latest \in Values /\ [q.latest EXCEPT ![id] = c] \in Values
  BY <1>2 DEF Points, Values
<1>5. x \in Points
  BY <1>2, <1>4 DEF Points
<1>6. <<q, start, x>> \in Steps(md, v)
  <2>1. start.mark = "DataStart" /\ start.id = id /\ start.content = c /\ start.part = size
    BY DEF Start
  <2>2. q.latest[id] <= c /\ c <= v[id]
    BY <1>1, <1>2 DEF Sends, Numbers
  <2> HIDE DEF start, c, size
  <2>3. Opens(md, v, q, start, x)
    BY <2>1, <2>2 DEF Opens, size, c
  <2> HIDE DEF x
  <2>4. <<q, start, x>> \in Points \X Message \X Points
    BY <1>3, <1>5
  <2> QED BY <2>3, <2>4 DEF Steps
<1>7. Sends(md, v, s, x)
  <2>1. \A i \in Ids : x.latest[i] <= v[i]
    <3>1. \A i \in Ids : x.latest[i] = IF i = id THEN c ELSE q.latest[i]
      BY <1>4 DEF Values
    <3>2. \A i \in Ids : q.latest[i] <= v[i] /\ v[i] \in Nat
      BY <1>1 DEF Sends, Values, Numbers
    <3> HIDE DEF x
    <3> QED BY <3>1, <3>2
  <2>2. x.open /\ x.id = id /\ x.sent = 0 /\ x.latest[id] = c
    BY <1>4 DEF Values
  <2>3. s.active /\ s.id = id /\ s.content = c /\ s.size = size /\ s.offset = 0
    BY DEF NewSender
  <2> HIDE DEF x, s, size
  <2> QED BY <2>1, <2>2, <2>3, <1>2 DEF Sends, size
<1>8. PICK y \in Points : Leads(Steps(md, v), TurnMessages(s), x, y)
                          /\ Sends(md, v, AfterTurn(s), y)
  <2>1. s.active
    BY DEF NewSender
  <2> HIDE DEF x, s
  <2> QED BY <2>1, <1>3, <1>5, <1>7, TurnLeads
<1>9. TurnMessages(s) \in Seq(Message) /\ AfterTurn(s) \in Senders
  <2>1. s.active
    BY DEF NewSender
  <2> HIDE DEF x, s
  <2> QED BY <2>1, <1>3, <1>5, <1>7, TurnLeads
<1>10. conn.wire \in Seq(Message)
  BY DEF Connections
<1>11. next.wire = conn.wire \o (<<start>> \o TurnMessages(s)) /\ next.sender = AfterTurn(s)
  BY DEF SetClipboard, StartMessages
<1>12. next = [wire |-> conn.wire \o (<<start>> \o TurnMessages(s)), sender |-> AfterTurn(s)]
  BY DEF SetClipboard, StartMessages
<1> HIDE DEF start, s, x, next
<1>13. <<start>> \in Seq(Message) /\ Leads(Steps(md, v), <<start>>, q, x)
  BY <1>3, <1>6, LeadsOne
<1>14. <<start>> \o TurnMessages(s) \in Seq(Message)
       /\ Leads(Steps(md, v), <<start>> \o TurnMessages(s), q, y)
  BY <1>8, <1>9, <1>13, LeadsConcat, ConcatProperties
<1>15. conn.wire \o (<<start>> \o TurnMessages(s)) \in Seq(Message)
       /\ Leads(Steps(md, v), conn.wire \o (<<start>> \o TurnMessages(s)), p, y)
  BY <1>1, <1>10, <1>14, LeadsConcat, ConcatProperties
<1>16. next \in Connections
  BY <1>9, <1>12, <1>15 DEF Connections
<1>17. Writes(md, v, next, p)
  BY <1>8, <1>11, <1>15 DEF Writes
<1> QED BY <1>16, <1>17 DEF next, c, size

-----------------------------------------------------------------------------
(* The client reads *)

\* What Receive makes of the assembly state and of the clipboards.
After(t, m) ==
  LET a == Assemble(t, m, Limit, TRUE)
  IN  IF a.result = "Finished" THEN [a.next EXCEPT !.cache = <<>>] ELSE a.next
Taken(t, g, m) ==
  LET a == Assemble(t, m, Limit, TRUE)
  IN  IF a.result = "Finished" THEN [g EXCEPT ![m.id] = a.next.cache[1][1]] ELSE g

\* The message m is no error, and what it completes is whole.
Sound(md, t, m) ==
  LET a == Assemble(t, m, Limit, TRUE)
  IN  /\ a.result # "Error"
      /\ a.result = "Finished" => Whole(a.next.cache, m.content, Chunks(md, m.content))

\* The clipboards stay what they are, or one takes a content made for it that
\* is not older than the one it has.
Delivers(md, g, g2) ==
  g2 = g \/ \E id \in Ids, c \in Numbers : /\ MadeFor(md, id, c) /\ g[id] <= c
                                           /\ g2 = [g EXCEPT ![id] = c]

\* A start message is accepted.
LEMMA StartTaken ==
  ASSUME NEW md \in Contents, NEW v \in Values, NEW t \in Transfers, NEW g \in Values,
         NEW p \in Points, NEW m \in Message, NEW x \in Points,
         Receives(md, v, t, g, p), Opens(md, v, p, m, x)
  PROVE  /\ Sound(md, t, m) /\ Taken(t, g, m) = g
         /\ After(t, m) \in Transfers
         /\ After(t, m).received <= After(t, m).expected
         /\ Receives(md, v, After(t, m), g, x)
<1>1. /\ m.mark = "DataStart" /\ MadeFor(md, m.id, m.content)
      /\ m.part = Chunks(md, m.content)
      /\ p.latest[m.id] <= m.content /\ m.content <= v[m.id]
      /\ x = [open |-> TRUE, id |-> m.id, sent |-> 0,
              latest |-> [p.latest EXCEPT ![m.id] = m.content]]
  BY DEF Opens
<1>2. m.id \in Ids /\ m.content \in Numbers /\ m.part \in Nat
  BY DEF Message
<1> DEFINE a == Assemble(t, m, Limit, TRUE)
           big == m.part > Limit
           next == [NoTransfer EXCEPT !.expected = m.part, !.active = TRUE, !.discarding = big]
<1>3. a = [result |-> "Started", next |-> next]
  BY <1>1 DEF Assemble, AssembleStart
<1> HIDE DEF a
<1>4. a.result = "Started" /\ a.next = next
  BY <1>3
<1>5. After(t, m) = next /\ Taken(t, g, m) = g /\ Sound(md, t, m)
  BY <1>4 DEF After, Taken, Sound, a
<1>6. /\ next.expected = m.part /\ next.received = 0 /\ next.active = TRUE
      /\ next.discarding = big /\ next.cache = <<>>
  <2> HIDE DEF big
  <2> QED BY DEF NoTransfer
<1>7. next \in Transfers
  <2>1. big \in BOOLEAN /\ <<>> \in Seq(Numbers \X Nat)
    OBVIOUS
  <2>2. NoTransfer \in Transfers
    BY <2>1 DEF NoTransfer, Transfers
  <2> HIDE DEF big
  <2> QED BY <1>2, <2>1, <2>2 DEF Transfers
<1> HIDE DEF next
<1>8. Receives(md, v, next, g, x)
  <2>1. \A id \in Ids : x.latest[id] = IF id = m.id THEN m.content ELSE p.latest[id]
    BY <1>1, <1>2 DEF Points, Values
  <2>2. \A id \in Ids : g[id] <= p.latest[id] /\ p.latest[id] <= v[id]
    BY DEF Receives
  <2>3. \A id \in Ids : g[id] \in Nat /\ p.latest[id] \in Nat /\ v[id] \in Nat
    BY DEF Points, Values, Numbers
  <2>4. m.content \in Nat
    BY <1>2 DEF Numbers
  <2>5. \A id \in Ids : g[id] <= x.latest[id] /\ x.latest[id] <= v[id]
    BY <1>1, <1>2, <2>1, <2>2, <2>3, <2>4
  <2>6. x.open = TRUE /\ x.id = m.id /\ x.sent = 0 /\ x.latest[m.id] = m.content
    BY <1>1, <1>2, <2>1
  <2>7. [i \in 1 .. 0 |-> <<m.content, i>>] = <<>>
    OBVIOUS
  <2>8. /\ next.expected = Chunks(md, x.latest[x.id]) /\ next.received = x.sent
        /\ next.received <= next.expected /\ x.id \in Ids
        /\ MadeFor(md, x.id, x.latest[x.id])
    BY <1>1, <1>2, <1>6, <2>6
  <2>9. next.cache = IF next.discarding THEN <<>>
                     ELSE [i \in 1 .. next.received |-> <<x.latest[x.id], i>>]
    BY <1>6, <2>6, <2>7
  <2>10. next.discarding = (next.expected > Limit) /\ next.active = x.open
    BY <1>6, <2>6
  <2> QED BY <2>5, <2>8, <2>9, <2>10 DEF Receives
<1>9. next.received <= next.expected
  BY <1>2, <1>6
<1> QED BY <1>5, <1>7, <1>8, <1>9

\* A chunk is the next one of the transfer.
LEMMA ChunkTaken ==
  ASSUME NEW md \in Contents, NEW v \in Values, NEW t \in Transfers, NEW g \in Values,
         NEW p \in Points, NEW m \in Message, NEW x \in Points,
         Receives(md, v, t, g, p), Goes(md, p, m, x)
  PROVE  /\ Sound(md, t, m) /\ Taken(t, g, m) = g
         /\ After(t, m) \in Transfers
         /\ After(t, m).received <= After(t, m).expected
         /\ Receives(md, v, After(t, m), g, x)
<1>1. /\ m.mark = "DataChunk" /\ p.open /\ m.id = p.id /\ m.content = p.latest[m.id]
      /\ m.part = p.sent + 1 /\ m.part <= Chunks(md, m.content)
      /\ x = [p EXCEPT !.sent = m.part]
  BY DEF Goes
<1>2. /\ t.active = TRUE /\ p.id \in Ids /\ MadeFor(md, p.id, m.content)
      /\ t.expected = Chunks(md, m.content)
      /\ t.received = p.sent /\ t.discarding = (t.expected > Limit)
      /\ t.cache = IF t.discarding THEN <<>>
                   ELSE [i \in 1 .. t.received |-> <<m.content, i>>]
  BY <1>1 DEF Receives
<1>3. m.part \in Nat /\ m.content \in Numbers /\ p.sent \in Nat
      /\ t.expected \in Nat /\ t.received \in Nat /\ t.cache \in Seq(Numbers \X Nat)
  BY DEF Message, Points, Transfers
<1> DEFINE a == Assemble(t, m, Limit, TRUE)
           cache == IF t.discarding THEN t.cache ELSE Append(t.cache, <<m.content, m.part>>)
           next == [t EXCEPT !.received = t.received + 1, !.cache = cache]
<1>4. t.received + 1 = m.part /\ m.part <= t.expected /\ ~ (t.received + 1 > t.expected)
  BY <1>1, <1>2, <1>3
<1>5. a = [result |-> "InProgress", next |-> next]
  BY <1>1, <1>2, <1>4 DEF Assemble, AssembleData
<1> HIDE DEF a
<1>6. a.result = "InProgress" /\ a.next = next
  <2> HIDE DEF next
  <2> QED BY <1>5
<1>7. After(t, m) = next /\ Taken(t, g, m) = g /\ Sound(md, t, m)
  BY <1>6 DEF After, Taken, Sound, a
<1>8. cache = IF t.discarding THEN <<>> ELSE [i \in 1 .. m.part |-> <<m.content, i>>]
  <2>1. CASE t.discarding
    BY <2>1, <1>2
  <2>2. CASE ~ t.discarding
    <3>1. t.cache = [i \in 1 .. t.received |-> <<m.content, i>>]
      BY <2>2, <1>2
    <3>2. Append([i \in 1 .. t.received |-> <<m.content, i>>], <<m.content, t.received + 1>>)
            = [i \in 1 .. t.received + 1 |-> <<m.content, i>>]
      BY <1>3
    <3> QED BY <2>2, <3>1, <3>2, <1>4
  <2> QED BY <2>1, <2>2
<1>9. cache \in Seq(Numbers \X Nat)
  BY <1>3
<1> HIDE DEF cache
<1>10. /\ next.expected = t.expected /\ next.received = m.part /\ next.active = TRUE
       /\ next.discarding = t.discarding /\ next.cache = cache
       /\ next \in Transfers
  BY <1>2, <1>3, <1>4, <1>9 DEF Transfers
<1> HIDE DEF next
<1>11. Receives(md, v, next, g, x)
  <2>1. x.open = TRUE /\ x.id = p.id /\ x.sent = m.part /\ x.latest = p.latest
    BY <1>1 DEF Points
  <2>2. \A id \in Ids : g[id] <= p.latest[id] /\ p.latest[id] <= v[id]
    BY DEF Receives
  <2>3. m.content = p.latest[p.id] /\ x.latest[x.id] = m.content /\ x.id \in Ids
    BY <1>1, <1>2, <2>1
  <2>4. next.expected = Chunks(md, m.content) /\ next.received = x.sent
        /\ next.received <= next.expected /\ MadeFor(md, x.id, m.content)
    BY <1>1, <1>2, <1>4, <1>10, <2>1
  <2>5. next.cache = IF next.discarding THEN <<>>
                     ELSE [i \in 1 .. next.received |-> <<m.content, i>>]
    BY <1>8, <1>10
  <2>6. next.discarding = (next.expected > Limit) /\ next.active = x.open
    BY <1>2, <1>10, <2>1
  <2> QED BY <2>1, <2>2, <2>3, <2>4, <2>5, <2>6 DEF Receives
<1> QED BY <1>4, <1>7, <1>10, <1>11

\* The end finds the transfer complete, and the clipboard takes its content
\* unless it is above the limit.
LEMMA EndTaken ==
  ASSUME NEW md \in Contents, NEW v \in Values, NEW t \in Transfers, NEW g \in Values,
         NEW p \in Points, NEW m \in Message, NEW x \in Points,
         Receives(md, v, t, g, p), Closes(md, p, m, x),
         t.received <= t.expected
  PROVE  /\ Sound(md, t, m) /\ Delivers(md, g, Taken(t, g, m))
         /\ Taken(t, g, m) \in Values /\ After(t, m) \in Transfers
         /\ After(t, m).received <= After(t, m).expected
         /\ Receives(md, v, After(t, m), Taken(t, g, m), x)
<1>1. /\ m.mark = "DataEnd" /\ p.open /\ m.id = p.id /\ m.content = p.latest[m.id]
      /\ p.sent = Chunks(md, m.content)
      /\ x = [p EXCEPT !.open = FALSE]
  BY DEF Closes
<1>2. /\ t.active = TRUE /\ m.id \in Ids /\ MadeFor(md, m.id, m.content)
      /\ t.expected = Chunks(md, m.content)
      /\ t.received = p.sent /\ t.discarding = (t.expected > Limit)
      /\ t.cache = IF t.discarding THEN <<>>
                   ELSE [i \in 1 .. t.received |-> <<m.content, i>>]
  BY <1>1 DEF Receives
<1>3. x.open = FALSE /\ x.latest = p.latest
  BY <1>1 DEF Points
<1>4. \A id \in Ids : g[id] <= p.latest[id] /\ p.latest[id] <= v[id]
  BY DEF Receives
<1>5. m.content \in Numbers /\ g[m.id] <= m.content
  BY <1>1, <1>2, <1>4 DEF Message
<1>6. t.received = t.expected
  BY <1>1, <1>2
<1> DEFINE a == Assemble(t, m, Limit, TRUE)
<1>7. CASE t.discarding
  <2>1. a = [result |-> "Skipped", next |-> NoTransfer]
    BY <1>1, <1>2, <1>6, <1>7 DEF Assemble, AssembleEnd
  <2> HIDE DEF a
  <2>2. a.result = "Skipped" /\ a.next = NoTransfer
    <3> HIDE DEF NoTransfer
    <3> QED BY <2>1
  <2>3. After(t, m) = NoTransfer /\ Taken(t, g, m) = g /\ Sound(md, t, m)
    BY <2>2 DEF After, Taken, Sound, a
  <2>4. NoTransfer \in Transfers /\ NoTransfer.received = 0 /\ NoTransfer.expected = 0
        /\ NoTransfer.active = FALSE
    <3>1. <<>> \in Seq(Numbers \X Nat)
      OBVIOUS
    <3> QED BY <3>1 DEF NoTransfer, Transfers
  <2>5. Receives(md, v, NoTransfer, g, x)
    BY <1>3, <1>4, <2>4 DEF Receives
  <2> QED BY <2>3, <2>4, <2>5 DEF Delivers
<1>8. CASE ~ t.discarding
  <2> DEFINE done == [t EXCEPT !.active = FALSE]
             next == [done EXCEPT !.cache = <<>>]
             g2 == [g EXCEPT ![m.id] = m.content]
  <2>1. a = [result |-> "Finished", next |-> done]
    BY <1>1, <1>2, <1>6, <1>8 DEF Assemble, AssembleEnd
  <2>2. a.result = "Finished" /\ a.next = done
    <3> HIDE DEF a, done
    <3> QED BY <2>1
  <2>3. done.cache = [i \in 1 .. Chunks(md, m.content) |-> <<m.content, i>>]
    BY <1>2, <1>6, <1>8 DEF Transfers
  <2>4. done.cache[1][1] = m.content
    <3>1. 1 \in 1 .. Chunks(md, m.content)
      BY <1>2, ChunksType
    <3>2. done.cache[1] = <<m.content, 1>>
      BY <2>3, <3>1
    <3> QED BY <3>2
  <2> HIDE DEF a, done
  <2>5. After(t, m) = next /\ Taken(t, g, m) = g2 /\ Sound(md, t, m)
    BY <2>2, <2>3, <2>4 DEF After, Taken, Sound, Whole, a
  <2>6. done \in Transfers /\ done.active = FALSE /\ done.received = t.received
        /\ done.expected = t.expected
    BY DEF done, Transfers
  <2>7. next \in Transfers /\ next.active = FALSE /\ next.received <= next.expected
    <3>1. <<>> \in Seq(Numbers \X Nat) /\ t.received \in Nat /\ t.expected \in Nat
      BY DEF Transfers
    <3> QED BY <1>6, <2>6, <3>1 DEF Transfers
  <2>8. g2 \in Values
    BY <1>2, <1>5 DEF Values
  <2>9. \A id \in Ids : g2[id] <= p.latest[id]
    <3>1. \A id \in Ids : g2[id] = IF id = m.id THEN m.content ELSE g[id]
      BY DEF Values
    <3>2. m.content <= p.latest[m.id]
      BY <1>1, <1>5 DEF Numbers
    <3> HIDE DEF g2
    <3> QED BY <3>1, <3>2, <1>4
  <2> HIDE DEF next
  <2>10. Receives(md, v, next, g2, x)
    BY <1>3, <1>4, <2>7, <2>9 DEF Receives
  <2>11. Delivers(md, g, g2)
    BY <1>2, <1>5 DEF Delivers
  <2> HIDE DEF g2
  <2> QED BY <2>5, <2>7, <2>8, <2>10, <2>11
<1> QED BY <1>7, <1>8

\* Any message that the wire leads on with.
LEMMA MessageTaken ==
  ASSUME NEW md \in Contents, NEW v \in Values, NEW t \in Transfers, NEW g \in Values,
         NEW p \in Points, NEW m, NEW x, <<p, m, x>> \in Steps(md, v),
         Receives(md, v, t, g, p), t.received <= t.expected
  PROVE  /\ Sound(md, t, m) /\ Delivers(md, g, Taken(t, g, m))
         /\ Taken(t, g, m) \in Values /\ After(t, m) \in Transfers
         /\ After(t, m).received <= After(t, m).expected
         /\ Receives(md, v, After(t, m), Taken(t, g, m), x)
<1>1. /\ m \in Message /\ x \in Points
      /\ Opens(md, v, p, m, x) \/ Goes(md, p, m, x) \/ Closes(md, p, m, x)
  BY DEF Steps
<1>2. CASE Opens(md, v, p, m, x)
  BY <1>1, <1>2, StartTaken DEF Delivers
<1>3. CASE Goes(md, p, m, x)
  BY <1>1, <1>3, ChunkTaken DEF Delivers
<1>4. CASE Closes(md, p, m, x)
  BY <1>1, <1>4, EndTaken
<1> QED BY <1>1, <1>2, <1>3, <1>4

-----------------------------------------------------------------------------
(* The invariant holds at first and is kept by every step *)

LEMMA SizeOfIsChunks ==
  \A c : SizeOf(c) = Chunks(made, c)
BY DEF SizeOf, Chunks

LEMMA ConnectionType ==
  ASSUME TypeInv
  PROVE  Connection \in Connections /\ Connection.wire = wire /\ Connection.sender = sender
BY DEF TypeInv, Connection, Connections

\* The loop of switchScreen leaves a connection that leads from p to its
\* sender one that does.
LEMMA SendDirtyWrites ==
  ASSUME TypeInv, \A id \in Ids : MadeFor(made, id, value[id]),
         NEW p \in Points, Writes(made, value, Connection, p)
  PROVE  SendDirty \in Connections /\ Writes(made, value, SendDirty, p)
<1> DEFINE S == {c \in Connections : Writes(made, value, c, p)}
           Set(c, n) == SetClipboard(c, n - 1, value[n - 1], SizeOf(value[n - 1]))
           Loop(f) == [n \in 0 .. ClipboardEnd |->
                         IF n = 0 THEN Connection
                         ELSE IF n - 1 \notin dirty THEN f[n - 1]
                         ELSE Set(f[n - 1], n)]
           after == CHOOSE f : f = Loop(f)
           pass == [e \in (1 .. ClipboardEnd) \X S |->
                      IF e[1] - 1 \notin dirty THEN e[2] ELSE Set(e[2], e[1])]
<1>1. Connection \in S
  BY ConnectionType
<1>2. ASSUME NEW n \in 1 .. ClipboardEnd, NEW c \in S PROVE Set(c, n) \in S
  <2>1. n - 1 \in Ids /\ value \in Values /\ made \in Contents
    BY DownloadAssumption DEF Ids, TypeInv
  <2>2. Set(c, n) = SetClipboard(c, n - 1, value[n - 1], Chunks(made, value[n - 1]))
    BY SizeOfIsChunks
  <2> HIDE DEF Set
  <2> QED BY <2>1, <2>2, SetClipboardWrites
<1> HIDE DEF S, Set
<1>3. pass \in [(1 .. ClipboardEnd) \X S -> S]
  BY <1>2
<1>4. \A n \in 1 .. ClipboardEnd, c \in S :
          pass[<<n, c>>] = IF n - 1 \notin dirty THEN c ELSE Set(c, n)
  OBVIOUS
<1> HIDE DEF pass
<1>5. ClipboardEnd \in Nat
  BY DownloadAssumption
<1>6. PICK f \in [0 .. ClipboardEnd -> S] :
          f[0] = Connection /\ \A n \in 1 .. ClipboardEnd : f[n] = pass[<<n, f[n - 1]>>]
  <2>1. \E f : IsLoop(f, S, Connection, ClipboardEnd, pass)
    BY <1>1, <1>3, <1>5, LoopExists
  <2> QED BY <2>1 DEF IsLoop
<1>7. f = Loop(f)
  <2>1. \A n \in 0 .. ClipboardEnd :
            f[n] = IF n = 0 THEN Connection
                   ELSE IF n - 1 \notin dirty THEN f[n - 1] ELSE Set(f[n - 1], n)
    <3> TAKE n \in 0 .. ClipboardEnd
    <3>1. CASE n = 0
      BY <3>1, <1>6
    <3>2. CASE n # 0
      <4>1. n \in 1 .. ClipboardEnd /\ n - 1 \in 0 .. ClipboardEnd /\ f[n - 1] \in S
        BY <3>2, <1>5, <1>6
      <4> QED BY <3>2, <4>1, <1>4, <1>6
    <3> QED BY <3>1, <3>2
  <2> QED BY <2>1, <1>6
<1>8. after = Loop(after)
  BY <1>7
<1>9. SendDirty = after[ClipboardEnd]
  BY DEF SendDirty, Set
<1>10. /\ after[0] = Connection
       /\ \A n \in 1 .. ClipboardEnd :
              after[n] = IF n - 1 \notin dirty THEN after[n - 1] ELSE Set(after[n - 1], n)
  <2> HIDE DEF after
  <2>1. \A n \in 0 .. ClipboardEnd :
            after[n] = IF n = 0 THEN Connection
                       ELSE IF n - 1 \notin dirty THEN after[n - 1] ELSE Set(after[n - 1], n)
    BY <1>8
  <2> QED BY <2>1, <1>5
<1> HIDE DEF after, Loop
<1>11. \A n \in 1 .. ClipboardEnd : after[n - 1] \in S => after[n] \in S
  BY <1>2, <1>10
<1>12. after[0] \in S
  BY <1>1, <1>10
<1>13. \A n \in 0 .. ClipboardEnd : after[n] \in S
  BY <1>5, <1>11, <1>12, LoopInvariant
<1> QED BY <1>5, <1>9, <1>13 DEF S

LEMMA InitHolds ==
  Init => DownloadInv
<1> SUFFICES ASSUME Init PROVE DownloadInv
  OBVIOUS
<1> DEFINE zero == [id \in Ids |-> 0]
           p == [open |-> FALSE, id |-> 0, sent |-> 0, latest |-> zero]
<1>1. /\ 0 \in Numbers /\ zero \in Values /\ p \in Points
      /\ \A id \in Ids : zero[id] = 0
  BY DownloadAssumption DEF Numbers, Values, Points
<1>2. TypeInv
  <2>1. wire \in Seq(Message) /\ made \in Contents /\ Len(made) = 0
    BY DEF Init, Contents
  <2>2. sender \in Senders
    BY <1>1 DEF Init, NoSender, Senders
  <2>3. transfer \in Transfers /\ transfer.received <= transfer.expected
    <3>1. <<>> \in Seq(Numbers \X Nat)
      OBVIOUS
    <3> QED BY <3>1 DEF Init, NoTransfer, Transfers
  <2>4. value \in Values /\ got \in Values
    BY <1>1 DEF Init
  <2>5. 0 \in 0 .. MaxEnters /\ 0 \in 0 .. MaxBreaks
    BY DownloadAssumption
  <2> QED BY <1>1, <2>1, <2>2, <2>3, <2>4, <2>5 DEF Init, TypeInv
<1>3. Receives(made, value, transfer, got, p)
  BY <1>1 DEF Init, Receives, NoTransfer
<1>4. Writes(made, value, Connection, p)
  <2>1. Leads(Steps(made, value), Connection.wire, p, p)
    BY LeadsEmpty DEF Init, Connection
  <2>2. Sends(made, value, Connection.sender, p)
    BY <1>1 DEF Init, Connection, Sends, NoSender
  <2> QED BY <1>1, <2>1, <2>2 DEF Writes
<1>5. \A id \in Ids : MadeFor(made, id, value[id])
  BY <1>1 DEF Init, MadeFor
<1> HIDE DEF p
<1> QED BY <1>1, <1>2, <1>3, <1>4, <1>5 DEF DownloadInv, Stream

\* A step of the server that writes on the connection and leaves the contents
\* and the client alone.
LEMMA Writing ==
  ASSUME DownloadInv, UNCHANGED <<made, value, transfer, got>>,
         Connection' \in Connections,
         \A p \in Points : Writes(made, value, Connection, p)
                           => Writes(made, value, Connection', p)
  PROVE  /\ Stream(made, value, transfer, got, Connection)'
         /\ sender' \in Senders /\ wire' \in Seq(Message)
         /\ (\A id \in Ids : MadeFor(made, id, value[id]))'
<1>1. PICK p \in Points : Receives(made, value, transfer, got, p)
                          /\ Writes(made, value, Connection, p)
  BY DEF DownloadInv, Stream
<1>2. /\ Receives(made', value', transfer', got', p)
      /\ Writes(made', value', Connection', p)
  BY <1>1
<1>3. Stream(made, value, transfer, got, Connection)'
  BY <1>2 DEF Stream
<1>4. sender' \in Senders /\ wire' \in Seq(Message)
  BY DEF Connection, Connections
<1>5. (\A id \in Ids : MadeFor(made, id, value[id]))'
  BY DEF DownloadInv
<1> QED BY <1>3, <1>4, <1>5

LEMMA EnterKeeps ==
  DownloadInv /\ Enter => DownloadInv'
<1> SUFFICES ASSUME DownloadInv, Enter PROVE DownloadInv'
  OBVIOUS
<1>1. TypeInv /\ \A id \in Ids : MadeFor(made, id, value[id])
  BY DEF DownloadInv
<1>2. Connection' = [wire |-> SendDirty.wire, sender |-> SendDirty.sender]
  BY DEF Enter, Connection
<1>3. \A p \in Points : Writes(made, value, Connection, p)
          => SendDirty \in Connections /\ Writes(made, value, SendDirty, p)
  BY <1>1, SendDirtyWrites
<1>4. SendDirty \in Connections
  <2>1. \E p \in Points : Writes(made, value, Connection, p)
    BY DEF DownloadInv, Stream
  <2> QED BY <2>1, <1>3
<1>5. Connection' = SendDirty
  BY <1>2, <1>4 DEF Connections
<1>6. /\ Stream(made, value, transfer, got, Connection)'
      /\ sender' \in Senders /\ wire' \in Seq(Message)
      /\ (\A id \in Ids : MadeFor(made, id, value[id]))'
  BY <1>3, <1>4, <1>5, Writing DEF Enter
<1>7. TypeInv'
  BY <1>1, <1>6, DownloadAssumption DEF TypeInv, Enter
<1> QED BY <1>6, <1>7 DEF DownloadInv

LEMMA TickKeeps ==
  DownloadInv /\ Tick => DownloadInv'
<1> SUFFICES ASSUME DownloadInv, Tick PROVE DownloadInv'
  OBVIOUS
<1>1. TypeInv /\ made \in Contents /\ value \in Values
      /\ sender \in Senders /\ wire \in Seq(Message) /\ sender.active
  BY DEF DownloadInv, TypeInv, Tick
<1>2. Connection' = [wire |-> wire \o TurnMessages(sender), sender |-> AfterTurn(sender)]
  BY DEF Tick, Connection
<1>3. ASSUME NEW p \in Points, Writes(made, value, Connection, p)
      PROVE  Connection' \in Connections /\ Writes(made, value, Connection', p)
  <2>1. PICK q \in Points : Leads(Steps(made, value), wire, p, q)
                            /\ Sends(made, value, sender, q)
    BY <1>1, <1>3, ConnectionType DEF Writes
  <2>2. /\ TurnMessages(sender) \in Seq(Message) /\ AfterTurn(sender) \in Senders
        /\ \E x \in Points : Leads(Steps(made, value), TurnMessages(sender), q, x)
                             /\ Sends(made, value, AfterTurn(sender), x)
    BY <1>1, <2>1, TurnLeads
  <2>3. PICK x \in Points : Leads(Steps(made, value), TurnMessages(sender), q, x)
                            /\ Sends(made, value, AfterTurn(sender), x)
    BY <2>2
  <2>4. /\ wire \o TurnMessages(sender) \in Seq(Message)
        /\ Leads(Steps(made, value), wire \o TurnMessages(sender), p, x)
    BY <1>1, <2>1, <2>2, <2>3, LeadsConcat, ConcatProperties
  <2>5. Connection' \in Connections
    BY <1>2, <2>2, <2>4 DEF Connections
  <2>6. Connection'.wire = wire \o TurnMessages(sender) /\ Connection'.sender = AfterTurn(sender)
    BY <1>2
  <2> QED BY <2>3, <2>4, <2>5, <2>6 DEF Writes
<1>4. Connection' \in Connections
  <2>1. \E p \in Points : Writes(made, value, Connection, p)
    BY DEF DownloadInv, Stream
  <2> QED BY <2>1, <1>3
<1>5. /\ Stream(made, value, transfer, got, Connection)'
      /\ sender' \in Senders /\ wire' \in Seq(Message)
      /\ (\A id \in Ids : MadeFor(made, id, value[id]))'
  BY <1>3, <1>4, Writing DEF Tick
<1>6. TypeInv'
  BY <1>1, <1>5 DEF TypeInv, Tick
<1> QED BY <1>5, <1>6 DEF DownloadInv

\* What is true of a stream stays true when a new content is made.
LEMMA Newer ==
  ASSUME NEW md \in Contents, NEW v \in Values, \A id \in Ids : MadeFor(md, id, v[id]),
         NEW r \in [id : Ids, size : Sizes], Len(md) + 1 \in Numbers
  PROVE  LET md2 == Append(md, r)
             v2 == [v EXCEPT ![r.id] = Len(md) + 1]
         IN  /\ md2 \in Contents /\ v2 \in Values
             /\ \A id \in Ids : MadeFor(md2, id, v2[id])
             /\ Chunks(md2, Len(md) + 1) = r.size /\ v2[r.id] = Len(md) + 1
             /\ Steps(md, v) \subseteq Steps(md2, v2)
             /\ \A t, g : \A p \in Points : Receives(md, v, t, g, p) => Receives(md2, v2, t, g, p)
             /\ \A s : \A q \in Points : Sends(md, v, s, q) => Sends(md2, v2, s, q)
<1> DEFINE c == Len(md) + 1
           md2 == Append(md, r)
           v2 == [v EXCEPT ![r.id] = c]
<1>1. Len(md) \in Nat /\ DOMAIN md = 1 .. Len(md) /\ md \in Seq([id : Ids, size : Sizes])
  BY LenProperties DEF Contents
<1>2. /\ md2 \in Contents /\ c \in DOMAIN md2 /\ md2[c] = r
  BY <1>1, AppendOne DEF Contents
<1>3. c \in Nat \ {0} /\ r.id \in Ids
  BY <1>1
<1>4. v2 \in Values /\ \A id \in Ids : v2[id] = IF id = r.id THEN c ELSE v[id]
  BY <1>3 DEF Values
<1> HIDE DEF md2, v2
<1>5. \A id, x : MadeFor(md, id, x) => MadeFor(md2, id, x) /\ Chunks(md2, x) = Chunks(md, x)
  BY MadeMore DEF md2
<1>6. \A id \in Ids : MadeFor(md2, id, v2[id])
  <2>1. MadeFor(md2, r.id, c)
    BY <1>2 DEF MadeFor
  <2> QED BY <2>1, <1>4, <1>5
<1>7. Chunks(md2, c) = r.size
  BY <1>2, <1>3 DEF Chunks
<1>8. \A id \in Ids : v[id] \in Nat /\ v2[id] \in Nat /\ v[id] <= v2[id]
  <2> TAKE id \in Ids
  <2>1. v[id] \in Nat /\ MadeFor(md, id, v[id]) /\ v2[id] \in Nat
    BY <1>4 DEF Values, Numbers
  <2>2. v[id] <= Len(md)
    BY <1>1, <2>1 DEF MadeFor
  <2> QED BY <1>1, <1>4, <2>1, <2>2
<1>9. \A p \in Points, id \in Ids : p.latest[id] \in Nat
  BY DEF Points, Values, Numbers
<1>10. \A p \in Points, id \in Ids : p.latest[id] <= v[id] => p.latest[id] <= v2[id]
  BY <1>8, <1>9
<1>11. Steps(md, v) \subseteq Steps(md2, v2)
  <2> SUFFICES ASSUME NEW e \in Steps(md, v) PROVE e \in Steps(md2, v2)
    OBVIOUS
  <2>1. e \in Points \X Message \X Points
    BY DEF Steps
  <2>2. CASE Opens(md, v, e[1], e[2], e[3])
    <3>1. e[2].content \in Nat /\ e[2].id \in Ids
      BY <2>1 DEF Message, Numbers
    <3>2. e[2].content <= v[e[2].id] /\ MadeFor(md, e[2].id, e[2].content)
      BY <2>2 DEF Opens
    <3>3. e[2].content <= v2[e[2].id]
      BY <3>1, <3>2, <1>8
    <3>4. Opens(md2, v2, e[1], e[2], e[3])
      BY <2>2, <3>2, <3>3, <1>5 DEF Opens
    <3> QED BY <2>1, <3>4 DEF Steps
  <2>3. CASE Goes(md, e[1], e[2], e[3])
    BY <2>1, <2>3, <1>5 DEF Steps, Goes
  <2>4. CASE Closes(md, e[1], e[2], e[3])
    BY <2>1, <2>4, <1>5 DEF Steps, Closes
  <2> QED BY <2>2, <2>3, <2>4 DEF Steps
<1>12. ASSUME NEW t, NEW g, NEW p \in Points, Receives(md, v, t, g, p)
       PROVE  Receives(md2, v2, t, g, p)
  BY <1>5, <1>10, <1>12 DEF Receives
<1>13. ASSUME NEW s, NEW q \in Points, Sends(md, v, s, q)
       PROVE  Sends(md2, v2, s, q)
  BY <1>5, <1>10, <1>13 DEF Sends
<1>14. v2[r.id] = c
  BY <1>3, <1>4
<1> QED BY <1>2, <1>4, <1>6, <1>7, <1>11, <1>12, <1>13, <1>14 DEF md2, v2

LEMMA NewDataKeeps ==
  ASSUME DownloadInv, NEW id \in Ids, NEW size \in Sizes, NewData(id, size)
  PROVE  DownloadInv'
<1> DEFINE c == Len(made) + 1
           r == [id |-> id, size |-> size]
           sent == SetClipboard(Connection, id, c, size)
<1>1. /\ TypeInv /\ made \in Contents /\ value \in Values /\ c \in Nat /\ c <= MaxContents
      /\ Connection \in Connections /\ r \in [id : Ids, size : Sizes] /\ r.id = id /\ r.size = size
      /\ \A i \in Ids : MadeFor(made, i, value[i])
  BY ConnectionType DEF DownloadInv, TypeInv, NewData, Contents
<1>2. c \in Numbers
  BY <1>1 DEF Numbers
<1>3. made' = Append(made, r) /\ value' = [value EXCEPT ![r.id] = c]
  BY DEF NewData
<1> HIDE DEF r
<1>4. /\ made' \in Contents /\ value' \in Values
      /\ \A i \in Ids : MadeFor(made', i, value'[i])
      /\ Chunks(made', c) = size /\ value'[id] = c
      /\ Steps(made, value) \subseteq Steps(made', value')
      /\ \A t, g : \A p \in Points : Receives(made, value, t, g, p) => Receives(made', value', t, g, p)
      /\ \A s : \A q \in Points : Sends(made, value, s, q) => Sends(made', value', s, q)
  BY <1>1, <1>2, <1>3, Newer
<1>5. Len(made') = c
  BY <1>1, <1>3, AppendOne DEF Contents
<1>6. PICK p \in Points : Receives(made, value, transfer, got, p)
                          /\ Writes(made, value, Connection, p)
  BY DEF DownloadInv, Stream
<1>7. Receives(made', value', transfer', got', p)
  <2>1. transfer' = transfer /\ got' = got
    BY DEF NewData
  <2>2. \A t, g : Receives(made, value, t, g, p) => Receives(made', value', t, g, p)
    BY <1>4
  <2> QED BY <2>1, <2>2, <1>6
<1>8. Writes(made', value', Connection, p)
  <2>1. PICK q \in Points : Leads(Steps(made, value), Connection.wire, p, q)
                            /\ Sends(made, value, Connection.sender, q)
    BY <1>6 DEF Writes
  <2> QED BY <1>4, <2>1, LeadsMore DEF Writes
<1>9. sent \in Connections /\ Writes(made', value', sent, p)
  <2>1. sent = SetClipboard(Connection, id, value'[id], Chunks(made', value'[id]))
    BY <1>4
  <2> HIDE DEF sent
  <2> QED BY <2>1, <1>1, <1>4, <1>8, SetClipboardWrites
<1>10. Connection' \in Connections /\ Writes(made', value', Connection', p)
  <2>1. CASE active
    <3>1. Connection' = [wire |-> sent.wire, sender |-> sent.sender]
      BY <2>1 DEF NewData, Connection
    <3>2. Connection' = sent
      BY <3>1, <1>9 DEF Connections
    <3> QED BY <3>2, <1>9
  <2>2. CASE ~ active
    <3>1. Connection' = Connection
      BY <2>2 DEF NewData, Connection
    <3> QED BY <3>1, <1>1, <1>8
  <2> QED BY <2>1, <2>2
<1>11. Stream(made, value, transfer, got, Connection)'
  BY <1>7, <1>10 DEF Stream
<1>12. sender' \in Senders /\ wire' \in Seq(Message)
  BY <1>10 DEF Connection, Connections
<1>13. dirty' \subseteq Ids
  BY <1>1 DEF NewData, TypeInv
<1>14. TypeInv'
  BY <1>1, <1>2, <1>4, <1>5, <1>12, <1>13 DEF TypeInv, NewData
<1> QED BY <1>4, <1>11, <1>14 DEF DownloadInv

LEMMA LeaveKeeps ==
  DownloadInv /\ Leave => DownloadInv'
<1> SUFFICES ASSUME DownloadInv, Leave PROVE DownloadInv'
  OBVIOUS
<1>1. Connection' = Connection
  BY DEF Leave, Connection
<1>2. TypeInv'
  BY DEF DownloadInv, TypeInv, Leave
<1>3. Stream(made, value, transfer, got, Connection)'
  BY <1>1 DEF DownloadInv, Stream, Leave
<1>4. (\A id \in Ids : MadeFor(made, id, value[id]))'
  BY DEF DownloadInv, Leave
<1> QED BY <1>2, <1>3, <1>4 DEF DownloadInv

LEMMA ReconnectKeeps ==
  DownloadInv /\ Reconnect => DownloadInv'
<1> SUFFICES ASSUME DownloadInv, Reconnect PROVE DownloadInv'
  OBVIOUS
<1>1. TypeInv /\ got \in Values /\ value \in Values
  BY DEF DownloadInv, TypeInv
<1> DEFINE p == [open |-> FALSE, id |-> 0, sent |-> 0, latest |-> got]
<1>2. p \in Points
  BY <1>1 DEF Points
<1>3. \A id \in Ids : got[id] <= value[id] /\ got[id] <= got[id]
  <2>1. PICK x \in Points : Receives(made, value, transfer, got, x)
    BY DEF DownloadInv, Stream
  <2>2. \A id \in Ids : got[id] <= x.latest[id] /\ x.latest[id] <= value[id]
    BY <2>1 DEF Receives
  <2>3. \A id \in Ids : got[id] \in Nat /\ x.latest[id] \in Nat /\ value[id] \in Nat
    BY <1>1 DEF Points, Values, Numbers
  <2> QED BY <2>2, <2>3
<1>4. UNCHANGED <<made, value, got, enters>> /\ transfer' = NoTransfer
      /\ wire' = <<>> /\ sender' = NoSender /\ dirty' = Ids /\ active' = FALSE
      /\ breaks' = breaks + 1 /\ breaks < MaxBreaks
  BY DEF Reconnect
<1>5. Receives(made', value', transfer', got', p)
  BY <1>3, <1>4 DEF Receives, NoTransfer
<1>6. Writes(made', value', Connection', p)
  <2>1. Connection'.wire = <<>> /\ Connection'.sender = NoSender
    BY <1>4 DEF Connection
  <2>2. Sends(made', value', NoSender, p)
    BY <1>3, <1>4 DEF Sends, NoSender
  <2> HIDE DEF p
  <2> QED BY <2>1, <2>2, <1>2, LeadsEmpty DEF Writes
<1>7. Stream(made, value, transfer, got, Connection)'
  BY <1>2, <1>5, <1>6 DEF Stream
<1>8. TypeInv'
  <2>1. NoTransfer \in Transfers /\ NoTransfer.received <= NoTransfer.expected
    <3>1. <<>> \in Seq(Numbers \X Nat)
      OBVIOUS
    <3> QED BY <3>1 DEF NoTransfer, Transfers
  <2>2. NoSender \in Senders /\ <<>> \in Seq(Message)
    BY DownloadAssumption DEF NoSender, Senders, Numbers
  <2>3. breaks' \in 0 .. MaxBreaks
    BY <1>1, <1>4, DownloadAssumption DEF TypeInv
  <2> QED BY <1>1, <1>4, <2>1, <2>2, <2>3 DEF TypeInv
<1>9. (\A id \in Ids : MadeFor(made, id, value[id]))'
  BY <1>4 DEF DownloadInv
<1> QED BY <1>7, <1>8, <1>9 DEF DownloadInv

\* What the client takes from the wire: the next message is sound, and what
\* it leads to.
LEMMA Taking ==
  ASSUME DownloadInv, wire # <<>>
  PROVE  LET m == Head(wire)
         IN  /\ Sound(made, transfer, m) /\ Delivers(made, got, Taken(transfer, got, m))
             /\ Taken(transfer, got, m) \in Values
             /\ After(transfer, m) \in Transfers
             /\ After(transfer, m).received <= After(transfer, m).expected
             /\ Tail(wire) \in Seq(Message)
             /\ Stream(made, value, After(transfer, m), Taken(transfer, got, m),
                       [wire |-> Tail(wire), sender |-> sender])
<1> DEFINE m == Head(wire)
           rest == [wire |-> Tail(wire), sender |-> sender]
<1>1. /\ made \in Contents /\ value \in Values /\ transfer \in Transfers /\ got \in Values
      /\ wire \in Seq(Message) /\ transfer.received <= transfer.expected
  BY DEF DownloadInv, TypeInv
<1>2. PICK p \in Points : Receives(made, value, transfer, got, p)
                          /\ Writes(made, value, Connection, p)
  BY DEF DownloadInv, Stream
<1>3. PICK q \in Points : Leads(Steps(made, value), wire, p, q)
                          /\ Sends(made, value, sender, q)
  BY <1>2 DEF Writes, Connection
<1>4. PICK x : <<p, m, x>> \in Steps(made, value) /\ Leads(Steps(made, value), Tail(wire), x, q)
  BY <1>1, <1>3, LeadsHead
<1>5. x \in Points /\ Tail(wire) \in Seq(Message)
  BY <1>1, <1>4, HeadTail DEF Steps
<1> HIDE DEF m
<1>6. /\ Sound(made, transfer, m) /\ Delivers(made, got, Taken(transfer, got, m))
      /\ Taken(transfer, got, m) \in Values
      /\ After(transfer, m) \in Transfers
      /\ After(transfer, m).received <= After(transfer, m).expected
      /\ Receives(made, value, After(transfer, m), Taken(transfer, got, m), x)
  BY <1>1, <1>2, <1>4, MessageTaken
<1>7. rest.wire = Tail(wire) /\ rest.sender = sender
  OBVIOUS
<1> HIDE DEF rest
<1>8. Writes(made, value, rest, x)
  BY <1>3, <1>4, <1>7 DEF Writes
<1>9. Stream(made, value, After(transfer, m), Taken(transfer, got, m), rest)
  BY <1>5, <1>6, <1>8 DEF Stream
<1> QED BY <1>5, <1>6, <1>9 DEF m, rest

LEMMA ReceiveKeeps ==
  DownloadInv /\ Receive => DownloadInv' /\ Delivers(made, got, got')
<1> SUFFICES ASSUME DownloadInv, Receive PROVE DownloadInv' /\ Delivers(made, got, got')
  OBVIOUS
<1> DEFINE m == Head(wire)
<1>1. /\ wire # <<>> /\ wire' = Tail(wire)
      /\ transfer' = After(transfer, m) /\ got' = Taken(transfer, got, m)
      /\ UNCHANGED <<made, value, dirty, active, sender, enters, breaks>>
  BY DEF Receive, After, Taken
<1>2. Connection' = [wire |-> Tail(wire), sender |-> sender]
  BY <1>1 DEF Connection
<1>3. /\ Delivers(made, got, Taken(transfer, got, m))
      /\ Taken(transfer, got, m) \in Values
      /\ After(transfer, m) \in Transfers
      /\ After(transfer, m).received <= After(transfer, m).expected
      /\ Tail(wire) \in Seq(Message)
      /\ Stream(made, value, After(transfer, m), Taken(transfer, got, m),
                [wire |-> Tail(wire), sender |-> sender])
  BY <1>1, Taking
<1>4. Stream(made', value', transfer', got', Connection')
  BY <1>1, <1>2, <1>3
<1>5. TypeInv'
  BY <1>1, <1>3 DEF DownloadInv, TypeInv
<1>6. (\A id \in Ids : MadeFor(made, id, value[id]))'
  BY <1>1 DEF DownloadInv
<1> QED BY <1>1, <1>3, <1>4, <1>5, <1>6 DEF DownloadInv

LEMMA NextKeeps ==
  DownloadInv /\ [Next]_vars => DownloadInv'
<1> SUFFICES ASSUME DownloadInv, [Next]_vars PROVE DownloadInv'
  OBVIOUS
<1>1. CASE \E id \in Ids, size \in Sizes : NewData(id, size)
  BY <1>1, NewDataKeeps
<1>2. CASE Enter
  BY <1>2, EnterKeeps
<1>3. CASE Leave
  BY <1>3, LeaveKeeps
<1>4. CASE Tick
  BY <1>4, TickKeeps
<1>5. CASE Receive
  BY <1>5, ReceiveKeeps
<1>6. CASE Reconnect
  BY <1>6, ReconnectKeeps
<1>7. CASE UNCHANGED vars
  <2>1. Connection' = Connection
    BY <1>7 DEF vars, Connection
  <2> QED BY <1>7, <2>1 DEF vars, DownloadInv, TypeInv, Stream
<1> QED BY <1>1, <1>2, <1>3, <1>4, <1>5, <1>6, <1>7 DEF Next

-----------------------------------------------------------------------------
(* The theorems *)

\* At every moment the messages on the wire lead from what the client has
\* assembled to what the server's sender goes on with.
THEOREM DownloadInvariant == Spec => []DownloadInv
<1>1. Init => DownloadInv
  BY InitHolds
<1>2. DownloadInv /\ [Next]_vars => DownloadInv'
  BY NextKeeps
<1> QED BY <1>1, <1>2, PTL DEF Spec

\* The state of a download has its types: a sender with turns left has chunks
\* left, and the client never counts more than it expects.
THEOREM DownloadTypes == Spec => []TypeOK
<1>1. DownloadInv => TypeOK
  <2> SUFFICES ASSUME DownloadInv PROVE TypeOK
    OBVIOUS
  <2>1. PICK q : Sends(made, value, sender, q)
    BY DEF DownloadInv, Stream, Writes, Connection
  <2>2. sender.active => sender.id \in Ids /\ sender.offset < sender.size
    BY <2>1 DEF Sends
  <2> QED BY <2>2 DEF DownloadInv, TypeInv, TypeOK, Contents, Values, Senders, Transfers
<1> QED BY <1>1, DownloadInvariant, PTL

\* However the clipboards change, the cursor comes and goes and transfers
\* cancel each other, the client finds no transfer corrupt and takes only
\* whole contents.
THEOREM NeverCorruptAlways == Spec => []NeverCorrupt
<1>1. DownloadInv => NeverCorrupt
  <2> SUFFICES ASSUME DownloadInv, wire # <<>>
               PROVE  LET m == Head(wire)
                          a == Assemble(transfer, m, Limit, TRUE)
                      IN  /\ a.result # "Error"
                          /\ a.result = "Finished" =>
                                 Whole(a.next.cache, m.content, SizeOf(m.content))
    BY DEF NeverCorrupt
  <2>1. Sound(made, transfer, Head(wire))
    BY Taking
  <2> QED BY <2>1, SizeOfIsChunks DEF Sound
<1> QED BY <1>1, DownloadInvariant, PTL

\* The clipboards of the contents, as the delivery sees them.
LEMMA MadeIds ==
  ASSUME NEW md \in Contents
  PROVE  LET ids == [c \in DOMAIN md |-> md[c].id]
         IN  /\ ids \in Seq(Ids) /\ DOMAIN ids = DOMAIN md /\ DOMAIN ids = 1 .. Len(ids)
             /\ \A r \in [id : Ids, size : Sizes] :
                    [c \in DOMAIN Append(md, r) |-> Append(md, r)[c].id] = Append(ids, r.id)
<1> DEFINE n == Len(md)
           ids == [c \in DOMAIN md |-> md[c].id]
<1>1. md \in Seq([id : Ids, size : Sizes]) /\ n \in Nat /\ DOMAIN md = 1 .. n
  BY LenProperties DEF Contents
<1>2. \A c \in 1 .. n : md[c].id \in Ids
  <2> TAKE c \in 1 .. n
  <2>1. md[c] \in [id : Ids, size : Sizes]
    BY <1>1, ElementOfSeq
  <2> QED BY <2>1
<1> HIDE DEF n
<1>3. ids \in [1 .. n -> Ids]
  BY <1>1, <1>2
<1>4. ids \in Seq(Ids) /\ DOMAIN ids = DOMAIN md /\ Len(ids) = n
  BY <1>1, <1>3
<1>5. ASSUME NEW r \in [id : Ids, size : Sizes]
      PROVE  [c \in DOMAIN Append(md, r) |-> Append(md, r)[c].id] = Append(ids, r.id)
  <2>1. /\ DOMAIN Append(md, r) = 1 .. n + 1 /\ Append(md, r)[n + 1] = r
        /\ \A c \in 1 .. n : Append(md, r)[c] = md[c]
    BY <1>1 DEF n
  <2>2. /\ DOMAIN Append(ids, r.id) = 1 .. n + 1 /\ Append(ids, r.id)[n + 1] = r.id
        /\ \A c \in 1 .. n : Append(ids, r.id)[c] = ids[c]
        /\ Append(ids, r.id) = [c \in 1 .. n + 1 |-> Append(ids, r.id)[c]]
    <3> HIDE DEF ids
    <3> QED BY <1>1, <1>4
  <2>3. \A c \in 1 .. n + 1 : Append(md, r)[c].id = Append(ids, r.id)[c]
    <3> TAKE c \in 1 .. n + 1
    <3>1. CASE c = n + 1
      BY <2>1, <2>2, <3>1
    <3>2. CASE c # n + 1
      <4>1. c \in 1 .. n
        BY <1>1, <3>2
      <4>2. ids[c] = md[c].id
        BY <1>1, <4>1
      <4> QED BY <2>1, <2>2, <4>1, <4>2
    <3> QED BY <3>1, <3>2
  <2> QED BY <2>1, <2>2, <2>3
<1> QED BY <1>1, <1>4, <1>5

\* A step of the transfers makes a content, delivers one, or is none of the
\* delivery's business.
LEMMA StepDelivers ==
  DownloadInv /\ [Next]_vars
    => [Delivery!Next]_<<[c \in DOMAIN made |-> made[c].id], got>>
<1> DEFINE ids == [c \in DOMAIN made |-> made[c].id]
           changed == [Delivery!Next]_<<ids, got>>
<1> SUFFICES ASSUME DownloadInv, [Next]_vars PROVE changed
  OBVIOUS
<1>1. made \in Contents
  BY DEF DownloadInv, TypeInv
<1>2. ASSUME NEW id \in Ids, NEW size \in Sizes, NewData(id, size) PROVE changed
  <2> DEFINE r == [id |-> id, size |-> size]
  <2>1. made' = Append(made, r) /\ got' = got /\ r \in [id : Ids, size : Sizes] /\ r.id = id
    BY <1>2 DEF NewData
  <2> HIDE DEF r
  <2>5. ids' = Append(ids, id)
    BY <1>1, <2>1, MadeIds
  <2>6. Delivery!Make(id)
    BY <2>1, <2>5 DEF Delivery!Make, ids
  <2> QED BY <2>6 DEF Delivery!Next, ids
<1>3. CASE Receive
  <2>1. Delivers(made, got, got') /\ made' = made
    BY <1>3, ReceiveKeeps DEF Receive
  <2>2. ids' = ids
    BY <2>1
  <2>3. CASE got' = got
    BY <2>2, <2>3
  <2>4. ASSUME NEW id \in Ids, NEW c \in Numbers, MadeFor(made, id, c), got[id] <= c,
               got' = [got EXCEPT ![id] = c]
        PROVE  changed
    <3>1. got \in Values
      BY DEF DownloadInv, TypeInv
    <3>2. CASE c = 0
      <4>1. got[id] = 0
        BY <2>4, <3>1, <3>2 DEF Values, Numbers
      <4>2. got' = got
        BY <2>4, <3>1, <3>2, <4>1 DEF Values
      <4> QED BY <2>2, <4>2
    <3>3. CASE c # 0
      <4>1. c \in DOMAIN made /\ made[c].id = id
        BY <2>4, <3>3 DEF MadeFor
      <4>2. ids[c] = id /\ c \in 1 .. Len(ids)
        BY <1>1, <4>1, MadeIds
      <4>3. Delivery!Deliver(id)
        BY <2>2, <2>4, <4>2 DEF Delivery!Deliver
      <4> QED BY <4>3 DEF Delivery!Next
    <3> QED BY <3>2, <3>3
  <2> QED BY <2>1, <2>3, <2>4 DEF Delivers
<1>4. ASSUME UNCHANGED <<made, got>> PROVE changed
  BY <1>4
<1>5. CASE Enter \/ Leave \/ Tick \/ Reconnect \/ UNCHANGED vars
  BY <1>4, <1>5 DEF Enter, Leave, Tick, Reconnect, vars
<1> QED BY <1>2, <1>3, <1>5 DEF Next

\* What the client gets is whole contents of the right clipboards, in order:
\* the transfers implement the delivery.
THEOREM DownloadDelivers == Spec => DeliverySpec
<1>1. Init => Delivery!Init
  <2> SUFFICES ASSUME Init PROVE Delivery!Init
    OBVIOUS
  <2>1. [c \in DOMAIN made |-> made[c].id] = <<>>
    BY DEF Init
  <2> QED BY <2>1 DEF Init, Delivery!Init
<1>2. DownloadInv /\ [Next]_vars
        => [Delivery!Next]_<<[c \in DOMAIN made |-> made[c].id], got>>
  BY StepDelivers
<1> QED BY <1>1, <1>2, DownloadInvariant, PTL DEF Spec, DeliverySpec, Delivery!Spec
=============================================================================
