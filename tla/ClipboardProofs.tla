--------------------------- MODULE ClipboardProofs ---------------------------
(***************************************************************************)
(* Proofs about Clipboard: its types, where copies above the limit are     *)
(* found, that accepted data comes from the owner and is not older, what   *)
(* the active screen has, and that the owner and the claims agree.         *)
(***************************************************************************)
EXTENDS Clipboard, QueuesProofs

-----------------------------------------------------------------------------
(* Types: no message carries a copy above the limit, and no clipboard of    *)
(* the server but the content it records                                   *)

Small(k) == (0 .. k) \ Oversized
SmallDown(k) == [type : {"enter"}, seq : SeqNums]
                \cup [type : {"leave", "grab"}]
                \cup [type : {"data"}, content : Small(k)]
SmallUp(k) == [type : {"grab"}, seq : SeqNums]
              \cup [type : {"data"}, content : Small(k), seq : SeqNums]
SmallUpload(k) == [content : Small(k), seq : SeqNums] \cup {NoUpload}
SmallInfo(k) == [owner : Screens, seqNum : SeqNums, content : 0 .. k, data : Small(k)]

\* Only a client's proxy has data to offer.
Event == [type : {"grabbed"}, from : Screens, seq : SeqNums]
         \cup [type : {"changed"}, from : Clients, seq : SeqNums]

ServerTypes ==
  /\ m_active \in connected \cup {Primary}
  /\ m_seqNum \in SeqNums /\ primarySeq \in SeqNums
  /\ clipboard \in SmallInfo(copies)
  /\ dirty \subseteq Screens
  /\ connected \subseteq Clients
  /\ proxyClip \in [Clients -> Small(copies)]
  /\ events \in Seq(Event)
  /\ down \in [Clients -> Seq(SmallDown(copies))]
  /\ downSender \in [Clients -> Small(copies) \cup {Nothing}]

ClientTypes ==
  /\ up \in [Clients -> Seq(SmallUp(copies))]
  /\ upSender \in [Clients -> SmallUpload(copies)]
  /\ clientActive \in [Clients -> BOOLEAN]
  /\ clientSeq \in [Clients -> SeqNums]
  /\ own \in [Clients -> BOOLEAN] /\ sent \in [Clients -> BOOLEAN]
  /\ dataSent \in [Clients -> Contents \cup {Nothing}]
  /\ grabbed \in [Clients -> 0 .. copies]
  /\ system \in [Screens -> 0 .. copies]
  /\ copies \in 0 .. MaxCopies
  /\ drops \in 0 .. MaxDrops

SizeInv == ServerTypes /\ ClientTypes /\ OversizedStays

\* The constants: a transfer is none of the contents, and Empty is small.
LEMMA ConstantFacts ==
  /\ Primary \in Screens /\ Clients \subseteq Screens /\ Primary \notin Clients
  /\ \A s \in Screens : s # Primary => s \in Clients
  /\ MaxCopies \in Nat /\ MaxSwitches \in Nat /\ MaxDrops \in Nat
  /\ 0 \in SeqNums /\ Empty = 0 /\ Contents = 0 .. MaxCopies /\ Empty \notin Oversized
  /\ Nothing \notin Contents /\ Nothing \notin Oversized /\ Nothing \notin Paced
  /\ Contents \subseteq Nat /\ SeqNums \subseteq Nat
BY ClipboardAssumption DEF Screens, Empty, Contents, SeqNums, Nothing

LEMMA SmallFacts ==
  ASSUME NEW k \in 0 .. MaxCopies
  PROVE  /\ Empty \in Small(k) /\ Small(k) \subseteq 0 .. k /\ 0 .. k \subseteq Contents
         /\ k \in Nat /\ Nothing \notin Small(k)
         /\ \A v \in Small(k) : v \notin Oversized /\ v # Nothing
         /\ \A v \in 0 .. k : v \notin Oversized => v \in Small(k)
BY ConstantFacts DEF Small

\* A copy more: what had its type still has it.
LEMMA SmallGrows ==
  ASSUME NEW k \in Nat
  PROVE  /\ Small(k) \subseteq Small(k + 1) /\ 0 .. k \subseteq 0 .. k + 1
         /\ Seq(SmallDown(k)) \subseteq Seq(SmallDown(k + 1))
         /\ Seq(SmallUp(k)) \subseteq Seq(SmallUp(k + 1))
         /\ SmallUpload(k) \subseteq SmallUpload(k + 1)
         /\ SmallInfo(k) \subseteq SmallInfo(k + 1)
<1>1. Small(k) \subseteq Small(k + 1) /\ 0 .. k \subseteq 0 .. k + 1
  BY DEF Small
<1>2. SmallDown(k) \subseteq SmallDown(k + 1)
  BY <1>1 DEF SmallDown
<1>3. SmallUp(k) \subseteq SmallUp(k + 1)
  BY <1>1 DEF SmallUp
<1>4. /\ SmallUpload(k) \subseteq SmallUpload(k + 1)
      /\ SmallInfo(k) \subseteq SmallInfo(k + 1)
  BY <1>1 DEF SmallUpload, SmallInfo
<1> QED BY <1>1, <1>2, <1>3, <1>4, SeqDef

\* What Give leaves.
LEMMA GiveTypes ==
  ASSUME ServerTypes, NEW dst, NEW v \in Small(copies) \cup {Nothing},
         NEW msgs \in [Clients -> Seq(SmallDown(copies))], Give(dst, v, msgs)
  PROVE  /\ down' \in [Clients -> Seq(SmallDown(copies))]
         /\ downSender' \in [Clients -> Small(copies) \cup {Nothing}]
         /\ proxyClip' \in [Clients -> Small(copies)]
<1> DEFINE given(c) == c = dst /\ v # Nothing
           tail(c) == IF given(c) /\ v \notin Paced
                      THEN <<[type |-> "data", content |-> v]>> ELSE <<>>
<1>1. /\ down' = [c \in Clients |-> down[c] \o msgs[c] \o tail(c)]
      /\ downSender' = [c \in Clients |->
               IF given(c) THEN IF v \in Paced THEN v ELSE Nothing ELSE downSender[c]]
      /\ proxyClip' = [c \in Clients |-> IF given(c) THEN v ELSE proxyClip[c]]
  BY DEF Give
<1>2. /\ down \in [Clients -> Seq(SmallDown(copies))] /\ proxyClip \in [Clients -> Small(copies)]
      /\ downSender \in [Clients -> Small(copies) \cup {Nothing}]
  BY DEF ServerTypes
<1>3. \A c \in Clients : tail(c) \in Seq(SmallDown(copies))
  <2> TAKE c \in Clients
  <2>1. CASE given(c) /\ v \notin Paced
    <3>1. [type |-> "data", content |-> v] \in SmallDown(copies)
      BY <2>1 DEF SmallDown
    <3> QED BY <2>1, <3>1
  <2>2. CASE ~ (given(c) /\ v \notin Paced)
    BY <2>2
  <2> QED BY <2>1, <2>2
<1> HIDE DEF tail
<1>4. \A c \in Clients : down[c] \o msgs[c] \o tail(c) \in Seq(SmallDown(copies))
  BY <1>2, <1>3, ConcatProperties
<1>5. \A c \in Clients : given(c) => v \in Small(copies)
  OBVIOUS
<1> QED BY <1>1, <1>2, <1>4, <1>5

\* The number of copies made so far is one of the contents.
LEMMA Copies ==
  ASSUME ClientTypes
  PROVE  /\ copies \in 0 .. MaxCopies /\ copies \in Nat
         /\ Empty \in Small(copies) /\ Small(copies) \subseteq 0 .. copies
         /\ 0 .. copies \subseteq Contents /\ Empty \in 0 .. copies
         /\ \A v \in Small(copies) : v \notin Oversized /\ v # Nothing
         /\ \A v \in 0 .. copies : v \notin Oversized => v \in Small(copies)
<1>1. copies \in 0 .. MaxCopies
  BY DEF ClientTypes
<1> QED BY <1>1, SmallFacts

\* The record after an update.
LEMMA ChangedType ==
  ASSUME NEW k \in 0 .. MaxCopies, NEW cb \in SmallInfo(k), NEW seq \in SeqNums,
         NEW v \in 0 .. k
  PROVE  /\ Changed(cb, seq, v) \in SmallInfo(k)
         /\ Changed(cb, seq, v).owner = cb.owner
         /\ Changed(cb, seq, v).seqNum = cb.seqNum
         /\ Accepted(cb, seq, v) =>
                /\ Changed(cb, seq, v).content = v /\ Changed(cb, seq, v).data = v
                /\ v \in Small(k)
         /\ Changed(cb, seq, v).data \in {cb.data, v}
         /\ ~ Accepted(cb, seq, v) => Changed(cb, seq, v).data = cb.data
<1>1. cb.seqNum \in Nat /\ seq \in Nat
  BY ConstantFacts DEF SmallInfo
<1>2. CASE seq < cb.seqNum
  <2>1. Changed(cb, seq, v) = cb /\ ~ Accepted(cb, seq, v)
    BY <1>1, <1>2 DEF Changed, Accepted
  <2> QED BY <2>1
<1>3. CASE ~ (seq < cb.seqNum) /\ v \in Oversized
  <2>1. Changed(cb, seq, v) = [cb EXCEPT !.content = v] /\ ~ Accepted(cb, seq, v)
    BY <1>1, <1>3 DEF Changed, Accepted
  <2> QED BY <2>1 DEF SmallInfo
<1>4. CASE ~ (seq < cb.seqNum) /\ v \notin Oversized
  <2>1. Changed(cb, seq, v) = [cb EXCEPT !.content = v, !.data = v]
    BY <1>1, <1>4 DEF Changed
  <2>2. seq >= cb.seqNum
    BY <1>1, <1>4
  <2>3. v \in Small(k)
    BY <1>4, SmallFacts
  <2>4. /\ Changed(cb, seq, v) \in SmallInfo(k)
        /\ Changed(cb, seq, v).owner = cb.owner
        /\ Changed(cb, seq, v).seqNum = cb.seqNum
        /\ Changed(cb, seq, v).content = v /\ Changed(cb, seq, v).data = v
    BY <2>1, <2>3 DEF SmallInfo
  <2> QED BY <1>4, <2>2, <2>3, <2>4 DEF Accepted
<1> QED BY <1>2, <1>3, <1>4

LEMMA SizeInit == Init => SizeInv
<1> SUFFICES ASSUME Init PROVE SizeInv
  OBVIOUS
<1>1. copies = 0 /\ 0 \in Small(0) /\ 0 \in 0 .. 0 /\ 0 \in 0 .. MaxCopies /\ 0 \in 0 .. MaxDrops
      /\ Empty = 0 /\ 0 \notin Oversized
  BY ConstantFacts DEF Init, Small
<1>2. ServerTypes
  BY <1>1, ConstantFacts DEF Init, ServerTypes, SmallInfo
<1>3. ClientTypes
  BY <1>1, ConstantFacts DEF Init, ClientTypes, SmallUpload
<1>4. OversizedStays
  <2>1. \A s \in Screens : system[s] = 0
    BY <1>1 DEF Init
  <2> QED BY <1>1, <2>1 DEF OversizedStays
<1> QED BY <1>2, <1>3, <1>4 DEF SizeInv

\* A screen that is given a small content has no copy above the limit.
LEMMA GivenScreen ==
  ASSUME SizeInv, NEW s \in Screens, NEW v \in Small(copies),
         system' = [system EXCEPT ![s] = v], UNCHANGED copies
  PROVE  OversizedStays' /\ system' \in [Screens -> 0 .. copies]
<1>1. system \in [Screens -> 0 .. copies] /\ v \notin Oversized /\ v \in 0 .. copies
  BY Copies DEF SizeInv, ClientTypes
<1>2. \A t \in Screens : system'[t] = IF t = s THEN v ELSE system[t]
  BY <1>1
<1>3. OversizedStays'
  BY <1>1, <1>2 DEF SizeInv, OversizedStays
<1> QED BY <1>1, <1>3

LEMMA SameScreens ==
  ASSUME SizeInv, UNCHANGED <<system, copies>>
  PROVE  OversizedStays' /\ system' \in [Screens -> 0 .. copies]
BY DEF SizeInv, OversizedStays, ClientTypes

\* handleClipboardGrabbed.
LEMMA SizeGrabbed ==
  ASSUME SizeInv, NEW from \in Screens, NEW seq \in SeqNums, HandleGrabbed(from, seq),
         UNCHANGED copies
  PROVE  /\ clipboard' \in SmallInfo(copies)
         /\ dirty' \subseteq Screens
         /\ down' \in [Clients -> Seq(SmallDown(copies))]
         /\ downSender' \in [Clients -> Small(copies) \cup {Nothing}]
         /\ proxyClip' \in [Clients -> Small(copies)]
         /\ OversizedStays' /\ system' \in [Screens -> 0 .. copies]
<1> DEFINE cleared == [owner |-> from, seqNum |-> seq, content |-> Empty, data |-> Empty]
           v == system[Primary]
           away == from = Primary /\ m_active # Primary
           resend == away /\ Accepted(cleared, seq, v)
           others == (connected \cup {Primary}) \ {from}
           msgs == [c \in Clients |-> IF c \in connected \ {from}
                                      THEN <<[type |-> "grab"]>> ELSE <<>>]
<1>1. ServerTypes /\ ClientTypes /\ v \in 0 .. copies /\ connected \subseteq Screens
  BY ConstantFacts DEF SizeInv, ServerTypes, ClientTypes
<1>2. CASE from # Primary /\ seq < clipboard.seqNum
  <2>1. UNCHANGED <<clipboard, dirty, system, down, downSender, proxyClip>>
    BY <1>2 DEF HandleGrabbed
  <2> QED BY <2>1, <1>1, SameScreens DEF ServerTypes
<1>3. CASE ~ (from # Primary /\ seq < clipboard.seqNum)
  <2>1. /\ clipboard' = IF away THEN Changed(cleared, seq, v) ELSE cleared
        /\ dirty' = others \ (IF resend THEN {m_active} ELSE {})
        /\ system' = IF from = Primary THEN system ELSE [system EXCEPT ![Primary] = Empty]
        /\ Give(m_active, IF resend THEN v ELSE Nothing, msgs)
    BY <1>3 DEF HandleGrabbed
  <2>2. cleared \in SmallInfo(copies)
    BY <1>1, Copies DEF SmallInfo
  <2>3. msgs \in [Clients -> Seq(SmallDown(copies))]
    <3>1. [type |-> "grab"] \in SmallDown(copies)
      BY DEF SmallDown
    <3> QED BY <3>1
  <2> HIDE DEF cleared, msgs
  <2>4. /\ clipboard' \in SmallInfo(copies)
        /\ resend => v \in Small(copies)
    BY <2>1, <2>2, <1>1, ChangedType, Copies
  <2>5. /\ down' \in [Clients -> Seq(SmallDown(copies))]
        /\ downSender' \in [Clients -> Small(copies) \cup {Nothing}]
        /\ proxyClip' \in [Clients -> Small(copies)]
    BY <2>1, <2>3, <2>4, <1>1, GiveTypes
  <2>6. OversizedStays' /\ system' \in [Screens -> 0 .. copies]
    BY <2>1, <1>1, Copies, ConstantFacts, GivenScreen, SameScreens
  <2>7. dirty' \subseteq Screens
    BY <2>1, <1>1, ConstantFacts
  <2> QED BY <2>4, <2>5, <2>6, <2>7
<1> QED BY <1>2, <1>3

\* handleClipboardChanged.
LEMMA SizeChanged ==
  ASSUME SizeInv, NEW from \in Clients, NEW seq \in SeqNums, HandleChanged(from, seq),
         UNCHANGED copies
  PROVE  /\ clipboard' \in SmallInfo(copies)
         /\ dirty' \subseteq Screens
         /\ down' \in [Clients -> Seq(SmallDown(copies))]
         /\ downSender' \in [Clients -> Small(copies) \cup {Nothing}]
         /\ proxyClip' \in [Clients -> Small(copies)]
         /\ OversizedStays' /\ system' \in [Screens -> 0 .. copies]
<1> DEFINE v == proxyClip[from]
           accepted == Accepted(clipboard, seq, v)
           dst == IF accepted /\ m_active # from THEN {m_active} ELSE {}
           msgs == [c \in Clients |-> <<>>]
<1>1. ServerTypes /\ ClientTypes /\ v \in Small(copies) /\ v \in 0 .. copies
  BY Copies DEF SizeInv, ServerTypes
<1>2. /\ clipboard' = Changed(clipboard, seq, v)
      /\ dirty' = IF accepted THEN ((connected \cup {Primary}) \ {from}) \ dst ELSE dirty
      /\ system' = IF Primary \in dst THEN [system EXCEPT ![Primary] = v] ELSE system
      /\ Give(m_active, IF dst = {} THEN Nothing ELSE v, msgs)
  BY DEF HandleChanged
<1>3. msgs \in [Clients -> Seq(SmallDown(copies))]
  OBVIOUS
<1> HIDE DEF msgs
<1>4. clipboard' \in SmallInfo(copies)
  BY <1>1, <1>2, ChangedType, Copies DEF ServerTypes
<1>5. /\ down' \in [Clients -> Seq(SmallDown(copies))]
      /\ downSender' \in [Clients -> Small(copies) \cup {Nothing}]
      /\ proxyClip' \in [Clients -> Small(copies)]
  BY <1>1, <1>2, <1>3, GiveTypes
<1>6. OversizedStays' /\ system' \in [Screens -> 0 .. copies]
  BY <1>1, <1>2, Copies, ConstantFacts, GivenScreen, SameScreens
<1>7. dirty' \subseteq Screens
  BY <1>1, <1>2, ConstantFacts DEF ServerTypes
<1> QED BY <1>4, <1>5, <1>6, <1>7

\* switchScreen.
LEMMA SizeSwitch ==
  ASSUME SizeInv, NEW dst \in Screens, Switch(dst)
  PROVE  SizeInv'
<1> DEFINE seq == m_seqNum + 1
           publish == m_active = Primary /\ clipboard.owner = Primary
           v == system[Primary]
           cb == IF publish THEN Changed(clipboard, clipboard.seqNum, v) ELSE clipboard
           old == IF publish /\ Accepted(clipboard, clipboard.seqNum, v)
                  THEN connected ELSE dirty
           give == dst \in old /\ cb.content \notin Oversized
           w == IF give THEN cb.content ELSE Nothing
           msgs == [c \in Clients |-> CASE c = m_active -> <<[type |-> "leave"]>>
                             [] c = dst -> <<[type |-> "enter", seq |-> seq]>>
                             [] OTHER -> <<>>]
<1>1. /\ ServerTypes /\ ClientTypes /\ v \in 0 .. copies /\ connected \subseteq Screens
      /\ clipboard.seqNum \in SeqNums
  BY ConstantFacts DEF SizeInv, ServerTypes, ClientTypes, SmallInfo
<1>2. /\ dst \in connected \cup {Primary} /\ dst # m_active /\ m_seqNum < MaxSwitches
      /\ m_seqNum' = seq /\ m_active' = dst /\ clipboard' = cb
      /\ dirty' = IF give THEN old \ {dst} ELSE old
      /\ primarySeq' = IF dst = Primary THEN seq ELSE primarySeq
      /\ system' = IF give /\ dst = Primary
                   THEN [system EXCEPT ![Primary] = cb.content] ELSE system
      /\ Give(dst, w, msgs)
      /\ UNCHANGED <<connected, events, clientVars, up, upSender, copies, drops>>
  BY DEF Switch
<1>3. seq \in SeqNums
  BY <1>1, <1>2, ConstantFacts DEF ServerTypes, SeqNums
<1>4. msgs \in [Clients -> Seq(SmallDown(copies))]
  <2>1. [type |-> "leave"] \in SmallDown(copies) /\ [type |-> "enter", seq |-> seq] \in SmallDown(copies)
    BY <1>3 DEF SmallDown
  <2> HIDE DEF seq
  <2>2. ASSUME NEW c \in Clients PROVE msgs[c] \in Seq(SmallDown(copies))
    <3>1. CASE c = m_active
      BY <2>1, <3>1
    <3>2. CASE c # m_active /\ c = dst
      BY <2>1, <3>2
    <3>3. CASE c # m_active /\ c # dst
      BY <3>3
    <3> QED BY <3>1, <3>2, <3>3
  <2> QED BY <2>2
<1>5. cb \in SmallInfo(copies)
  BY <1>1, Copies, ChangedType DEF ServerTypes
<1> HIDE DEF seq, cb, msgs
<1>6. w \in Small(copies) \cup {Nothing} /\ (give => cb.content \in Small(copies))
  BY <1>1, <1>5, Copies DEF SmallInfo
<1>7. /\ down' \in [Clients -> Seq(SmallDown(copies))]
      /\ downSender' \in [Clients -> Small(copies) \cup {Nothing}]
      /\ proxyClip' \in [Clients -> Small(copies)]
  BY <1>1, <1>2, <1>4, <1>6, GiveTypes
<1>8. OversizedStays' /\ system' \in [Screens -> 0 .. copies]
  BY <1>1, <1>2, <1>6, ConstantFacts, GivenScreen, SameScreens
<1>9. dirty' \subseteq Screens
  BY <1>1, <1>2 DEF ServerTypes
<1>10. ServerTypes'
  BY <1>1, <1>2, <1>3, <1>5, <1>7, <1>9 DEF ServerTypes
<1>11. ClientTypes'
  BY <1>1, <1>2, <1>8 DEF ClientTypes, clientVars
<1> QED BY <1>8, <1>10, <1>11 DEF SizeInv

LEMMA SizeHandleEvent ==
  ASSUME SizeInv, HandleEvent
  PROVE  SizeInv'
<1> DEFINE e == Head(events)
<1>1. /\ events # <<>> /\ events' = Tail(events)
      /\ IF e.type = "grabbed" THEN HandleGrabbed(e.from, e.seq)
                               ELSE HandleChanged(e.from, e.seq)
      /\ UNCHANGED <<m_active, m_seqNum, primarySeq, connected, clientVars, up,
                     upSender, copies, drops>>
  BY DEF HandleEvent
<1>2. ServerTypes /\ ClientTypes
  BY DEF SizeInv
<1>3. e \in Event /\ events' \in Seq(Event)
  BY <1>1, <1>2, HeadTail DEF ServerTypes
<1>4. /\ clipboard' \in SmallInfo(copies)
      /\ dirty' \subseteq Screens
      /\ down' \in [Clients -> Seq(SmallDown(copies))]
      /\ downSender' \in [Clients -> Small(copies) \cup {Nothing}]
      /\ proxyClip' \in [Clients -> Small(copies)]
      /\ OversizedStays' /\ system' \in [Screens -> 0 .. copies]
  <2> HIDE DEF e
  <2>1. CASE e.type = "grabbed"
    <3>1. e.from \in Screens /\ e.seq \in SeqNums
      BY <1>3, ConstantFacts DEF Event
    <3> QED BY <1>1, <2>1, <3>1, SizeGrabbed
  <2>2. CASE e.type # "grabbed"
    <3>1. e.from \in Clients /\ e.seq \in SeqNums
      BY <1>3, <2>2 DEF Event
    <3> QED BY <1>1, <2>2, <3>1, SizeChanged
  <2> QED BY <2>1, <2>2
<1>5. ServerTypes'
  BY <1>1, <1>2, <1>3, <1>4 DEF ServerTypes
<1>6. ClientTypes'
  BY <1>1, <1>2, <1>4 DEF ClientTypes, clientVars
<1> QED BY <1>4, <1>5, <1>6 DEF SizeInv

LEMMA SizeReceiveUp ==
  ASSUME SizeInv, NEW c \in Clients, ReceiveUp(c)
  PROVE  SizeInv'
<1> DEFINE m == Head(up[c])
           e == [type |-> IF m.type = "grab" THEN "grabbed" ELSE "changed",
                 from |-> c, seq |-> m.seq]
<1>1. /\ up[c] # <<>> /\ up' = [up EXCEPT ![c] = Tail(@)]
      /\ proxyClip' = IF m.type = "data" THEN [proxyClip EXCEPT ![c] = m.content]
                      ELSE proxyClip
      /\ events' = Append(events, e)
      /\ UNCHANGED <<m_active, m_seqNum, clipboard, dirty, primarySeq, connected,
                     clientVars, down, downSender, upSender, system, copies, drops>>
  BY DEF ReceiveUp
<1>2. ServerTypes /\ ClientTypes
  BY DEF SizeInv
<1>3. m \in SmallUp(copies) /\ Tail(up[c]) \in Seq(SmallUp(copies))
  BY <1>1, <1>2, HeadTail DEF ClientTypes
<1>4. /\ e \in Event /\ (m.type = "data" => m.content \in Small(copies))
  BY <1>3, ConstantFacts DEF SmallUp, Event
<1> HIDE DEF m, e
<1>5. events' \in Seq(Event) /\ proxyClip' \in [Clients -> Small(copies)]
  BY <1>1, <1>2, <1>4, AppendOne DEF ServerTypes
<1>6. up' \in [Clients -> Seq(SmallUp(copies))]
  BY <1>1, <1>2, <1>3 DEF ClientTypes, m
<1>7. OversizedStays' /\ system' \in [Screens -> 0 .. copies]
  BY <1>1, SameScreens
<1>8. ServerTypes'
  BY <1>1, <1>2, <1>5 DEF ServerTypes
<1>9. ClientTypes'
  BY <1>1, <1>2, <1>6, <1>7 DEF ClientTypes, clientVars
<1> QED BY <1>7, <1>8, <1>9 DEF SizeInv

LEMMA SizeFinishDown ==
  ASSUME SizeInv, NEW c \in Clients, FinishDown(c)
  PROVE  SizeInv'
<1> DEFINE m == [type |-> "data", content |-> downSender[c]]
<1>1. /\ downSender[c] # Nothing /\ downSender' = [downSender EXCEPT ![c] = Nothing]
      /\ down' = [down EXCEPT ![c] = Append(@, m)]
      /\ UNCHANGED <<serverVars, clientVars, up, upSender, system, copies, drops>>
  BY DEF FinishDown
<1>2. ServerTypes /\ ClientTypes
  BY DEF SizeInv
<1>3. m \in SmallDown(copies)
  BY <1>1, <1>2 DEF ServerTypes, SmallDown
<1> HIDE DEF m
<1>4. /\ Append(down[c], m) \in Seq(SmallDown(copies))
  BY <1>2, <1>3, AppendOne DEF ServerTypes
<1>5. /\ down' \in [Clients -> Seq(SmallDown(copies))]
      /\ downSender' \in [Clients -> Small(copies) \cup {Nothing}]
  BY <1>1, <1>2, <1>4 DEF ServerTypes
<1>6. ServerTypes'
  BY <1>1, <1>2, <1>5 DEF ServerTypes, serverVars
<1>7. OversizedStays' /\ system' \in [Screens -> 0 .. copies]
  BY <1>1, SameScreens
<1>8. ClientTypes'
  BY <1>1, <1>2, <1>7 DEF ClientTypes, clientVars
<1> QED BY <1>6, <1>7, <1>8 DEF SizeInv

LEMMA SizeFinishUp ==
  ASSUME SizeInv, NEW c \in Clients, FinishUp(c)
  PROVE  SizeInv'
<1> DEFINE m == [type |-> "data", content |-> upSender[c].content,
                 seq |-> upSender[c].seq]
<1>1. /\ upSender[c] # NoUpload /\ upSender' = [upSender EXCEPT ![c] = NoUpload]
      /\ up' = [up EXCEPT ![c] = Append(@, m)]
      /\ UNCHANGED <<serverVars, clientVars, down, downSender, system, copies, drops>>
  BY DEF FinishUp
<1>2. ServerTypes /\ ClientTypes
  BY DEF SizeInv
<1>3. m \in SmallUp(copies)
  BY <1>1, <1>2 DEF ClientTypes, SmallUpload, SmallUp
<1> HIDE DEF m
<1>4. /\ Append(up[c], m) \in Seq(SmallUp(copies))
  BY <1>2, <1>3, AppendOne DEF ClientTypes
<1>5. up' \in [Clients -> Seq(SmallUp(copies))] /\ upSender' \in [Clients -> SmallUpload(copies)]
  BY <1>1, <1>2, <1>4 DEF ClientTypes, SmallUpload
<1>6. ServerTypes'
  BY <1>1, <1>2 DEF ServerTypes, serverVars
<1>7. OversizedStays' /\ system' \in [Screens -> 0 .. copies]
  BY <1>1, SameScreens
<1>8. ClientTypes'
  BY <1>1, <1>2, <1>5, <1>7 DEF ClientTypes, clientVars
<1> QED BY <1>6, <1>7, <1>8 DEF SizeInv

LEMMA SizeDrop ==
  ASSUME SizeInv, NEW c \in Clients, Drop(c)
  PROVE  SizeInv'
<1>1. /\ drops < MaxDrops /\ drops' = drops + 1 /\ connected' = connected \ {c}
      /\ events' = Kept(events, {e \in EventType : e.from # c})
      /\ m_active' = (IF m_active = c THEN Primary ELSE m_active)
      /\ primarySeq' = (IF m_active = c THEN m_seqNum ELSE primarySeq)
      /\ down' = [down EXCEPT ![c] = <<>>] /\ up' = [up EXCEPT ![c] = <<>>]
      /\ downSender' = [downSender EXCEPT ![c] = Nothing]
      /\ upSender' = [upSender EXCEPT ![c] = NoUpload]
      /\ grabbed' = [grabbed EXCEPT ![c] = 0]
      /\ UNCHANGED <<m_seqNum, clipboard, dirty, proxyClip, clientActive, clientSeq,
                     own, sent, dataSent, system, copies>>
  BY DEF Drop
<1>2. ServerTypes /\ ClientTypes
  BY DEF SizeInv
<1>3. events' \in Seq(Event)
  BY <1>1, <1>2, KeptType DEF ServerTypes
<1>4. /\ m_active' \in connected' \cup {Primary} /\ primarySeq' \in SeqNums
      /\ m_seqNum' \in SeqNums
  BY <1>1, <1>2 DEF ServerTypes
<1>5. /\ down' \in [Clients -> Seq(SmallDown(copies))] /\ up' \in [Clients -> Seq(SmallUp(copies))]
      /\ downSender' \in [Clients -> Small(copies) \cup {Nothing}]
      /\ upSender' \in [Clients -> SmallUpload(copies)]
  BY <1>1, <1>2 DEF ServerTypes, ClientTypes, SmallUpload
<1>6. drops' \in 0 .. MaxDrops /\ grabbed' \in [Clients -> 0 .. copies']
  BY <1>1, <1>2, ConstantFacts DEF ClientTypes
<1>7. OversizedStays' /\ system' \in [Screens -> 0 .. copies]
  BY <1>1, SameScreens
<1>8. ServerTypes'
  BY <1>1, <1>2, <1>3, <1>4, <1>5 DEF ServerTypes
<1>9. ClientTypes'
  BY <1>1, <1>2, <1>5, <1>6, <1>7 DEF ClientTypes
<1> QED BY <1>7, <1>8, <1>9 DEF SizeInv

\* A new copy is larger than every other.
LEMMA NewCopy ==
  ASSUME SizeInv, copies < MaxCopies, copies' = copies + 1, NEW s \in Screens,
         system' = [system EXCEPT ![s] = copies + 1]
  PROVE  /\ OversizedStays' /\ system' \in [Screens -> 0 .. copies + 1]
         /\ copies' \in 0 .. MaxCopies
<1>1. system \in [Screens -> 0 .. copies] /\ copies \in Nat /\ MaxCopies \in Nat
  BY ConstantFacts DEF SizeInv, ClientTypes
<1>2. \A t \in Screens : system'[t] = IF t = s THEN copies + 1 ELSE system[t]
  BY <1>1
<1>3. \A t \in Screens : system[t] # copies + 1 /\ system[t] \in 0 .. copies + 1
  BY <1>1
<1>4. OversizedStays'
  BY <1>2, <1>3 DEF SizeInv, OversizedStays
<1>5. system' = [t \in Screens |-> IF t = s THEN copies + 1 ELSE system[t]]
  BY <1>1
<1> QED BY <1>1, <1>3, <1>4, <1>5

LEMMA GrownTypes ==
  ASSUME ServerTypes, ClientTypes, copies' = copies + 1
  PROVE  /\ clipboard \in SmallInfo(copies') /\ proxyClip \in [Clients -> Small(copies')]
         /\ down \in [Clients -> Seq(SmallDown(copies'))]
         /\ downSender \in [Clients -> Small(copies') \cup {Nothing}]
         /\ up \in [Clients -> Seq(SmallUp(copies'))]
         /\ upSender \in [Clients -> SmallUpload(copies')]
         /\ grabbed \in [Clients -> 0 .. copies']
<1>1. /\ Small(copies) \subseteq Small(copies') /\ 0 .. copies \subseteq 0 .. copies'
      /\ Seq(SmallDown(copies)) \subseteq Seq(SmallDown(copies'))
      /\ Seq(SmallUp(copies)) \subseteq Seq(SmallUp(copies'))
      /\ SmallUpload(copies) \subseteq SmallUpload(copies')
      /\ SmallInfo(copies) \subseteq SmallInfo(copies')
  BY Copies, SmallGrows
<1>2. clipboard \in SmallInfo(copies') /\ proxyClip \in [Clients -> Small(copies')]
  BY <1>1 DEF ServerTypes
<1>3. /\ down \in [Clients -> Seq(SmallDown(copies'))]
      /\ downSender \in [Clients -> Small(copies') \cup {Nothing}]
  BY <1>1 DEF ServerTypes
<1>4. /\ up \in [Clients -> Seq(SmallUp(copies'))]
      /\ upSender \in [Clients -> SmallUpload(copies')]
      /\ grabbed \in [Clients -> 0 .. copies']
  BY <1>1 DEF ClientTypes
<1> QED BY <1>2, <1>3, <1>4

LEMMA SizeCopyOnPrimary ==
  ASSUME SizeInv, CopyOnPrimary
  PROVE  SizeInv'
<1> DEFINE e == [type |-> "grabbed", from |-> Primary, seq |-> primarySeq]
<1>1. /\ copies < MaxCopies /\ copies' = copies + 1
      /\ system' = [system EXCEPT ![Primary] = copies + 1]
      /\ events' = Append(events, e)
      /\ UNCHANGED <<m_active, m_seqNum, clipboard, dirty, primarySeq, connected,
                     proxyClip, clientVars, wireVars, drops>>
  BY DEF CopyOnPrimary
<1>2. ServerTypes /\ ClientTypes
  BY DEF SizeInv
<1>3. e \in Event
  BY <1>2, ConstantFacts DEF ServerTypes, Event
<1> HIDE DEF e
<1>4. events' \in Seq(Event)
  BY <1>1, <1>2, <1>3, AppendOne DEF ServerTypes
<1>5. /\ OversizedStays' /\ system' \in [Screens -> 0 .. copies']
      /\ copies' \in 0 .. MaxCopies
  BY <1>1, ConstantFacts, NewCopy
<1>6. /\ UNCHANGED <<m_active, m_seqNum, clipboard, dirty, primarySeq, connected, proxyClip>>
      /\ UNCHANGED <<down, up, downSender, upSender, drops>>
      /\ UNCHANGED <<clientActive, clientSeq, own, sent, dataSent, grabbed>>
  BY <1>1 DEF clientVars, wireVars
<1>7. ServerTypes'
  BY <1>1, <1>2, <1>4, <1>6, GrownTypes DEF ServerTypes
<1>8. ClientTypes'
  BY <1>1, <1>2, <1>5, <1>6, GrownTypes DEF ClientTypes
<1> QED BY <1>5, <1>7, <1>8 DEF SizeInv

LEMMA SizeCopyOnClient ==
  ASSUME SizeInv, NEW c \in Clients, CopyOnClient(c)
  PROVE  SizeInv'
<1>1. /\ copies < MaxCopies /\ copies' = copies + 1
      /\ system' = [system EXCEPT ![c] = copies + 1]
      /\ grabbed' = [grabbed EXCEPT ![c] = @ + 1]
      /\ UNCHANGED <<serverVars, clientActive, clientSeq, own, sent, dataSent, wireVars,
                     drops>>
  BY DEF CopyOnClient
<1>2. ServerTypes /\ ClientTypes
  BY DEF SizeInv
<1>3. /\ OversizedStays' /\ system' \in [Screens -> 0 .. copies']
      /\ copies' \in 0 .. MaxCopies
  BY <1>1, ConstantFacts, NewCopy
<1>4. ServerTypes'
  <2>1. UNCHANGED <<serverVars, down, downSender>>
    BY <1>1 DEF wireVars
  <2> QED BY <1>1, <1>2, <2>1, GrownTypes DEF ServerTypes, serverVars
<1>5. grabbed' \in [Clients -> 0 .. copies']
  <2>1. \A d \in Clients : grabbed[d] \in 0 .. copies /\ copies \in Nat
    BY <1>2 DEF ClientTypes
  <2>2. \A d \in Clients : grabbed'[d] = IF d = c THEN grabbed[d] + 1 ELSE grabbed[d]
    BY <1>1, <1>2 DEF ClientTypes
  <2>3. \A d \in Clients : grabbed'[d] \in 0 .. copies + 1
    BY <2>1, <2>2
  <2>4. grabbed' = [d \in Clients |-> grabbed'[d]]
    BY <1>1, <1>2 DEF ClientTypes
  <2> QED BY <1>1, <2>3, <2>4
<1>6. ClientTypes'
  BY <1>1, <1>2, <1>3, <1>5, GrownTypes DEF ClientTypes, wireVars
<1> QED BY <1>3, <1>4, <1>6 DEF SizeInv

\* sendClipboard.
LEMMA SendTypes ==
  ASSUME SizeInv, NEW c \in Clients, NEW msgs \in Seq(SmallUp(copies)), NEW cond \in BOOLEAN,
         NEW was \in BOOLEAN, Send(c, msgs, cond, was)
  PROVE  /\ sent' \in [Clients -> BOOLEAN] /\ dataSent' \in [Clients -> Contents \cup {Nothing}]
         /\ up' \in [Clients -> Seq(SmallUp(copies))]
         /\ upSender' \in [Clients -> SmallUpload(copies)]
<1> DEFINE v == system[c]
           sends == cond /\ v \notin Oversized /\ (~was \/ v # dataSent[c])
           data == [type |-> "data", content |-> v, seq |-> clientSeq[c]]
           tail == IF sends /\ v \notin Paced THEN <<data>> ELSE <<>>
<1>1. /\ sent' = [sent EXCEPT ![c] = was \/ sends]
      /\ dataSent' = [dataSent EXCEPT ![c] = IF sends THEN v ELSE @]
      /\ up' = [up EXCEPT ![c] = @ \o msgs \o tail]
      /\ upSender' = [upSender EXCEPT ![c] =
               IF ~sends THEN @
               ELSE IF v \in Paced THEN [content |-> v, seq |-> clientSeq[c]]
               ELSE NoUpload]
  BY DEF Send
<1>2. ClientTypes
  BY DEF SizeInv
<1>3. v \in 0 .. copies /\ v \in Contents /\ (sends => v \in Small(copies))
  BY <1>2, Copies, ConstantFacts DEF ClientTypes
<1> HIDE DEF v
<1>4. tail \in Seq(SmallUp(copies))
  <2>1. CASE sends
    <3>1. data \in SmallUp(copies)
      BY <1>2, <1>3, <2>1 DEF SmallUp, ClientTypes
    <3> QED BY <2>1, <3>1
  <2>2. CASE ~ sends
    BY <2>2
  <2> QED BY <2>1, <2>2
<1> HIDE DEF tail
<1>5. up[c] \o msgs \o tail \in Seq(SmallUp(copies))
  BY <1>2, <1>4, ConcatProperties DEF ClientTypes
<1>6. up' \in [Clients -> Seq(SmallUp(copies))]
  BY <1>1, <1>2, <1>5 DEF ClientTypes
<1>7. upSender' \in [Clients -> SmallUpload(copies)]
  BY <1>1, <1>2, <1>3 DEF ClientTypes, SmallUpload
<1>8. sent' \in [Clients -> BOOLEAN]
  BY <1>1, <1>2 DEF ClientTypes
<1>9. dataSent' \in [Clients -> Contents \cup {Nothing}]
  BY <1>1, <1>2, <1>3 DEF ClientTypes
<1> QED BY <1>6, <1>7, <1>8, <1>9

LEMMA SizeGrabOnClient ==
  ASSUME SizeInv, NEW c \in Clients, GrabOnClient(c)
  PROVE  SizeInv'
<1> DEFINE m == [type |-> "grab", seq |-> clientSeq[c]]
<1>1. /\ grabbed[c] # 0 /\ grabbed' = [grabbed EXCEPT ![c] = @ - 1]
      /\ own' = [own EXCEPT ![c] = TRUE]
      /\ Send(c, <<m>>, ~clientActive[c], FALSE)
      /\ UNCHANGED <<serverVars, clientActive, clientSeq, down, downSender, system,
                     copies, drops>>
  BY DEF GrabOnClient
<1>2. ServerTypes /\ ClientTypes
  BY DEF SizeInv
<1>3. m \in SmallUp(copies)
  BY <1>2 DEF SmallUp, ClientTypes
<1> HIDE DEF m
<1>4. <<m>> \in Seq(SmallUp(copies)) /\ (~clientActive[c]) \in BOOLEAN
  BY <1>3
<1>5. /\ sent' \in [Clients -> BOOLEAN] /\ dataSent' \in [Clients -> Contents \cup {Nothing}]
      /\ up' \in [Clients -> Seq(SmallUp(copies))]
      /\ upSender' \in [Clients -> SmallUpload(copies)]
  BY <1>1, <1>4, SendTypes
<1>6. grabbed' \in [Clients -> 0 .. copies'] /\ own' \in [Clients -> BOOLEAN]
  <2>1. \A d \in Clients : grabbed[d] \in 0 .. copies /\ copies \in Nat
    BY <1>2 DEF ClientTypes
  <2>2. \A d \in Clients : grabbed'[d] = IF d = c THEN grabbed[d] - 1 ELSE grabbed[d]
    BY <1>1, <1>2 DEF ClientTypes
  <2>3. \A d \in Clients : grabbed'[d] \in 0 .. copies
    BY <1>1, <2>1, <2>2
  <2>4. grabbed' = [d \in Clients |-> grabbed'[d]]
    BY <1>1, <1>2 DEF ClientTypes
  <2> QED BY <1>1, <1>2, <2>3, <2>4 DEF ClientTypes
<1>7. OversizedStays' /\ system' \in [Screens -> 0 .. copies]
  BY <1>1, SameScreens
<1>8. ServerTypes'
  BY <1>1, <1>2 DEF ServerTypes, serverVars
<1>9. ClientTypes'
  BY <1>1, <1>2, <1>5, <1>6, <1>7 DEF ClientTypes
<1> QED BY <1>7, <1>8, <1>9 DEF SizeInv

LEMMA SizeReceiveDown ==
  ASSUME SizeInv, NEW c \in Clients, ReceiveDown(c)
  PROVE  SizeInv'
<1> DEFINE m == Head(down[c])
<1>1. /\ down[c] # <<>> /\ down' = [down EXCEPT ![c] = Tail(@)]
      /\ UNCHANGED <<serverVars, grabbed, downSender, copies, drops>>
  BY DEF ReceiveDown
<1>2. ServerTypes /\ ClientTypes
  BY DEF SizeInv
<1>3. m \in SmallDown(copies) /\ Tail(down[c]) \in Seq(SmallDown(copies))
  BY <1>1, <1>2, HeadTail DEF ServerTypes
<1>4. ServerTypes'
  BY <1>1, <1>2, <1>3 DEF ServerTypes, serverVars
<1>5. /\ \/ UNCHANGED system
         \/ \E v \in Small(copies) : system' = [system EXCEPT ![c] = v]
      /\ clientActive' \in [Clients -> BOOLEAN] /\ clientSeq' \in [Clients -> SeqNums]
      /\ own' \in [Clients -> BOOLEAN] /\ sent' \in [Clients -> BOOLEAN]
      /\ dataSent' \in [Clients -> Contents \cup {Nothing}]
      /\ up' \in [Clients -> Seq(SmallUp(copies))] /\ upSender' \in [Clients -> SmallUpload(copies)]
  <2> HIDE DEF m
  <2>1. CASE /\ m.type = "enter"
             /\ clientActive' = [clientActive EXCEPT ![c] = TRUE]
             /\ clientSeq' = [clientSeq EXCEPT ![c] = m.seq]
             /\ UNCHANGED <<own, sent, dataSent, system, up, upSender>>
    <3>1. m.seq \in SeqNums
      BY <1>3, <2>1 DEF SmallDown
    <3> QED BY <1>2, <2>1, <3>1 DEF ClientTypes
  <2>2. CASE /\ m.type = "leave"
             /\ clientActive' = [clientActive EXCEPT ![c] = FALSE]
             /\ Send(c, <<>>, own[c], sent[c])
             /\ UNCHANGED <<clientSeq, own, system>>
    <3>1. own[c] \in BOOLEAN /\ sent[c] \in BOOLEAN /\ <<>> \in Seq(SmallUp(copies))
      BY <1>2 DEF ClientTypes
    <3>2. /\ sent' \in [Clients -> BOOLEAN] /\ dataSent' \in [Clients -> Contents \cup {Nothing}]
          /\ up' \in [Clients -> Seq(SmallUp(copies))]
          /\ upSender' \in [Clients -> SmallUpload(copies)]
      BY <1>2, <2>2, <3>1, SendTypes DEF ClientTypes
    <3> QED BY <1>2, <2>2, <3>2 DEF ClientTypes
  <2>3. CASE /\ m.type \in {"grab", "data"}
             /\ system' = [system EXCEPT ![c] = IF m.type = "data"
                                                THEN m.content ELSE Empty]
             /\ own' = [own EXCEPT ![c] = FALSE]
             /\ sent' = [sent EXCEPT ![c] = FALSE]
             /\ UNCHANGED <<dataSent, clientActive, clientSeq, up, upSender>>
    <3>1. (IF m.type = "data" THEN m.content ELSE Empty) \in Small(copies)
      BY <1>2, <1>3, Copies DEF SmallDown
    <3> QED BY <1>2, <2>3, <3>1 DEF ClientTypes
  <2> QED BY <2>1, <2>2, <2>3 DEF ReceiveDown, m
<1>6. OversizedStays' /\ system' \in [Screens -> 0 .. copies]
  BY <1>1, <1>2, <1>5, ConstantFacts, GivenScreen, SameScreens
<1>7. ClientTypes'
  BY <1>1, <1>2, <1>5, <1>6 DEF ClientTypes
<1> QED BY <1>4, <1>6, <1>7 DEF SizeInv

LEMMA SizeReconnect ==
  ASSUME SizeInv, NEW c \in Clients, Reconnect(c)
  PROVE  SizeInv'
<1>1. /\ connected' = connected \cup {c} /\ dirty' = dirty \cup {c}
      /\ proxyClip' = [proxyClip EXCEPT ![c] = Empty]
      /\ clientSeq' = [clientSeq EXCEPT ![c] = 0]
      /\ own' = [own EXCEPT ![c] = FALSE]
      /\ sent' = [sent EXCEPT ![c] = FALSE]
      /\ UNCHANGED <<m_active, m_seqNum, clipboard, primarySeq, events,
                     clientActive, dataSent, grabbed, wireVars, system, copies, drops>>
  BY DEF Reconnect
<1>2. ServerTypes /\ ClientTypes
  BY DEF SizeInv
<1>3. OversizedStays' /\ system' \in [Screens -> 0 .. copies]
  BY <1>1, SameScreens
<1>4. ServerTypes'
  BY <1>1, <1>2, Copies, ConstantFacts DEF ServerTypes, wireVars
<1>5. /\ clientSeq' \in [Clients -> SeqNums] /\ own' \in [Clients -> BOOLEAN]
      /\ sent' \in [Clients -> BOOLEAN] /\ grabbed' \in [Clients -> 0 .. copies']
  BY <1>1, <1>2, ConstantFacts DEF ClientTypes
<1>6. ClientTypes'
  BY <1>1, <1>2, <1>3, <1>5 DEF ClientTypes, wireVars
<1> QED BY <1>3, <1>4, <1>6 DEF SizeInv

LEMMA SizeStep == SizeInv /\ [Next]_vars => SizeInv'
<1> SUFFICES ASSUME SizeInv, [Next]_vars PROVE SizeInv'
  OBVIOUS
<1>1. ASSUME NEW c \in Clients, ReceiveUp(c) \/ ReceiveDown(c) \/ GrabOnClient(c)
                                \/ FinishUp(c) \/ FinishDown(c)
      PROVE  SizeInv'
  BY <1>1, SizeReceiveUp, SizeReceiveDown, SizeGrabOnClient, SizeFinishUp, SizeFinishDown
<1>2. ASSUME NEW c \in Clients, CopyOnClient(c) \/ Drop(c) \/ Reconnect(c)
      PROVE  SizeInv'
  BY <1>2, SizeCopyOnClient, SizeDrop, SizeReconnect
<1>3. CASE UNCHANGED vars
  <2>1. ServerTypes'
    BY <1>3 DEF SizeInv, vars, serverVars, clientVars, wireVars, ServerTypes
  <2>2. ClientTypes'
    BY <1>3 DEF SizeInv, vars, serverVars, clientVars, wireVars, ClientTypes
  <2>3. OversizedStays'
    BY <1>3, SameScreens DEF vars
  <2> QED BY <2>1, <2>2, <2>3 DEF SizeInv
<1> QED
  BY <1>1, <1>2, <1>3, SizeHandleEvent, SizeCopyOnPrimary, SizeSwitch DEF Next, Messages

THEOREM SizeInvariant == Spec => []SizeInv
BY SizeInit, SizeStep, PTL DEF Spec

\* The variables have their types: contents, sequence numbers, and messages of
\* the protocol in each queue.
THEOREM ClipboardTypes == Spec => []TypeOK
<1>1. SizeInv => TypeOK
  <2> SUFFICES ASSUME SizeInv PROVE TypeOK
    OBVIOUS
  <2>1. ServerTypes /\ ClientTypes /\ Small(copies) \subseteq Contents
        /\ 0 .. copies \subseteq Contents
    BY Copies DEF SizeInv
  <2>2. /\ Seq(SmallDown(copies)) \subseteq Seq(DownMessage)
        /\ Seq(SmallUp(copies)) \subseteq Seq(UpMessage) /\ Seq(Event) \subseteq Seq(EventType)
    <3>1. SmallDown(copies) \subseteq DownMessage
      BY <2>1 DEF SmallDown, DownMessage
    <3>2. SmallUp(copies) \subseteq UpMessage
      BY <2>1 DEF SmallUp, UpMessage
    <3>3. Event \subseteq EventType
      BY ConstantFacts DEF Event, EventType
    <3> QED BY <3>1, <3>2, <3>3, SeqDef
  <2>3. /\ m_active \in Screens /\ proxyClip \in [Clients -> Contents]
        /\ events \in Seq(EventType) /\ down \in [Clients -> Seq(DownMessage)]
        /\ downSender \in [Clients -> Contents \cup {Nothing}]
    BY <2>1, <2>2, ConstantFacts DEF ServerTypes
  <2>4. upSender \in [Clients -> Upload \cup {[content |-> Nothing, seq |-> 0]}]
    BY <2>1 DEF ClientTypes, SmallUpload, Upload, NoUpload
  <2>5. up \in [Clients -> Seq(UpMessage)] /\ grabbed \in [Clients -> 0 .. MaxCopies]
    BY <2>1, <2>2, ConstantFacts DEF ClientTypes
  <2>6. /\ clipboard \in ClipboardInfo /\ system \in [Screens -> Contents]
        /\ dirty \subseteq Screens /\ connected \subseteq Clients
    BY <2>1 DEF ServerTypes, ClientTypes, SmallInfo, ClipboardInfo
  <2> QED BY <2>1, <2>3, <2>4, <2>5, <2>6 DEF TypeOK, ServerTypes, ClientTypes
<1> QED BY <1>1, SizeInvariant, PTL

\* A copy above the limit is found only on the screen where it was made: neither
\* the server (switchScreen) nor a client (sendClipboard) passes it on.
THEOREM OversizedStaysAlways == Spec => []OversizedStays
<1>1. SizeInv => OversizedStays
  BY DEF SizeInv
<1> QED BY <1>1, SizeInvariant, PTL

-----------------------------------------------------------------------------
(* The active screen has the shared clipboard                              *)

\* Only the primary screen's own clipboard may be one above the limit: a
\* client does not send such a copy.  Until a connection breaks, every client
\* is in the list.
ActiveInv ==
  /\ SizeInv
  /\ clipboard.content \in Oversized => clipboard.owner = Primary
  /\ drops = 0 => connected = Clients /\ UpToDate

\* The copy that the server has noted is above the limit.
TooLarge == clipboard.content \in Oversized
\* No copy above the limit has been made.
NothingTooLarge == (1 .. copies) \cap Oversized = {}

LEMMA NoneLarge ==
  ASSUME SizeInv, NothingTooLarge
  PROVE  \A v \in 0 .. copies : v \notin Oversized
<1>1. \A v \in 0 .. copies : v = 0 \/ v \in 1 .. copies
  BY Copies DEF SizeInv
<1> QED BY <1>1, ConstantFacts DEF NothingTooLarge

LEMMA StillNone ==
  ASSUME SizeInv, [Next]_vars, NothingTooLarge'
  PROVE  NothingTooLarge
<1>1. copies \in Nat /\ copies' \in {copies, copies + 1}
  BY Copies DEF SizeInv, Next, Messages, vars, HandleEvent, ReceiveUp, ReceiveDown,
     GrabOnClient, FinishUp, FinishDown, CopyOnPrimary, CopyOnClient, Drop, Reconnect, Switch
<1>2. 1 .. copies \subseteq 1 .. copies'
  BY <1>1
<1> QED BY <1>2 DEF NothingTooLarge

LEMMA ActiveGrabbed ==
  ASSUME ActiveInv, NEW from \in Screens, NEW seq \in SeqNums, HandleGrabbed(from, seq),
         UNCHANGED <<m_active, connected>>
  PROVE  /\ clipboard'.content \in Oversized => clipboard'.owner = Primary
         /\ UpToDate => UpToDate'
<1> DEFINE cleared == [owner |-> from, seqNum |-> seq, content |-> Empty, data |-> Empty]
           v == system[Primary]
           away == from = Primary /\ m_active # Primary
           resend == away /\ Accepted(cleared, seq, v)
           others == (connected \cup {Primary}) \ {from}
<1>1. v \in Contents /\ Empty \notin Oversized
  BY Copies, ConstantFacts DEF ActiveInv, SizeInv, ClientTypes
<1>2. CASE from # Primary /\ seq < clipboard.seqNum
  <2>1. UNCHANGED <<clipboard, dirty>>
    BY <1>2 DEF HandleGrabbed
  <2> QED BY <2>1 DEF ActiveInv, UpToDate
<1>3. CASE ~ (from # Primary /\ seq < clipboard.seqNum)
  <2>1. /\ clipboard' = IF away THEN Changed(cleared, seq, v) ELSE cleared
        /\ dirty' = others \ (IF resend THEN {m_active} ELSE {})
    BY <1>3 DEF HandleGrabbed
  <2>2. CASE away
    <3>1. /\ cleared.seqNum = seq /\ ~ (seq < seq) /\ seq >= seq
      BY ConstantFacts
    <3>2. cleared.owner = Primary /\ cleared.data = Empty
      BY <2>2
    <3> HIDE DEF cleared
    <3>3. CASE v \in Oversized
      <4>1. clipboard' = [cleared EXCEPT !.content = v]
        BY <2>1, <2>2, <3>1, <3>3 DEF Changed
      <4> QED BY <4>1, <3>2, <3>3 DEF UpToDate, cleared
    <3>4. CASE v \notin Oversized
      <4>1. clipboard' = [cleared EXCEPT !.content = v, !.data = v]
        BY <2>1, <2>2, <3>1, <3>4 DEF Changed
      <4>2. v = Empty \/ resend
        BY <2>2, <3>1, <3>2, <3>4 DEF Accepted
      <4>3. resend => m_active' \notin dirty'
        BY <2>1
      <4> QED BY <3>4, <4>1, <4>2, <4>3 DEF UpToDate, cleared
    <3> QED BY <3>3, <3>4
  <2>3. CASE ~ away
    BY <1>1, <2>1, <2>3 DEF UpToDate
  <2> QED BY <2>2, <2>3
<1> QED BY <1>2, <1>3

LEMMA ActiveChanged ==
  ASSUME ActiveInv, NEW from \in Clients, NEW seq \in SeqNums, HandleChanged(from, seq),
         UNCHANGED <<m_active, connected>>,
         TooLarge /\ seq >= clipboard.seqNum => from = clipboard.owner
  PROVE  /\ clipboard'.content \in Oversized => clipboard'.owner = Primary
         /\ UpToDate => UpToDate'
<1> DEFINE v == proxyClip[from]
           accepted == Accepted(clipboard, seq, v)
           dst == IF accepted /\ m_active # from THEN {m_active} ELSE {}
<1>1. /\ v \notin Oversized /\ clipboard \in SmallInfo(copies) /\ from # Primary
      /\ clipboard.seqNum \in Nat /\ seq \in Nat
  BY Copies, ConstantFacts DEF ActiveInv, SizeInv, ServerTypes, SmallInfo
<1>2. /\ clipboard' = Changed(clipboard, seq, v)
      /\ dirty' = IF accepted THEN ((connected \cup {Primary}) \ {from}) \ dst ELSE dirty
  BY DEF HandleChanged
<1>3. CASE seq < clipboard.seqNum
  <2>1. clipboard' = clipboard /\ ~ accepted
    BY <1>1, <1>2, <1>3 DEF Changed, Accepted
  <2> QED BY <1>2, <2>1 DEF ActiveInv, UpToDate
<1>4. CASE seq >= clipboard.seqNum
  <2>1. clipboard' = [clipboard EXCEPT !.content = v, !.data = v] /\ ~ (seq < clipboard.seqNum)
    BY <1>1, <1>2, <1>4 DEF Changed
  <2>2. clipboard'.content = v /\ clipboard'.data = v
    BY <1>1, <2>1 DEF SmallInfo
  <2>3. CASE accepted
    <3>1. m_active' \notin dirty'
      BY <1>2, <2>3
    <3> QED BY <1>1, <2>2, <3>1 DEF UpToDate
  <2>4. CASE ~ accepted
    <3>1. v = clipboard.data /\ dirty' = dirty
      BY <1>1, <1>2, <1>4, <2>4 DEF Accepted
    <3>2. clipboard.content \notin Oversized
      BY <1>1, <1>4 DEF ActiveInv, TooLarge
    <3> QED BY <1>1, <2>2, <3>1, <3>2 DEF UpToDate
  <2> QED BY <2>3, <2>4
<1> QED BY <1>1, <1>3, <1>4

LEMMA ActiveSwitch ==
  ASSUME ActiveInv, NEW dst \in Screens, Switch(dst)
  PROVE  /\ clipboard'.content \in Oversized => clipboard'.owner = Primary
         /\ UpToDate'
<1> DEFINE publish == m_active = Primary /\ clipboard.owner = Primary
           v == system[Primary]
           cb == IF publish THEN Changed(clipboard, clipboard.seqNum, v) ELSE clipboard
           old == IF publish /\ Accepted(clipboard, clipboard.seqNum, v)
                  THEN connected ELSE dirty
           give == dst \in old /\ cb.content \notin Oversized
<1>1. /\ m_active' = dst /\ clipboard' = cb
      /\ dirty' = IF give THEN old \ {dst} ELSE old
  BY DEF Switch
<1>2. /\ clipboard \in SmallInfo(copies) /\ clipboard.seqNum \in SeqNums
      /\ v \in 0 .. copies /\ copies \in 0 .. MaxCopies
  BY ConstantFacts DEF ActiveInv, SizeInv, ServerTypes, ClientTypes, SmallInfo
<1>3. cb.owner = clipboard.owner
  BY <1>2, ChangedType
<1>4. cb.content \in Oversized => cb.owner = Primary
  BY <1>3 DEF ActiveInv
<1> HIDE DEF cb, old
<1> QED BY <1>1, <1>4 DEF UpToDate

LEMMA ActiveStep ==
  ASSUME ActiveInv, TooLarge => Expected, [Next]_vars
  PROVE  ActiveInv'
<1>1. SizeInv' /\ ServerTypes /\ ClientTypes
  BY SizeStep DEF ActiveInv, SizeInv
<1>2. CASE HandleEvent
  <2> DEFINE e == Head(events)
  <2>1. /\ events # <<>> /\ UNCHANGED <<m_active, connected, drops>>
        /\ IF e.type = "grabbed" THEN HandleGrabbed(e.from, e.seq)
                                 ELSE HandleChanged(e.from, e.seq)
    BY <1>2 DEF HandleEvent
  <2>2. e \in Event /\ (TooLarge /\ e.type = "changed" /\ e.seq >= clipboard.seqNum
                        => e.from = clipboard.owner)
    BY <1>1, <2>1, HeadTail DEF ServerTypes, Expected
  <2> HIDE DEF e
  <2>3. /\ clipboard'.content \in Oversized => clipboard'.owner = Primary
        /\ UpToDate => UpToDate'
    <3>1. CASE e.type = "grabbed"
      <4>1. e.from \in Screens /\ e.seq \in SeqNums
        BY <2>2, ConstantFacts DEF Event
      <4> QED BY <2>1, <3>1, <4>1, ActiveGrabbed
    <3>2. CASE e.type # "grabbed"
      <4>1. e.type = "changed" /\ e.from \in Clients /\ e.seq \in SeqNums
        BY <2>2, <3>2 DEF Event
      <4> QED BY <2>1, <2>2, <3>2, <4>1, ActiveChanged
    <3> QED BY <3>1, <3>2
  <2> QED BY <1>1, <2>1, <2>3 DEF ActiveInv
<1>3. ASSUME NEW s \in Screens, Switch(s) PROVE ActiveInv'
  <2>1. UNCHANGED <<connected, drops>>
    BY <1>3 DEF Switch
  <2> QED BY <1>1, <1>3, <2>1, ActiveSwitch DEF ActiveInv
<1>4. ASSUME NEW c \in Clients, Drop(c) PROVE ActiveInv'
  <2>1. drops' # 0 /\ UNCHANGED clipboard
    BY <1>1, <1>4, ConstantFacts DEF Drop, ClientTypes
  <2> QED BY <1>1, <2>1 DEF ActiveInv
<1>5. ASSUME NEW c \in Clients, Reconnect(c) PROVE ActiveInv'
  <2>1. drops # 0 /\ UNCHANGED <<clipboard, drops>>
    BY <1>5 DEF Reconnect, ActiveInv
  <2> QED BY <1>1, <2>1 DEF ActiveInv
<1>6. ASSUME UNCHANGED <<clipboard, m_active, connected, dirty, drops>> PROVE ActiveInv'
  BY <1>1, <1>6 DEF ActiveInv, UpToDate
<1>7. ASSUME NEW c \in Clients,
             \/ ReceiveUp(c) \/ ReceiveDown(c) \/ GrabOnClient(c) \/ FinishUp(c)
             \/ FinishDown(c) \/ CopyOnClient(c)
      PROVE  UNCHANGED <<clipboard, m_active, connected, dirty, drops>>
  BY <1>7 DEF ReceiveUp, ReceiveDown, GrabOnClient, FinishUp, FinishDown, CopyOnClient,
              serverVars
<1>8. CASE CopyOnPrimary \/ UNCHANGED vars
  <2>1. UNCHANGED <<clipboard, m_active, connected, dirty, drops>>
    BY <1>8 DEF CopyOnPrimary, vars, serverVars
  <2> QED BY <2>1, <1>6
<1> QED BY <1>2, <1>3, <1>4, <1>5, <1>6, <1>7, <1>8 DEF Next, Messages

LEMMA ActiveInit == Init => ActiveInv
<1> SUFFICES ASSUME Init PROVE ActiveInv
  OBVIOUS
<1>1. clipboard.owner = Primary /\ clipboard.data = Empty /\ connected = Clients
  BY DEF Init
<1> QED BY <1>1, SizeInit DEF ActiveInv, UpToDate

LEMMA ActiveAgrees == ActiveInv => ActiveUpToDate
BY DEF ActiveInv, ActiveUpToDate

\* The screen with the cursor has the shared clipboard, or is being given it
\* (switchScreen), as long as no connection breaks and what the server accepts in
\* place of a copy above the limit is its owner's, as onClipboardChanged asserts.
THEOREM ActiveUpToDateAlways == Spec /\ [](TooLarge => Expected) => []ActiveUpToDate
<1>1. ActiveInv /\ (TooLarge => Expected) /\ [Next]_vars => ActiveInv'
  BY ActiveStep
<1> QED BY <1>1, ActiveInit, ActiveAgrees, PTL DEF Spec

\* As long as no copy was above the limit, it is so whatever the order of messages.
THEOREM ActiveUpToDateSmall == Spec => [](NothingTooLarge => ActiveUpToDate)
<1>1. SizeInv /\ NothingTooLarge => ~ TooLarge
  BY NoneLarge DEF SizeInv, ServerTypes, SmallInfo, TooLarge
<1>2. /\ (NothingTooLarge => ActiveInv) /\ SizeInv /\ SizeInv' /\ [Next]_vars
      => (NothingTooLarge => ActiveInv)'
  BY <1>1, StillNone, ActiveStep
<1> QED BY <1>2, ActiveInit, ActiveAgrees, SizeInvariant, PTL DEF Spec

-----------------------------------------------------------------------------
(* Accepted data comes from the owner, or ahead of its grab.  Each screen   *)
(* switch gives its number to one screen, who[n]; the clients' messages     *)
(* carry the numbers they were given.  A claim is a client's last grab: its *)
(* number, whether its data has still to follow, and a number that is not   *)
(* below that of any data sent since then ahead of the next grab, or 0.     *)

Claim == [last : SeqNums, armed : BOOLEAN, ahead : SeqNums]
NoClaim == [last |-> 0, armed |-> FALSE, ahead |-> 0]

\* A message with number s of client c takes its claim from x to y: a grab with
\* a number of its own, not below the last; the data of the last grab; data of an
\* older one, which the server will refuse; or data ahead of a grab.
ClaimStep(who, n, c, x, grab, s, y) ==
  /\ s <= n
  /\ \/ /\ grab /\ who[s] = c /\ x.last <= s /\ x.ahead <= s
        /\ y = [last |-> s, armed |-> TRUE, ahead |-> 0]
     \/ ~grab /\ x.armed /\ s = x.last /\ y = [x EXCEPT !.armed = FALSE]
     \/ ~grab /\ s < x.last /\ y = x
     \/ /\ ~grab /\ x.last < s /\ s <= y.ahead /\ x.ahead <= y.ahead
        /\ y.last = x.last /\ y.armed = x.armed

\* ... of the messages from client c,
UpSteps(who, n, c) ==
  {t \in Claim \X UpMessage \X Claim :
      ClaimStep(who, n, c, t[1], t[2].type = "grab", t[2].seq, t[3])}

\* ... and of the server's events: top is not below a number seen, and the
\* primary screen's grabs are not below that.
Front == [claims : [Clients -> Claim], top : SeqNums]

OwnStep(who, n, x, e, y) ==
  /\ e.from = Primary /\ e.type = "grabbed"
  /\ who[e.seq] = Primary /\ e.seq <= n /\ x.top <= e.seq
  /\ y.claims = x.claims

PeerStep(who, n, x, e, y) ==
  /\ e.from # Primary
  /\ ClaimStep(who, n, e.from, x.claims[e.from], e.type = "grabbed", e.seq,
               y.claims[e.from])
  /\ \A d \in Clients : d # e.from => y.claims[d] = x.claims[d]

EventSteps(who, n) ==
  {t \in Front \X Event \X Front :
      /\ t[1].top <= t[3].top /\ t[2].seq <= t[3].top /\ t[3].top <= n
      /\ OwnStep(who, n, t[1], t[2], t[3]) \/ PeerStep(who, n, t[1], t[2], t[3])}

\* A message of the server takes client c from x to y: is it the active screen,
\* and with which number?  It is entered with higher numbers, after it was left.
Turn == [active : BOOLEAN, seq : SeqNums]

TurnStep(who, n, c, x, m, y) ==
  \/ /\ m.type = "enter" /\ (~x.active \/ x.seq = 0) /\ x.seq < m.seq
     /\ m.seq <= n /\ who[m.seq] = c /\ y = [active |-> TRUE, seq |-> m.seq]
  \/ m.type = "leave" /\ y = [active |-> FALSE, seq |-> x.seq]
  \/ m.type \in {"grab", "data"} /\ y = x

TurnSteps(who, n, c) ==
  {t \in Turn \X DownMessage \X Turn : TurnStep(who, n, c, t[1], t[2], t[3])}

WhoFits(who) ==
  /\ who[m_seqNum] = m_active
  /\ who[primarySeq] = Primary /\ primarySeq <= m_seqNum
  /\ m_active = Primary => primarySeq = m_seqNum

\* The server has handled data ahead of its grab, and not the grab, which may be
\* lost if a connection breaks.
AheadOfGrab(done) ==
  \/ drops # 0
  \/ \E d \in Clients : /\ done.claims[d].ahead # 0
                        /\ clipboard.seqNum <= done.claims[d].ahead

\* A claim whose data would be accepted is its owner's, who has sent none yet.
ServerFits(who, done) ==
  /\ clipboard.seqNum <= done.top /\ done.top <= m_seqNum
  /\ \A c \in Clients :
        /\ done.claims[c].last <= clipboard.seqNum
        /\ done.claims[c].armed => who[done.claims[c].last] = c
        /\ done.claims[c].armed /\ done.claims[c].last = clipboard.seqNum
           => clipboard.owner = c /\ (clipboard.data = Empty \/ AheadOfGrab(done))
  /\ clipboard.owner = Primary =>
        \/ AheadOfGrab(done)
        \/ Primary \notin dirty /\ clipboard.data <= system[Primary]

EventsFit(who, done, queued) ==
  /\ queued.top <= m_seqNum
  /\ Leads(EventSteps(who, m_seqNum), events, done, queued)

\* sendClipboard would not send what the client has.
SentOut(c) == system[c] \in Oversized \/ (sent[c] /\ dataSent[c] = system[c])

\* What a client keeps, when its messages leave the claim x.
ClaimFits(who, x, c) ==
  /\ x.last <= clientSeq[c] /\ x.ahead <= clientSeq[c]
  /\ clientSeq[c] <= m_seqNum /\ (clientSeq[c] = 0 \/ who[clientSeq[c]] = c)
  /\ own[c] \/ grabbed[c] # 0 => clientSeq[c] # 0
  /\ x.ahead # 0 => grabbed[c] # 0
  /\ own[c] /\ clientActive[c] /\ x.last = clientSeq[c] => x.armed
  /\ own[c] /\ (~clientActive[c] \/ (grabbed[c] = 0 /\ x.last < clientSeq[c]))
     => SentOut(c)
  /\ upSender[c] # NoUpload =>
        /\ upSender[c].seq <= clientSeq[c]
        /\ clientActive[c] => upSender[c].seq < clientSeq[c]
        /\ \/ x.armed /\ upSender[c].seq = x.last
           \/ upSender[c].seq < x.last
           \/ x.last < upSender[c].seq /\ grabbed[c] # 0

TurnNow(c) == [active |-> clientActive[c], seq |-> clientSeq[c]]
TurnFits(t, c) == t.seq <= m_seqNum /\ (t.active => m_active = c \/ t.seq = 0)

\* Client c, when the server's events leave its claim at start.
ClientFits(who, start, c) ==
  \E x \in Claim, t \in Turn :
     /\ Leads(UpSteps(who, m_seqNum, c), up[c], start, x)
     /\ Leads(TurnSteps(who, m_seqNum, c), down[c], TurnNow(c), t)
     /\ ClaimFits(who, x, c) /\ TurnFits(t, c)

GoneFits(start, c) ==
  /\ start = NoClaim /\ up[c] = <<>> /\ down[c] = <<>>
  /\ upSender[c] = NoUpload /\ grabbed[c] = 0 /\ downSender[c] = Nothing

PeersFit(who, queued) ==
  \A c \in Clients : IF c \in connected THEN ClientFits(who, queued.claims[c], c)
                     ELSE GoneFits(queued.claims[c], c)

Fits(who, done, queued) == /\ WhoFits(who) /\ ServerFits(who, done)
                           /\ EventsFit(who, done, queued) /\ PeersFit(who, queued)

SeqInv == \E who \in [SeqNums -> Screens] : \E done, queued \in Front :
             Fits(who, done, queued)

ClaimInv == SizeInv /\ SeqInv

\* A number keeps its screen: the messages that were steps still are.
LEMMA NumbersKept ==
  ASSUME NEW who, NEW who2, NEW n \in Nat, NEW n2 \in Nat, n <= n2, NEW d,
         \A s \in SeqNums : s <= n /\ who[s] = d => who2[s] = d
  PROVE  /\ UpSteps(who, n, d) \subseteq UpSteps(who2, n2, d)
         /\ TurnSteps(who, n, d) \subseteq TurnSteps(who2, n2, d)
<1>1. \A s \in SeqNums : s \in Nat /\ (s <= n => s <= n2)
  BY ConstantFacts
<1>2. ASSUME NEW t \in Claim \X UpMessage \X Claim,
             ClaimStep(who, n, d, t[1], t[2].type = "grab", t[2].seq, t[3])
      PROVE  ClaimStep(who2, n2, d, t[1], t[2].type = "grab", t[2].seq, t[3])
  <2>1. t[2].seq \in SeqNums
    BY <1>2 DEF UpMessage
  <2> QED BY <1>1, <1>2, <2>1 DEF ClaimStep
<1>3. ASSUME NEW t \in Turn \X DownMessage \X Turn, TurnStep(who, n, d, t[1], t[2], t[3])
      PROVE  TurnStep(who2, n2, d, t[1], t[2], t[3])
  <2>1. t[2].type = "enter" => t[2].seq \in SeqNums
    BY <1>3 DEF DownMessage
  <2> QED BY <1>1, <1>3, <2>1 DEF TurnStep
<1> QED BY <1>2, <1>3 DEF UpSteps, TurnSteps

LEMMA EventNumbersKept ==
  ASSUME NEW who, NEW who2, NEW n \in Nat, NEW n2 \in Nat, n <= n2,
         \A s \in SeqNums : s <= n => who2[s] = who[s]
  PROVE  EventSteps(who, n) \subseteq EventSteps(who2, n2)
<1>1. \A s \in SeqNums : s \in Nat /\ (s <= n => s <= n2)
  BY ConstantFacts
<1>2. ASSUME NEW t \in Front \X Event \X Front,
             OwnStep(who, n, t[1], t[2], t[3]) \/ PeerStep(who, n, t[1], t[2], t[3])
      PROVE  OwnStep(who2, n2, t[1], t[2], t[3]) \/ PeerStep(who2, n2, t[1], t[2], t[3])
  <2>1. t[2].seq \in SeqNums
    BY <1>2 DEF Event
  <2> QED BY <1>1, <1>2, <2>1 DEF OwnStep, PeerStep, ClaimStep
<1>3. ASSUME NEW t \in Front \X Event \X Front, t[3].top <= n PROVE t[3].top <= n2
  <2>1. t[3].top \in SeqNums
    BY DEF Front
  <2>2. t[3].top \in Nat
    BY <1>1, <2>1
  <2> QED BY <1>3, <2>2
<1> QED BY <1>2, <1>3 DEF EventSteps

\* The queues hold messages of the protocol.
LEMMA QueueTypes ==
  ASSUME SizeInv
  PROVE  /\ m_seqNum \in SeqNums /\ m_seqNum \in Nat /\ primarySeq \in Nat
         /\ events \in Seq(Event) /\ clipboard.seqNum \in Nat
         /\ clipboard.data \in Nat
         /\ \A c \in Clients : /\ up[c] \in Seq(UpMessage) /\ down[c] \in Seq(DownMessage)
                               /\ clientSeq[c] \in SeqNums /\ clientActive[c] \in BOOLEAN
                               /\ TurnNow(c) \in Turn
<1>1. ServerTypes /\ ClientTypes /\ Small(copies) \subseteq Contents
  BY Copies DEF SizeInv
<1>2. SmallDown(copies) \subseteq DownMessage /\ SmallUp(copies) \subseteq UpMessage
  BY <1>1 DEF SmallDown, DownMessage, SmallUp, UpMessage
<1>3. /\ Seq(SmallDown(copies)) \subseteq Seq(DownMessage)
      /\ Seq(SmallUp(copies)) \subseteq Seq(UpMessage)
  BY <1>2, SeqDef
<1>4. ASSUME NEW c \in Clients
      PROVE  /\ up[c] \in Seq(UpMessage) /\ down[c] \in Seq(DownMessage)
             /\ clientSeq[c] \in SeqNums /\ clientActive[c] \in BOOLEAN
             /\ TurnNow(c) \in Turn
  <2>1. up[c] \in Seq(UpMessage) /\ down[c] \in Seq(DownMessage)
    BY <1>1, <1>3 DEF ServerTypes, ClientTypes
  <2>2. clientSeq[c] \in SeqNums /\ clientActive[c] \in BOOLEAN
    BY <1>1 DEF ClientTypes
  <2> QED BY <2>1, <2>2 DEF TurnNow, Turn
<1>5. clipboard.seqNum \in Nat /\ clipboard.data \in Nat
  BY <1>1, ConstantFacts DEF ServerTypes, SmallInfo
<1> QED BY <1>1, <1>4, <1>5, ConstantFacts DEF ServerTypes

\* What a step leaves of a client,
Same(d) ==
  /\ up'[d] = up[d] /\ upSender'[d] = upSender[d] /\ clientActive'[d] = clientActive[d]
  /\ clientSeq'[d] = clientSeq[d] /\ own'[d] = own[d] /\ sent'[d] = sent[d]
  /\ grabbed'[d] = grabbed[d] /\ dataSent'[d] = dataSent[d] /\ system'[d] = system[d]

\* and how it adds to what the client will be told.
Told(who, d) ==
  \A a : \A t \in Turn :
     TurnFits(t, d) /\ Leads(TurnSteps(who, m_seqNum', d), down[d], a, t)
     => \E t2 \in Turn : /\ Leads(TurnSteps(who, m_seqNum', d), down'[d], a, t2)
                         /\ TurnFits(t2, d)'

LEMMA ClientKept ==
  ASSUME SizeInv, SizeInv', NEW who, NEW who2, NEW d \in Clients, NEW start,
         ClientFits(who, start, d), m_seqNum <= m_seqNum',
         \A s \in SeqNums : s <= m_seqNum /\ who[s] = d => who2[s] = d,
         Same(d), Told(who2, d)
  PROVE  ClientFits(who2, start, d)'
<1>1. PICK x \in Claim, t \in Turn :
         /\ Leads(UpSteps(who, m_seqNum, d), up[d], start, x)
         /\ Leads(TurnSteps(who, m_seqNum, d), down[d], TurnNow(d), t)
         /\ ClaimFits(who, x, d) /\ TurnFits(t, d)
  BY DEF ClientFits
<1>2. m_seqNum \in Nat /\ m_seqNum' \in Nat /\ clientSeq[d] \in SeqNums
  BY QueueTypes, ConstantFacts DEF SizeInv, ServerTypes
<1>3. /\ UpSteps(who, m_seqNum, d) \subseteq UpSteps(who2, m_seqNum', d)
      /\ TurnSteps(who, m_seqNum, d) \subseteq TurnSteps(who2, m_seqNum', d)
  BY <1>2, NumbersKept
<1>4. /\ Leads(UpSteps(who2, m_seqNum', d), up'[d], start, x)
      /\ Leads(TurnSteps(who2, m_seqNum', d), down[d], TurnNow(d), t)
  BY <1>1, <1>3, LeadsMore DEF Same
<1>5. PICK t2 \in Turn : /\ Leads(TurnSteps(who2, m_seqNum', d), down'[d], TurnNow(d), t2)
                         /\ TurnFits(t2, d)'
  BY <1>1, <1>4 DEF Told
<1>6. TurnNow(d)' = TurnNow(d)
  BY DEF TurnNow, Same
<1>7. ClaimFits(who2, x, d)'
  <2>1. clientSeq[d] <= m_seqNum' /\ (clientSeq[d] = 0 \/ who2[clientSeq[d]] = d)
    <3>1. /\ clientSeq[d] \in Nat /\ clientSeq[d] <= m_seqNum
          /\ clientSeq[d] = 0 \/ who[clientSeq[d]] = d
      BY <1>1, <1>2, ConstantFacts DEF ClaimFits
    <3> QED BY <1>2, <3>1
  <2> QED BY <1>1, <2>1 DEF ClaimFits, SentOut, Same
<1>8. Leads(TurnSteps(who2, m_seqNum', d), down'[d], TurnNow(d)', t2)
  BY <1>5, <1>6
<1> QED BY <1>4, <1>5, <1>7, <1>8 DEF ClientFits

\* A client that is told nothing new.
LEMMA ToldNothing ==
  ASSUME NEW who, NEW d, down'[d] = down[d], UNCHANGED m_seqNum,
         m_active = d => m_active' = d
  PROVE  Told(who, d)
BY DEF Told, TurnFits

\* A message of the server that is no turn.
LEMMA QuietTurn ==
  ASSUME NEW who, NEW n, NEW c, NEW m \in DownMessage, m.type \in {"grab", "data"},
         NEW t \in Turn
  PROVE  Leads(TurnSteps(who, n, c), <<m>>, t, t)
<1>1. <<t, m, t>> \in TurnSteps(who, n, c)
  BY DEF TurnSteps, TurnStep
<1> QED BY <1>1, LeadsOne

\* What Give adds for a client: the messages it is passed, and content.
LEMMA GiveLeads ==
  ASSUME SizeInv, NEW dst, NEW v \in Small(copies) \cup {Nothing}, NEW msgs,
         Give(dst, v, msgs), NEW c \in Clients, msgs[c] \in Seq(DownMessage),
         NEW who, NEW n, NEW a, NEW t \in Turn, NEW t2 \in Turn,
         Leads(TurnSteps(who, n, c), down[c], a, t),
         Leads(TurnSteps(who, n, c), msgs[c], t, t2)
  PROVE  Leads(TurnSteps(who, n, c), down'[c], a, t2)
<1> DEFINE given == c = dst /\ v # Nothing
           data == [type |-> "data", content |-> v]
           tail == IF given /\ v \notin Paced THEN <<data>> ELSE <<>>
           R == TurnSteps(who, n, c)
<1>1. down'[c] = down[c] \o msgs[c] \o tail
  BY DEF Give
<1>2. down[c] \in Seq(DownMessage) /\ copies \in 0 .. MaxCopies
  BY QueueTypes, Copies DEF SizeInv
<1>3. tail \in Seq(DownMessage) /\ Leads(R, tail, t2, t2)
  <2>1. CASE given /\ v \notin Paced
    <3>1. data \in DownMessage /\ data.type \in {"grab", "data"}
      BY <1>2, <2>1, SmallFacts DEF DownMessage
    <3> HIDE DEF data, R
    <3>2. <<data>> \in Seq(DownMessage) /\ tail = <<data>>
      BY <2>1, <3>1
    <3> QED BY <3>1, <3>2, QuietTurn DEF R
  <2>2. CASE ~ (given /\ v \notin Paced)
    <3>1. tail = <<>>
      BY <2>2
    <3> QED BY <3>1, LeadsEmpty
  <2> QED BY <2>1, <2>2
<1> HIDE DEF tail, R
<1>4. Leads(R, down[c] \o msgs[c], a, t2)
  BY <1>2, LeadsConcat DEF R
<1>5. down[c] \o msgs[c] \in Seq(DownMessage)
  BY <1>2, ConcatProperties
<1>6. Leads(R, (down[c] \o msgs[c]) \o tail, a, t2)
  BY <1>3, <1>4, <1>5, LeadsConcat
<1> QED BY <1>1, <1>6 DEF R

\* Give without a turn.
LEMMA GiveTold ==
  ASSUME SizeInv, NEW dst, NEW v \in Small(copies) \cup {Nothing}, NEW msgs,
         Give(dst, v, msgs), UNCHANGED <<m_active, m_seqNum>>, NEW c \in Clients,
         msgs[c] \in {<<>>, <<[type |-> "grab"]>>}, NEW who
  PROVE  Told(who, c)
<1> DEFINE grab == [type |-> "grab"]
<1>1. grab \in DownMessage /\ grab.type \in {"grab", "data"}
  BY DEF DownMessage
<1>2. msgs[c] \in Seq(DownMessage)
  <2>1. CASE msgs[c] = <<>>
    BY <2>1
  <2>2. CASE msgs[c] = <<grab>>
    <3> HIDE DEF grab
    <3>1. <<grab>> \in Seq(DownMessage)
      BY <1>1
    <3> QED BY <2>2, <3>1
  <2> QED BY <2>1, <2>2
<1>3. ASSUME NEW t \in Turn PROVE Leads(TurnSteps(who, m_seqNum', c), msgs[c], t, t)
  BY <1>1, LeadsEmpty, QuietTurn
<1>4. ASSUME NEW a, NEW t \in Turn, TurnFits(t, c),
             Leads(TurnSteps(who, m_seqNum', c), down[c], a, t)
      PROVE  Leads(TurnSteps(who, m_seqNum', c), down'[c], a, t) /\ TurnFits(t, c)'
  <2>1. TurnFits(t, c)'
    BY <1>4 DEF TurnFits
  <2> QED BY <1>2, <1>3, <1>4, <2>1, GiveLeads
<1> QED BY <1>4 DEF Told

\* A step that touches no client but c.
Others(c) == \A d \in Clients \ {c} : /\ Same(d) /\ down'[d] = down[d]
                                      /\ downSender'[d] = downSender[d]
                                      /\ (d \in connected' <=> d \in connected)

\* The numbers of the other screens stay theirs.
Renumbered(who, who2, c) ==
  \A s \in SeqNums : s <= m_seqNum => who2[s] = who[s] \/ who[s] = c

LEMMA OthersKept ==
  ASSUME SizeInv, SizeInv', NEW who, NEW who2, NEW queued, NEW queued2,
         NEW c \in Clients, PeersFit(who, queued), Others(c),
         \A d \in Clients \ {c} : queued2.claims[d] = queued.claims[d],
         UNCHANGED m_seqNum,
         \A d \in Clients \ {c} : m_active = d => m_active' = d,
         who2 = who \/ Renumbered(who, who2, c),
         IF c \in connected' THEN ClientFits(who2, queued2.claims[c], c)'
         ELSE GoneFits(queued2.claims[c], c)'
  PROVE  PeersFit(who2, queued2)'
<1>1. m_seqNum \in Nat /\ m_seqNum <= m_seqNum'
  BY QueueTypes
<1>2. ASSUME NEW d \in Clients \ {c}
      PROVE  IF d \in connected' THEN ClientFits(who2, queued2.claims[d], d)'
             ELSE GoneFits(queued2.claims[d], d)'
  <2>1. /\ Same(d) /\ down'[d] = down[d] /\ downSender'[d] = downSender[d]
        /\ (d \in connected' <=> d \in connected)
    BY DEF Others
  <2>2. CASE d \in connected
    <3>1. ClientFits(who, queued.claims[d], d)
      BY <2>2 DEF PeersFit
    <3>2. Told(who2, d)
      BY <2>1, ToldNothing
    <3>3. \A s \in SeqNums : s <= m_seqNum /\ who[s] = d => who2[s] = d
      BY DEF Renumbered
    <3>4. ClientFits(who2, queued.claims[d], d)'
      BY <1>1, <2>1, <3>1, <3>2, <3>3, ClientKept
    <3> QED BY <2>1, <2>2, <3>4
  <2>3. CASE d \notin connected
    BY <2>1, <2>3 DEF PeersFit, GoneFits, Same
  <2> QED BY <2>2, <2>3
<1> QED BY <1>2 DEF PeersFit

\* A step of client c alone.
LEMMA ClientStep ==
  ASSUME SizeInv, SizeInv', NEW who \in [SeqNums -> Screens], NEW done \in Front,
         NEW queued \in Front, Fits(who, done, queued), NEW c \in connected,
         UNCHANGED <<serverVars, drops>>, system'[Primary] = system[Primary], Others(c),
         ClientFits(who, queued.claims[c], c)'
  PROVE  SeqInv'
<1>1. /\ UNCHANGED <<m_active, m_seqNum, clipboard, dirty, primarySeq, connected, events,
                     drops>>
      /\ c \in Clients
  BY DEF serverVars, SizeInv, ServerTypes
<1>2. WhoFits(who)'
  BY <1>1 DEF Fits, WhoFits
<1>3. ServerFits(who, done)'
  BY <1>1 DEF Fits, ServerFits, AheadOfGrab
<1>4. EventsFit(who, done, queued)'
  BY <1>1 DEF Fits, EventsFit
<1>5. PeersFit(who, queued)'
  <2>1. IF c \in connected' THEN ClientFits(who, queued.claims[c], c)'
        ELSE GoneFits(queued.claims[c], c)'
    BY <1>1
  <2>2. PeersFit(who, queued) /\ (\A d \in Clients \ {c} : m_active = d => m_active' = d)
    BY <1>1 DEF Fits
  <2> QED BY <1>1, <2>1, <2>2, OthersKept
<1>6. Fits(who, done, queued)'
  BY <1>2, <1>3, <1>4, <1>5 DEF Fits
<1> QED BY <1>6 DEF SeqInv

\* The witnesses of a client's part.
LEMMA ClientParts ==
  ASSUME SizeInv, NEW who, NEW done, NEW queued, Fits(who, done, queued),
         NEW c \in Clients, c \in connected
  PROVE  \E x \in Claim, t \in Turn :
            /\ Leads(UpSteps(who, m_seqNum, c), up[c], queued.claims[c], x)
            /\ Leads(TurnSteps(who, m_seqNum, c), down[c], TurnNow(c), t)
            /\ ClaimFits(who, x, c) /\ TurnFits(t, c)
BY DEF Fits, PeersFit, ClientFits

LEMMA CopyOnClientClaims ==
  ASSUME SizeInv, SizeInv', ~Background, NEW who \in [SeqNums -> Screens],
         NEW done \in Front, NEW queued \in Front, Fits(who, done, queued),
         NEW c \in Clients, CopyOnClient(c)
  PROVE  SeqInv'
<1>1. /\ c \in connected /\ clientActive[c] /\ clientSeq[c] # 0
      /\ system' = [system EXCEPT ![c] = copies + 1]
      /\ grabbed' = [grabbed EXCEPT ![c] = @ + 1]
      /\ UNCHANGED <<serverVars, clientActive, clientSeq, own, sent, dataSent, wireVars,
                     drops>>
  BY DEF CopyOnClient
<1>2. /\ system \in [Screens -> 0 .. copies] /\ grabbed \in [Clients -> 0 .. copies]
      /\ UNCHANGED <<m_active, m_seqNum, connected, up, down, downSender, upSender>>
  BY <1>1 DEF SizeInv, ClientTypes, serverVars, wireVars
<1>3. /\ system'[Primary] = system[Primary]
      /\ \A d \in Clients \ {c} : system'[d] = system[d] /\ grabbed'[d] = grabbed[d]
  BY <1>1, <1>2, ConstantFacts
<1>4. Others(c)
  BY <1>1, <1>2, <1>3 DEF Others, Same
<1>5. PICK x \in Claim, t \in Turn :
         /\ Leads(UpSteps(who, m_seqNum, c), up[c], queued.claims[c], x)
         /\ Leads(TurnSteps(who, m_seqNum, c), down[c], TurnNow(c), t)
         /\ ClaimFits(who, x, c) /\ TurnFits(t, c)
  BY <1>1, ClientParts
<1>6. grabbed'[c] # 0
  <2>1. grabbed[c] \in Nat /\ grabbed'[c] = grabbed[c] + 1
    BY <1>1, <1>2
  <2> QED BY <2>1
<1>7. ClaimFits(who, x, c)' /\ TurnFits(t, c)' /\ TurnNow(c)' = TurnNow(c)
  BY <1>1, <1>2, <1>5, <1>6 DEF ClaimFits, TurnFits, TurnNow
<1>8. ClientFits(who, queued.claims[c], c)'
  BY <1>2, <1>5, <1>7 DEF ClientFits
<1> QED BY <1>1, <1>3, <1>4, <1>8, ClientStep

LEMMA FinishDownClaims ==
  ASSUME SizeInv, SizeInv', NEW who \in [SeqNums -> Screens],
         NEW done \in Front, NEW queued \in Front, Fits(who, done, queued),
         NEW c \in Clients, FinishDown(c)
  PROVE  SeqInv'
<1> DEFINE m == [type |-> "data", content |-> downSender[c]]
<1>1. /\ downSender[c] # Nothing /\ downSender' = [downSender EXCEPT ![c] = Nothing]
      /\ down' = [down EXCEPT ![c] = Append(@, m)]
      /\ UNCHANGED <<serverVars, clientVars, up, upSender, system, drops>>
  BY DEF FinishDown
<1>2. /\ down \in [Clients -> Seq(SmallDown(copies))]
      /\ downSender \in [Clients -> Small(copies) \cup {Nothing}]
      /\ UNCHANGED <<m_active, m_seqNum, connected, clientActive, clientSeq, own, sent,
                     dataSent, grabbed>>
      /\ copies \in 0 .. MaxCopies
  BY <1>1, Copies DEF SizeInv, ServerTypes, serverVars, clientVars
<1>3. c \in connected
  BY <1>1 DEF Fits, PeersFit, GoneFits
<1>4. m \in DownMessage /\ m.type \in {"grab", "data"}
  <2>1. downSender[c] \in Contents
    BY <1>1, <1>2, SmallFacts
  <2> QED BY <2>1 DEF DownMessage
<1> HIDE DEF m
<1>5. /\ down'[c] = Append(down[c], m) /\ \A d \in Clients \ {c} : down'[d] = down[d]
      /\ \A d \in Clients \ {c} : downSender'[d] = downSender[d]
  BY <1>1, <1>2
<1>6. Others(c)
  BY <1>1, <1>2, <1>5 DEF Others, Same
<1>7. PICK x \in Claim, t \in Turn :
         /\ Leads(UpSteps(who, m_seqNum, c), up[c], queued.claims[c], x)
         /\ Leads(TurnSteps(who, m_seqNum, c), down[c], TurnNow(c), t)
         /\ ClaimFits(who, x, c) /\ TurnFits(t, c)
  BY <1>3, ClientParts
<1>8. Leads(TurnSteps(who, m_seqNum, c), down'[c], TurnNow(c), t)
  <2>1. Leads(TurnSteps(who, m_seqNum, c), <<m>>, t, t)
    BY <1>4, QuietTurn
  <2>2. down[c] \in Seq(DownMessage) /\ <<m>> \in Seq(DownMessage)
    BY <1>4, QueueTypes
  <2>3. Leads(TurnSteps(who, m_seqNum, c), down[c] \o <<m>>, TurnNow(c), t)
    BY <1>7, <2>1, <2>2, LeadsConcat
  <2>4. down[c] \o <<m>> = Append(down[c], m)
    BY <1>4, <2>2, AppendOne
  <2> QED BY <1>5, <2>3, <2>4
<1>9. ClaimFits(who, x, c)' /\ TurnFits(t, c)' /\ TurnNow(c)' = TurnNow(c)
  BY <1>1, <1>2, <1>7 DEF ClaimFits, SentOut, TurnFits, TurnNow
<1>10. ClientFits(who, queued.claims[c], c)'
  BY <1>1, <1>2, <1>7, <1>8, <1>9 DEF ClientFits
<1> QED BY <1>1, <1>3, <1>6, <1>10, ClientStep

\* A message that client c writes.
LEMMA WriteUp ==
  ASSUME NEW s \in Seq(UpMessage), NEW who, NEW n, NEW c, NEW start, NEW x \in Claim,
         Leads(UpSteps(who, n, c), s, start, x),
         NEW m \in UpMessage, NEW y \in Claim,
         ClaimStep(who, n, c, x, m.type = "grab", m.seq, y)
  PROVE  /\ Leads(UpSteps(who, n, c), s \o <<m>>, start, y)
         /\ s \o <<m>> = Append(s, m) /\ s \o <<m>> \in Seq(UpMessage)
<1>1. <<x, m, y>> \in UpSteps(who, n, c)
  BY DEF UpSteps
<1>2. Leads(UpSteps(who, n, c), <<m>>, x, y) /\ <<m>> \in Seq(UpMessage)
  BY <1>1, LeadsOne
<1>3. Leads(UpSteps(who, n, c), s \o <<m>>, start, y)
  BY <1>2, LeadsConcat
<1> QED BY <1>3, AppendOne

LEMMA FinishUpClaims ==
  ASSUME SizeInv, SizeInv', NEW who \in [SeqNums -> Screens],
         NEW done \in Front, NEW queued \in Front, Fits(who, done, queued),
         NEW c \in Clients, FinishUp(c)
  PROVE  SeqInv'
<1> DEFINE s == upSender[c].seq
           m == [type |-> "data", content |-> upSender[c].content, seq |-> s]
<1>1. /\ upSender[c] # NoUpload /\ upSender' = [upSender EXCEPT ![c] = NoUpload]
      /\ up' = [up EXCEPT ![c] = Append(@, m)]
      /\ UNCHANGED <<serverVars, clientVars, down, downSender, system, drops>>
  BY DEF FinishUp
<1>2. /\ up \in [Clients -> Seq(SmallUp(copies))]
      /\ upSender \in [Clients -> SmallUpload(copies)]
      /\ UNCHANGED <<m_active, m_seqNum, connected, clientActive, clientSeq, own, sent,
                     dataSent, grabbed>>
      /\ copies \in 0 .. MaxCopies
  BY <1>1, Copies DEF SizeInv, ClientTypes, serverVars, clientVars
<1>3. c \in connected
  BY <1>1 DEF Fits, PeersFit, GoneFits
<1>4. m \in UpMessage /\ m.type # "grab" /\ m.seq = s /\ s \in SeqNums
  <2>1. upSender[c].content \in Contents /\ s \in SeqNums
    BY <1>1, <1>2, SmallFacts DEF SmallUpload
  <2> QED BY <2>1 DEF UpMessage
<1>5. PICK x \in Claim, t \in Turn :
         /\ Leads(UpSteps(who, m_seqNum, c), up[c], queued.claims[c], x)
         /\ Leads(TurnSteps(who, m_seqNum, c), down[c], TurnNow(c), t)
         /\ ClaimFits(who, x, c) /\ TurnFits(t, c)
  BY <1>3, ClientParts
<1>6. /\ s <= clientSeq[c] /\ clientSeq[c] <= m_seqNum
      /\ clientActive[c] => s < clientSeq[c]
      /\ \/ x.armed /\ s = x.last
         \/ s < x.last
         \/ x.last < s /\ grabbed[c] # 0
      /\ x.ahead <= clientSeq[c]
  BY <1>1, <1>5 DEF ClaimFits
<1>7. /\ s \in Nat /\ clientSeq[c] \in Nat /\ m_seqNum \in Nat /\ x.last \in Nat
      /\ x.last \in SeqNums /\ clientSeq[c] \in SeqNums /\ x.armed \in BOOLEAN
      /\ x.ahead \in Nat /\ x.ahead \in SeqNums
  BY <1>4, QueueTypes, ConstantFacts DEF Claim
<1>8. PICK y \in Claim :
         /\ y.last = x.last
         /\ y.armed = (x.armed /\ s # x.last)
         /\ y.ahead = IF x.last < s THEN clientSeq[c] ELSE x.ahead
  <2> DEFINE z == [last |-> x.last, armed |-> x.armed /\ s # x.last,
                   ahead |-> IF x.last < s THEN clientSeq[c] ELSE x.ahead]
  <2>1. z \in Claim
    BY <1>7 DEF Claim
  <2> QED BY <2>1
<1>9. ClaimStep(who, m_seqNum, c, x, m.type = "grab", m.seq, y)
  <2>1. s < x.last => y = x
    BY <1>7, <1>8 DEF Claim
  <2>2. s = x.last => y = [x EXCEPT !.armed = FALSE]
    BY <1>7, <1>8 DEF Claim
  <2> QED BY <1>4, <1>6, <1>7, <1>8, <2>1, <2>2 DEF ClaimStep
<1> HIDE DEF m
<1>10. /\ up'[c] = Append(up[c], m) /\ upSender'[c] = NoUpload
       /\ \A d \in Clients \ {c} : up'[d] = up[d] /\ upSender'[d] = upSender[d]
  BY <1>1, <1>2
<1>11. Others(c)
  BY <1>1, <1>2, <1>10 DEF Others, Same
<1>12. Leads(UpSteps(who, m_seqNum, c), up'[c], queued.claims[c], y)
  <2>1. up[c] \in Seq(UpMessage)
    BY QueueTypes
  <2>2. /\ Leads(UpSteps(who, m_seqNum, c), up[c] \o <<m>>, queued.claims[c], y)
        /\ up[c] \o <<m>> = Append(up[c], m)
    BY <2>1, <1>4, <1>5, <1>8, <1>9, WriteUp
  <2> QED BY <1>10, <2>2
<1>13. ClaimFits(who, y, c)'
  <2>1. /\ own[c] /\ clientActive[c] /\ y.last = clientSeq[c] => y.armed
        /\ y.ahead # 0 => grabbed[c] # 0
    BY <1>5, <1>6, <1>7, <1>8 DEF ClaimFits
  <2> QED BY <1>1, <1>2, <1>5, <1>6, <1>7, <1>8, <1>10, <2>1 DEF ClaimFits, SentOut
<1>14. TurnFits(t, c)' /\ TurnNow(c)' = TurnNow(c)
  BY <1>1, <1>2, <1>5 DEF TurnFits, TurnNow
<1>15. ClientFits(who, queued.claims[c], c)'
  <2>1. /\ Leads(UpSteps(who, m_seqNum', c), up'[c], queued.claims[c], y)
        /\ Leads(TurnSteps(who, m_seqNum', c), down'[c], TurnNow(c)', t)
    BY <1>1, <1>2, <1>5, <1>12, <1>14
  <2> QED BY <1>8, <1>13, <1>14, <2>1 DEF ClientFits
<1> QED BY <1>1, <1>3, <1>11, <1>15, ClientStep

\* sendClipboard starts to send.
Sends(c, cond, was) ==
  cond /\ system[c] \notin Oversized /\ (~was \/ system[c] # dataSent[c])

\* It writes the data of the claim that its messages lead to, or data ahead of
\* the next, or starts to send it.
SentFrom(c, sends, was, who, start, x) ==
  /\ sent'[c] = (was \/ sends) /\ dataSent'[c] = IF sends THEN system[c] ELSE dataSent[c]
  /\ \A d \in Clients \ {c} : /\ sent'[d] = sent[d] /\ dataSent'[d] = dataSent[d]
                              /\ up'[d] = up[d] /\ upSender'[d] = upSender[d]
  /\ \E y \in Claim :
        /\ Leads(UpSteps(who, m_seqNum, c), up'[c], start, y) /\ y.last = x.last
        /\ \/ ~sends /\ y = x /\ upSender'[c] = upSender[c]
           \/ sends /\ y = x /\ upSender'[c].seq = clientSeq[c]
           \/ /\ sends /\ upSender'[c] = NoUpload
              /\ \/ x.last < clientSeq[c] /\ y.ahead = clientSeq[c]
                 \/ x.last = clientSeq[c] /\ y.ahead = x.ahead

LEMMA SendClaims ==
  ASSUME SizeInv, NEW c \in Clients, NEW msgs \in Seq(UpMessage),
         NEW cond \in BOOLEAN, NEW was \in BOOLEAN, Send(c, msgs, cond, was),
         NEW sends \in BOOLEAN, sends = Sends(c, cond, was),
         NEW who, NEW start, NEW x \in Claim,
         Leads(UpSteps(who, m_seqNum, c), up[c] \o msgs, start, x),
         clientSeq[c] <= m_seqNum, x.last <= clientSeq[c], x.ahead <= clientSeq[c],
         sends => x.last < clientSeq[c] \/ x.armed
  PROVE  SentFrom(c, sends, was, who, start, x)
<1> DEFINE v == system[c]
           data == [type |-> "data", content |-> v, seq |-> clientSeq[c]]
<1>1. ClientTypes /\ v \in Contents
  <2>1. ClientTypes /\ c \in Screens
    BY ConstantFacts DEF SizeInv
  <2> QED BY <2>1, Copies DEF ClientTypes
<1>2. /\ sent' = [sent EXCEPT ![c] = was \/ sends]
      /\ dataSent' = [dataSent EXCEPT ![c] = IF sends THEN v ELSE @]
      /\ up' = [up EXCEPT ![c] = @ \o msgs \o IF sends /\ v \notin Paced
                                              THEN <<data>> ELSE <<>>]
      /\ upSender' = [upSender EXCEPT ![c] =
               IF ~sends THEN @
               ELSE IF v \in Paced THEN [content |-> v, seq |-> clientSeq[c]]
               ELSE NoUpload]
  BY Zenon DEF Send, Sends
<1>3. /\ sent'[c] = (was \/ sends) /\ dataSent'[c] = (IF sends THEN v ELSE dataSent[c])
      /\ up'[c] = up[c] \o msgs \o (IF sends /\ v \notin Paced THEN <<data>> ELSE <<>>)
      /\ upSender'[c] = (IF ~sends THEN upSender[c]
               ELSE IF v \in Paced THEN [content |-> v, seq |-> clientSeq[c]]
               ELSE NoUpload)
  BY <1>1, <1>2 DEF ClientTypes
<1>4. \A d \in Clients \ {c} : /\ sent'[d] = sent[d] /\ dataSent'[d] = dataSent[d]
                               /\ up'[d] = up[d] /\ upSender'[d] = upSender[d]
  BY <1>1, <1>2 DEF ClientTypes
<1>5. /\ up[c] \in Seq(UpMessage) /\ clientSeq[c] \in SeqNums /\ clientSeq[c] \in Nat
      /\ x.last \in Nat /\ x.ahead \in Nat /\ x.last \in SeqNums /\ x.ahead \in SeqNums
      /\ x.armed \in BOOLEAN
  BY QueueTypes, ConstantFacts DEF Claim
<1>6. data \in UpMessage /\ data.type # "grab" /\ data.seq = clientSeq[c]
  BY <1>1, <1>5 DEF UpMessage
<1> HIDE DEF data
<1>7. up[c] \o msgs \in Seq(UpMessage)
  BY <1>5, ConcatProperties
<1>8. CASE ~sends \/ v \in Paced
  <2>1. up'[c] = (up[c] \o msgs) \o <<>>
    BY <1>3, <1>8
  <2>2. (up[c] \o msgs) \o <<>> = up[c] \o msgs
    BY <1>6, <1>7, AppendOne
  <2>3. Leads(UpSteps(who, m_seqNum, c), up'[c], start, x)
    BY <2>1, <2>2
  <2>4. \/ ~sends /\ upSender'[c] = upSender[c]
        \/ sends /\ upSender'[c].seq = clientSeq[c]
    BY <1>3, <1>8
  <2> QED BY <1>3, <1>4, <2>3, <2>4 DEF SentFrom
<1>9. CASE sends /\ v \notin Paced
  <2>1. PICK y \in Claim :
          /\ y.last = x.last
          /\ y.armed = (x.armed /\ x.last < clientSeq[c])
          /\ y.ahead = IF x.last < clientSeq[c] THEN clientSeq[c] ELSE x.ahead
    <3> DEFINE z == [last |-> x.last, armed |-> x.armed /\ x.last < clientSeq[c],
                     ahead |-> IF x.last < clientSeq[c] THEN clientSeq[c] ELSE x.ahead]
    <3>1. z \in Claim
      BY <1>5 DEF Claim
    <3> QED BY <3>1
  <2>2. ClaimStep(who, m_seqNum, c, x, data.type = "grab", data.seq, y)
    <3>1. CASE x.last < clientSeq[c]
      BY <1>5, <1>6, <2>1, <3>1 DEF ClaimStep
    <3>2. CASE ~ (x.last < clientSeq[c])
      <4>1. x.last = clientSeq[c] /\ x.armed
        BY <1>5, <1>9, <3>2
      <4>2. y = [x EXCEPT !.armed = FALSE]
        BY <1>5, <2>1, <3>2 DEF Claim
      <4> QED BY <1>6, <4>1, <4>2 DEF ClaimStep
    <3> QED BY <3>1, <3>2
  <2>3. Leads(UpSteps(who, m_seqNum, c), (up[c] \o msgs) \o <<data>>, start, y)
    BY <1>6, <1>7, <2>2, WriteUp
  <2>4. up'[c] = (up[c] \o msgs) \o <<data>>
    BY <1>3, <1>9
  <2>5. upSender'[c] = NoUpload
    BY <1>3, <1>9
  <2>6. \/ x.last < clientSeq[c] /\ y.ahead = clientSeq[c]
        \/ x.last = clientSeq[c] /\ y.ahead = x.ahead
    BY <1>5, <2>1
  <2> QED BY <1>3, <1>4, <1>9, <2>1, <2>3, <2>4, <2>5, <2>6 DEF SentFrom
<1> QED BY <1>8, <1>9

LEMMA GrabOnClientClaims ==
  ASSUME SizeInv, SizeInv', NEW who \in [SeqNums -> Screens],
         NEW done \in Front, NEW queued \in Front, Fits(who, done, queued),
         NEW c \in Clients, GrabOnClient(c)
  PROVE  SeqInv'
<1> DEFINE m == [type |-> "grab", seq |-> clientSeq[c]]
           R == UpSteps(who, m_seqNum, c)
<1>1. /\ grabbed[c] # 0 /\ grabbed' = [grabbed EXCEPT ![c] = @ - 1]
      /\ own' = [own EXCEPT ![c] = TRUE]
      /\ Send(c, <<m>>, ~clientActive[c], FALSE)
      /\ UNCHANGED <<serverVars, clientActive, clientSeq, down, downSender, system,
                     drops>>
  BY DEF GrabOnClient
<1>2. /\ ClientTypes /\ clientActive[c] \in BOOLEAN /\ grabbed \in [Clients -> 0 .. copies]
      /\ UNCHANGED <<m_active, m_seqNum, connected>>
  BY <1>1 DEF serverVars, SizeInv, ClientTypes
<1>3. c \in connected
  BY <1>1 DEF Fits, PeersFit, GoneFits
<1>4. PICK x \in Claim, t \in Turn :
         /\ Leads(UpSteps(who, m_seqNum, c), up[c], queued.claims[c], x)
         /\ Leads(TurnSteps(who, m_seqNum, c), down[c], TurnNow(c), t)
         /\ ClaimFits(who, x, c) /\ TurnFits(t, c)
  BY <1>3, ClientParts
<1>5. /\ clientSeq[c] # 0 /\ who[clientSeq[c]] = c /\ x.last <= clientSeq[c]
      /\ clientSeq[c] <= m_seqNum /\ x.ahead <= clientSeq[c]
  BY <1>1, <1>4 DEF ClaimFits
<1>6. m \in UpMessage /\ m.type = "grab" /\ m.seq = clientSeq[c] /\ clientSeq[c] \in SeqNums
      /\ up[c] \in Seq(UpMessage) /\ clientSeq[c] \in Nat
  BY QueueTypes, ConstantFacts DEF UpMessage
<1>7. PICK z \in Claim : z = [last |-> clientSeq[c], armed |-> TRUE, ahead |-> 0]
  BY <1>6, ConstantFacts DEF Claim
<1>8. ClaimStep(who, m_seqNum, c, x, m.type = "grab", m.seq, z)
  BY <1>5, <1>6, <1>7 DEF ClaimStep
<1> HIDE DEF m
<1>9. /\ Leads(UpSteps(who, m_seqNum, c), up[c] \o <<m>>, queued.claims[c], z)
      /\ <<m>> \in Seq(UpMessage)
  BY <1>4, <1>6, <1>8, WriteUp
<1>10. PICK sends \in BOOLEAN : /\ sends = Sends(c, ~clientActive[c], FALSE)
                                /\ sends = (~clientActive[c] /\ system[c] \notin Oversized)
  <2>1. Sends(c, ~clientActive[c], FALSE) = (~clientActive[c] /\ system[c] \notin Oversized)
    BY Zenon DEF Sends
  <2> QED BY <2>1
<1>11. SentFrom(c, sends, FALSE, who, queued.claims[c], z)
  <2>1. PICK cond \in BOOLEAN : cond = ~clientActive[c]
    OBVIOUS
  <2>2. z.last <= clientSeq[c] /\ z.ahead <= clientSeq[c] /\ z.armed
    BY <1>6, <1>7
  <2>3. Send(c, <<m>>, cond, FALSE) /\ sends = Sends(c, cond, FALSE)
    BY <1>1, <1>10, <2>1
  <2> QED BY <1>5, <1>9, <2>2, <2>3, SendClaims
<1>12. PICK y \in Claim :
        /\ Leads(UpSteps(who, m_seqNum, c), up'[c], queued.claims[c], y) /\ y.last = z.last
        /\ \/ ~sends /\ y = z /\ upSender'[c] = upSender[c]
           \/ sends /\ y = z /\ upSender'[c].seq = clientSeq[c]
           \/ sends /\ upSender'[c] = NoUpload /\ y.ahead = 0
  BY <1>6, <1>7, <1>11 DEF SentFrom
<1>13. Others(c)
  <2>1. /\ own'[c] = TRUE
        /\ \A d \in Clients \ {c} : own'[d] = own[d] /\ grabbed'[d] = grabbed[d]
    BY <1>1, <1>2 DEF ClientTypes
  <2> QED BY <1>1, <1>2, <1>11, <2>1 DEF Others, Same, SentFrom
<1>14. ClaimFits(who, y, c)'
  <2>1. /\ y.last = clientSeq[c] /\ y.ahead = 0
        /\ ~sends => y.armed
        /\ clientSeq'[c] = clientSeq[c] /\ clientActive'[c] = clientActive[c]
        /\ system'[c] = system[c] /\ m_seqNum' = m_seqNum
    BY <1>1, <1>2, <1>7, <1>12
  <2>2. upSender'[c] # NoUpload =>
        /\ upSender'[c].seq <= clientSeq[c]
        /\ clientActive[c] => upSender'[c].seq < clientSeq[c]
        /\ (y.armed /\ upSender'[c].seq = y.last) \/ upSender'[c].seq < y.last
    <3>1. CASE ~sends
      <4>1. upSender'[c] = upSender[c] /\ y = z /\ z.armed /\ z.last = clientSeq[c]
        BY <1>7, <1>12, <3>1
      <4>2. upSender[c] # NoUpload => upSender[c].seq \in Nat
        BY <1>2, ConstantFacts DEF ClientTypes, SmallUpload
      <4> QED BY <1>4, <1>6, <4>1, <4>2 DEF ClaimFits
    <3>2. CASE sends
      <4>1. ~clientActive[c]
        BY <1>10, <3>2
      <4> QED BY <1>6, <1>7, <1>12, <3>2, <4>1
    <3> QED BY <3>1, <3>2
  <2>3. own'[c] /\ clientActive'[c] /\ y.last = clientSeq'[c] => y.armed
    BY <1>10, <2>1
  <2>4. own'[c] /\ (~clientActive'[c] \/ (grabbed'[c] = 0 /\ y.last < clientSeq'[c]))
        => SentOut(c)'
    <3>1. ~ (y.last < clientSeq'[c])
      BY <1>6, <2>1
    <3>2. ~clientActive[c] => SentOut(c)'
      BY <1>10, <1>11, <2>1 DEF SentFrom, SentOut
    <3> QED BY <2>1, <3>1, <3>2
  <2>5. y.last <= clientSeq'[c] /\ y.ahead <= clientSeq'[c]
    BY <1>6, <2>1
  <2> QED BY <1>5, <2>1, <2>2, <2>3, <2>4, <2>5 DEF ClaimFits
<1>15. TurnFits(t, c)' /\ TurnNow(c)' = TurnNow(c)
  BY <1>1, <1>2, <1>4 DEF TurnFits, TurnNow
<1>16. ClientFits(who, queued.claims[c], c)'
  <2>1. /\ Leads(UpSteps(who, m_seqNum', c), up'[c], queued.claims[c], y)
        /\ Leads(TurnSteps(who, m_seqNum', c), down'[c], TurnNow(c)', t)
    BY <1>1, <1>2, <1>4, <1>12, <1>15
  <2> QED BY <1>14, <1>15, <2>1 DEF ClientFits
<1> QED BY <1>1, <1>3, <1>13, <1>16, ClientStep

\* The client's own part of ReceiveDown, one message at a time.
LEMMA EnterFits ==
  ASSUME SizeInv, NEW who, NEW c \in Clients, NEW x \in Claim, ClaimFits(who, x, c),
         NEW m \in DownMessage, m.type = "enter", NEW t \in Turn,
         TurnStep(who, m_seqNum, c, TurnNow(c), m, t),
         UNCHANGED <<m_seqNum, own, sent, dataSent, grabbed, upSender, system>>,
         clientActive'[c] = TRUE, clientSeq'[c] = m.seq
  PROVE  TurnNow(c)' = t /\ ClaimFits(who, x, c)'
<1>1. /\ t = [active |-> TRUE, seq |-> m.seq] /\ who[m.seq] = c /\ m.seq <= m_seqNum
      /\ ~clientActive[c] \/ clientSeq[c] = 0
      /\ clientSeq[c] < m.seq
  BY DEF TurnStep, TurnNow
<1>2. /\ x.last \in Nat /\ x.ahead \in Nat /\ clientSeq[c] \in Nat /\ m.seq \in Nat
      /\ clientActive[c] \in BOOLEAN
      /\ upSender[c] # NoUpload => upSender[c].seq \in Nat
  BY QueueTypes, ConstantFacts
     DEF Claim, DownMessage, SizeInv, ClientTypes, SmallUpload
<1>3. own[c] => SentOut(c)
  BY <1>1 DEF ClaimFits
<1>4. TurnNow(c)' = t
  BY <1>1 DEF TurnNow
<1>5. ClaimFits(who, x, c)'
  BY <1>1, <1>2, <1>3 DEF ClaimFits, SentOut
<1> QED BY <1>4, <1>5

LEMMA LeaveFits ==
  ASSUME SizeInv, NEW who, NEW start, NEW c \in Clients, NEW x \in Claim,
         ClaimFits(who, x, c), Leads(UpSteps(who, m_seqNum, c), up[c], start, x),
         Send(c, <<>>, own[c], sent[c]),
         UNCHANGED <<m_seqNum, own, grabbed, clientSeq, system>>, clientActive'[c] = FALSE
  PROVE  /\ \A d \in Clients \ {c} : /\ sent'[d] = sent[d] /\ dataSent'[d] = dataSent[d]
                                     /\ up'[d] = up[d] /\ upSender'[d] = upSender[d]
         /\ \E y \in Claim : /\ Leads(UpSteps(who, m_seqNum, c), up'[c], start, y)
                             /\ ClaimFits(who, y, c)'
<1>1. /\ clientSeq[c] \in Nat /\ clientSeq[c] <= m_seqNum /\ up[c] \in Seq(UpMessage)
      /\ clientActive[c] \in BOOLEAN /\ own[c] \in BOOLEAN /\ sent[c] \in BOOLEAN
      /\ x.last \in Nat /\ x.ahead \in Nat
      /\ x.last <= clientSeq[c] /\ x.ahead <= clientSeq[c]
  BY QueueTypes, ConstantFacts DEF ClaimFits, SizeInv, ClientTypes, Claim
<1>2. PICK sends \in BOOLEAN : sends = Sends(c, own[c], sent[c])
  <2>1. Sends(c, own[c], sent[c]) \in BOOLEAN
    BY <1>1, Zenon DEF Sends
  <2> QED BY <2>1
<1>3. sends <=> own[c] /\ ~SentOut(c)
  BY <1>1, <1>2 DEF Sends, SentOut
<1>4. sends => \/ x.last < clientSeq[c] /\ grabbed[c] # 0
               \/ x.last = clientSeq[c] /\ x.armed
  BY <1>1, <1>3 DEF ClaimFits
<1>5. SentFrom(c, sends, sent[c], who, start, x)
  <2>1. Leads(UpSteps(who, m_seqNum, c), up[c] \o <<>>, start, x) /\ <<>> \in Seq(UpMessage)
    <3>1. up[c] \o <<>> = up[c]
      BY <1>1
    <3> QED BY <3>1
  <2> QED BY <1>1, <1>2, <1>4, <2>1, SendClaims
<1>6. PICK y \in Claim :
        /\ Leads(UpSteps(who, m_seqNum, c), up'[c], start, y) /\ y.last = x.last
        /\ \/ ~sends /\ y = x /\ upSender'[c] = upSender[c]
           \/ sends /\ y = x /\ upSender'[c].seq = clientSeq[c]
           \/ /\ sends /\ upSender'[c] = NoUpload
              /\ \/ x.last < clientSeq[c] /\ y.ahead = clientSeq[c]
                 \/ x.last = clientSeq[c] /\ y.ahead = x.ahead
  BY <1>5 DEF SentFrom
<1>7. own'[c] => SentOut(c)'
  <2>1. /\ sent'[c] = (sent[c] \/ sends)
        /\ dataSent'[c] = IF sends THEN system[c] ELSE dataSent[c]
    BY <1>5 DEF SentFrom
  <2>2. CASE sends
    BY <2>1, <2>2 DEF SentOut
  <2>3. CASE ~sends
    BY <1>3, <2>1, <2>3 DEF SentOut
  <2> QED BY <2>2, <2>3
<1>8. y.ahead <= clientSeq[c] /\ (y.ahead # 0 => grabbed[c] # 0)
  BY <1>1, <1>4, <1>6 DEF ClaimFits
<1>9. upSender'[c] # NoUpload =>
        /\ upSender'[c].seq <= clientSeq[c]
        /\ \/ y.armed /\ upSender'[c].seq = y.last
           \/ upSender'[c].seq < y.last
           \/ y.last < upSender'[c].seq /\ grabbed[c] # 0
  BY <1>1, <1>4, <1>6 DEF ClaimFits
<1>10. ClaimFits(who, y, c)'
  BY <1>1, <1>6, <1>7, <1>8, <1>9 DEF ClaimFits
<1> QED BY <1>5, <1>6, <1>10 DEF SentFrom

LEMMA ReceiveDownClaims ==
  ASSUME SizeInv, SizeInv', NEW who \in [SeqNums -> Screens],
         NEW done \in Front, NEW queued \in Front, Fits(who, done, queued),
         NEW c \in Clients, ReceiveDown(c)
  PROVE  SeqInv'
<1> DEFINE m == Head(down[c])
<1>1. /\ down[c] # <<>> /\ down' = [down EXCEPT ![c] = Tail(@)]
      /\ UNCHANGED <<serverVars, grabbed, downSender, drops>>
  BY DEF ReceiveDown
<1>2. /\ ServerTypes /\ ClientTypes /\ down[c] \in Seq(DownMessage)
      /\ UNCHANGED <<m_active, m_seqNum, connected>>
  BY <1>1, QueueTypes DEF SizeInv, serverVars
<1>3. c \in connected
  BY <1>1 DEF Fits, PeersFit, GoneFits
<1>4. PICK x \in Claim, t2 \in Turn :
         /\ Leads(UpSteps(who, m_seqNum, c), up[c], queued.claims[c], x)
         /\ Leads(TurnSteps(who, m_seqNum, c), down[c], TurnNow(c), t2)
         /\ ClaimFits(who, x, c) /\ TurnFits(t2, c)
  BY <1>3, ClientParts
<1>5. PICK t : /\ <<TurnNow(c), m, t>> \in TurnSteps(who, m_seqNum, c)
               /\ Leads(TurnSteps(who, m_seqNum, c), Tail(down[c]), t, t2)
  BY <1>1, <1>2, <1>4, LeadsHead
<1>6. t \in Turn /\ m \in DownMessage /\ TurnStep(who, m_seqNum, c, TurnNow(c), m, t)
  BY <1>5 DEF TurnSteps
<1>7. /\ down'[c] = Tail(down[c]) /\ \A d \in Clients \ {c} : down'[d] = down[d]
  BY <1>1, <1>2 DEF ServerTypes
<1>8. SUFFICES /\ system'[Primary] = system[Primary]
               /\ \A d \in Clients \ {c} :
                     /\ up'[d] = up[d] /\ upSender'[d] = upSender[d]
                     /\ clientActive'[d] = clientActive[d] /\ clientSeq'[d] = clientSeq[d]
                     /\ own'[d] = own[d] /\ sent'[d] = sent[d]
                     /\ dataSent'[d] = dataSent[d] /\ system'[d] = system[d]
               /\ TurnNow(c)' = t
               /\ \E y \in Claim :
                     /\ Leads(UpSteps(who, m_seqNum, c), up'[c], queued.claims[c], y)
                     /\ ClaimFits(who, y, c)'
  <2>1. Others(c)
    BY <1>1, <1>2, <1>7, <1>8 DEF Others, Same
  <2>2. PICK y \in Claim :
          /\ Leads(UpSteps(who, m_seqNum, c), up'[c], queued.claims[c], y)
          /\ ClaimFits(who, y, c)'
    BY <1>8
  <2>3. /\ Leads(UpSteps(who, m_seqNum', c), up'[c], queued.claims[c], y)
        /\ Leads(TurnSteps(who, m_seqNum', c), down'[c], TurnNow(c)', t2)
    BY <1>2, <1>5, <1>7, <1>8, <2>2
  <2>4. TurnFits(t2, c)'
    BY <1>2, <1>4 DEF TurnFits
  <2>5. ClientFits(who, queued.claims[c], c)'
    BY <2>2, <2>3, <2>4 DEF ClientFits
  <2> QED BY <1>1, <1>3, <1>8, <2>1, <2>5, ClientStep
<1> HIDE DEF m
<1>9. CASE /\ m.type = "enter"
           /\ clientActive' = [clientActive EXCEPT ![c] = TRUE]
           /\ clientSeq' = [clientSeq EXCEPT ![c] = m.seq]
           /\ UNCHANGED <<own, sent, dataSent, system, up, upSender>>
  <2>1. clientActive'[c] = TRUE /\ clientSeq'[c] = m.seq
    BY <1>2, <1>9 DEF ClientTypes
  <2>2. TurnNow(c)' = t /\ ClaimFits(who, x, c)'
    BY <1>1, <1>2, <1>4, <1>6, <1>9, <2>1, EnterFits
  <2>3. \A d \in Clients \ {c} : clientActive'[d] = clientActive[d]
                                 /\ clientSeq'[d] = clientSeq[d]
    BY <1>2, <1>9 DEF ClientTypes
  <2> QED BY <1>4, <1>9, <2>2, <2>3
<1>10. CASE /\ m.type = "leave"
            /\ clientActive' = [clientActive EXCEPT ![c] = FALSE]
            /\ Send(c, <<>>, own[c], sent[c])
            /\ UNCHANGED <<clientSeq, own, system>>
  <2>1. clientActive'[c] = FALSE /\ \A d \in Clients \ {c} : clientActive'[d] = clientActive[d]
    BY <1>2, <1>10 DEF ClientTypes
  <2>2. /\ \A d \in Clients \ {c} : /\ sent'[d] = sent[d] /\ dataSent'[d] = dataSent[d]
                                    /\ up'[d] = up[d] /\ upSender'[d] = upSender[d]
        /\ \E y \in Claim : /\ Leads(UpSteps(who, m_seqNum, c), up'[c], queued.claims[c], y)
                            /\ ClaimFits(who, y, c)'
    BY <1>1, <1>2, <1>4, <1>10, <2>1, LeaveFits
  <2>3. TurnNow(c)' = t
    BY <1>6, <1>10, <2>1 DEF TurnStep, TurnNow
  <2> QED BY <1>10, <2>1, <2>2, <2>3
<1>11. CASE /\ m.type \in {"grab", "data"}
            /\ system' = [system EXCEPT ![c] = IF m.type = "data"
                                               THEN m.content ELSE Empty]
            /\ own' = [own EXCEPT ![c] = FALSE]
            /\ sent' = [sent EXCEPT ![c] = FALSE]
            /\ UNCHANGED <<dataSent, clientActive, clientSeq, up, upSender>>
  <2>1. /\ system'[Primary] = system[Primary]
        /\ \A d \in Clients \ {c} : system'[d] = system[d]
    BY <1>2, <1>11, ConstantFacts DEF ClientTypes
  <2>2. own'[c] = FALSE /\ \A d \in Clients \ {c} : own'[d] = own[d] /\ sent'[d] = sent[d]
    BY <1>2, <1>11 DEF ClientTypes
  <2>3. TurnNow(c)' = t
    BY <1>6, <1>11 DEF TurnStep, TurnNow
  <2>4. ClaimFits(who, x, c)'
    BY <1>1, <1>2, <1>4, <1>11, <2>2 DEF ClaimFits
  <2> QED BY <1>4, <1>11, <2>1, <2>2, <2>3, <2>4
<1> QED BY <1>9, <1>10, <1>11 DEF ReceiveDown, m

\* An event that is put in the queue.
LEMMA EventAdded ==
  ASSUME SizeInv, NEW who, NEW done, NEW queued \in Front, EventsFit(who, done, queued),
         NEW e \in Event, NEW queued2 \in Front, events' = Append(events, e),
         UNCHANGED m_seqNum, queued.top <= queued2.top, e.seq <= queued2.top,
         queued2.top <= m_seqNum,
         OwnStep(who, m_seqNum, queued, e, queued2) \/ PeerStep(who, m_seqNum, queued, e, queued2)
  PROVE  EventsFit(who, done, queued2)'
<1> DEFINE R == EventSteps(who, m_seqNum)
<1>1. <<queued, e, queued2>> \in R
  BY DEF EventSteps
<1>2. events \in Seq(Event) /\ <<e>> \in Seq(Event)
  BY QueueTypes
<1> HIDE DEF R
<1>3. Leads(R, <<e>>, queued, queued2)
  BY <1>1, LeadsOne
<1>4. Leads(R, events \o <<e>>, done, queued2)
  BY <1>2, <1>3, LeadsConcat DEF EventsFit, R
<1>5. events' = events \o <<e>>
  BY <1>2, AppendOne
<1> QED BY <1>4, <1>5 DEF EventsFit, R

LEMMA ReceiveUpClaims ==
  ASSUME SizeInv, SizeInv', NEW who \in [SeqNums -> Screens],
         NEW done \in Front, NEW queued \in Front, Fits(who, done, queued),
         NEW c \in Clients, ReceiveUp(c)
  PROVE  SeqInv'
<1> DEFINE m == Head(up[c])
           e == [type |-> IF m.type = "grab" THEN "grabbed" ELSE "changed",
                 from |-> c, seq |-> m.seq]
<1>1. /\ up[c] # <<>> /\ up' = [up EXCEPT ![c] = Tail(@)]
      /\ events' = Append(events, e)
      /\ UNCHANGED <<m_active, m_seqNum, clipboard, dirty, primarySeq, connected,
                     clientVars, down, downSender, upSender, system, copies, drops>>
  BY DEF ReceiveUp
<1>2. /\ ClientTypes /\ up[c] \in Seq(UpMessage) /\ m_seqNum \in Nat
      /\ UNCHANGED <<clientActive, clientSeq, own, sent, dataSent, grabbed>>
  BY <1>1, QueueTypes DEF SizeInv, clientVars
<1>3. c \in connected /\ c \in Screens /\ c # Primary
  BY <1>1, ConstantFacts DEF Fits, PeersFit, GoneFits
<1>4. PICK x \in Claim, t \in Turn :
         /\ Leads(UpSteps(who, m_seqNum, c), up[c], queued.claims[c], x)
         /\ Leads(TurnSteps(who, m_seqNum, c), down[c], TurnNow(c), t)
         /\ ClaimFits(who, x, c) /\ TurnFits(t, c)
  BY <1>3, ClientParts
<1>5. PICK y : /\ <<queued.claims[c], m, y>> \in UpSteps(who, m_seqNum, c)
               /\ Leads(UpSteps(who, m_seqNum, c), Tail(up[c]), y, x)
  BY <1>1, <1>2, <1>4, LeadsHead
<1>6. /\ y \in Claim /\ m \in UpMessage
      /\ ClaimStep(who, m_seqNum, c, queued.claims[c], m.type = "grab", m.seq, y)
  BY <1>5 DEF UpSteps
<1>7. m.seq \in SeqNums /\ m.seq \in Nat /\ m.seq <= m_seqNum
  BY <1>6, ConstantFacts DEF UpMessage, ClaimStep
<1>8. queued.top \in Nat /\ queued.top \in SeqNums /\ queued.top <= m_seqNum
      /\ queued.claims \in [Clients -> Claim]
  BY ConstantFacts DEF Front, Fits, EventsFit
<1>9. PICK queued2 \in Front :
         /\ queued2.claims = [queued.claims EXCEPT ![c] = y]
         /\ queued2.top = IF queued.top < m.seq THEN m.seq ELSE queued.top
  <2> DEFINE q == [claims |-> [queued.claims EXCEPT ![c] = y],
                   top |-> IF queued.top < m.seq THEN m.seq ELSE queued.top]
  <2>1. q \in Front
    BY <1>6, <1>7, <1>8 DEF Front
  <2> QED BY <2>1
<1>10. /\ queued2.claims[c] = y
       /\ \A d \in Clients \ {c} : queued2.claims[d] = queued.claims[d]
  BY <1>8, <1>9
<1>11. /\ e \in Event /\ e.from = c /\ e.seq = m.seq
       /\ (e.type = "grabbed") = (m.type = "grab")
  BY <1>3, <1>7 DEF Event
<1> HIDE DEF e
<1>12. PeerStep(who, m_seqNum, queued, e, queued2)
  <2>1. ClaimStep(who, m_seqNum, c, queued.claims[c], e.type = "grabbed", e.seq,
                  queued2.claims[c])
    BY <1>6, <1>10, <1>11 DEF ClaimStep
  <2> QED BY <1>3, <1>10, <1>11, <2>1 DEF PeerStep
<1>13. EventsFit(who, done, queued2)'
  <2>1. EventsFit(who, done, queued)
    BY DEF Fits
  <2>2. queued.top <= queued2.top /\ e.seq <= queued2.top /\ queued2.top <= m_seqNum
    BY <1>7, <1>8, <1>9, <1>11
  <2> QED BY <1>1, <1>11, <1>12, <2>1, <2>2, EventAdded
<1>14. WhoFits(who)' /\ ServerFits(who, done)'
  BY <1>1 DEF Fits, WhoFits, ServerFits, AheadOfGrab
<1>15. up'[c] = Tail(up[c]) /\ \A d \in Clients \ {c} : up'[d] = up[d]
  BY <1>1, <1>2 DEF ClientTypes
<1>16. Others(c)
  BY <1>1, <1>2, <1>15 DEF Others, Same
<1>17. ClientFits(who, queued2.claims[c], c)'
  <2>1. ClaimFits(who, x, c)' /\ TurnFits(t, c)' /\ TurnNow(c)' = TurnNow(c)
    BY <1>1, <1>2, <1>4 DEF ClaimFits, SentOut, TurnFits, TurnNow
  <2>2. /\ Leads(UpSteps(who, m_seqNum', c), up'[c], queued2.claims[c], x)
        /\ Leads(TurnSteps(who, m_seqNum', c), down'[c], TurnNow(c)', t)
    BY <1>1, <1>4, <1>5, <1>10, <1>15, <2>1
  <2> QED BY <2>1, <2>2 DEF ClientFits
<1>18. PeersFit(who, queued2)'
  <2>1. IF c \in connected' THEN ClientFits(who, queued2.claims[c], c)'
        ELSE GoneFits(queued2.claims[c], c)'
    BY <1>1, <1>3, <1>17
  <2>2. PeersFit(who, queued) /\ (\A d \in Clients \ {c} : m_active = d => m_active' = d)
    BY <1>1 DEF Fits
  <2> QED BY <1>1, <1>10, <1>16, <2>1, <2>2, OthersKept
<1> QED BY <1>13, <1>14, <1>18 DEF Fits, SeqInv

LEMMA ReconnectClaims ==
  ASSUME SizeInv, SizeInv', NEW who \in [SeqNums -> Screens],
         NEW done \in Front, NEW queued \in Front, Fits(who, done, queued),
         NEW c \in Clients, Reconnect(c)
  PROVE  SeqInv'
<1>1. /\ c \notin connected /\ connected' = connected \cup {c}
      /\ dirty' = dirty \cup {c}
      /\ clientSeq' = [clientSeq EXCEPT ![c] = 0]
      /\ own' = [own EXCEPT ![c] = FALSE]
      /\ sent' = [sent EXCEPT ![c] = FALSE]
      /\ UNCHANGED <<m_active, m_seqNum, clipboard, primarySeq, events,
                     clientActive, dataSent, grabbed, wireVars, system, drops>>
  BY DEF Reconnect
<1>2. /\ ClientTypes /\ m_seqNum \in Nat /\ clientActive[c] \in BOOLEAN
      /\ UNCHANGED <<up, down, upSender, downSender>>
  BY <1>1, QueueTypes DEF SizeInv, wireVars
<1>3. GoneFits(queued.claims[c], c)
  BY <1>1 DEF Fits, PeersFit
<1>4. /\ clientSeq'[c] = 0 /\ own'[c] = FALSE
      /\ \A d \in Clients \ {c} : /\ clientSeq'[d] = clientSeq[d] /\ own'[d] = own[d]
                                  /\ sent'[d] = sent[d]
  BY <1>1, <1>2 DEF ClientTypes
<1>5. Others(c)
  BY <1>1, <1>2, <1>4 DEF Others, Same
<1>6. WhoFits(who)' /\ EventsFit(who, done, queued)'
  BY <1>1 DEF Fits, WhoFits, EventsFit
<1>7. ServerFits(who, done)'
  <2>1. Primary \notin dirty => Primary \notin dirty'
    BY <1>1, ConstantFacts
  <2> QED BY <1>1, <2>1 DEF Fits, ServerFits, AheadOfGrab, AheadOfGrab
<1>8. PICK t \in Turn : t = [active |-> clientActive[c], seq |-> 0]
  BY <1>2, ConstantFacts DEF Turn
<1>9. ClientFits(who, queued.claims[c], c)'
  <2>1. NoClaim \in Claim /\ NoClaim.last = 0 /\ NoClaim.ahead = 0
    BY ConstantFacts DEF NoClaim, Claim
  <2>2. TurnNow(c)' = t /\ TurnFits(t, c)'
    BY <1>1, <1>2, <1>4, <1>8 DEF TurnNow, TurnFits
  <2>3. ClaimFits(who, NoClaim, c)'
    BY <1>1, <1>2, <1>3, <1>4, <2>1 DEF ClaimFits, GoneFits
  <2>4. up'[c] = <<>> /\ down'[c] = <<>> /\ queued.claims[c] = NoClaim
    BY <1>2, <1>3 DEF GoneFits
  <2>5. /\ Leads(UpSteps(who, m_seqNum', c), up'[c], queued.claims[c], NoClaim)
        /\ Leads(TurnSteps(who, m_seqNum', c), down'[c], TurnNow(c)', t)
    BY <2>2, <2>4, LeadsEmpty
  <2> QED BY <2>1, <2>2, <2>3, <2>5 DEF ClientFits
<1>10. PeersFit(who, queued)'
  <2>1. IF c \in connected' THEN ClientFits(who, queued.claims[c], c)'
        ELSE GoneFits(queued.claims[c], c)'
    BY <1>1, <1>9
  <2>2. PeersFit(who, queued) /\ (\A d \in Clients \ {c} : m_active = d => m_active' = d)
    BY <1>1 DEF Fits
  <2> QED BY <1>1, <1>5, <2>1, <2>2, OthersKept
<1> QED BY <1>6, <1>7, <1>10 DEF Fits, SeqInv

LEMMA CopyOnPrimaryClaims ==
  ASSUME SizeInv, SizeInv', ~Background, NEW who \in [SeqNums -> Screens],
         NEW done \in Front, NEW queued \in Front, Fits(who, done, queued),
         CopyOnPrimary
  PROVE  SeqInv'
<1> DEFINE e == [type |-> "grabbed", from |-> Primary, seq |-> primarySeq]
<1>1. /\ m_active = Primary /\ system' = [system EXCEPT ![Primary] = copies + 1]
      /\ events' = Append(events, e)
      /\ UNCHANGED <<m_active, m_seqNum, clipboard, dirty, primarySeq, connected,
                     clientVars, wireVars, drops>>
  BY DEF CopyOnPrimary
<1>2. /\ m_seqNum \in SeqNums /\ m_seqNum \in Nat /\ primarySeq = m_seqNum
      /\ who[primarySeq] = Primary
      /\ UNCHANGED <<up, down, upSender, downSender, clientActive, clientSeq, own, sent,
                     dataSent, grabbed>>
  BY <1>1, QueueTypes DEF Fits, WhoFits, clientVars, wireVars
<1>3. queued.top \in Nat /\ queued.top <= m_seqNum /\ queued.claims \in [Clients -> Claim]
  BY ConstantFacts DEF Fits, EventsFit, Front
<1>4. PICK queued2 \in Front : queued2.claims = queued.claims /\ queued2.top = m_seqNum
  <2>1. [claims |-> queued.claims, top |-> m_seqNum] \in Front
    BY <1>2, <1>3 DEF Front
  <2> QED BY <2>1
<1>5. e \in Event /\ e.type = "grabbed" /\ e.from = Primary /\ e.seq = m_seqNum
  BY <1>2, ConstantFacts DEF Event
<1> HIDE DEF e
<1>6. EventsFit(who, done, queued2)'
  <2>1. EventsFit(who, done, queued)
    BY DEF Fits
  <2>2. OwnStep(who, m_seqNum, queued, e, queued2)
    BY <1>2, <1>3, <1>4, <1>5 DEF OwnStep
  <2>3. queued.top <= queued2.top /\ e.seq <= queued2.top /\ queued2.top <= m_seqNum
    BY <1>2, <1>3, <1>4, <1>5
  <2> QED BY <1>1, <1>5, <2>1, <2>2, <2>3, EventAdded
<1>7. WhoFits(who)'
  BY <1>1 DEF Fits, WhoFits
<1>8. ServerFits(who, done)'
  <2>1. clipboard.data <= system'[Primary]
    <3>1. /\ clipboard.data \in 0 .. copies /\ copies \in Nat
          /\ system \in [Screens -> 0 .. copies]
      BY Copies DEF SizeInv, ServerTypes, ClientTypes, SmallInfo
    <3> QED BY <1>1, <3>1, ConstantFacts
  <2> QED BY <1>1, <2>1 DEF Fits, ServerFits, AheadOfGrab
<1>9. PeersFit(who, queued2)'
  <2>1. ASSUME NEW c \in Clients
        PROVE  IF c \in connected' THEN ClientFits(who, queued2.claims[c], c)'
               ELSE GoneFits(queued2.claims[c], c)'
    <3>1. CASE c \in connected
      <4>1. ClientFits(who, queued.claims[c], c)
        BY <3>1 DEF Fits, PeersFit
      <4>2. Same(c) /\ Told(who, c)
        <5>1. system'[c] = system[c]
          BY <1>1, ConstantFacts DEF SizeInv, ClientTypes
        <5> QED BY <1>1, <1>2, <5>1, ToldNothing DEF Same
      <4>3. ClientFits(who, queued.claims[c], c)'
        BY <1>1, <1>2, <4>1, <4>2, ClientKept
      <4> QED BY <1>1, <1>4, <3>1, <4>3
    <3>2. CASE c \notin connected
      BY <1>1, <1>2, <1>4, <3>2 DEF Fits, PeersFit, GoneFits
    <3> QED BY <3>1, <3>2
  <2> QED BY <2>1 DEF PeersFit
<1> QED BY <1>6, <1>7, <1>8, <1>9 DEF Fits, SeqInv

\* The events that are left when a client's are dropped: they lead on, with no
\* claim of that client, and the last number may go to another screen.
LedWithout(c, who, done, queued) ==
  \E queued2 \in Front : /\ queued2.claims = [queued.claims EXCEPT ![c] = NoClaim]
                         /\ EventsFit(who, done, queued2)

LEMMA EventsLeft ==
  ASSUME SizeInv, NEW who, NEW who2, NEW c \in Clients, NEW done \in Front,
         NEW queued \in Front, EventsFit(who, done, queued), NEW done2 \in Front,
         done2.claims = [done.claims EXCEPT ![c] = NoClaim], done2.top = done.top,
         \A s \in SeqNums : s <= m_seqNum => who2[s] = who[s] \/ who[s] = c,
         events' = Kept(events, {e \in EventType : e.from # c}), UNCHANGED m_seqNum
  PROVE  LedWithout(c, who2, done2, queued)'
<1> DEFINE n == m_seqNum
           K == {e \in EventType : e.from # c}
           R == EventSteps(who, n)
           R2 == EventSteps(who2, n)
           Without(x, x2) == /\ x2.claims = [x.claims EXCEPT ![c] = NoClaim]
                             /\ x2.top <= x.top
           T == {p \in Front \X Front : Without(p[1], p[2])}
<1>1. events \in Seq(Event) /\ n \in Nat /\ Leads(R, events, done, queued)
      /\ queued.top <= n
  BY QueueTypes DEF EventsFit
<1>2. <<done, done2>> \in T
  <2>1. done.top \in Nat
    BY ConstantFacts DEF Front
  <2>2. Without(done, done2)
    BY <2>1
  <2> QED BY <2>2
<1>3. Primary # c /\ SeqNums \subseteq Nat /\ NoClaim \in Claim /\ Event \subseteq EventType
      /\ \A x \in Front : x.claims \in [Clients -> Claim] /\ x.top \in Nat /\ x.top \in SeqNums
  BY ConstantFacts DEF NoClaim, Claim, Event, EventType, Front
<1>4. ASSUME NEW m \in Event, NEW x, NEW y, NEW x2, <<x, m, y>> \in R, <<x, x2>> \in T
      PROVE  IF m \in K THEN \E y2 : <<x2, m, y2>> \in R2 /\ <<y, y2>> \in T
                        ELSE <<y, x2>> \in T
  <2>1. /\ x \in Front /\ y \in Front /\ x2 \in Front /\ Without(x, x2)
        /\ x.top <= y.top /\ m.seq <= y.top /\ y.top <= n
        /\ OwnStep(who, n, x, m, y) \/ PeerStep(who, n, x, m, y)
    BY <1>4 DEF EventSteps
  <2>2. m.seq \in SeqNums /\ m.seq \in Nat /\ x.top \in Nat /\ y.top \in Nat /\ x2.top \in Nat
        /\ x.claims \in [Clients -> Claim] /\ y.claims \in [Clients -> Claim]
    BY <1>3, <2>1 DEF Event
  <2>3. CASE m.from = c
    <3>1. \A d \in Clients : d # c => y.claims[d] = x.claims[d]
      BY <1>3, <2>1, <2>3 DEF OwnStep, PeerStep
    <3>2. x2.claims = [y.claims EXCEPT ![c] = NoClaim]
      BY <2>1, <2>2, <3>1
    <3>3. x2.top <= y.top
      BY <2>1, <2>2
    <3>4. m \notin K
      BY <2>3
    <3> HIDE DEF K
    <3> QED BY <2>1, <3>2, <3>3, <3>4
  <2>4. CASE m.from # c
    <3>1. m \in K
      BY <1>3, <2>4
    <3>2. PICK y2 \in Front : /\ y2.claims = [y.claims EXCEPT ![c] = NoClaim]
                              /\ y2.top = y.top
      <4>1. [claims |-> [y.claims EXCEPT ![c] = NoClaim], top |-> y.top] \in Front
        BY <1>3, <2>1, <2>2 DEF Front
      <4> QED BY <4>1
    <3>3. <<y, y2>> \in T
      BY <2>1, <2>2, <3>2
    <3>4. \A d \in Clients : /\ y2.claims[d] = IF d = c THEN NoClaim ELSE y.claims[d]
                             /\ x2.claims[d] = IF d = c THEN NoClaim ELSE x.claims[d]
      BY <2>1, <2>2, <3>2
    <3>5. OwnStep(who2, n, x2, m, y2) \/ PeerStep(who2, n, x2, m, y2)
      <4>1. CASE OwnStep(who, n, x, m, y)
        <5>1. who2[m.seq] = Primary /\ x2.top <= m.seq
          BY <1>3, <2>1, <2>2, <4>1 DEF OwnStep
        <5>2. y2.claims = x2.claims
          BY <2>1, <3>2, <4>1 DEF OwnStep
        <5> QED BY <4>1, <5>1, <5>2 DEF OwnStep
      <4>2. CASE PeerStep(who, n, x, m, y)
        <5>1. m.from \in Clients
          BY <4>2, ConstantFacts DEF PeerStep, Event
        <5>2. /\ x2.claims[m.from] = x.claims[m.from]
              /\ y2.claims[m.from] = y.claims[m.from]
          BY <2>4, <3>4, <5>1
        <5>3. \A s \in SeqNums : s <= n /\ who[s] = m.from => who2[s] = m.from
          BY <2>4
        <5>4. ClaimStep(who2, n, m.from, x2.claims[m.from], m.type = "grabbed", m.seq,
                        y2.claims[m.from])
          BY <2>2, <4>2, <5>2, <5>3 DEF PeerStep, ClaimStep
        <5>5. \A d \in Clients : d # m.from => y2.claims[d] = x2.claims[d]
          BY <3>4, <4>2 DEF PeerStep
        <5> QED BY <4>2, <5>4, <5>5 DEF PeerStep
      <4> QED BY <2>1, <4>1, <4>2
    <3>6. <<x2, m, y2>> \in R2
      <4>1. x2.top <= y2.top /\ m.seq <= y2.top /\ y2.top <= n
        BY <2>1, <2>2, <3>2
      <4> QED BY <2>1, <3>5, <4>1 DEF EventSteps
    <3> HIDE DEF K, T, R2
    <3> QED BY <3>1, <3>3, <3>6
  <2> QED BY <2>3, <2>4
<1> HIDE DEF K, R, R2, T
<1>5. PICK q2 : Leads(R2, Kept(events, K), done2, q2) /\ <<queued, q2>> \in T
  <2>1. Carries(Event, K, R, R2, T)
    BY <1>4, Zenon DEF Carries
  <2> QED BY <1>1, <1>2, <2>1, KeptLeads
<1>6. q2 \in Front /\ q2.claims = [queued.claims EXCEPT ![c] = NoClaim] /\ q2.top <= queued.top
  BY <1>5 DEF T
<1>7. q2.top <= n
  BY <1>1, <1>3, <1>6
<1>8. EventsFit(who2, done2, q2)'
  BY <1>5, <1>7 DEF EventsFit, R2, K
<1> QED BY <1>6, <1>8 DEF LedWithout

LEMMA DropClaims ==
  ASSUME SizeInv, SizeInv', NEW who \in [SeqNums -> Screens],
         NEW done \in Front, NEW queued \in Front, Fits(who, done, queued),
         NEW c \in Clients, Drop(c)
  PROVE  SeqInv'
<1>1. /\ connected' = connected \ {c} /\ drops' = drops + 1
      /\ events' = Kept(events, {e \in EventType : e.from # c})
      /\ m_active' = (IF m_active = c THEN Primary ELSE m_active)
      /\ primarySeq' = (IF m_active = c THEN m_seqNum ELSE primarySeq)
      /\ down' = [down EXCEPT ![c] = <<>>] /\ up' = [up EXCEPT ![c] = <<>>]
      /\ downSender' = [downSender EXCEPT ![c] = Nothing]
      /\ upSender' = [upSender EXCEPT ![c] = NoUpload]
      /\ grabbed' = [grabbed EXCEPT ![c] = 0]
      /\ UNCHANGED <<m_seqNum, clipboard, dirty, clientActive, clientSeq,
                     own, sent, dataSent, system>>
  BY DEF Drop
<1>2. /\ ServerTypes /\ ClientTypes /\ c # Primary /\ m_seqNum \in Nat
      /\ m_seqNum \in SeqNums /\ NoClaim \in Claim /\ Primary \in Screens
      /\ primarySeq \in SeqNums /\ SeqNums \subseteq Nat
      /\ done.claims \in [Clients -> Claim] /\ queued.claims \in [Clients -> Claim]
  BY QueueTypes, ConstantFacts DEF SizeInv, NoClaim, Claim, Front, ServerTypes
<1>3. WhoFits(who) /\ ServerFits(who, done) /\ EventsFit(who, done, queued)
      /\ PeersFit(who, queued)
  BY DEF Fits
<1>4. PICK who2 \in [SeqNums -> Screens] :
        who2 = IF m_active = c THEN [who EXCEPT ![m_seqNum] = Primary] ELSE who
  BY <1>2
<1>5. \A s \in SeqNums : /\ who2[s] = who[s] \/ who[s] = c
                         /\ who[s] = Primary => who2[s] = Primary
  BY <1>2, <1>3, <1>4 DEF WhoFits
<1>6. PICK done2 \in Front :
        done2.claims = [done.claims EXCEPT ![c] = NoClaim] /\ done2.top = done.top
  <2>1. [claims |-> [done.claims EXCEPT ![c] = NoClaim], top |-> done.top] \in Front
    BY <1>2 DEF Front
  <2> QED BY <2>1
<1>7. PICK queued2 \in Front :
        /\ queued2.claims = [queued.claims EXCEPT ![c] = NoClaim]
        /\ EventsFit(who2, done2, queued2)'
  <2>1. \A s \in SeqNums : s <= m_seqNum => who2[s] = who[s] \/ who[s] = c
    BY <1>5
  <2>2. LedWithout(c, who2, done2, queued)'
    BY <1>1, <1>3, <1>6, <2>1, EventsLeft
  <2> QED BY <2>2 DEF LedWithout
<1>8. WhoFits(who2)'
  <2>1. CASE m_active = c
    BY <1>1, <1>2, <1>4, <2>1 DEF WhoFits
  <2>2. CASE m_active # c
    BY <1>1, <1>3, <1>4, <2>2 DEF WhoFits
  <2> QED BY <2>1, <2>2
<1>9. ServerFits(who2, done2)'
  <2>1. \A d \in Clients : done2.claims[d] = IF d = c THEN NoClaim ELSE done.claims[d]
    BY <1>2, <1>6
  <2>2. NoClaim.last = 0 /\ NoClaim.armed = FALSE /\ clipboard.seqNum \in Nat
    BY QueueTypes DEF NoClaim
  <2>0. AheadOfGrab(done2)'
    <3>1. drops \in Nat
      BY <1>2, ConstantFacts DEF ClientTypes
    <3> QED BY <1>1, <3>1 DEF AheadOfGrab
  <2>3. ASSUME NEW d \in Clients
        PROVE  /\ done2.claims[d].last <= clipboard.seqNum
               /\ done2.claims[d].armed => who2[done2.claims[d].last] = d
               /\ done2.claims[d].armed /\ done2.claims[d].last = clipboard.seqNum
                  => clipboard.owner = d
    <3>1. CASE d = c
      BY <2>1, <2>2, <3>1
    <3>2. CASE d # c
      <4>1. /\ done2.claims[d] = done.claims[d] /\ done.claims[d].last \in SeqNums
        BY <1>2, <2>1, <3>2 DEF Claim
      <4> QED BY <1>3, <1>5, <3>2, <4>1 DEF ServerFits
    <3> QED BY <3>1, <3>2
  <2> QED BY <1>1, <1>3, <1>6, <2>0, <2>3 DEF ServerFits
<1>10. /\ up'[c] = <<>> /\ down'[c] = <<>> /\ upSender'[c] = NoUpload /\ grabbed'[c] = 0
       /\ downSender'[c] = Nothing /\ queued2.claims[c] = NoClaim
       /\ \A d \in Clients \ {c} :
             /\ up'[d] = up[d] /\ down'[d] = down[d] /\ upSender'[d] = upSender[d]
             /\ grabbed'[d] = grabbed[d] /\ downSender'[d] = downSender[d]
             /\ queued2.claims[d] = queued.claims[d]
  <2>1. /\ up'[c] = <<>> /\ upSender'[c] = NoUpload /\ grabbed'[c] = 0
        /\ \A d \in Clients \ {c} : /\ up'[d] = up[d] /\ upSender'[d] = upSender[d]
                                    /\ grabbed'[d] = grabbed[d]
    BY <1>1, <1>2 DEF ClientTypes
  <2>2. /\ down'[c] = <<>> /\ downSender'[c] = Nothing
        /\ \A d \in Clients \ {c} : down'[d] = down[d] /\ downSender'[d] = downSender[d]
    BY <1>1, <1>2 DEF ServerTypes
  <2> QED BY <1>2, <1>7, <2>1, <2>2
<1>11. PeersFit(who2, queued2)'
  <2>1. Others(c)
    BY <1>1, <1>10 DEF Others, Same
  <2>2. IF c \in connected' THEN ClientFits(who2, queued2.claims[c], c)'
        ELSE GoneFits(queued2.claims[c], c)'
    BY <1>1, <1>10 DEF GoneFits
  <2>3. \A d \in Clients \ {c} : m_active = d => m_active' = d
    BY <1>1
  <2>4. UNCHANGED m_seqNum
    BY <1>1
  <2>5. Renumbered(who, who2, c)
    BY <1>5 DEF Renumbered
  <2>6. PeersFit(who, queued) /\ \A d \in Clients \ {c} : queued2.claims[d] = queued.claims[d]
    BY <1>3, <1>10
  <2> QED BY <2>1, <2>2, <2>3, <2>4, <2>5, <2>6, OthersKept
<1> QED BY <1>7, <1>8, <1>9, <1>11 DEF Fits, SeqInv

\* A client that Give has nothing for.
LEMMA GiveNothing ==
  ASSUME SizeInv, NEW dst, NEW v, NEW msgs, Give(dst, v, msgs), NEW c \in Clients,
         c # dst, msgs[c] = <<>>
  PROVE  down'[c] = down[c] /\ downSender'[c] = downSender[c]
<1>1. down'[c] = down[c] \o <<>> \o <<>> /\ downSender'[c] = downSender[c]
  BY DEF Give
<1>2. down[c] \o <<>> \o <<>> = down[c]
  BY QueueTypes
<1> QED BY <1>1, <1>2

LEMMA SwitchClaims ==
  ASSUME SizeInv, SizeInv', NEW who \in [SeqNums -> Screens],
         NEW done \in Front, NEW queued \in Front, Fits(who, done, queued),
         NEW dst \in Screens, Switch(dst)
  PROVE  SeqInv'
<1> DEFINE seq == m_seqNum + 1
           publish == m_active = Primary /\ clipboard.owner = Primary
           v == system[Primary]
           cb == IF publish THEN Changed(clipboard, clipboard.seqNum, v) ELSE clipboard
           old == IF publish /\ Accepted(clipboard, clipboard.seqNum, v)
                  THEN connected ELSE dirty
           give == dst \in old /\ cb.content \notin Oversized
           w == IF give THEN cb.content ELSE Nothing
           msgs == [c \in Clients |-> CASE c = m_active -> <<[type |-> "leave"]>>
                             [] c = dst -> <<[type |-> "enter", seq |-> seq]>>
                             [] OTHER -> <<>>]
<1>1. /\ dst \in connected \cup {Primary} /\ dst # m_active /\ m_seqNum < MaxSwitches
      /\ m_seqNum' = seq /\ m_active' = dst /\ clipboard' = cb
      /\ dirty' = IF give THEN old \ {dst} ELSE old
      /\ primarySeq' = IF dst = Primary THEN seq ELSE primarySeq
      /\ system' = IF give /\ dst = Primary
                   THEN [system EXCEPT ![Primary] = cb.content] ELSE system
      /\ Give(dst, w, msgs)
      /\ UNCHANGED <<connected, events, clientVars, up, upSender, drops>>
  BY DEF Switch
<1>2. /\ ServerTypes /\ ClientTypes /\ m_seqNum \in Nat /\ m_seqNum \in SeqNums
      /\ SeqNums \subseteq Nat /\ copies \in 0 .. MaxCopies /\ v \in 0 .. copies
      /\ clipboard \in SmallInfo(copies) /\ clipboard.seqNum \in SeqNums
      /\ primarySeq \in SeqNums /\ primarySeq \in Nat
      /\ Primary \notin connected
  BY QueueTypes, ConstantFacts DEF SizeInv, ServerTypes, ClientTypes, SmallInfo
<1>3. seq \in SeqNums /\ seq \in Nat /\ m_seqNum < seq
  BY <1>1, <1>2, ConstantFacts DEF SeqNums
<1>4. WhoFits(who) /\ ServerFits(who, done) /\ EventsFit(who, done, queued)
      /\ PeersFit(who, queued)
  BY DEF Fits
<1> HIDE DEF seq
<1>5. PICK who2 \in [SeqNums -> Screens] : who2 = [who EXCEPT ![seq] = dst]
  BY <1>3
<1>6. who2[seq] = dst /\ \A s \in SeqNums : s <= m_seqNum => who2[s] = who[s]
  BY <1>2, <1>3, <1>5
<1>7. WhoFits(who2)'
  <2>1. primarySeq <= m_seqNum /\ who[primarySeq] = Primary
    BY <1>4 DEF WhoFits
  <2> QED BY <1>1, <1>2, <1>3, <1>6, <2>1 DEF WhoFits
<1>8. EventsFit(who2, done, queued)'
  <2>0. queued.top \in SeqNums /\ queued.top <= m_seqNum
    BY <1>4 DEF EventsFit, Front
  <2>1. queued.top <= seq
    <3>1. queued.top \in Nat /\ m_seqNum \in Nat
      BY <1>2, <2>0
    <3> HIDE DEF cb, old, give, w, msgs
    <3> QED BY <1>3, <2>0, <3>1
  <2>2. EventSteps(who, m_seqNum) \subseteq EventSteps(who2, seq)
    BY <1>2, <1>3, <1>6, EventNumbersKept
  <2>3. Leads(EventSteps(who2, seq), events, done, queued)
    BY <1>4, <2>2, LeadsMore DEF EventsFit
  <2> QED BY <1>1, <2>1, <2>3 DEF EventsFit
<1>9. /\ cb.owner = clipboard.owner /\ cb.seqNum = clipboard.seqNum
      /\ cb \in SmallInfo(copies)
      /\ cb.data = clipboard.data \/ (publish /\ cb.data = v)
  <2>1. CASE publish
    <3>1. cb = Changed(clipboard, clipboard.seqNum, v)
      BY <2>1
    <3>2. /\ cb.owner = clipboard.owner /\ cb.seqNum = clipboard.seqNum
          /\ cb \in SmallInfo(copies)
      <4>1. /\ copies \in 0 .. MaxCopies /\ clipboard \in SmallInfo(copies)
            /\ clipboard.seqNum \in SeqNums /\ v \in 0 .. copies
        BY <1>2
      <4> HIDE DEF cb, v
      <4> QED BY <3>1, <4>1, ChangedType
    <3>3. cb.data = clipboard.data \/ cb.data = v
      BY <1>2, <3>1 DEF Changed, SmallInfo
    <3> QED BY <2>1, <3>2, <3>3
  <2>2. CASE ~publish
    <3>1. cb = clipboard
      BY <2>2
    <3> QED BY <1>2, <3>1
  <2> QED BY <2>1, <2>2
<1> HIDE DEF cb
<1>10. ServerFits(who2, done)'
  <2>0. done.top \in SeqNums /\ done.top <= m_seqNum /\ clipboard.seqNum <= done.top
    BY <1>4 DEF ServerFits, Front
  <2>1. done.top \in Nat /\ done.top <= seq /\ clipboard.seqNum <= m_seqNum
        /\ clipboard.seqNum <= done.top /\ clipboard.seqNum \in Nat
    <3>1. done.top \in Nat /\ m_seqNum \in Nat /\ clipboard.seqNum \in Nat
      BY <1>2, <2>0
    <3> HIDE DEF old, give, w, msgs
    <3> QED BY <1>3, <2>0, <3>1
  <2>2. ASSUME NEW c \in Clients
        PROVE  /\ done.claims[c].last <= cb.seqNum
               /\ done.claims[c].armed => who2[done.claims[c].last] = c
               /\ done.claims[c].armed /\ done.claims[c].last = cb.seqNum
                  => cb.owner = c /\ (cb.data = Empty \/ AheadOfGrab(done))
    <3>1. done.claims[c].last \in SeqNums /\ done.claims[c].last <= clipboard.seqNum
      BY <1>4 DEF ServerFits, Front, Claim
    <3>0. done.claims[c].last \in Nat
      BY <1>2, <3>1
    <3>2. done.claims[c].last <= m_seqNum
      BY <1>2, <2>1, <3>0, <3>1
    <3>3. c # Primary
      BY ConstantFacts
    <3> QED BY <1>4, <1>6, <1>9, <3>1, <3>2, <3>3 DEF ServerFits
  <2>3. cb.owner = Primary
        => AheadOfGrab(done) \/ (Primary \notin dirty' /\ cb.data <= system'[Primary])
    <3> SUFFICES ASSUME cb.owner = Primary, ~AheadOfGrab(done)
                 PROVE  Primary \notin dirty' /\ cb.data <= system'[Primary]
      OBVIOUS
    <3>1. Primary \notin dirty /\ clipboard.data <= v
      BY <1>4, <1>9 DEF ServerFits
    <3>2. Primary \notin old
      BY <1>2, <3>1
    <3>3. system' = system /\ Primary \notin dirty'
      BY <1>1, <3>2
    <3>4. v <= v
      BY <1>2
    <3> QED BY <1>9, <3>1, <3>3, <3>4
  <2>4. AheadOfGrab(done) => AheadOfGrab(done)'
    BY <1>1, <1>9 DEF AheadOfGrab
  <2> QED BY <1>1, <2>1, <2>2, <2>3, <2>4, <1>9 DEF ServerFits
<1>11. w \in Small(copies) \cup {Nothing}
  BY <1>2, <1>9, SmallFacts DEF SmallInfo
<1> HIDE DEF w, old
<1>12. ASSUME NEW c \in Clients, c \in connected
       PROVE  Told(who2, c)
  <2> DEFINE R == TurnSteps(who2, seq, c)
             leave == [type |-> "leave"]
             enter == [type |-> "enter", seq |-> seq]
  <2>1. leave \in DownMessage /\ enter \in DownMessage
    BY <1>3 DEF DownMessage
  <2>2. ASSUME NEW a, NEW t \in Turn, TurnFits(t, c), Leads(R, down[c], a, t)
        PROVE  \E t2 \in Turn : Leads(R, down'[c], a, t2) /\ TurnFits(t2, c)'
    <3>1. /\ t.seq \in SeqNums /\ t.seq \in Nat /\ t.seq <= m_seqNum /\ t.active \in BOOLEAN
          /\ t.active => m_active = c \/ t.seq = 0
      BY <1>2, <2>2 DEF Turn, TurnFits
    <3>2. ASSUME NEW t2 \in Turn, msgs[c] \in Seq(DownMessage), Leads(R, msgs[c], t, t2),
                 TurnFits(t2, c)'
          PROVE  \E t3 \in Turn : Leads(R, down'[c], a, t3) /\ TurnFits(t3, c)'
      <4>1. Leads(R, down'[c], a, t2)
        BY <1>1, <1>11, <2>2, <3>2, GiveLeads
      <4> QED BY <3>2, <4>1
    <3>3. CASE c = m_active
      <4>1. PICK t2 \in Turn : t2 = [active |-> FALSE, seq |-> t.seq]
        BY <3>1 DEF Turn
      <4>2. <<t, leave, t2>> \in R
        BY <2>1, <4>1 DEF TurnSteps, TurnStep
      <4>3. msgs[c] = <<leave>>
        <5>1. msgs[c] = CASE c = m_active -> <<leave>> [] c = dst -> <<enter>>
                          [] OTHER -> <<>>
          OBVIOUS
        <5> HIDE DEF msgs, leave, enter
        <5> QED BY <1>1, <3>3, <5>1
      <4>4. TurnFits(t2, c)'
        BY <1>1, <1>2, <1>3, <3>1, <4>1 DEF TurnFits
      <4> HIDE DEF leave, R, msgs
      <4>5. msgs[c] \in Seq(DownMessage) /\ Leads(R, msgs[c], t, t2)
        BY <2>1, <4>2, <4>3, LeadsOne
      <4> QED BY <3>2, <4>4, <4>5
    <3>4. CASE c # m_active /\ c = dst
      <4>1. PICK t2 \in Turn : t2 = [active |-> TRUE, seq |-> seq]
        BY <1>3 DEF Turn
      <4>2. <<t, enter, t2>> \in R
        <5>1. /\ ~t.active \/ t.seq = 0
              /\ t.seq < seq /\ seq <= seq /\ who2[seq] = c
          BY <1>2, <1>3, <1>6, <3>1, <3>4
        <5>2. TurnStep(who2, seq, c, t, enter, t2)
          BY <4>1, <5>1 DEF TurnStep
        <5> QED BY <2>1, <5>2 DEF TurnSteps
      <4>3. msgs[c] = <<enter>>
        BY <3>4
      <4>4. TurnFits(t2, c)'
        BY <1>1, <1>3, <3>4, <4>1 DEF TurnFits
      <4> HIDE DEF enter, R, msgs
      <4>5. msgs[c] \in Seq(DownMessage) /\ Leads(R, msgs[c], t, t2)
        BY <2>1, <4>2, <4>3, LeadsOne
      <4> QED BY <3>2, <4>4, <4>5
    <3>5. CASE c # m_active /\ c # dst
      <4>1. msgs[c] = <<>>
        BY <3>5
      <4>2. TurnFits(t, c)'
        BY <1>1, <1>2, <1>3, <3>1, <3>5 DEF TurnFits
      <4> HIDE DEF R, msgs
      <4>3. msgs[c] \in Seq(DownMessage) /\ Leads(R, msgs[c], t, t)
        BY <4>1, LeadsEmpty
      <4> QED BY <3>2, <4>2, <4>3
    <3> QED BY <3>3, <3>4, <3>5
  <2> QED BY <1>1, <2>2 DEF Told
<1>13. PeersFit(who2, queued)'
  <2>1. UNCHANGED <<up, upSender, clientActive, clientSeq, own, sent, dataSent,
                  grabbed, connected>>
    BY <1>1 DEF clientVars
  <2>2. ASSUME NEW c \in Clients
        PROVE  IF c \in connected' THEN ClientFits(who2, queued.claims[c], c)'
               ELSE GoneFits(queued.claims[c], c)'
    <3>1. CASE c \in connected
      <4>1. ClientFits(who, queued.claims[c], c)
        BY <1>4, <3>1 DEF PeersFit
      <4>2. Same(c) /\ m_seqNum <= m_seqNum'
        <5>1. system'[c] = system[c]
          BY <1>1, <1>2, ConstantFacts DEF ClientTypes
        <5> QED BY <1>1, <1>2, <1>3, <2>1, <5>1 DEF Same
      <4>3. ClientFits(who2, queued.claims[c], c)'
        BY <1>6, <1>12, <3>1, <4>1, <4>2, ClientKept
      <4> QED BY <2>1, <3>1, <4>3
    <3>2. CASE c \notin connected
      <4>1. c # dst /\ c # m_active
        BY <1>1, <1>2, <3>2, ConstantFacts DEF ServerTypes
      <4>2. msgs[c] = <<>>
        BY <4>1
      <4> HIDE DEF msgs
      <4>3. down'[c] = down[c] /\ downSender'[c] = downSender[c]
        BY <1>1, <4>1, <4>2, GiveNothing
      <4> QED BY <1>4, <2>1, <3>2, <4>3 DEF PeersFit, GoneFits
    <3> QED BY <3>1, <3>2
  <2> QED BY <2>2 DEF PeersFit
<1> QED BY <1>7, <1>8, <1>10, <1>13 DEF Fits, SeqInv

\* The next event: a step of the claims, from which the others lead on.
LEMMA NextEvent ==
  ASSUME SizeInv, NEW who, NEW done, NEW queued, EventsFit(who, done, queued),
         events # <<>>
  PROVE  \E done2 \in Front :
            /\ <<done, Head(events), done2>> \in EventSteps(who, m_seqNum)
            /\ Leads(EventSteps(who, m_seqNum), Tail(events), done2, queued)
<1>1. PICK done2 : /\ <<done, Head(events), done2>> \in EventSteps(who, m_seqNum)
                   /\ Leads(EventSteps(who, m_seqNum), Tail(events), done2, queued)
  BY QueueTypes, LeadsHead DEF EventsFit
<1> QED BY <1>1 DEF EventSteps

\* An update that the server would accept is the owner's first, or ahead of a grab.
LEMMA FirstOfOwner ==
  ASSUME SizeInv, NEW who, NEW done, NEW e, NEW done2, ServerFits(who, done),
         <<done, e, done2>> \in EventSteps(who, m_seqNum), e.type = "changed"
  PROVE  /\ e.from \in Clients
         /\ \/ e.seq < clipboard.seqNum
            \/ /\ clipboard.owner = e.from
               /\ clipboard.data = Empty \/ AheadOfGrab(done)
            \/ /\ done2.claims[e.from].ahead # 0
               /\ clipboard.seqNum <= done2.claims[e.from].ahead
<1>1. /\ done \in Front /\ e \in Event /\ done2 \in Front
      /\ OwnStep(who, m_seqNum, done, e, done2) \/ PeerStep(who, m_seqNum, done, e, done2)
  BY DEF EventSteps
<1>2. e.from \in Clients /\ e.seq \in Nat /\ clipboard.seqNum \in Nat
  BY <1>1, QueueTypes, ConstantFacts DEF Event, OwnStep
<1> DEFINE x == done.claims[e.from]
           y == done2.claims[e.from]
<1>3. x \in Claim /\ x.last \in Nat /\ y \in Claim /\ y.ahead \in Nat
  BY <1>1, <1>2, ConstantFacts DEF Front, Claim
<1>4. \/ x.armed /\ e.seq = x.last
      \/ e.seq < x.last
      \/ x.last < e.seq /\ e.seq <= y.ahead
  BY <1>1 DEF OwnStep, PeerStep, ClaimStep
<1>5. /\ x.last <= clipboard.seqNum
      /\ x.armed /\ x.last = clipboard.seqNum
         => clipboard.owner = e.from /\ (clipboard.data = Empty \/ AheadOfGrab(done))
  BY <1>2 DEF ServerFits
<1> HIDE DEF x, y
<1>6. CASE x.last < e.seq /\ e.seq <= y.ahead
  <2>1. y.ahead # 0 /\ (e.seq < clipboard.seqNum \/ clipboard.seqNum <= y.ahead)
    BY <1>2, <1>3, <1>6
  <2> QED BY <1>2, <2>1 DEF y
<1>7. CASE (x.armed /\ e.seq = x.last) \/ e.seq < x.last
  BY <1>2, <1>3, <1>5, <1>7
<1> QED BY <1>4, <1>6, <1>7

\* What the clients are told by an event.
Informed(who) ==
  \A c \in Clients : IF c \in connected THEN Told(who, c)
                     ELSE down'[c] = down[c] /\ downSender'[c] = downSender[c]

LEMMA GiveInforms ==
  ASSUME SizeInv, NEW v \in Small(copies) \cup {Nothing}, NEW msgs,
         Give(m_active, v, msgs), UNCHANGED <<m_active, m_seqNum>>, NEW who,
         \A c \in Clients : \/ msgs[c] = <<>>
                            \/ c \in connected /\ msgs[c] = <<[type |-> "grab"]>>
  PROVE  Informed(who)
<1>1. ASSUME NEW c \in Clients, c \in connected PROVE Told(who, c)
  BY <1>1, GiveTold
<1>2. ASSUME NEW c \in Clients, c \notin connected
      PROVE  down'[c] = down[c] /\ downSender'[c] = downSender[c]
  <2>1. c # m_active /\ msgs[c] = <<>>
    BY <1>2, ConstantFacts DEF SizeInv, ServerTypes
  <2> QED BY <2>1, GiveNothing
<1> QED BY <1>1, <1>2 DEF Informed

\* An event leaves the invariant, if it leaves the server's part.
LEMMA EventHandled ==
  ASSUME SizeInv, SizeInv', NEW who \in [SeqNums -> Screens], NEW done \in Front,
         NEW queued \in Front, Fits(who, done, queued), NEW done2 \in Front,
         events' = Tail(events),
         Leads(EventSteps(who, m_seqNum), Tail(events), done2, queued),
         UNCHANGED <<m_active, m_seqNum, primarySeq, connected, clientVars, up, upSender>>,
         \A c \in Clients : system'[c] = system[c],
         Informed(who), ServerFits(who, done2)'
  PROVE  SeqInv'
<1>1. WhoFits(who)' /\ EventsFit(who, done2, queued)'
  BY DEF Fits, WhoFits, EventsFit
<1>2. UNCHANGED <<clientActive, clientSeq, own, sent, dataSent, grabbed>> /\ m_seqNum \in Nat
  BY QueueTypes DEF clientVars
<1>3. ASSUME NEW c \in Clients
      PROVE  IF c \in connected' THEN ClientFits(who, queued.claims[c], c)'
             ELSE GoneFits(queued.claims[c], c)'
  <2>1. CASE c \in connected
    <3>1. ClientFits(who, queued.claims[c], c)
      BY <2>1 DEF Fits, PeersFit
    <3>2. Same(c) /\ Told(who, c) /\ m_seqNum <= m_seqNum'
      BY <1>2, <2>1 DEF Same, Informed
    <3>3. ClientFits(who, queued.claims[c], c)'
      BY <3>1, <3>2, ClientKept
    <3> QED BY <2>1, <3>3
  <2>2. CASE c \notin connected
    <3>1. down'[c] = down[c] /\ downSender'[c] = downSender[c]
      BY <2>2 DEF Informed
    <3> QED BY <1>2, <2>2, <3>1 DEF Fits, PeersFit, GoneFits
  <2> QED BY <2>1, <2>2
<1>4. PeersFit(who, queued)'
  BY <1>3 DEF PeersFit
<1> QED BY <1>1, <1>4 DEF Fits, SeqInv

\* A grab: it is refused for its number, or its screen becomes the owner.
LEMMA GrabbedClaims ==
  ASSUME SizeInv, NEW who, NEW done, NEW e, NEW done2, ServerFits(who, done),
         <<done, e, done2>> \in EventSteps(who, m_seqNum), e.type = "grabbed",
         HandleGrabbed(e.from, e.seq), UNCHANGED <<m_active, m_seqNum, connected, drops>>
  PROVE  /\ ServerFits(who, done2)' /\ Informed(who)
         /\ \A c \in Clients : system'[c] = system[c]
<1> DEFINE from == e.from
           cleared == [owner |-> from, seqNum |-> e.seq, content |-> Empty,
                       data |-> Empty]
           v == system[Primary]
           away == from = Primary /\ m_active # Primary
           resend == away /\ Accepted(cleared, e.seq, v)
           others == (connected \cup {Primary}) \ {from}
           msgs == [c \in Clients |-> IF c \in connected \ {from}
                                      THEN <<[type |-> "grab"]>> ELSE <<>>]
           w == IF resend THEN v ELSE Nothing
<1>1. /\ done \in Front /\ e \in Event /\ done2 \in Front
      /\ done.top <= done2.top /\ e.seq <= done2.top /\ done2.top <= m_seqNum
      /\ OwnStep(who, m_seqNum, done, e, done2) \/ PeerStep(who, m_seqNum, done, e, done2)
  BY DEF EventSteps
<1>2. from \in Screens /\ e.seq \in SeqNums /\ e.seq \in Nat /\ clipboard.seqNum \in Nat
      /\ done.top \in Nat /\ done2.top \in Nat /\ v \in 0 .. copies /\ v \in Nat
      /\ copies \in 0 .. MaxCopies
  BY <1>1, QueueTypes, Copies, ConstantFacts DEF Event, Front, SizeInv, ClientTypes
<1>3. \A c \in Clients : /\ done.claims[c].last \in Nat /\ done.claims[c].last <= clipboard.seqNum
                         /\ done.claims[c].armed => who[done.claims[c].last] = c
                         /\ done.claims[c].armed /\ done.claims[c].last = clipboard.seqNum
                            => clipboard.owner = c
                               /\ (clipboard.data = Empty \/ AheadOfGrab(done))
                         /\ done.claims[c].ahead \in Nat
  BY <1>1, ConstantFacts DEF ServerFits, Front, Claim
<1>4. clipboard.seqNum <= done.top
  BY DEF ServerFits
<1>5. CASE from # Primary /\ e.seq < clipboard.seqNum
  <2>1. UNCHANGED <<clipboard, dirty, system, down, downSender>>
    BY <1>5 DEF HandleGrabbed
  <2>2. Informed(who)
    BY <2>1, ToldNothing DEF Informed
  <2>3. PeerStep(who, m_seqNum, done, e, done2) /\ from \in Clients
    BY <1>1, <1>2, <1>5, ConstantFacts DEF OwnStep
  <2>4. /\ done2.claims[from] = [last |-> e.seq, armed |-> TRUE, ahead |-> 0]
        /\ who[e.seq] = from /\ done.claims[from].ahead <= e.seq
        /\ \A d \in Clients : d # from => done2.claims[d] = done.claims[d]
    BY <2>3 DEF PeerStep, ClaimStep
  <2>5. ASSUME NEW c \in Clients
        PROVE  /\ done2.claims[c].last <= clipboard.seqNum
               /\ done2.claims[c].armed => who[done2.claims[c].last] = c
               /\ done2.claims[c].armed /\ done2.claims[c].last = clipboard.seqNum
                  => clipboard.owner = c /\ (clipboard.data = Empty \/ AheadOfGrab(done))
    <3>1. CASE c = from
      BY <1>2, <1>5, <2>4, <3>1
    <3>2. CASE c # from
      BY <1>3, <2>4, <3>2
    <3> QED BY <3>1, <3>2
  <2>6. clipboard.seqNum <= done2.top
    BY <1>1, <1>2, <1>4
  <2>7. AheadOfGrab(done) => AheadOfGrab(done2)'
    <3> SUFFICES ASSUME NEW d \in Clients, done.claims[d].ahead # 0,
                        clipboard.seqNum <= done.claims[d].ahead
                 PROVE  AheadOfGrab(done2)'
      BY DEF AheadOfGrab
    <3>1. d # from
      BY <1>2, <1>3, <1>5, <2>4
    <3>2. done2.claims[d] = done.claims[d]
      BY <2>4, <3>1
    <3> QED BY <2>1, <3>2 DEF AheadOfGrab
  <2>8. clipboard.owner = Primary
        => AheadOfGrab(done) \/ (Primary \notin dirty /\ clipboard.data <= system[Primary])
    BY DEF ServerFits
  <2> QED BY <1>1, <2>1, <2>2, <2>5, <2>6, <2>7, <2>8 DEF ServerFits
<1>6. CASE ~ (from # Primary /\ e.seq < clipboard.seqNum)
  <2>1. /\ clipboard' = (IF away THEN Changed(cleared, e.seq, v) ELSE cleared)
        /\ dirty' = others \ (IF resend THEN {m_active} ELSE {})
        /\ system' = IF from = Primary THEN system
                     ELSE [system EXCEPT ![Primary] = Empty]
        /\ Give(m_active, w, msgs)
    BY <1>6 DEF HandleGrabbed
  <2>2. w \in Small(copies) \cup {Nothing}
    BY <1>2, SmallFacts DEF Accepted
  <2>3. \A c \in Clients : \/ msgs[c] = <<>>
                           \/ c \in connected /\ msgs[c] = <<[type |-> "grab"]>>
    OBVIOUS
  <2>4. Informed(who)
    <3> HIDE DEF w, msgs
    <3> QED BY <2>1, <2>2, <2>3, GiveInforms
  <2>5. /\ clipboard'.owner = from /\ clipboard'.seqNum = e.seq
        /\ clipboard'.data = Empty \/ (from = Primary /\ clipboard'.data = v)
    <3>1. cleared.owner = from /\ cleared.seqNum = e.seq /\ cleared.data = Empty
      OBVIOUS
    <3>2. cleared \in SmallInfo(copies)
      BY <1>2, SmallFacts DEF SmallInfo
    <3> HIDE DEF cleared
    <3>3. Changed(cleared, e.seq, v).owner = from /\ Changed(cleared, e.seq, v).seqNum = e.seq
          /\ Changed(cleared, e.seq, v).data \in {Empty, v}
      BY <1>2, <3>1, <3>2, ChangedType
    <3> QED BY <2>1, <3>1, <3>3
  <2>6. clipboard.seqNum <= e.seq
    BY <1>1, <1>2, <1>4, <1>6 DEF OwnStep, PeerStep
  <2>7. /\ who[e.seq] = from
        /\ \A d \in Clients : d # from => done2.claims[d] = done.claims[d]
        /\ from # Primary => done2.claims[from] = [last |-> e.seq, armed |-> TRUE, ahead |-> 0]
    BY <1>1 DEF OwnStep, PeerStep, ClaimStep
  <2>8. ASSUME NEW c \in Clients
        PROVE  /\ done2.claims[c].last <= e.seq
               /\ done2.claims[c].armed => who[done2.claims[c].last] = c
               /\ done2.claims[c].armed /\ done2.claims[c].last = e.seq
                  => from = c /\ clipboard'.data = Empty
    <3>0. c # Primary
      BY ConstantFacts
    <3>1. CASE c = from
      BY <1>2, <2>5, <2>7, <3>0, <3>1
    <3>2. CASE c # from
      BY <1>2, <1>3, <2>6, <2>7, <3>2
    <3> QED BY <3>1, <3>2
  <2>9. from = Primary => Primary \notin dirty' /\ clipboard'.data <= system'[Primary]
    BY <1>2, <2>1, <2>5, ConstantFacts
  <2>10. \A c \in Clients : system'[c] = system[c]
    BY <2>1, ConstantFacts DEF SizeInv, ClientTypes
  <2> QED BY <1>1, <2>4, <2>5, <2>8, <2>9, <2>10 DEF ServerFits
<1> QED BY <1>5, <1>6

\* An update: the server shares the owner's first, or one ahead of its grab.
LEMMA ChangedClaims ==
  ASSUME SizeInv, NEW who, NEW done, NEW e, NEW done2, ServerFits(who, done),
         <<done, e, done2>> \in EventSteps(who, m_seqNum), e.type = "changed",
         HandleChanged(e.from, e.seq), UNCHANGED <<m_active, m_seqNum, connected, drops>>
  PROVE  /\ ServerFits(who, done2)' /\ Informed(who)
         /\ \A c \in Clients : system'[c] = system[c]
<1> DEFINE from == e.from
           v == proxyClip[from]
           accepted == Accepted(clipboard, e.seq, v)
           dst == IF accepted /\ m_active # from THEN {m_active} ELSE {}
           w == IF dst = {} THEN Nothing ELSE v
           msgs == [c \in Clients |-> <<>>]
<1>1. /\ done \in Front /\ e \in Event /\ done2 \in Front
      /\ done.top <= done2.top /\ e.seq <= done2.top /\ done2.top <= m_seqNum
      /\ PeerStep(who, m_seqNum, done, e, done2)
  BY DEF EventSteps, OwnStep
<1>2. /\ from \in Clients /\ from # Primary
      /\ \/ e.seq < clipboard.seqNum
         \/ clipboard.owner = from /\ (clipboard.data = Empty \/ AheadOfGrab(done))
         \/ /\ done2.claims[from].ahead # 0
            /\ clipboard.seqNum <= done2.claims[from].ahead
  BY FirstOfOwner, ConstantFacts
<1>3. /\ e.seq \in SeqNums /\ e.seq \in Nat /\ clipboard.seqNum \in Nat
      /\ done.top \in Nat /\ done2.top \in Nat
      /\ copies \in 0 .. MaxCopies /\ v \in Small(copies) /\ v \in 0 .. copies
      /\ clipboard \in SmallInfo(copies)
  BY <1>1, <1>2, QueueTypes, Copies, ConstantFacts
     DEF Event, Front, SizeInv, ServerTypes
<1>4. \A c \in Clients : /\ done.claims[c].last \in Nat /\ done.claims[c].last <= clipboard.seqNum
                         /\ done.claims[c].armed => who[done.claims[c].last] = c
                         /\ done.claims[c].armed /\ done.claims[c].last = clipboard.seqNum
                            => clipboard.owner = c
                               /\ (clipboard.data = Empty \/ AheadOfGrab(done))
                         /\ done.claims[c].armed \in BOOLEAN
                         /\ done.claims[c].ahead \in Nat /\ done2.claims[c].ahead \in Nat
  BY <1>1, ConstantFacts DEF ServerFits, Front, Claim
<1>5. clipboard.seqNum <= done2.top
  <2>1. clipboard.seqNum <= done.top
    BY DEF ServerFits
  <2> QED BY <1>1, <1>3, <2>1
<1>6. /\ clipboard' = Changed(clipboard, e.seq, v)
      /\ dirty' = (IF accepted THEN ((connected \cup {Primary}) \ {from}) \ dst ELSE dirty)
      /\ system' = IF Primary \in dst THEN [system EXCEPT ![Primary] = v] ELSE system
      /\ Give(m_active, w, msgs)
  BY DEF HandleChanged
<1>7. Informed(who)
  <2>1. w \in Small(copies) \cup {Nothing}
    BY <1>3
  <2>2. \A c \in Clients : msgs[c] = <<>>
    OBVIOUS
  <2> HIDE DEF w, msgs
  <2> QED BY <1>6, <2>1, <2>2, GiveInforms
<1>8. clipboard'.owner = clipboard.owner /\ clipboard'.seqNum = clipboard.seqNum
  <2> HIDE DEF v
  <2> QED BY <1>3, <1>6, ChangedType
<1>9. e.seq < clipboard.seqNum => UNCHANGED <<clipboard, dirty, system>>
  BY <1>3, <1>6 DEF Changed, Accepted
<1>10. \A c \in Clients : system'[c] = system[c]
  BY <1>6, ConstantFacts DEF SizeInv, ClientTypes
<1>11. /\ \A d \in Clients : d # from => done2.claims[d] = done.claims[d]
       /\ done2.claims[from].last = done.claims[from].last
       /\ done.claims[from].ahead <= done2.claims[from].ahead
       /\ done2.claims[from].armed => done.claims[from].armed
       /\ \/ ~ done2.claims[from].armed
          \/ e.seq < done.claims[from].last
          \/ done2.claims[from].ahead # 0 /\ e.seq <= done2.claims[from].ahead
  <2>1. /\ ClaimStep(who, m_seqNum, from, done.claims[from], FALSE, e.seq, done2.claims[from])
        /\ \A d \in Clients : d # from => done2.claims[d] = done.claims[d]
        /\ done.claims[from] \in Claim /\ done2.claims[from] \in Claim
    BY <1>1, <1>2 DEF PeerStep, Front
  <2>2. \/ done.claims[from].armed /\ done2.claims[from] = [done.claims[from] EXCEPT !.armed = FALSE]
        \/ e.seq < done.claims[from].last /\ done2.claims[from] = done.claims[from]
        \/ /\ done.claims[from].last < e.seq /\ e.seq <= done2.claims[from].ahead
           /\ done.claims[from].ahead <= done2.claims[from].ahead
           /\ done2.claims[from].last = done.claims[from].last
           /\ done2.claims[from].armed = done.claims[from].armed
    BY <2>1 DEF ClaimStep
  <2> QED BY <1>2, <1>3, <1>4, <2>1, <2>2 DEF Claim
<1>12. AheadOfGrab(done) => AheadOfGrab(done2)'
  <2> SUFFICES ASSUME NEW d \in Clients, done.claims[d].ahead # 0,
                      clipboard.seqNum <= done.claims[d].ahead
               PROVE  AheadOfGrab(done2)'
    BY DEF AheadOfGrab
  <2>1. done.claims[d].ahead <= done2.claims[d].ahead
    BY <1>4, <1>11
  <2>2. done2.claims[d].ahead # 0 /\ clipboard.seqNum <= done2.claims[d].ahead
    BY <1>3, <1>4, <2>1
  <2> QED BY <1>8, <2>2 DEF AheadOfGrab
<1>13. \/ UNCHANGED <<clipboard, dirty, system>> /\ e.seq < clipboard.seqNum
       \/ clipboard.owner = from /\ ~ done2.claims[from].armed
       \/ AheadOfGrab(done2)'
  <2>1. CASE e.seq < clipboard.seqNum
    BY <1>9, <2>1
  <2>2. CASE /\ done2.claims[from].ahead # 0
             /\ clipboard.seqNum <= done2.claims[from].ahead
    BY <1>2, <1>8, <2>2 DEF AheadOfGrab
  <2>3. CASE ~ (e.seq < clipboard.seqNum) /\ clipboard.owner = from
    <3>1. ~ (e.seq < done.claims[from].last)
      BY <1>2, <1>3, <1>4, <2>3
    <3>2. CASE ~ done2.claims[from].armed
      BY <2>3, <3>2
    <3>3. CASE done2.claims[from].ahead # 0 /\ e.seq <= done2.claims[from].ahead
      <4>1. clipboard.seqNum <= done2.claims[from].ahead
        BY <1>2, <1>3, <1>4, <2>3, <3>3
      <4> QED BY <2>2, <3>3, <4>1
    <3> QED BY <1>11, <3>1, <3>2, <3>3
  <2> QED BY <1>2, <2>1, <2>2, <2>3
<1>14. ASSUME NEW c \in Clients
       PROVE  /\ done2.claims[c].last <= clipboard'.seqNum
              /\ done2.claims[c].armed => who[done2.claims[c].last] = c
              /\ done2.claims[c].armed /\ done2.claims[c].last = clipboard'.seqNum
                 => clipboard'.owner = c /\ (clipboard'.data = Empty \/ AheadOfGrab(done2)')
  <2>1. /\ done2.claims[c].last = done.claims[c].last
        /\ done2.claims[c].armed => done.claims[c].armed
    BY <1>11
  <2>2. ASSUME done2.claims[c].armed, done2.claims[c].last = clipboard.seqNum
        PROVE  clipboard.owner = c /\ (clipboard'.data = Empty \/ AheadOfGrab(done2)')
    <3>1. clipboard.owner = c /\ (clipboard.data = Empty \/ AheadOfGrab(done2)')
      BY <1>4, <1>12, <2>1, <2>2
    <3>2. ~ (clipboard.owner = from /\ ~ done2.claims[from].armed)
      BY <2>2, <3>1
    <3> QED BY <1>13, <3>1, <3>2
  <2> QED BY <1>4, <1>8, <2>1, <2>2
<1>15. clipboard'.owner = Primary
       => \/ AheadOfGrab(done2)'
          \/ Primary \notin dirty' /\ clipboard'.data <= system'[Primary]
  <2> SUFFICES ASSUME clipboard.owner = Primary, ~ AheadOfGrab(done2)'
               PROVE  Primary \notin dirty' /\ clipboard'.data <= system'[Primary]
    BY <1>8
  <2>1. UNCHANGED <<clipboard, dirty, system>>
    BY <1>2, <1>13
  <2> QED BY <1>12, <2>1 DEF ServerFits
<1> QED BY <1>1, <1>5, <1>7, <1>8, <1>10, <1>14, <1>15 DEF ServerFits

LEMMA HandleEventClaims ==
  ASSUME SizeInv, SizeInv', NEW who \in [SeqNums -> Screens],
         NEW done \in Front, NEW queued \in Front, Fits(who, done, queued), HandleEvent
  PROVE  SeqInv'
<1> DEFINE e == Head(events)
<1>1. /\ events # <<>> /\ events' = Tail(events)
      /\ IF e.type = "grabbed" THEN HandleGrabbed(e.from, e.seq)
                               ELSE HandleChanged(e.from, e.seq)
      /\ UNCHANGED <<m_active, m_seqNum, primarySeq, connected, clientVars, up, upSender,
                     drops>>
  BY DEF HandleEvent
<1>2. ServerFits(who, done) /\ EventsFit(who, done, queued)
  BY DEF Fits
<1>3. PICK done2 \in Front :
        /\ <<done, e, done2>> \in EventSteps(who, m_seqNum)
        /\ Leads(EventSteps(who, m_seqNum), Tail(events), done2, queued)
  BY <1>1, <1>2, NextEvent
<1>4. e.type = "grabbed" \/ e.type = "changed"
  BY <1>3 DEF EventSteps, Event
<1> HIDE DEF e
<1>5. /\ ServerFits(who, done2)' /\ Informed(who)
      /\ \A c \in Clients : system'[c] = system[c]
  BY <1>1, <1>2, <1>3, <1>4, GrabbedClaims, ChangedClaims
<1> QED BY <1>1, <1>3, <1>5, EventHandled

LEMMA ClaimInit == Init => ClaimInv
<1> SUFFICES ASSUME Init PROVE ClaimInv
  OBVIOUS
<1>1. SizeInv
  BY SizeInit
<1>2. PICK who \in [SeqNums -> Screens] : who = [n \in SeqNums |-> Primary]
  BY ConstantFacts
<1>3. PICK start \in Front : /\ start.claims = [c \in Clients |-> NoClaim]
                             /\ start.top = 0
  <2>1. NoClaim \in Claim
    BY ConstantFacts DEF NoClaim, Claim
  <2>2. [claims |-> [c \in Clients |-> NoClaim], top |-> 0] \in Front
    BY <2>1, ConstantFacts DEF Front
  <2> QED BY <2>2
<1>4. /\ m_seqNum = 0 /\ primarySeq = 0 /\ m_active = Primary /\ events = <<>>
      /\ clipboard.owner = Primary /\ clipboard.seqNum = 0 /\ clipboard.data = 0
      /\ system[Primary] = 0 /\ Primary \notin dirty /\ connected = Clients
  BY ConstantFacts DEF Init
<1>5. WhoFits(who)
  BY <1>2, <1>4, ConstantFacts DEF WhoFits
<1>6. ServerFits(who, start)
  <2>1. \A c \in Clients : start.claims[c].last = 0 /\ start.claims[c].armed = FALSE
    BY <1>3 DEF NoClaim
  <2> QED BY <1>3, <1>4, <2>1 DEF ServerFits
<1>7. EventsFit(who, start, start)
  BY <1>3, <1>4, LeadsEmpty DEF EventsFit
<1>8. ASSUME NEW c \in Clients PROVE ClientFits(who, start.claims[c], c)
  <2>1. /\ up[c] = <<>> /\ down[c] = <<>> /\ upSender[c] = NoUpload /\ ~clientActive[c]
        /\ clientSeq[c] = 0 /\ ~own[c] /\ grabbed[c] = 0
    BY DEF Init
  <2>2. start.claims[c] \in Claim /\ start.claims[c].last = 0 /\ start.claims[c].ahead = 0
    <3>1. start.claims[c] = NoClaim
      BY <1>3
    <3> QED BY <3>1, ConstantFacts DEF NoClaim, Claim
  <2>3. TurnNow(c) \in Turn /\ TurnNow(c).seq = 0
    BY <2>1, ConstantFacts DEF TurnNow, Turn
  <2>4. TurnFits(TurnNow(c), c)
    BY <1>4, <2>3 DEF TurnFits
  <2>5. ClaimFits(who, start.claims[c], c)
    BY <1>4, <2>1, <2>2 DEF ClaimFits
  <2>6. /\ Leads(UpSteps(who, m_seqNum, c), up[c], start.claims[c], start.claims[c])
        /\ Leads(TurnSteps(who, m_seqNum, c), down[c], TurnNow(c), TurnNow(c))
    BY <2>1, LeadsEmpty
  <2> QED BY <2>2, <2>3, <2>4, <2>5, <2>6 DEF ClientFits
<1>9. PeersFit(who, start)
  BY <1>4, <1>8 DEF PeersFit
<1> QED BY <1>1, <1>5, <1>6, <1>7, <1>9 DEF Fits, SeqInv, ClaimInv

LEMMA ClaimsNext ==
  ASSUME ~Background PROVE ClaimInv /\ SizeInv' /\ [Next]_vars => ClaimInv'
<1> SUFFICES ASSUME ClaimInv, SizeInv', [Next]_vars PROVE SeqInv'
  BY DEF ClaimInv
<1>1. SizeInv
  BY DEF ClaimInv
<1>3. PICK who \in [SeqNums -> Screens] : \E done, queued \in Front :
        Fits(who, done, queued)
  BY DEF ClaimInv, SeqInv
<1>4. PICK done \in Front : \E queued \in Front : Fits(who, done, queued)
  BY <1>3
<1>5. PICK queued \in Front : Fits(who, done, queued)
  BY <1>4
<1>6. CASE HandleEvent \/ CopyOnPrimary
  BY <1>1, <1>5, <1>6, HandleEventClaims, CopyOnPrimaryClaims
<1>7. CASE \E s \in Screens : Switch(s)
  BY <1>1, <1>5, <1>7, SwitchClaims
<1>8. ASSUME NEW c \in Clients,
             \/ ReceiveUp(c) \/ FinishUp(c) \/ FinishDown(c)
             \/ CopyOnClient(c) \/ Drop(c) \/ Reconnect(c)
      PROVE  SeqInv'
  BY <1>1, <1>5, <1>8, ReceiveUpClaims, FinishUpClaims, FinishDownClaims,
     CopyOnClientClaims, DropClaims, ReconnectClaims
<1>9. ASSUME NEW c \in Clients, ReceiveDown(c) \/ GrabOnClient(c) PROVE SeqInv'
  BY <1>1, <1>5, <1>9, ReceiveDownClaims, GrabOnClientClaims
<1>10. CASE UNCHANGED vars
  <2>1. UNCHANGED <<m_active, m_seqNum, clipboard, dirty, primarySeq, connected, events,
                    down, up, downSender, upSender, clientActive, clientSeq, own, sent,
                    dataSent, grabbed, system, drops>>
    BY <1>10 DEF vars, serverVars, clientVars, wireVars
  <2>2. WhoFits(who)' /\ ServerFits(who, done)' /\ EventsFit(who, done, queued)'
    BY <1>5, <2>1 DEF Fits, WhoFits, ServerFits, AheadOfGrab, EventsFit
  <2>3. ASSUME NEW c \in Clients
        PROVE  IF c \in connected' THEN ClientFits(who, queued.claims[c], c)'
               ELSE GoneFits(queued.claims[c], c)'
    BY <1>5, <2>1 DEF Fits, PeersFit, ClientFits, GoneFits, ClaimFits, SentOut,
                             TurnFits, TurnNow
  <2>4. PeersFit(who, queued)'
    BY <2>3 DEF PeersFit
  <2> QED BY <2>2, <2>4 DEF Fits, SeqInv
<1> QED BY <1>6, <1>7, <1>8, <1>9, <1>10 DEF Next, Messages

\* When copies happen only on the screen with the cursor: the messages lead from
\* what the server has seen of each claim to what its client has left of it.
THEOREM ClaimInvariant == ASSUME ~Background PROVE Spec => []ClaimInv
<1>1. ClaimInv /\ SizeInv' /\ [Next]_vars => ClaimInv'
  BY ClaimsNext
<1> QED BY <1>1, ClaimInit, SizeInvariant, PTL DEF Spec

\* Data that is ahead of its grab stays so until the grab.
LEMMA AheadStays ==
  ASSUME NEW who, NEW n, NEW c, NEW x \in Claim, NEW s, NEW y \in Claim,
         ClaimStep(who, n, c, x, FALSE, s, y), x.ahead # 0
  PROVE  y.ahead # 0
<1>1. x.ahead \in Nat /\ y.ahead \in Nat
  BY ConstantFacts DEF Claim
<1>2. \/ y = [x EXCEPT !.armed = FALSE] \/ y = x
      \/ x.ahead <= y.ahead
  BY DEF ClaimStep
<1>3. CASE y = [x EXCEPT !.armed = FALSE]
  BY <1>3 DEF Claim
<1> QED BY <1>1, <1>2, <1>3

\* ... which is still among the events evs, on its way, or to be sent.
LEMMA AheadFollows ==
  ASSUME SizeInv, NEW who, NEW start \in Front, NEW queued \in Front,
         NEW evs \in Seq(Event), Leads(EventSteps(who, m_seqNum), evs, start, queued),
         PeersFit(who, queued), NEW c \in Clients, start.claims[c].ahead # 0
  PROVE  \/ grabbed[c] # 0
         \/ \E i \in DOMAIN up[c] : up[c][i].type = "grab"
         \/ \E i \in DOMAIN evs : evs[i].type = "grabbed" /\ evs[i].from = c
<1> SUFFICES ASSUME \A i \in DOMAIN up[c] : up[c][i].type # "grab",
                    \A i \in DOMAIN evs : ~ (evs[i].type = "grabbed" /\ evs[i].from = c)
             PROVE  grabbed[c] # 0
  OBVIOUS
<1> DEFINE A == {x \in Front : x.claims[c].ahead # 0}
           B == {x \in Claim : x.ahead # 0}
<1>1. queued.claims[c].ahead # 0
  <2>1. ASSUME NEW i \in DOMAIN evs, NEW x, NEW y,
               <<x, evs[i], y>> \in EventSteps(who, m_seqNum), x \in A
        PROVE  y \in A
    <3>1. /\ x \in Front /\ y \in Front /\ evs[i] \in Event
          /\ \/ OwnStep(who, m_seqNum, x, evs[i], y)
             \/ PeerStep(who, m_seqNum, x, evs[i], y)
      BY <2>1 DEF EventSteps
    <3>2. x.claims[c] \in Claim /\ y.claims[c] \in Claim
      BY <3>1 DEF Front
    <3>3. CASE y.claims[c] = x.claims[c]
      BY <2>1, <3>1, <3>3
    <3>4. CASE /\ ClaimStep(who, m_seqNum, c, x.claims[c], evs[i].type = "grabbed",
                            evs[i].seq, y.claims[c])
               /\ evs[i].from = c
      <4>1. (evs[i].type = "grabbed") = FALSE
        BY <3>4
      <4>2. y.claims[c].ahead # 0
        BY <2>1, <3>2, <3>4, <4>1, AheadStays
      <4> QED BY <3>1, <4>2
    <3> QED BY <3>1, <3>3, <3>4 DEF OwnStep, PeerStep
  <2>2. start \in A
    OBVIOUS
  <2> HIDE DEF A
  <2>3. queued \in A
    BY <2>1, <2>2, LeadsStays
  <2> QED BY <2>3 DEF A
<1>2. c \in connected /\ queued.claims[c] \in B
  <2>1. queued.claims[c] \in Claim
    BY DEF Front
  <2>2. queued.claims[c] # NoClaim
    BY <1>1 DEF NoClaim
  <2> QED BY <1>1, <2>1, <2>2 DEF PeersFit, GoneFits
<1>3. PICK x \in Claim : /\ Leads(UpSteps(who, m_seqNum, c), up[c], queued.claims[c], x)
                         /\ ClaimFits(who, x, c)
  BY <1>2 DEF PeersFit, ClientFits
<1>4. up[c] \in Seq(UpMessage)
  BY QueueTypes
<1>5. ASSUME NEW i \in DOMAIN up[c], NEW y, NEW z,
             <<y, up[c][i], z>> \in UpSteps(who, m_seqNum, c), y \in B
      PROVE  z \in B
  <2>1. /\ y \in Claim /\ z \in Claim
        /\ ClaimStep(who, m_seqNum, c, y, up[c][i].type = "grab", up[c][i].seq, z)
    BY <1>5 DEF UpSteps
  <2>2. (up[c][i].type = "grab") = FALSE
    OBVIOUS
  <2>3. z.ahead # 0
    BY <1>5, <2>1, <2>2, AheadStays
  <2> QED BY <2>1, <2>3
<1> HIDE DEF B
<1>6. x \in B
  BY <1>2, <1>3, <1>4, <1>5, LeadsStays
<1> QED BY <1>3, <1>6 DEF B, ClaimFits

LEMMA GrabsFollow ==
  ASSUME SizeInv, NEW who, NEW done \in Front, NEW queued \in Front,
         Fits(who, done, queued), NEW c \in Clients, ~ GrabFollows(c)
  PROVE  /\ done.claims[c].ahead = 0
         /\ \A done2 \in Front :
               /\ events # <<>>
               /\ Leads(EventSteps(who, m_seqNum), Tail(events), done2, queued)
               => done2.claims[c].ahead = 0
<1>1. /\ EventsFit(who, done, queued) /\ PeersFit(who, queued)
      /\ events \in Seq(Event)
  BY QueueTypes DEF Fits
<1>2. done.claims[c].ahead = 0
  BY <1>1, AheadFollows DEF GrabFollows, EventsFit
<1>3. ASSUME NEW done2 \in Front, events # <<>>,
             Leads(EventSteps(who, m_seqNum), Tail(events), done2, queued)
      PROVE  done2.claims[c].ahead = 0
  <2>1. /\ Tail(events) \in Seq(Event)
        /\ \A i \in DOMAIN Tail(events) : i + 1 \in DOMAIN events
                                          /\ Tail(events)[i] = events[i + 1]
    BY <1>1, <1>3, HeadTail
  <2>2. \A i \in DOMAIN Tail(events) : ~ (/\ Tail(events)[i].type = "grabbed"
                                           /\ Tail(events)[i].from = c)
    BY <2>1 DEF GrabFollows
  <2> QED BY <1>1, <1>3, <2>1, <2>2, AheadFollows DEF GrabFollows
<1> QED BY <1>2, <1>3

\* Data that is not out of sequence comes from the screen that owns the clipboard
\* (onClipboardChanged's assert), or from one whose grab is still to come.
THEOREM ExpectedClientAlways == ASSUME ~Background PROVE Spec => []ExpectedClient
<1>1. ClaimInv => ExpectedClient
  <2> SUFFICES ASSUME ClaimInv PROVE ExpectedClient
    OBVIOUS
  <2> DEFINE e == Head(events)
  <2>1. SizeInv
    BY DEF ClaimInv
  <2>2. PICK who \in [SeqNums -> Screens] : \E done, queued \in Front :
          Fits(who, done, queued)
    BY DEF ClaimInv, SeqInv
  <2>3. PICK done \in Front : \E queued \in Front : Fits(who, done, queued)
    BY <2>2
  <2>4. PICK queued \in Front : Fits(who, done, queued)
    BY <2>3
  <2>5. ASSUME events # <<>>, e.type = "changed", e.seq >= clipboard.seqNum
        PROVE  e.from = clipboard.owner \/ GrabFollows(e.from)
    <3>1. ServerFits(who, done) /\ EventsFit(who, done, queued)
      BY <2>4 DEF Fits
    <3>2. PICK done2 \in Front : /\ <<done, e, done2>> \in EventSteps(who, m_seqNum)
                                 /\ Leads(EventSteps(who, m_seqNum), Tail(events), done2, queued)
      BY <2>1, <2>5, <3>1, NextEvent
    <3>3. e.seq \in Nat /\ clipboard.seqNum \in Nat
      BY <2>1, <3>2, QueueTypes, ConstantFacts DEF EventSteps, Event
    <3> HIDE DEF e
    <3>4. /\ e.from \in Clients
          /\ \/ e.seq < clipboard.seqNum \/ clipboard.owner = e.from
             \/ done2.claims[e.from].ahead # 0
      BY <2>1, <2>5, <3>1, <3>2, FirstOfOwner
    <3>5. ~ GrabFollows(e.from) => done2.claims[e.from].ahead = 0
      BY <2>1, <2>4, <2>5, <3>2, <3>4, GrabsFollow
    <3> QED BY <2>5, <3>3, <3>4, <3>5
  <2> QED BY <2>5 DEF ExpectedClient
<1> QED BY <1>1, ClaimInvariant, PTL

\* As long as no connection breaks and no grab is still to come, the data shared for
\* one owner is not replaced by an older copy.
THEOREM NeverOlderAlways == ASSUME ~Background PROVE Spec => NeverOlder
<1> DEFINE Newer == clipboard'.data = Empty \/ clipboard'.data >= clipboard.data
<1>1. ASSUME ClaimInv, [Next]_vars, drops' = 0, clipboard'.owner = clipboard.owner,
             \A c \in Clients : ~ GrabFollows(c)
      PROVE  Newer
  <2>1. SizeInv
    BY <1>1 DEF ClaimInv
  <2>2. PICK who \in [SeqNums -> Screens] : \E done, queued \in Front :
          Fits(who, done, queued)
    BY <1>1 DEF ClaimInv, SeqInv
  <2>3. PICK done \in Front : \E queued \in Front : Fits(who, done, queued)
    BY <2>2
  <2>4. PICK queued \in Front : Fits(who, done, queued)
    BY <2>3
  <2>5. /\ clipboard.data \in Nat /\ clipboard.data \in 0 .. copies
        /\ copies \in 0 .. MaxCopies /\ system[Primary] \in 0 .. copies
        /\ system[Primary] \in Nat /\ clipboard \in SmallInfo(copies)
        /\ clipboard.seqNum \in SeqNums
    BY <2>1, QueueTypes, Copies, ConstantFacts
       DEF SizeInv, ServerTypes, ClientTypes, SmallInfo
  <2>12. drops = 0 => ~ AheadOfGrab(done)
    <3>1. \A c \in Clients : done.claims[c].ahead = 0
      BY <1>1, <2>1, <2>4, GrabsFollow
    <3> QED BY <3>1 DEF AheadOfGrab
  <2>6. drops = 0 /\ clipboard.owner = Primary => clipboard.data <= system[Primary]
    BY <2>4, <2>12 DEF Fits, ServerFits
  <2>7. CASE clipboard' = clipboard
    BY <2>5, <2>7
  <2>8. CASE \E s \in Screens : Switch(s)
    <3>1. \/ clipboard' = clipboard
          \/ /\ clipboard.owner = Primary
             /\ clipboard' = Changed(clipboard, clipboard.seqNum, system[Primary])
      BY <2>8 DEF Switch
    <3>2. \/ clipboard' = clipboard
          \/ clipboard.owner = Primary /\ clipboard'.data \in {clipboard.data, system[Primary]}
      BY <2>5, <3>1, ChangedType
    <3>3. drops = 0
      BY <1>1, <2>8 DEF Switch
    <3> QED BY <2>5, <2>6, <2>7, <3>2, <3>3
  <2>9. CASE HandleEvent
    <3> DEFINE e == Head(events)
    <3>1. /\ events # <<>>
          /\ IF e.type = "grabbed" THEN HandleGrabbed(e.from, e.seq)
                                   ELSE HandleChanged(e.from, e.seq)
      BY <2>9 DEF HandleEvent
    <3>2. ServerFits(who, done) /\ EventsFit(who, done, queued)
      BY <2>4 DEF Fits
    <3>3. PICK done2 \in Front : /\ <<done, e, done2>> \in EventSteps(who, m_seqNum)
                                 /\ Leads(EventSteps(who, m_seqNum), Tail(events), done2, queued)
      BY <2>1, <3>1, <3>2, NextEvent
    <3>0. drops = 0
      BY <1>1, <2>9 DEF HandleEvent
    <3>4. e \in Event /\ e.seq \in SeqNums /\ e.from \in Screens
      BY <3>3, ConstantFacts DEF EventSteps, Event
    <3> HIDE DEF e
    <3>5. CASE e.type = "grabbed"
      <4> DEFINE cleared == [owner |-> e.from, seqNum |-> e.seq, content |-> Empty,
                             data |-> Empty]
      <4>1. /\ cleared \in SmallInfo(copies) /\ cleared.data = Empty
            /\ cleared.owner = e.from
        BY <2>5, <3>4, SmallFacts DEF SmallInfo
      <4>2. \/ clipboard' = clipboard \/ clipboard' = cleared
            \/ e.from = Primary /\ clipboard' = Changed(cleared, e.seq, system[Primary])
        BY <3>1, <3>5 DEF HandleGrabbed
      <4> HIDE DEF cleared
      <4>3. CASE e.from = Primary /\ clipboard' = Changed(cleared, e.seq, system[Primary])
        <5>1. clipboard'.owner = Primary /\ clipboard'.data \in {Empty, system[Primary]}
          BY <2>5, <3>4, <4>1, <4>3, ChangedType
        <5> QED BY <1>1, <2>5, <2>6, <3>0, <5>1
      <4> QED BY <2>7, <4>1, <4>2, <4>3
    <3>6. CASE e.type # "grabbed"
      <4>1. e.type = "changed"
        BY <3>4, <3>6 DEF Event
      <4>2. /\ e.from \in Clients
            /\ e.seq < clipboard.seqNum \/ clipboard.data = Empty
        <5>1. /\ e.from \in Clients
              /\ \/ e.seq < clipboard.seqNum
                 \/ clipboard.data = Empty \/ AheadOfGrab(done)
                 \/ done2.claims[e.from].ahead # 0
          BY <2>1, <3>2, <3>3, <4>1, FirstOfOwner
        <5>2. done2.claims[e.from].ahead = 0
          BY <1>1, <2>1, <2>4, <3>1, <3>3, <5>1, GrabsFollow
        <5> QED BY <2>12, <3>0, <5>1, <5>2
      <4>3. clipboard' = Changed(clipboard, e.seq, proxyClip[e.from])
        BY <3>1, <3>6 DEF HandleChanged
      <4>4. proxyClip[e.from] \in 0 .. copies /\ proxyClip[e.from] \in Nat
        <5>1. proxyClip \in [Clients -> Small(copies)]
          BY <2>1 DEF SizeInv, ServerTypes
        <5>2. proxyClip[e.from] \in Small(copies)
          BY <4>2, <5>1
        <5>3. Small(copies) \subseteq 0 .. copies
          BY <2>1, Copies DEF SizeInv
        <5> QED BY <5>2, <5>3, <2>5
      <4>5. CASE e.seq < clipboard.seqNum
        <5>1. e.seq \in Nat /\ clipboard.seqNum \in Nat
          BY <2>5, <3>4, ConstantFacts
        <5>2. ~ (e.seq >= clipboard.seqNum)
          BY <4>5, <5>1
        <5>3. clipboard' = clipboard
          BY <4>3, <4>5, <5>2 DEF Changed
        <5> QED BY <2>7, <5>3
      <4>6. CASE clipboard.data = Empty
        <5>1. clipboard'.data \in {clipboard.data, proxyClip[e.from]}
          BY <2>5, <3>4, <4>4, <4>3, ChangedType
        <5> QED BY <2>5, <4>4, <4>6, <5>1, ConstantFacts
      <4> QED BY <4>2, <4>5, <4>6
    <3> QED BY <3>5, <3>6
  <2>10. ASSUME NEW c \in Clients,
                \/ ReceiveUp(c) \/ ReceiveDown(c) \/ GrabOnClient(c) \/ FinishUp(c)
                \/ FinishDown(c) \/ CopyOnClient(c) \/ Drop(c) \/ Reconnect(c)
         PROVE  clipboard' = clipboard
    BY <2>10 DEF ReceiveUp, ReceiveDown, GrabOnClient, FinishUp, FinishDown,
                 CopyOnClient, Drop, Reconnect, serverVars
  <2>11. CASE CopyOnPrimary \/ UNCHANGED vars
    BY <2>7, <2>11 DEF CopyOnPrimary, vars, serverVars
  <2> QED BY <1>1, <2>7, <2>8, <2>9, <2>10, <2>11 DEF Next, Messages
<1>2. ClaimInv /\ [Next]_vars
      => [drops' = 0 /\ clipboard'.owner = clipboard.owner
          /\ (\A c \in Clients : ~ GrabFollows(c)) => Newer]_vars
  BY <1>1
<1> QED BY <1>2, ClaimInvariant, PTL DEF Spec, NeverOlder

-----------------------------------------------------------------------------
(* Who owns the clipboard.  A client that is told of another screen's grab  *)
(* is given the shared data when it is entered with a higher number, and    *)
(* either of the two messages ends its claim.                               *)

\* The messages for a client that enter its screen, and those that end its claim.
Enters(q) == {j \in DOMAIN q : q[j].type = "enter"}
Tells(q) == {j \in DOMAIN q : q[j].type \in {"grab", "data"}}

\* Of a client with number s and messages q, when the numbers go up to n:
\* it is entered with higher and higher numbers,
InOrder(q, s, n) == /\ \A j \in Enters(q) : s < q[j].seq /\ q[j].seq <= n
                    /\ \A j1, j2 \in Enters(q) : j1 < j2 => q[j1].seq < q[j2].seq

\* the last of them is n,
Arrives(q, s, n) == s = n \/ \E j \in Enters(q) : q[j].seq = n

\* none is k or higher,
Behind(q, s, k) == s < k /\ \A j \in Enters(q) : q[j].seq < k

\* it has a number from k on when its claim is ended for the last time, where g
\* is the data that is still being sent,
Reached(q, s, g, k) ==
  \/ k <= s
  \/ \E j \in Enters(q) : k <= q[j].seq /\ (g # Nothing \/ \E j2 \in Tells(q) : j < j2)

\* something will end its claim.
Ended(q, g) == g # Nothing \/ Tells(q) # {}

LEMMA MessageNumbers ==
  ASSUME NEW q \in Seq(DownMessage)
  PROVE  /\ \A j \in Enters(q) : j \in Nat /\ j \in DOMAIN q /\ q[j].seq \in Nat
         /\ \A j \in Tells(q) : j \in Nat /\ j \in DOMAIN q
<1>1. \A j \in DOMAIN q : j \in Nat /\ q[j] \in DownMessage
  BY ElementOfSeq, LenProperties
<1>2. \A m \in DownMessage : m.type = "enter" => m.seq \in SeqNums
  BY DEF DownMessage
<1> QED BY <1>1, <1>2, ConstantFacts DEF Enters, Tells

\* A message more: what it does to the parts.
LEMMA OneMessage ==
  ASSUME NEW q \in Seq(DownMessage), NEW m \in DownMessage
  PROVE  /\ \A j \in DOMAIN q : /\ Append(q, m)[j] = q[j] /\ j < Len(q) + 1
                                /\ j \in Enters(Append(q, m)) <=> j \in Enters(q)
                                /\ j \in Tells(Append(q, m)) <=> j \in Tells(q)
         /\ Enters(q) \subseteq DOMAIN q /\ Tells(q) \subseteq DOMAIN q
         /\ m.type # "enter" => Enters(Append(q, m)) = Enters(q)
         /\ m.type = "enter" => Enters(Append(q, m)) = Enters(q) \cup {Len(q) + 1}
         /\ m.type \in {"grab", "data"} => Len(q) + 1 \in Tells(Append(q, m))
         /\ Tells(q) \subseteq Tells(Append(q, m))
         /\ Append(q, m)[Len(q) + 1] = m
<1> DEFINE r == Append(q, m)
<1>1. /\ r[Len(q) + 1] = m /\ Len(q) + 1 \in DOMAIN r
      /\ \A j \in DOMAIN q : j \in DOMAIN r /\ r[j] = q[j]
      /\ \A j \in DOMAIN r : j = Len(q) + 1 \/ j \in DOMAIN q
  BY AppendOne
<1>2. \A j \in DOMAIN q : j < Len(q) + 1
  BY LenProperties
<1> HIDE DEF r
<1>3. \A j \in DOMAIN q : /\ j \in Enters(r) <=> j \in Enters(q)
                          /\ j \in Tells(r) <=> j \in Tells(q)
  BY <1>1 DEF Enters, Tells
<1>4. Enters(q) \subseteq DOMAIN q /\ Tells(q) \subseteq DOMAIN q
  BY DEF Enters, Tells
<1>5. m.type # "enter" => Enters(r) = Enters(q)
  BY <1>1 DEF Enters
<1>6. m.type = "enter" => Enters(r) = Enters(q) \cup {Len(q) + 1}
  BY <1>1 DEF Enters
<1>7. m.type \in {"grab", "data"} => Len(q) + 1 \in Tells(r)
  BY <1>1 DEF Tells
<1>8. Tells(q) \subseteq Tells(r)
  BY <1>3, <1>4
<1> QED BY <1>1, <1>2, <1>3, <1>4, <1>5, <1>6, <1>7, <1>8 DEF r

\* A message that does not enter changes no number.
LEMMA QuietMessage ==
  ASSUME NEW q \in Seq(DownMessage), NEW m \in DownMessage, m.type # "enter",
         NEW s \in Nat, NEW g
  PROVE  /\ \A n \in Nat : /\ InOrder(q, s, n) => InOrder(Append(q, m), s, n)
                           /\ Arrives(q, s, n) => Arrives(Append(q, m), s, n)
         /\ \A k \in Nat : /\ Behind(Append(q, m), s, k) <=> Behind(q, s, k)
                           /\ Reached(q, s, g, k) => Reached(Append(q, m), s, g, k)
         /\ Ended(q, g) => Ended(Append(q, m), g)
<1> DEFINE r == Append(q, m)
<1>1. /\ Enters(r) = Enters(q) /\ \A j \in Enters(q) : r[j] = q[j]
      /\ Tells(q) \subseteq Tells(r)
  BY OneMessage
<1> HIDE DEF r
<1>2. /\ \A n \in Nat : /\ InOrder(q, s, n) => InOrder(r, s, n)
                        /\ Arrives(q, s, n) => Arrives(r, s, n)
      /\ Ended(q, g) => Ended(r, g)
      /\ \A k \in Nat : Behind(r, s, k) <=> Behind(q, s, k)
  BY <1>1 DEF InOrder, Arrives, Ended, Behind
<1>3. \A k \in Nat : Reached(q, s, g, k) => Reached(r, s, g, k)
  BY <1>1 DEF Reached
<1> QED BY <1>2, <1>3 DEF r

\* A message that ends the claim, or data that is still being sent: it comes
\* after every number.
LEMMA EndingMessage ==
  ASSUME NEW q \in Seq(DownMessage), NEW s \in Nat, NEW g, NEW g2, NEW k \in Nat
  PROVE  /\ \A m \in DownMessage : m.type \in {"grab", "data"} =>
               /\ Ended(Append(q, m), g)
               /\ ~ Behind(q, s, k) => Reached(Append(q, m), s, g, k)
         /\ g2 # Nothing => Ended(q, g2) /\ (~ Behind(q, s, k) => Reached(q, s, g2, k))
<1>1. ~ Behind(q, s, k) => k <= s \/ \E j \in Enters(q) : k <= q[j].seq
  BY MessageNumbers DEF Behind
<1>2. ASSUME NEW m \in DownMessage, m.type \in {"grab", "data"}
      PROVE  Ended(Append(q, m), g) /\ (~ Behind(q, s, k) => Reached(Append(q, m), s, g, k))
  <2> DEFINE r == Append(q, m)
  <2>1. /\ Enters(r) = Enters(q) /\ \A j \in Enters(q) : r[j] = q[j] /\ j < Len(q) + 1
        /\ Len(q) + 1 \in Tells(r)
    BY <1>2, OneMessage
  <2> HIDE DEF r
  <2>2. ~ Behind(q, s, k) => Reached(r, s, g, k)
    BY <1>1, <2>1 DEF Reached
  <2>3. Ended(r, g)
    BY <2>1 DEF Ended
  <2> QED BY <2>2, <2>3 DEF r
<1>3. g2 # Nothing => Ended(q, g2) /\ (~ Behind(q, s, k) => Reached(q, s, g2, k))
  BY <1>1 DEF Ended, Reached
<1> QED BY <1>2, <1>3

\* A number is reached only if it is not ahead.
LEMMA ReachedNotBehind ==
  ASSUME NEW q \in Seq(DownMessage), NEW s \in Nat, NEW g, NEW k \in Nat, Reached(q, s, g, k)
  PROVE  ~ Behind(q, s, k)
BY MessageNumbers DEF Reached, Behind

\* The client is entered with the next number.
LEMMA EnterMessage ==
  ASSUME NEW q \in Seq(DownMessage), NEW m \in DownMessage, m.type = "enter",
         NEW s \in Nat, NEW n \in Nat, s <= n, InOrder(q, s, n), m.seq = n + 1, NEW g
  PROVE  /\ InOrder(Append(q, m), s, n + 1) /\ Arrives(Append(q, m), s, n + 1)
         /\ \A k \in Nat : k <= n + 1 => /\ ~ Behind(Append(q, m), s, k)
                                         /\ Reached(q, s, g, k) => Reached(Append(q, m), s, g, k)
         /\ Ended(q, g) => Ended(Append(q, m), g)
<1> DEFINE r == Append(q, m)
<1>1. /\ Enters(r) = Enters(q) \cup {Len(q) + 1} /\ r[Len(q) + 1] = m
      /\ \A j \in Enters(q) : r[j] = q[j] /\ j < Len(q) + 1
      /\ Tells(q) \subseteq Tells(r)
  BY OneMessage
<1>2. \A j \in Enters(q) : j \in Nat /\ q[j].seq \in Nat /\ s < q[j].seq /\ q[j].seq <= n
  BY MessageNumbers DEF InOrder
<1>3. Len(q) \in Nat
  BY LenProperties
<1> HIDE DEF r
<1>4. InOrder(r, s, n + 1)
  <2>1. \A j \in Enters(r) : s < r[j].seq /\ r[j].seq <= n + 1
    BY <1>1, <1>2
  <2>2. \A j1, j2 \in Enters(r) : j1 < j2 => r[j1].seq < r[j2].seq
    <3> SUFFICES ASSUME NEW j1 \in Enters(r), NEW j2 \in Enters(r), j1 < j2
                 PROVE  r[j1].seq < r[j2].seq
      OBVIOUS
    <3>1. j1 \in Enters(q)
      BY <1>1, <1>2, <1>3
    <3>2. CASE j2 \in Enters(q)
      BY <1>1, <3>1, <3>2 DEF InOrder
    <3>3. CASE j2 = Len(q) + 1
      <4>1. r[j1].seq = q[j1].seq /\ r[j2].seq = n + 1
        BY <1>1, <3>1, <3>3
      <4>2. q[j1].seq \in Nat /\ q[j1].seq <= n
        BY <1>2, <3>1
      <4> QED BY <4>1, <4>2
    <3> QED BY <1>1, <3>2, <3>3
  <2> QED BY <2>1, <2>2 DEF InOrder
<1>5. Arrives(r, s, n + 1)
  BY <1>1 DEF Arrives
<1>6. ASSUME NEW k \in Nat, k <= n + 1
      PROVE  ~ Behind(r, s, k) /\ (Reached(q, s, g, k) => Reached(r, s, g, k))
  BY <1>1, <1>6 DEF Behind, Reached
<1>7. Ended(q, g) => Ended(r, g)
  BY <1>1 DEF Ended
<1> QED BY <1>4, <1>5, <1>6, <1>7 DEF r

\* The client takes its first message.
LEMMA FirstMessage ==
  ASSUME NEW q \in Seq(DownMessage), q # <<>>, NEW s \in Nat, NEW n \in Nat, NEW s2 \in Nat,
         s2 = (IF Head(q).type = "enter" THEN Head(q).seq ELSE s), s <= n, InOrder(q, s, n), NEW g
  PROVE  /\ InOrder(Tail(q), s2, n) /\ s <= s2 /\ s2 <= n
         /\ Arrives(q, s, n) => Arrives(Tail(q), s2, n)
         /\ \A k \in Nat : /\ Reached(q, s, g, k) => Reached(Tail(q), s2, g, k)
                           /\ Behind(q, s, k) => Behind(Tail(q), s2, k)
         /\ Head(q).type \notin {"grab", "data"} /\ Ended(q, g) => Ended(Tail(q), g)
<1> DEFINE r == Tail(q)
<1>1. /\ Head(q) = q[1] /\ 1 \in DOMAIN q
      /\ \A j \in DOMAIN r : j + 1 \in DOMAIN q /\ r[j] = q[j + 1]
      /\ \A j \in DOMAIN q : j # 1 => j - 1 \in DOMAIN r /\ r[j - 1] = q[j]
  BY HeadTail
<1>2. \A j \in DOMAIN q : j \in Nat /\ 1 <= j
  BY LenProperties
<1>3. r \in Seq(DownMessage)
  BY HeadTail
<1>4. \A j \in DOMAIN r : j \in Nat /\ 1 <= j
  BY <1>3, LenProperties
<1> HIDE DEF r
<1>5. /\ \A j \in Enters(r) : j + 1 \in Enters(q) /\ r[j].seq = q[j + 1].seq /\ j \in Nat /\ 1 <= j
      /\ \A j \in Enters(q) : /\ j \in Nat /\ (j # 1 => j - 1 \in Enters(r) /\ r[j - 1] = q[j])
                              /\ j = 1 <=> j = 1 /\ Head(q).type = "enter"
      /\ Head(q).type = "enter" => 1 \in Enters(q)
  BY <1>1, <1>2, <1>4 DEF Enters
<1>6. \A j \in Tells(q) : /\ j \in Nat /\ 1 <= j
                          /\ j # 1 => j - 1 \in Tells(r)
                          /\ j = 1 => Head(q).type \in {"grab", "data"}
  BY <1>1, <1>2 DEF Tells
<1>7. \A j \in Enters(q) : q[j].seq \in Nat /\ s < q[j].seq /\ q[j].seq <= n
  BY MessageNumbers DEF InOrder
<1>8. /\ Head(q).type = "enter" => s2 = q[1].seq /\ 1 \in Enters(q)
      /\ Head(q).type # "enter" => s2 = s
  BY <1>1, <1>5
<1>9. s <= s2 /\ s2 <= n
  BY <1>7, <1>8
<1>10. InOrder(r, s2, n)
  <2>1. ASSUME NEW j \in Enters(r) PROVE s2 < r[j].seq /\ r[j].seq <= n
    <3>1. j + 1 \in Enters(q) /\ r[j].seq = q[j + 1].seq /\ 1 < j + 1
      BY <1>5
    <3>2. Head(q).type = "enter" => q[1].seq < q[j + 1].seq
      BY <1>8, <3>1 DEF InOrder
    <3> QED BY <1>7, <1>8, <3>1, <3>2
  <2>2. ASSUME NEW j1 \in Enters(r), NEW j2 \in Enters(r), j1 < j2 PROVE r[j1].seq < r[j2].seq
    <3>1. /\ j1 + 1 \in Enters(q) /\ r[j1].seq = q[j1 + 1].seq /\ j1 \in Nat
          /\ j2 + 1 \in Enters(q) /\ r[j2].seq = q[j2 + 1].seq /\ j2 \in Nat
      BY <1>5
    <3>2. j1 + 1 < j2 + 1
      BY <2>2, <3>1
    <3> QED BY <3>1, <3>2 DEF InOrder
  <2> QED BY <2>1, <2>2 DEF InOrder
<1>11. ASSUME Arrives(q, s, n) PROVE Arrives(r, s2, n)
  <2>1. CASE s = n
    BY <1>9, <2>1 DEF Arrives
  <2>2. CASE \E j \in Enters(q) : q[j].seq = n
    <3>1. PICK j \in Enters(q) : q[j].seq = n
      BY <2>2
    <3>2. CASE j = 1
      BY <1>5, <1>8, <3>1, <3>2 DEF Arrives
    <3>3. CASE j # 1
      BY <1>5, <3>1, <3>3 DEF Arrives
    <3> QED BY <3>2, <3>3
  <2> QED BY <1>11, <2>1, <2>2 DEF Arrives
<1>12. ASSUME NEW k \in Nat, Reached(q, s, g, k) PROVE Reached(r, s2, g, k)
  <2>1. CASE k <= s
    BY <1>9, <2>1 DEF Reached
  <2>2. CASE ~ (k <= s)
    <3>1. PICK j \in Enters(q) : k <= q[j].seq /\ (g # Nothing \/ \E j2 \in Tells(q) : j < j2)
      BY <1>12, <2>2 DEF Reached
    <3>2. CASE j = 1
      BY <1>5, <1>8, <3>1, <3>2 DEF Reached
    <3>3. CASE j # 1
      <4>1. j - 1 \in Enters(r) /\ r[j - 1] = q[j] /\ j \in Nat
        BY <1>5, <3>3
      <4>2. g # Nothing \/ \E j2 \in Tells(r) : j - 1 < j2
        <5>1. ASSUME NEW j2 \in Tells(q), j < j2 PROVE j2 - 1 \in Tells(r) /\ j - 1 < j2 - 1
          <6>1. j2 # 1
            BY <1>2, <4>1, <5>1 DEF Enters
          <6> QED BY <1>6, <4>1, <5>1, <6>1
        <5> QED BY <3>1, <5>1
      <4> QED BY <3>1, <4>1, <4>2 DEF Reached
    <3> QED BY <3>2, <3>3
  <2> QED BY <2>1, <2>2
<1>13. ASSUME NEW k \in Nat, Behind(q, s, k) PROVE Behind(r, s2, k)
  <2>1. s2 < k
    BY <1>8, <1>13 DEF Behind
  <2>2. \A j \in Enters(r) : r[j].seq < k
    BY <1>5, <1>13 DEF Behind
  <2> QED BY <2>1, <2>2 DEF Behind
<1>14. Head(q).type \notin {"grab", "data"} /\ Ended(q, g) => Ended(r, g)
  BY <1>6 DEF Ended
<1> QED BY <1>9, <1>10, <1>11, <1>12, <1>13, <1>14 DEF r
-----------------------------------------------------------------------------
(* The invariant *)

\* The numbers in messages and events are not above their screen's.
Fresh(e) == /\ e.from \in connected \cup {Primary}
            /\ e.seq <= (IF e.from = Primary THEN m_seqNum ELSE clientSeq[e.from])

PeerNumbers(c) ==
  /\ clientSeq[c] <= m_seqNum /\ InOrder(down[c], clientSeq[c], m_seqNum)
  /\ \A j \in DOMAIN up[c] : up[c][j].seq <= clientSeq[c]
  /\ upSender[c].seq <= clientSeq[c]
  /\ m_active = c => Arrives(down[c], clientSeq[c], m_seqNum)
  /\ c \notin connected => /\ down[c] = <<>> /\ up[c] = <<>> /\ grabbed[c] = 0
                           /\ upSender[c] = NoUpload /\ downSender[c] = Nothing

Numbers == /\ clipboard.seqNum <= m_seqNum /\ primarySeq <= m_seqNum
           /\ \A j \in DOMAIN events : Fresh(events[j])
           /\ \A c \in Clients : PeerNumbers(c)

GrabsWaiting(c) == {j \in DOMAIN events : events[j].type = "grabbed" /\ events[j].from = c}
PrimaryGrabs == GrabsWaiting(Primary) # {}

\* A copy above the limit is shared only for the primary screen, which has it
\* or has copied something since.
LargeFits == TooLarge => /\ clipboard.owner = Primary
                         /\ system[Primary] = clipboard.content \/ PrimaryGrabs

\* A client that is not to have a number as high as the clipboard's, is
\* waiting for the data; one that is, was told before.
Late(c) == Behind(down[c], clientSeq[c], clipboard.seqNum)
Served(c) == \/ Reached(down[c], clientSeq[c], downSender[c], clipboard.seqNum)
             \/ Late(c) /\ c \in dirty

\* A claim that nothing will end is the owner's, or is still on its way, if its
\* number is high enough.
Claims(c) == \/ \E j \in GrabsWaiting(c) : clipboard.seqNum <= events[j].seq
             \/ \E j \in DOMAIN up[c] : up[c][j].type = "grab" /\ clipboard.seqNum <= up[c][j].seq
Owns(c) == own[c] /\ ~ Ended(down[c], downSender[c])
           => Late(c) \/ clipboard.owner = c \/ Claims(c)

\* The primary screen's next grab, like every one that is accepted, begins anew.
AllServed == \A c \in connected : Served(c) /\ Owns(c)
OwnInv == SizeInv /\ Numbers /\ LargeFits /\ (TooLarge \/ PrimaryGrabs \/ AllServed)

\* The types that the following needs.
LEMMA NumberTypes ==
  ASSUME SizeInv
  PROVE  /\ m_seqNum \in Nat /\ clipboard.seqNum \in Nat /\ primarySeq \in Nat
         /\ events \in Seq(Event) /\ connected \subseteq Clients
         /\ m_active \in connected \cup {Primary}
         /\ \A j \in DOMAIN events : events[j] \in Event /\ events[j].seq \in Nat
         /\ \A c \in Clients : /\ down[c] \in Seq(DownMessage) /\ up[c] \in Seq(UpMessage)
                               /\ clientSeq[c] \in Nat /\ upSender[c].seq \in Nat
                               /\ \A j \in DOMAIN up[c] : up[c][j].seq \in Nat
<1>1. /\ ServerTypes /\ ClientTypes /\ events \in Seq(Event)
      /\ \A c \in Clients : down[c] \in Seq(DownMessage) /\ up[c] \in Seq(UpMessage)
  BY QueueTypes DEF SizeInv
<1>2. \A j \in DOMAIN events : events[j] \in Event /\ events[j].seq \in Nat
  <2>1. \A e \in Event : e.seq \in Nat
    BY ConstantFacts DEF Event
  <2> QED BY <1>1, <2>1, ElementOfSeq, LenProperties
<1>3. ASSUME NEW c \in Clients
      PROVE  /\ clientSeq[c] \in Nat /\ upSender[c].seq \in Nat
             /\ \A j \in DOMAIN up[c] : up[c][j].seq \in Nat
  <2>1. \A m \in UpMessage : m.seq \in Nat
    BY ConstantFacts DEF UpMessage
  <2>2. upSender[c] \in SmallUpload(copies)
    BY <1>1 DEF ClientTypes
  <2>3. upSender[c].seq \in Nat
    <3>1. CASE upSender[c] \in [content : Small(copies), seq : SeqNums]
      BY <3>1, ConstantFacts
    <3>2. CASE upSender[c] = NoUpload
      BY <3>2 DEF NoUpload
    <3> QED BY <2>2, <3>1, <3>2 DEF SmallUpload
  <2>4. \A j \in DOMAIN up[c] : up[c][j].seq \in Nat
    BY <1>1, <2>1, ElementOfSeq, LenProperties
  <2>5. clientSeq[c] \in Nat
    BY <1>1, ConstantFacts DEF ClientTypes
  <2> QED BY <2>3, <2>4, <2>5
<1> QED BY <1>1, <1>2, <1>3, QueueTypes DEF ServerTypes

\* A client that a step does not concern.
Still(c) == /\ down'[c] = down[c] /\ up'[c] = up[c] /\ clientSeq'[c] = clientSeq[c]
            /\ upSender'[c] = upSender[c] /\ downSender'[c] = downSender[c]
            /\ grabbed'[c] = grabbed[c] /\ own'[c] = own[c]
            /\ c \in connected' <=> c \in connected

LEMMA StillNumbers ==
  ASSUME NEW c \in Clients, Still(c), PeerNumbers(c), UNCHANGED m_seqNum,
         m_active' = c => m_active = c
  PROVE  PeerNumbers(c)'
BY DEF Still, PeerNumbers

LEMMA StillServed ==
  ASSUME NEW c \in Clients, Still(c), Served(c), Owns(c), Claims(c) => Claims(c)',
         clipboard'.seqNum = clipboard.seqNum, clipboard'.owner = clipboard.owner,
         c \in dirty => c \in dirty'
  PROVE  Served(c)' /\ Owns(c)'
<1>1. Late(c)' <=> Late(c)
  BY DEF Still, Late
<1>2. Served(c)'
  BY <1>1 DEF Still, Served
<1>3. Owns(c)'
  BY <1>1 DEF Still, Owns
<1> QED BY <1>2, <1>3

\* A client whose numbers stay, and whose claim something will end.
LEMMA EndedServed ==
  ASSUME NEW c \in Clients, (~ Late(c) => Reached(down[c], clientSeq[c], downSender[c],
                                                  clipboard.seqNum))',
         Ended(down[c], downSender[c])', Late(c)' => c \in dirty'
  PROVE  Served(c)' /\ Owns(c)'
BY DEF Served, Owns

\* Events that are there stay there.
LEMMA EventsStay ==
  ASSUME SizeInv, NEW c, NEW e \in Event, events' = Append(events, e)
  PROVE  /\ \A j \in GrabsWaiting(c) : j \in GrabsWaiting(c)' /\ events'[j] = events[j]
         /\ e.type = "grabbed" /\ e.from = c
            => Len(events) + 1 \in GrabsWaiting(c)' /\ events'[Len(events) + 1] = e
         /\ \A j \in DOMAIN events' : events'[j] = e \/ \E j2 \in DOMAIN events : events'[j] = events[j2]
<1>1. events \in Seq(Event)
  BY NumberTypes
<1>2. /\ \A j \in DOMAIN events : j \in DOMAIN events' /\ events'[j] = events[j]
      /\ events'[Len(events) + 1] = e /\ Len(events) + 1 \in DOMAIN events'
      /\ \A j \in DOMAIN events' : j = Len(events) + 1 \/ j \in DOMAIN events
  BY <1>1, AppendOne
<1> QED BY <1>2 DEF GrabsWaiting

-----------------------------------------------------------------------------
(* The steps of the clients *)

\* A step of client c that leaves the server's record, and the others.
Only(c) == /\ \A d \in Clients \ {c} : Still(d)
           /\ UNCHANGED <<m_active, m_seqNum, clipboard, dirty, primarySeq, connected>>
           /\ system'[Primary] = system[Primary]

\* ... and the events too.
LEMMA QuietStep ==
  ASSUME OwnInv, SizeInv', NEW c \in Clients, Only(c), UNCHANGED events, PeerNumbers(c)',
         clientSeq[c] <= clientSeq'[c],
         c \in connected /\ Served(c) /\ Owns(c) => Served(c)' /\ Owns(c)'
  PROVE  OwnInv'
<1>1. Numbers'
  <2>1. \A d \in Clients : PeerNumbers(d)'
    BY StillNumbers DEF OwnInv, Numbers, Only
  <2>2. ASSUME NEW j \in DOMAIN events PROVE Fresh(events[j])'
    <3>1. Fresh(events[j]) /\ events[j] \in Event /\ events[j].seq \in Nat
      BY NumberTypes DEF OwnInv, Numbers
    <3>2. CASE events[j].from = c
      <4>1. events[j].seq <= clientSeq[c] /\ c # Primary /\ clientSeq[c] \in Nat /\ clientSeq'[c] \in Nat
        <5>1. clientSeq' \in [Clients -> SeqNums]
          BY DEF SizeInv, ClientTypes
        <5> QED BY <3>1, <3>2, <5>1, NumberTypes, ConstantFacts DEF Fresh, OwnInv
      <4>2. events[j].seq <= clientSeq'[c]
        BY <3>1, <4>1
      <4>3. connected' = connected
        BY DEF Only
      <4> QED BY <3>1, <3>2, <4>1, <4>2, <4>3 DEF Fresh
    <3>3. CASE events[j].from # c
      <4>1. connected' = connected /\ m_seqNum' = m_seqNum
        BY DEF Only
      <4>2. CASE events[j].from = Primary
        BY <3>1, <4>1, <4>2 DEF Fresh
      <4>3. CASE events[j].from # Primary
        <5>1. events[j].from \in Clients \ {c}
          BY <3>1, <3>3, <4>3, NumberTypes DEF Fresh, OwnInv
        <5>2. clientSeq'[events[j].from] = clientSeq[events[j].from]
          BY <5>1 DEF Only, Still
        <5> QED BY <3>1, <4>1, <4>3, <5>2 DEF Fresh
      <4> QED BY <4>2, <4>3
    <3> QED BY <3>2, <3>3
  <2> QED BY <2>1, <2>2 DEF OwnInv, Numbers, Only
<1>2. (TooLarge' <=> TooLarge) /\ (PrimaryGrabs' <=> PrimaryGrabs)
  BY DEF Only, TooLarge, PrimaryGrabs, GrabsWaiting
<1>3. LargeFits'
  BY <1>2 DEF Only, LargeFits, OwnInv
<1>4. ASSUME AllServed PROVE AllServed'
  <2> SUFFICES ASSUME NEW d \in connected PROVE Served(d)' /\ Owns(d)'
    BY DEF AllServed, Only
  <2>1. d \in Clients /\ Served(d) /\ Owns(d)
    BY <1>4, NumberTypes DEF AllServed, OwnInv
  <2>2. CASE d = c
    BY <2>1, <2>2
  <2>3. CASE d # c
    <3>1. Claims(d) => Claims(d)'
      BY <2>1, <2>3 DEF Claims, GrabsWaiting, Only, Still
    <3> QED BY <2>1, <2>3, <3>1, StillServed DEF Only
  <2> QED BY <2>2, <2>3
<1> QED BY <1>1, <1>2, <1>3, <1>4 DEF OwnInv

LEMMA FinishDownOwns ==
  ASSUME OwnInv, SizeInv', NEW c \in Clients, FinishDown(c)
  PROVE  OwnInv'
<1> DEFINE data == [type |-> "data", content |-> downSender[c]]
           q == down[c]
           s == clientSeq[c]
           k == clipboard.seqNum
<1>1. /\ downSender[c] # Nothing /\ downSender' = [downSender EXCEPT ![c] = Nothing]
      /\ down' = [down EXCEPT ![c] = Append(@, data)]
      /\ UNCHANGED <<serverVars, clientVars, up, upSender, system>>
  BY DEF FinishDown
<1>2. /\ q \in Seq(DownMessage) /\ s \in Nat /\ k \in Nat /\ m_seqNum \in Nat
      /\ downSender \in [Clients -> Small(copies) \cup {Nothing}]
      /\ down \in [Clients -> Seq(SmallDown(copies))] /\ SizeInv
  BY NumberTypes DEF OwnInv, SizeInv, ServerTypes
<1>3. data \in DownMessage /\ data.type = "data"
  BY <1>1, <1>2, Copies DEF DownMessage, SizeInv
<1>4. /\ down'[c] = Append(q, data) /\ downSender'[c] = Nothing
      /\ \A d \in Clients : d # c => down'[d] = down[d] /\ downSender'[d] = downSender[d]
  BY <1>1, <1>2
<1> HIDE DEF data
<1>5. Only(c) /\ UNCHANGED <<events, clientSeq, up, upSender, own, grabbed>>
  BY <1>1, <1>4 DEF Only, Still, serverVars, clientVars
<1>6. PeerNumbers(c) /\ c \in connected
  BY <1>1 DEF OwnInv, Numbers, PeerNumbers
<1>7. PeerNumbers(c)'
  <2>1. InOrder(down'[c], s, m_seqNum) /\ (m_active = c => Arrives(down'[c], s, m_seqNum))
    <3>1. InOrder(q, s, m_seqNum) => InOrder(Append(q, data), s, m_seqNum)
      BY <1>2, <1>3, QuietMessage
    <3>2. Arrives(q, s, m_seqNum) => Arrives(Append(q, data), s, m_seqNum)
      BY <1>2, <1>3, QuietMessage
    <3> QED BY <1>4, <1>6, <3>1, <3>2 DEF PeerNumbers
  <2> QED BY <1>5, <1>6, <2>1 DEF PeerNumbers, Only
<1>8. ASSUME Served(c) PROVE Served(c)' /\ Owns(c)'
  <2>1. Behind(down'[c], s, k) <=> Behind(q, s, k)
    <3>1. Behind(Append(q, data), s, k) <=> Behind(q, s, k)
      BY <1>2, <1>3, QuietMessage
    <3> QED BY <1>4, <3>1
  <2>2. Ended(down'[c], Nothing) /\ (~ Behind(q, s, k) => Reached(down'[c], s, Nothing, k))
    BY <1>2, <1>3, <1>4, EndingMessage
  <2>3. Late(c) => c \in dirty
    BY <1>2, <1>8, ReachedNotBehind DEF Served, Late
  <2> QED BY <1>4, <1>5, <2>1, <2>2, <2>3, EndedServed DEF Late, Only
<1>9. clientSeq[c] <= clientSeq'[c]
  BY <1>2, <1>5
<1> QED BY <1>5, <1>7, <1>8, <1>9, QuietStep

LEMMA FinishUpOwns ==
  ASSUME OwnInv, SizeInv', NEW c \in Clients, FinishUp(c)
  PROVE  OwnInv'
<1> DEFINE data == [type |-> "data", content |-> upSender[c].content, seq |-> upSender[c].seq]
<1>1. /\ upSender[c] # NoUpload /\ upSender' = [upSender EXCEPT ![c] = NoUpload]
      /\ up' = [up EXCEPT ![c] = Append(@, data)]
      /\ UNCHANGED <<serverVars, clientVars, down, downSender, system>>
  BY DEF FinishUp
<1>2. /\ up \in [Clients -> Seq(SmallUp(copies))] /\ upSender \in [Clients -> SmallUpload(copies)]
      /\ clientSeq[c] \in Nat /\ SizeInv
  BY NumberTypes DEF OwnInv, SizeInv, ClientTypes
<1>3. data \in SmallUp(copies) /\ data.seq = upSender[c].seq
  BY <1>1, <1>2 DEF SmallUpload, SmallUp
<1>4. /\ up'[c] = Append(up[c], data) /\ upSender'[c] = NoUpload
      /\ \A d \in Clients : d # c => up'[d] = up[d] /\ upSender'[d] = upSender[d]
  BY <1>1, <1>2
<1> HIDE DEF data
<1>5. Only(c) /\ UNCHANGED <<events, clientSeq, down, downSender, own, grabbed>>
  BY <1>1, <1>4 DEF Only, Still, serverVars, clientVars
<1>6. PeerNumbers(c) /\ c \in connected
  BY <1>1 DEF OwnInv, Numbers, PeerNumbers
<1>7. /\ up[c] \in Seq(SmallUp(copies))
      /\ \A j \in DOMAIN up[c] : j \in DOMAIN up'[c] /\ up'[c][j] = up[c][j]
      /\ \A j \in DOMAIN up'[c] : up'[c][j] = data \/ j \in DOMAIN up[c]
  BY <1>2, <1>3, <1>4, AppendOne
<1>8. PeerNumbers(c)'
  <2>1. \A j \in DOMAIN up'[c] : up'[c][j].seq <= clientSeq[c]
    BY <1>3, <1>6, <1>7 DEF PeerNumbers
  <2>2. upSender'[c].seq <= clientSeq[c]
    BY <1>2, <1>4 DEF NoUpload
  <2> QED BY <1>5, <1>6, <2>1, <2>2 DEF PeerNumbers, Only
<1>9. ASSUME Served(c), Owns(c) PROVE Served(c)' /\ Owns(c)'
  <2>1. Served(c)' /\ (Late(c) => Late(c)')
    BY <1>5, <1>9 DEF Served, Late, Only
  <2>2. Claims(c) => Claims(c)'
    BY <1>5, <1>7 DEF Claims, GrabsWaiting, Only
  <2> QED BY <1>5, <1>9, <2>1, <2>2 DEF Owns, Only
<1>10. clientSeq[c] <= clientSeq'[c]
  BY <1>2, <1>5
<1> QED BY <1>5, <1>8, <1>9, <1>10, QuietStep

LEMMA CopyOnClientOwns ==
  ASSUME OwnInv, SizeInv', NEW c \in Clients, CopyOnClient(c)
  PROVE  OwnInv'
<1>1. /\ c \in connected /\ system' = [system EXCEPT ![c] = copies + 1]
      /\ grabbed' = [grabbed EXCEPT ![c] = @ + 1]
      /\ UNCHANGED <<serverVars, clientActive, clientSeq, own, sent, dataSent, wireVars>>
  BY DEF CopyOnClient
<1>2. system \in [Screens -> 0 .. copies] /\ grabbed \in [Clients -> 0 .. copies]
      /\ clientSeq[c] \in Nat
  BY NumberTypes DEF OwnInv, SizeInv, ClientTypes
<1>3. Only(c) /\ UNCHANGED <<events, clientSeq, down, downSender, up, upSender, own>>
  BY <1>1, <1>2, ConstantFacts DEF Only, Still, serverVars, wireVars
<1>4. PeerNumbers(c)'
  BY <1>1, <1>3 DEF OwnInv, Numbers, PeerNumbers, Only
<1>5. ASSUME Served(c), Owns(c) PROVE Served(c)' /\ Owns(c)'
  BY <1>3, <1>5 DEF Served, Owns, Late, Claims, GrabsWaiting, Only
<1>6. clientSeq[c] <= clientSeq'[c]
  BY <1>2, <1>3
<1> QED BY <1>3, <1>4, <1>5, <1>6, QuietStep

\* A client writes: what it wrote before is still on its way.
LEMMA SendKeeps ==
  ASSUME SizeInv, NEW c \in Clients, NEW msgs \in Seq(SmallUp(copies)), NEW cond \in BOOLEAN,
         NEW was \in BOOLEAN, Send(c, msgs, cond, was),
         \A j \in DOMAIN msgs : msgs[j].seq <= clientSeq[c], PeerNumbers(c)
  PROVE  /\ \A j \in DOMAIN up'[c] : up'[c][j].seq <= clientSeq[c]
         /\ upSender'[c].seq <= clientSeq[c]
         /\ \A j \in DOMAIN up[c] : j \in DOMAIN up'[c] /\ up'[c][j] = up[c][j]
         /\ \A j \in DOMAIN msgs : \E j2 \in DOMAIN up'[c] : up'[c][j2] = msgs[j]
         /\ \A d \in Clients : d # c => up'[d] = up[d] /\ upSender'[d] = upSender[d]
<1> DEFINE v == system[c]
           sends == cond /\ v \notin Oversized /\ (~was \/ v # dataSent[c])
           data == [type |-> "data", content |-> v, seq |-> clientSeq[c]]
           tail == IF sends /\ v \notin Paced THEN <<data>> ELSE <<>>
<1>1. /\ up' = [up EXCEPT ![c] = @ \o msgs \o tail]
      /\ upSender' = [upSender EXCEPT ![c] =
               IF ~sends THEN @
               ELSE IF v \in Paced THEN [content |-> v, seq |-> clientSeq[c]]
               ELSE NoUpload]
  BY DEF Send
<1>2. /\ up \in [Clients -> Seq(SmallUp(copies))] /\ upSender \in [Clients -> SmallUpload(copies)]
      /\ clientSeq[c] \in Nat /\ clientSeq[c] \in SeqNums
      /\ \A j \in DOMAIN up[c] : up[c][j].seq <= clientSeq[c]
      /\ upSender[c].seq <= clientSeq[c] /\ v \in 0 .. copies
  BY NumberTypes, ConstantFacts DEF SizeInv, ClientTypes, PeerNumbers
<1>3. tail \in Seq(SmallUp(copies)) /\ \A j \in DOMAIN tail : tail[j].seq <= clientSeq[c]
  <2>1. CASE sends /\ v \notin Paced
    <3>1. v \in Small(copies)
      BY <1>2, <2>1, Copies DEF SizeInv
    <3>2. data \in SmallUp(copies) /\ data.seq <= clientSeq[c]
      BY <1>2, <3>1 DEF SmallUp
    <3>3. tail = <<data>>
      BY <2>1
    <3> HIDE DEF data, tail
    <3> QED BY <3>2, <3>3
  <2>2. CASE ~ (sends /\ v \notin Paced)
    BY <2>2
  <2> QED BY <2>1, <2>2
<1> HIDE DEF tail
<1>4. up'[c] = up[c] \o msgs \o tail /\ up[c] \in Seq(SmallUp(copies))
      /\ up[c] \o msgs \in Seq(SmallUp(copies))
  BY <1>1, <1>2, ConcatProperties
<1>5. ASSUME NEW s \in Seq(SmallUp(copies)), NEW t \in Seq(SmallUp(copies))
      PROVE  /\ \A j \in DOMAIN s : j \in DOMAIN (s \o t) /\ (s \o t)[j] = s[j]
             /\ \A j \in DOMAIN t : Len(s) + j \in DOMAIN (s \o t) /\ (s \o t)[Len(s) + j] = t[j]
             /\ \A j \in DOMAIN (s \o t) : \/ j \in DOMAIN s
                                           \/ j - Len(s) \in DOMAIN t /\ (s \o t)[j] = t[j - Len(s)]
  <2>1. /\ DOMAIN s = 1 .. Len(s) /\ DOMAIN t = 1 .. Len(t) /\ Len(s) \in Nat /\ Len(t) \in Nat
        /\ DOMAIN (s \o t) = 1 .. Len(s) + Len(t)
        /\ \A j \in 1 .. Len(s) + Len(t) :
              (s \o t)[j] = IF j <= Len(s) THEN s[j] ELSE t[j - Len(s)]
    BY LenProperties, ConcatProperties
  <2> QED BY <2>1
<1>6. \A j \in DOMAIN (up[c] \o msgs) : (up[c] \o msgs)[j].seq <= clientSeq[c]
  BY <1>2, <1>5
<1>7. \A j \in DOMAIN up'[c] : up'[c][j].seq <= clientSeq[c]
  BY <1>3, <1>4, <1>5, <1>6
<1>8. upSender'[c].seq <= clientSeq[c]
  BY <1>1, <1>2 DEF NoUpload
<1>9. \A j \in DOMAIN up[c] : j \in DOMAIN up'[c] /\ up'[c][j] = up[c][j]
  BY <1>3, <1>4, <1>5
<1>10. ASSUME NEW j \in DOMAIN msgs PROVE \E j2 \in DOMAIN up'[c] : up'[c][j2] = msgs[j]
  <2> DEFINE both == up[c] \o msgs
  <2>1. Len(up[c]) + j \in DOMAIN both /\ both[Len(up[c]) + j] = msgs[j]
    BY <1>4, <1>5
  <2>2. both \in Seq(SmallUp(copies)) /\ up'[c] = both \o tail
    BY <1>4
  <2> HIDE DEF both
  <2> QED BY <1>3, <1>5, <2>1, <2>2
<1> QED BY <1>1, <1>2, <1>7, <1>8, <1>9, <1>10

\* Client::handleClipboardGrabbed: the grab is on its way.
LEMMA GrabOnClientOwns ==
  ASSUME OwnInv, SizeInv', NEW c \in Clients, GrabOnClient(c)
  PROVE  OwnInv'
<1> DEFINE m == [type |-> "grab", seq |-> clientSeq[c]]
<1>1. /\ grabbed[c] # 0 /\ grabbed' = [grabbed EXCEPT ![c] = @ - 1]
      /\ own' = [own EXCEPT ![c] = TRUE]
      /\ Send(c, <<m>>, ~clientActive[c], FALSE)
      /\ UNCHANGED <<serverVars, clientActive, clientSeq, down, downSender, system>>
  BY DEF GrabOnClient
<1>2. /\ grabbed \in [Clients -> 0 .. copies] /\ own \in [Clients -> BOOLEAN]
      /\ system[c] \in 0 .. copies /\ clientSeq[c] \in Nat /\ clientSeq[c] \in SeqNums
      /\ (~clientActive[c]) \in BOOLEAN /\ SizeInv
  BY NumberTypes, ConstantFacts DEF OwnInv, SizeInv, ClientTypes
<1>3. m \in SmallUp(copies) /\ m.seq = clientSeq[c] /\ m.type = "grab"
  BY <1>2 DEF SmallUp
<1> HIDE DEF m
<1>4. PeerNumbers(c) /\ c \in connected
  BY <1>1 DEF OwnInv, Numbers, PeerNumbers
<1>5. <<m>> \in Seq(SmallUp(copies)) /\ DOMAIN <<m>> = {1} /\ <<m>>[1] = m
  BY <1>3
<1>6. \A j \in DOMAIN <<m>> : <<m>>[j].seq <= clientSeq[c]
  BY <1>2, <1>3, <1>5
<1>7. /\ \A j \in DOMAIN up'[c] : up'[c][j].seq <= clientSeq[c]
      /\ upSender'[c].seq <= clientSeq[c]
      /\ \E j \in DOMAIN up'[c] : up'[c][j] = m
      /\ \A d \in Clients : d # c => up'[d] = up[d] /\ upSender'[d] = upSender[d]
  <2> DEFINE msgs == <<m>>
             cond == ~clientActive[c]
  <2>1. Send(c, msgs, cond, FALSE) /\ msgs \in Seq(SmallUp(copies)) /\ cond \in BOOLEAN
        /\ 1 \in DOMAIN msgs /\ msgs[1] = m
        /\ \A j \in DOMAIN msgs : msgs[j].seq <= clientSeq[c]
    BY <1>1, <1>2, <1>5, <1>6
  <2> HIDE DEF msgs, cond
  <2>2. /\ \A j \in DOMAIN up'[c] : up'[c][j].seq <= clientSeq[c]
        /\ upSender'[c].seq <= clientSeq[c]
        /\ \A j \in DOMAIN msgs : \E j2 \in DOMAIN up'[c] : up'[c][j2] = msgs[j]
        /\ \A d \in Clients : d # c => up'[d] = up[d] /\ upSender'[d] = upSender[d]
    BY <1>2, <1>4, <2>1, SendKeeps
  <2> QED BY <2>1, <2>2
<1>8. Only(c) /\ UNCHANGED <<events, clientSeq, down, downSender>>
  BY <1>1, <1>2, <1>7 DEF Only, Still, serverVars
<1>9. PeerNumbers(c)'
  BY <1>4, <1>7, <1>8 DEF PeerNumbers, Only
<1>10. ASSUME Served(c) PROVE Served(c)' /\ Owns(c)'
  <2>1. Served(c)' /\ (Late(c) => Late(c)')
    BY <1>8, <1>10 DEF Served, Late, Only
  <2>2. ASSUME ~ Ended(down[c], downSender[c]), ~ Late(c) PROVE Claims(c)'
    <3>1. clipboard.seqNum <= clientSeq[c]
      BY <1>10, <2>2 DEF Served, Reached, Ended
    <3> QED BY <1>3, <1>7, <1>8, <3>1 DEF Claims, Only
  <2> QED BY <1>8, <2>1, <2>2 DEF Owns
<1>11. clientSeq[c] <= clientSeq'[c]
  BY <1>2, <1>8
<1> QED BY <1>8, <1>9, <1>10, <1>11, QuietStep

\* A client handles a message: the next number, or the end of its claim.
LEMMA ReceiveDownOwns ==
  ASSUME OwnInv, SizeInv', NEW c \in Clients, ReceiveDown(c)
  PROVE  OwnInv'
<1> DEFINE m == Head(down[c])
           q == down[c]
           s2 == IF m.type = "enter" THEN m.seq ELSE clientSeq[c]
<1>1. /\ q # <<>> /\ down' = [down EXCEPT ![c] = Tail(@)]
      /\ UNCHANGED <<serverVars, grabbed, downSender>>
  BY DEF ReceiveDown
<1>2. /\ down \in [Clients -> Seq(SmallDown(copies))] /\ own \in [Clients -> BOOLEAN]
      /\ clientSeq \in [Clients -> SeqNums] /\ clientSeq[c] \in Nat /\ m_seqNum \in Nat
      /\ system \in [Screens -> 0 .. copies] /\ c # Primary /\ Primary \in Screens
      /\ q \in Seq(DownMessage) /\ SizeInv /\ clipboard.seqNum \in Nat
      /\ own[c] \in BOOLEAN /\ sent[c] \in BOOLEAN
  BY NumberTypes, ConstantFacts DEF OwnInv, SizeInv, ServerTypes, ClientTypes
<1>3. PeerNumbers(c) /\ c \in connected
  BY <1>1 DEF OwnInv, Numbers, PeerNumbers
<1>4. m \in DownMessage /\ (m.type = "enter" => m.seq \in SeqNums)
  BY <1>1, <1>2, HeadTail DEF DownMessage
<1>5. /\ clientSeq' = [clientSeq EXCEPT ![c] = s2]
      /\ system'[Primary] = system[Primary]
      /\ own' = (IF m.type \in {"grab", "data"} THEN [own EXCEPT ![c] = FALSE] ELSE own)
      /\ \/ UNCHANGED <<up, upSender>>
         \/ m.type = "leave" /\ Send(c, <<>>, own[c], sent[c])
  <2>1. CASE m.type = "enter"
    BY <1>2, <2>1 DEF ReceiveDown
  <2>2. CASE m.type = "leave"
    BY <1>2, <2>2 DEF ReceiveDown
  <2>3. CASE m.type \in {"grab", "data"}
    BY <1>2, <2>3 DEF ReceiveDown
  <2> QED BY <2>1, <2>2, <2>3 DEF ReceiveDown
<1>6. s2 \in Nat /\ s2 \in SeqNums
  BY <1>2, <1>4, ConstantFacts
<1>7. down'[c] = Tail(q) /\ clientSeq'[c] = s2 /\ downSender'[c] = downSender[c]
  BY <1>1, <1>2, <1>5
<1>8. /\ InOrder(Tail(q), s2, m_seqNum) /\ clientSeq[c] <= s2 /\ s2 <= m_seqNum
      /\ Arrives(q, clientSeq[c], m_seqNum) => Arrives(Tail(q), s2, m_seqNum)
      /\ \A k \in Nat :
            /\ Reached(q, clientSeq[c], downSender[c], k) => Reached(Tail(q), s2, downSender[c], k)
            /\ Behind(q, clientSeq[c], k) => Behind(Tail(q), s2, k)
      /\ m.type \notin {"grab", "data"} /\ Ended(q, downSender[c]) => Ended(Tail(q), downSender[c])
  <2>1. clientSeq[c] <= m_seqNum /\ InOrder(q, clientSeq[c], m_seqNum)
    BY <1>3 DEF PeerNumbers
  <2>2. s2 = IF Head(q).type = "enter" THEN Head(q).seq ELSE clientSeq[c]
    OBVIOUS
  <2> PICK g : g = downSender[c]
    OBVIOUS
  <2> PICK s : s = clientSeq[c]
    OBVIOUS
  <2> PICK p : p = q
    OBVIOUS
  <2>3. p \in Seq(DownMessage) /\ p # <<>> /\ s \in Nat /\ m_seqNum \in Nat /\ s2 \in Nat
        /\ s2 = (IF Head(p).type = "enter" THEN Head(p).seq ELSE s)
        /\ s <= m_seqNum /\ InOrder(p, s, m_seqNum)
    BY <1>1, <1>2, <1>6, <2>1, <2>2
  <2>4. m = Head(p)
    OBVIOUS
  <2> HIDE DEF s2, m
  <2>5. /\ InOrder(Tail(p), s2, m_seqNum) /\ s <= s2 /\ s2 <= m_seqNum
        /\ Arrives(p, s, m_seqNum) => Arrives(Tail(p), s2, m_seqNum)
    BY <2>3, FirstMessage
  <2>6. ASSUME NEW k \in Nat
        PROVE  /\ Reached(p, s, g, k) => Reached(Tail(p), s2, g, k)
               /\ Behind(p, s, k) => Behind(Tail(p), s2, k)
    BY <2>3, FirstMessage
  <2>7. m.type \notin {"grab", "data"} /\ Ended(p, g) => Ended(Tail(p), g)
    BY <2>3, <2>4, FirstMessage
  <2> QED BY <2>5, <2>6, <2>7
<1> HIDE DEF s2
<1>9. /\ \A j \in DOMAIN up'[c] : up'[c][j].seq <= clientSeq[c]
      /\ upSender'[c].seq <= clientSeq[c]
      /\ \A j \in DOMAIN up[c] : j \in DOMAIN up'[c] /\ up'[c][j] = up[c][j]
      /\ \A d \in Clients : d # c => up'[d] = up[d] /\ upSender'[d] = upSender[d]
  <2>1. CASE UNCHANGED <<up, upSender>>
    BY <1>3, <2>1 DEF PeerNumbers
  <2>2. CASE Send(c, <<>>, own[c], sent[c])
    <3> DEFINE msgs == <<>>
    <3>0. Send(c, msgs, own[c], sent[c])
      BY <2>2
    <3>1. msgs \in Seq(SmallUp(copies))
      BY EmptySeq
    <3>2. \A j \in DOMAIN msgs : msgs[j].seq <= clientSeq[c]
      OBVIOUS
    <3> HIDE DEF msgs
    <3> QED BY <1>2, <1>3, <3>0, <3>1, <3>2, SendKeeps
  <2> QED BY <1>5, <2>1, <2>2
<1>10. Only(c) /\ UNCHANGED events
  BY <1>1, <1>2, <1>5, <1>9 DEF Only, Still, serverVars
<1>11. PeerNumbers(c)'
  <2>1. \A j \in DOMAIN up'[c] : up'[c][j].seq <= s2
    <3>1. up' \in [Clients -> Seq(SmallUp(copies'))]
      BY DEF SizeInv, ClientTypes
    <3>2. \A j \in DOMAIN up'[c] : up'[c][j].seq \in Nat
      <4>1. \A x \in SmallUp(copies') : x.seq \in Nat
        BY ConstantFacts DEF SmallUp
      <4> QED BY <3>1, <4>1, ElementOfSeq, LenProperties
    <3> QED BY <1>2, <1>6, <1>8, <1>9, <3>2
  <2>2. upSender'[c].seq <= s2
    <3>1. upSender'[c] \in SmallUpload(copies')
      BY DEF SizeInv, ClientTypes
    <3>2. upSender'[c].seq \in Nat
      <4>1. CASE upSender'[c] \in [content : Small(copies'), seq : SeqNums]
        BY <4>1, ConstantFacts
      <4>2. CASE upSender'[c] = NoUpload
        BY <4>2 DEF NoUpload
      <4> QED BY <3>1, <4>1, <4>2 DEF SmallUpload
    <3> QED BY <1>2, <1>6, <1>8, <1>9, <3>2
  <2> QED BY <1>3, <1>7, <1>8, <1>10, <2>1, <2>2 DEF PeerNumbers, Only
<1>12. ASSUME Served(c), Owns(c) PROVE Served(c)' /\ Owns(c)'
  <2>1. Served(c)' /\ (Late(c) => Late(c)')
    BY <1>2, <1>7, <1>8, <1>10, <1>12 DEF Served, Late, Only
  <2>2. Claims(c) => Claims(c)'
    BY <1>9, <1>10 DEF Claims, GrabsWaiting, Only
  <2>3. own'[c] => own[c] /\ m.type \notin {"grab", "data"}
    BY <1>2, <1>5
  <2> QED BY <1>7, <1>8, <1>10, <1>12, <2>1, <2>2, <2>3 DEF Owns, Only
<1>13. clientSeq[c] <= clientSeq'[c]
  BY <1>7, <1>8
<1> QED BY <1>10, <1>11, <1>12, <1>13, QuietStep

\* The server's proxy of a client reads a message: what the client claimed is an
\* event now.
LEMMA ReceiveUpOwns ==
  ASSUME OwnInv, SizeInv', NEW c \in Clients, ReceiveUp(c)
  PROVE  OwnInv'
<1> DEFINE m == Head(up[c])
           e == [type |-> IF m.type = "grab" THEN "grabbed" ELSE "changed",
                 from |-> c, seq |-> m.seq]
<1>1. /\ up[c] # <<>> /\ up' = [up EXCEPT ![c] = Tail(@)] /\ events' = Append(events, e)
      /\ UNCHANGED <<m_active, m_seqNum, clipboard, dirty, primarySeq, connected,
                     clientVars, down, downSender, upSender, system>>
  BY DEF ReceiveUp
<1>2. /\ up[c] \in Seq(UpMessage) /\ up \in [Clients -> Seq(SmallUp(copies))] /\ SizeInv
      /\ c # Primary
  BY NumberTypes, ConstantFacts DEF OwnInv, SizeInv, ClientTypes
<1>3. PeerNumbers(c) /\ c \in connected
  BY <1>1 DEF OwnInv, Numbers, PeerNumbers
<1>4. /\ m \in UpMessage /\ 1 \in DOMAIN up[c] /\ up[c][1] = m /\ up'[c] = Tail(up[c])
      /\ \A j \in DOMAIN up'[c] : j + 1 \in DOMAIN up[c] /\ up'[c][j] = up[c][j + 1]
      /\ \A j \in DOMAIN up[c] : j # 1 => j - 1 \in DOMAIN up'[c] /\ up'[c][j - 1] = up[c][j]
  BY <1>1, <1>2, HeadTail
<1>5. e \in Event /\ e.from = c /\ e.seq = m.seq /\ (m.type = "grab" => e.type = "grabbed")
  BY <1>4, ConstantFacts DEF UpMessage, Event
<1> HIDE DEF e, m
<1>6. \A d \in Clients \cup {Primary} :
         /\ \A j \in GrabsWaiting(d) : j \in GrabsWaiting(d)' /\ events'[j] = events[j]
         /\ e.type = "grabbed" /\ e.from = d
            => Len(events) + 1 \in GrabsWaiting(d)' /\ events'[Len(events) + 1] = e
  BY <1>1, <1>2, <1>5, EventsStay
<1>7. \A j \in DOMAIN events' : events'[j] = e \/ \E j2 \in DOMAIN events : events'[j] = events[j2]
  BY <1>1, <1>2, <1>5, EventsStay
<1>8. Numbers'
  <2>1. PeerNumbers(c)'
    BY <1>1, <1>3, <1>4 DEF PeerNumbers, clientVars
  <2>2. ASSUME NEW d \in Clients, d # c PROVE PeerNumbers(d)'
    BY <1>1, <2>2 DEF OwnInv, Numbers, PeerNumbers, clientVars
  <2>3. ASSUME NEW j \in DOMAIN events' PROVE Fresh(events[j])'
    <3>1. Fresh(e)
      BY <1>2, <1>3, <1>4, <1>5 DEF Fresh, PeerNumbers
    <3>2. \A j2 \in DOMAIN events : Fresh(events[j2])
      BY DEF OwnInv, Numbers
    <3>3. PICK x \in {e} \cup {events[j2] : j2 \in DOMAIN events} : events'[j] = x
      BY <1>7
    <3>4. Fresh(x)
      BY <3>1, <3>2, <3>3
    <3> QED BY <1>1, <3>3, <3>4 DEF Fresh, clientVars
  <2>4. \A d \in Clients : PeerNumbers(d)'
    BY <2>1, <2>2
  <2> QED BY <1>1, <2>3, <2>4 DEF OwnInv, Numbers
<1>9. PrimaryGrabs => PrimaryGrabs'
  BY <1>6 DEF PrimaryGrabs
<1>10. LargeFits' /\ (TooLarge => TooLarge')
  BY <1>1, <1>9 DEF OwnInv, LargeFits, TooLarge
<1>11. ASSUME AllServed PROVE AllServed'
  <2> SUFFICES ASSUME NEW d \in connected PROVE Served(d)' /\ Owns(d)'
    BY <1>1 DEF AllServed
  <2>1. d \in Clients /\ Served(d) /\ Owns(d)
    BY <1>2, <1>11, NumberTypes DEF AllServed
  <2>2. Served(d)' /\ (Late(d)' <=> Late(d))
    BY <1>1, <2>1 DEF Served, Late, clientVars
  <2>3. Claims(d) => Claims(d)'
    <3>1. ASSUME NEW j \in GrabsWaiting(d), clipboard.seqNum <= events[j].seq PROVE Claims(d)'
      BY <1>1, <1>6, <2>1, <3>1 DEF Claims
    <3>2. ASSUME NEW j \in DOMAIN up[d], up[d][j].type = "grab", clipboard.seqNum <= up[d][j].seq
          PROVE  Claims(d)'
      <4>1. CASE d # c
        BY <1>1, <3>2, <4>1 DEF Claims
      <4>2. CASE d = c /\ j = 1
        BY <1>1, <1>4, <1>5, <1>6, <2>1, <3>2, <4>2 DEF Claims
      <4>3. CASE d = c /\ j # 1
        <5>1. j - 1 \in DOMAIN up'[d] /\ up'[d][j - 1] = up[d][j]
          BY <1>4, <4>3
        <5> QED BY <1>1, <3>2, <5>1 DEF Claims
      <4> QED BY <4>1, <4>2, <4>3
    <3> QED BY <3>1, <3>2 DEF Claims
  <2> QED BY <1>1, <2>1, <2>2, <2>3 DEF Owns, clientVars
<1> QED BY <1>8, <1>9, <1>10, <1>11 DEF OwnInv

-----------------------------------------------------------------------------
(* The steps of the primary screen and of the connections *)

LEMMA CopyOnPrimaryOwns ==
  ASSUME OwnInv, SizeInv', CopyOnPrimary
  PROVE  OwnInv'
<1> DEFINE e == [type |-> "grabbed", from |-> Primary, seq |-> primarySeq]
<1>1. /\ events' = Append(events, e)
      /\ UNCHANGED <<m_active, m_seqNum, clipboard, dirty, primarySeq, connected,
                     proxyClip, clientVars, wireVars>>
  BY DEF CopyOnPrimary
<1>2. SizeInv /\ e \in Event /\ e.type = "grabbed" /\ e.from = Primary /\ e.seq = primarySeq
  BY ConstantFacts DEF OwnInv, SizeInv, ServerTypes, Event
<1> HIDE DEF e
<1>3. PrimaryGrabs'
  BY <1>1, <1>2, EventsStay DEF PrimaryGrabs
<1>4. LargeFits'
  BY <1>1, <1>3 DEF OwnInv, LargeFits, TooLarge
<1>5. \A d \in Clients : PeerNumbers(d)'
  BY <1>1 DEF OwnInv, Numbers, PeerNumbers, clientVars, wireVars
<1>6. ASSUME NEW j \in DOMAIN events' PROVE Fresh(events[j])'
  <2>1. Fresh(e)
    BY <1>2 DEF OwnInv, Numbers, Fresh
  <2>2. events'[j] = e \/ \E j2 \in DOMAIN events : events'[j] = events[j2]
    BY <1>1, <1>2, EventsStay
  <2>3. PICK x \in {e} \cup {events[j2] : j2 \in DOMAIN events} : events'[j] = x
    BY <2>2
  <2>4. Fresh(x)
    BY <2>1, <2>3 DEF OwnInv, Numbers
  <2> QED BY <1>1, <2>3, <2>4 DEF Fresh, clientVars
<1>7. Numbers'
  BY <1>1, <1>5, <1>6 DEF OwnInv, Numbers
<1> QED BY <1>3, <1>4, <1>7 DEF OwnInv

\* A connection breaks: the events of the others stay.
LEMMA DropOwns ==
  ASSUME OwnInv, SizeInv', NEW c \in Clients, Drop(c)
  PROVE  OwnInv'
<1> DEFINE K == {e \in EventType : e.from # c}
<1>1. /\ c \in connected /\ connected' = connected \ {c} /\ events' = Kept(events, K)
      /\ IF m_active = c THEN m_active' = Primary /\ primarySeq' = m_seqNum
                         ELSE UNCHANGED <<m_active, primarySeq>>
      /\ down' = [down EXCEPT ![c] = <<>>]
      /\ up' = [up EXCEPT ![c] = <<>>]
      /\ downSender' = [downSender EXCEPT ![c] = Nothing]
      /\ upSender' = [upSender EXCEPT ![c] = NoUpload]
      /\ grabbed' = [grabbed EXCEPT ![c] = 0]
      /\ UNCHANGED <<m_seqNum, clipboard, dirty, clientSeq, own, system>>
  BY DEF Drop
<1>2. /\ SizeInv /\ ServerTypes /\ ClientTypes /\ m_seqNum \in Nat /\ c # Primary
      /\ events \in Seq(Event) /\ Event \subseteq EventType
  BY NumberTypes, ConstantFacts DEF OwnInv, SizeInv, Event, EventType
<1>3. ASSUME NEW j \in DOMAIN events'
      PROVE  /\ \E j2 \in DOMAIN events : events'[j] = events[j2]
             /\ events'[j].from # c
  <2> DEFINE S == {events[j2] : j2 \in DOMAIN events}
  <2>1. events \in Seq(S)
    BY <1>2, LenProperties
  <2>2. Kept(events, K) \in Seq(S \cap K)
    BY <2>1, KeptOnly
  <2>3. events'[j] \in S \cap K
    BY <1>1, <2>2, ElementOfSeq, LenProperties
  <2> QED BY <2>3
<1>4. ASSUME NEW j \in DOMAIN events, events[j].from # c
      PROVE  \E j2 \in DOMAIN events' : events'[j2] = events[j]
  <2>1. events[j] \in K
    BY <1>2, <1>4, ElementOfSeq, LenProperties
  <2> HIDE DEF K
  <2> QED BY <1>1, <1>2, <2>1, KeptAll
<1> HIDE DEF K
<1>5. ASSUME NEW d \in (Clients \cup {Primary}) \ {c}, NEW j \in GrabsWaiting(d)
      PROVE  \E j2 \in GrabsWaiting(d)' : events'[j2] = events[j]
  <2>1. j \in DOMAIN events /\ events[j].type = "grabbed" /\ events[j].from = d
    BY <1>5 DEF GrabsWaiting
  <2>2. PICK j2 \in DOMAIN events' : events'[j2] = events[j]
    BY <1>4, <1>5, <2>1
  <2> QED BY <2>1, <2>2 DEF GrabsWaiting
<1>6. /\ down'[c] = <<>> /\ up'[c] = <<>> /\ grabbed'[c] = 0 /\ upSender'[c] = NoUpload
      /\ downSender'[c] = Nothing
      /\ \A d \in Clients : d # c => Still(d)
  BY <1>1, <1>2 DEF ServerTypes, ClientTypes, Still
<1>7. \A d \in Clients : PeerNumbers(d)
  BY DEF OwnInv, Numbers
<1>8. PeerNumbers(c)'
  <2>1. clientSeq[c] \in Nat /\ clientSeq[c] <= m_seqNum /\ c \notin connected'
    BY <1>1, <1>2, <1>7, NumberTypes DEF PeerNumbers
  <2>2. m_active' # c
    BY <1>1, <1>2
  <2>3. InOrder(<<>>, clientSeq[c], m_seqNum)
    BY DEF InOrder, Enters
  <2>4. NoUpload.seq <= clientSeq[c]
    BY <2>1 DEF NoUpload
  <2> QED BY <1>1, <1>6, <2>1, <2>2, <2>3, <2>4 DEF PeerNumbers
<1>9. ASSUME NEW d \in Clients, d # c PROVE PeerNumbers(d)'
  <2>1. m_active' = d => m_active = d
    BY <1>1, ConstantFacts
  <2> QED BY <1>1, <1>6, <1>7, <1>9, <2>1, StillNumbers
<1>10. ASSUME NEW j \in DOMAIN events' PROVE Fresh(events[j])'
  <2>1. PICK j2 \in DOMAIN events : events'[j] = events[j2]
    BY <1>3
  <2>2. Fresh(events[j2]) /\ events'[j].from # c
    BY <1>3 DEF OwnInv, Numbers
  <2> QED BY <1>1, <2>1, <2>2 DEF Fresh
<1>11. Numbers'
  <2>1. clipboard.seqNum <= m_seqNum /\ primarySeq' <= m_seqNum
    BY <1>1, <1>2 DEF OwnInv, Numbers
  <2>2. \A d \in Clients : PeerNumbers(d)'
    BY <1>8, <1>9
  <2> QED BY <1>1, <1>10, <2>1, <2>2 DEF Numbers
<1>12. PrimaryGrabs => PrimaryGrabs'
  BY <1>2, <1>5 DEF PrimaryGrabs
<1>13. LargeFits' /\ (TooLarge => TooLarge')
  BY <1>1, <1>12 DEF OwnInv, LargeFits, TooLarge
<1>14. ASSUME AllServed PROVE AllServed'
  <2> SUFFICES ASSUME NEW d \in connected, d # c PROVE Served(d)' /\ Owns(d)'
    BY <1>1 DEF AllServed
  <2>1. d \in Clients /\ Served(d) /\ Owns(d) /\ Still(d)
    BY <1>2, <1>6, <1>14 DEF AllServed, ServerTypes
  <2>2. Claims(d) => Claims(d)'
    <3>1. ASSUME NEW j \in GrabsWaiting(d), clipboard.seqNum <= events[j].seq PROVE Claims(d)'
      <4>1. PICK j2 \in GrabsWaiting(d)' : events'[j2] = events[j]
        BY <1>5, <2>1
      <4> QED BY <1>1, <3>1, <4>1 DEF Claims
    <3> QED BY <1>1, <2>1, <3>1 DEF Claims, Still
  <2> QED BY <1>1, <2>1, <2>2, StillServed
<1> QED BY <1>11, <1>12, <1>13, <1>14 DEF OwnInv

\* A client connects again: it begins with number 0, and is to be given the data.
LEMMA ReconnectOwns ==
  ASSUME OwnInv, SizeInv', NEW c \in Clients, Reconnect(c)
  PROVE  OwnInv'
<1>1. /\ c \notin connected /\ connected' = connected \cup {c} /\ dirty' = dirty \cup {c}
      /\ clientSeq' = [clientSeq EXCEPT ![c] = 0] /\ own' = [own EXCEPT ![c] = FALSE]
      /\ UNCHANGED <<m_active, m_seqNum, clipboard, primarySeq, events, grabbed, wireVars, system>>
  BY DEF Reconnect
<1>2. /\ ServerTypes /\ ClientTypes /\ m_seqNum \in Nat /\ c # Primary /\ clipboard.seqNum \in Nat
      /\ UNCHANGED <<down, up, downSender, upSender>>
  BY <1>1, NumberTypes, ConstantFacts DEF OwnInv, SizeInv, wireVars
<1>3. clientSeq'[c] = 0 /\ own'[c] = FALSE /\ \A d \in Clients : d # c => Still(d)
  BY <1>1, <1>2 DEF ClientTypes, Still
<1>4. \A d \in Clients : PeerNumbers(d)
  BY DEF OwnInv, Numbers
<1>5. down[c] = <<>> /\ up[c] = <<>> /\ upSender[c] = NoUpload
  BY <1>1, <1>4 DEF PeerNumbers
<1>6. PeerNumbers(c)'
  <2>1. m_active' # c /\ c \in connected'
    BY <1>1, <1>2 DEF ServerTypes
  <2>2. InOrder(<<>>, 0, m_seqNum)
    BY DEF InOrder, Enters
  <2>3. NoUpload.seq <= 0
    BY DEF NoUpload
  <2> QED BY <1>1, <1>2, <1>3, <1>5, <2>1, <2>2, <2>3 DEF PeerNumbers
<1>7. Numbers'
  <2>1. ASSUME NEW d \in Clients PROVE PeerNumbers(d)'
    BY <1>1, <1>3, <1>4, <1>6, StillNumbers
  <2>2. ASSUME NEW j \in DOMAIN events PROVE Fresh(events[j])'
    <3>1. Fresh(events[j]) /\ events[j].from # c
      BY <1>1, <1>2 DEF OwnInv, Numbers, Fresh
    <3>2. events[j].from = Primary \/ clientSeq'[events[j].from] = clientSeq[events[j].from]
      BY <1>2, <1>3, <3>1 DEF Fresh, Still, ServerTypes
    <3> QED BY <1>1, <3>1, <3>2 DEF Fresh
  <2> QED BY <1>1, <2>1, <2>2 DEF OwnInv, Numbers
<1>8. (PrimaryGrabs => PrimaryGrabs') /\ LargeFits' /\ (TooLarge => TooLarge')
  BY <1>1 DEF OwnInv, LargeFits, TooLarge, PrimaryGrabs, GrabsWaiting
<1>9. ASSUME AllServed PROVE AllServed'
  <2>1. Served(c)'
    <3>1. Behind(<<>>, 0, clipboard.seqNum) \/ clipboard.seqNum <= 0
      BY <1>2 DEF Behind, Enters
    <3> QED BY <1>1, <1>2, <1>3, <1>5, <3>1 DEF Served, Late, Reached
  <2>2. Owns(c)'
    BY <1>3 DEF Owns
  <2>3. ASSUME NEW d \in connected PROVE Served(d)' /\ Owns(d)'
    <3>1. d \in Clients /\ d # c /\ Served(d) /\ Owns(d) /\ Still(d)
      BY <1>1, <1>2, <1>3, <1>9 DEF AllServed, ServerTypes
    <3>2. Claims(d) => Claims(d)'
      BY <1>1, <3>1 DEF Claims, GrabsWaiting, Still
    <3> QED BY <1>1, <3>1, <3>2, StillServed
  <2> QED BY <1>1, <2>1, <2>2, <2>3 DEF AllServed
<1> QED BY <1>7, <1>8, <1>9 DEF OwnInv

-----------------------------------------------------------------------------
(* The steps of the server *)

\* The messages of client c with those of msgs are q.
Adds(c, msgs, q) == down[c] \o msgs[c] = q

\* A client that has messages q is given data: messages r, or what is still sent.
Given(q, r, g) == \/ r = q /\ g # Nothing
                  \/ \E m \in DownMessage : m.type = "data" /\ r = Append(q, m)

LEMMA GiveWrites ==
  ASSUME SizeInv, NEW dst, NEW v \in Small(copies) \cup {Nothing}, NEW msgs,
         Give(dst, v, msgs), NEW c \in Clients, NEW q \in Seq(DownMessage), Adds(c, msgs, q)
  PROVE  IF c = dst /\ v # Nothing THEN Given(q, down'[c], downSender'[c])
                                   ELSE down'[c] = q /\ downSender'[c] = downSender[c]
<1> DEFINE given == c = dst /\ v # Nothing
           data == [type |-> "data", content |-> v]
           tail == IF given /\ v \notin Paced THEN <<data>> ELSE <<>>
<1>1. /\ down'[c] = q \o tail
      /\ downSender'[c] = IF given THEN IF v \in Paced THEN v ELSE Nothing ELSE downSender[c]
  BY DEF Give, Adds
<1>2. q \o <<>> = q
  BY AppendOne
<1>3. CASE given /\ v \notin Paced
  <2>1. data \in DownMessage /\ data.type = "data"
    <3>1. copies \in 0 .. MaxCopies
      BY Copies DEF SizeInv
    <3> QED BY <1>3, <3>1, SmallFacts DEF DownMessage
  <2> HIDE DEF data
  <2>2. q \o <<data>> = Append(q, data)
    BY <2>1, AppendOne
  <2> QED BY <1>1, <1>3, <2>1, <2>2 DEF Given
<1>4. CASE given /\ v \in Paced
  BY <1>1, <1>2, <1>4 DEF Given
<1>5. CASE ~given
  BY <1>1, <1>2, <1>5
<1> QED BY <1>3, <1>4, <1>5

\* ... and a client that is given none has its messages, and what it was sent.
LEMMA GiveMessages ==
  ASSUME NEW dst, NEW v, NEW msgs, Give(dst, v, msgs), NEW c \in Clients,
         down[c] \o msgs[c] \in Seq(DownMessage), c # dst \/ v = Nothing
  PROVE  down'[c] = down[c] \o msgs[c] /\ downSender'[c] = downSender[c]
<1>1. down'[c] = down[c] \o msgs[c] \o <<>> /\ downSender'[c] = downSender[c]
  BY DEF Give
<1>2. (down[c] \o msgs[c]) \o <<>> = down[c] \o msgs[c]
  BY AppendOne
<1> QED BY <1>1, <1>2

\* Given data ends a claim, and enters no screen.
LEMMA GivenNumbers ==
  ASSUME NEW q \in Seq(DownMessage), NEW r, NEW g, Given(q, r, g), NEW s \in Nat
  PROVE  /\ \A n \in Nat : /\ InOrder(q, s, n) => InOrder(r, s, n)
                           /\ Arrives(q, s, n) => Arrives(r, s, n)
         /\ \A k \in Nat : /\ Behind(r, s, k) <=> Behind(q, s, k)
                           /\ ~ Behind(q, s, k) => Reached(r, s, g, k)
         /\ Ended(r, g)
<1>1. CASE r = q /\ g # Nothing
  <2>1. ASSUME NEW k \in Nat PROVE ~ Behind(q, s, k) => Reached(q, s, g, k)
    BY <1>1, EndingMessage
  <2> QED BY <1>1, <2>1 DEF Ended
<1>2. ASSUME NEW m \in DownMessage, m.type = "data", r = Append(q, m)
      PROVE  /\ \A n \in Nat : /\ InOrder(q, s, n) => InOrder(r, s, n)
                               /\ Arrives(q, s, n) => Arrives(r, s, n)
             /\ \A k \in Nat : /\ Behind(r, s, k) <=> Behind(q, s, k)
                               /\ ~ Behind(q, s, k) => Reached(r, s, g, k)
             /\ Ended(r, g)
  <2>1. ASSUME NEW n \in Nat
        PROVE  /\ InOrder(q, s, n) => InOrder(r, s, n)
               /\ Arrives(q, s, n) => Arrives(r, s, n)
               /\ Behind(r, s, n) <=> Behind(q, s, n)
    BY <1>2, QuietMessage
  <2>2. ASSUME NEW k \in Nat
        PROVE  Ended(r, g) /\ (~ Behind(q, s, k) => Reached(r, s, g, k))
    BY <1>2, EndingMessage
  <2>3. Ended(r, g)
    BY <2>2, 0 \in Nat
  <2> QED BY <2>1, <2>2, <2>3
<1> QED BY <1>1, <1>2 DEF Given

LEMMA MoreNumbers ==
  ASSUME NEW q \in Seq(DownMessage), NEW s \in Nat, NEW n \in Nat, InOrder(q, s, n)
  PROVE  InOrder(q, s, n + 1)
BY MessageNumbers DEF InOrder

\* switchScreen: the screen that is entered gets the next number, and the data
\* if it is to have it.
LEMMA SwitchOwns ==
  ASSUME OwnInv, SizeInv', NEW dst \in Screens, Switch(dst)
  PROVE  OwnInv'
<1> DEFINE seq == m_seqNum + 1
           publish == m_active = Primary /\ clipboard.owner = Primary
           v == system[Primary]
           cb == IF publish THEN Changed(clipboard, clipboard.seqNum, v) ELSE clipboard
           old == IF publish /\ Accepted(clipboard, clipboard.seqNum, v)
                  THEN connected ELSE dirty
           give == dst \in old /\ cb.content \notin Oversized
           w == IF give THEN cb.content ELSE Nothing
           leave == [type |-> "leave"]
           enter == [type |-> "enter", seq |-> seq]
           msgs == [c \in Clients |-> CASE c = m_active -> <<leave>>
                             [] c = dst -> <<enter>>
                             [] OTHER -> <<>>]
           k == clipboard.seqNum
<1>1. /\ dst \in connected \cup {Primary} /\ dst # m_active /\ m_seqNum < MaxSwitches
      /\ m_seqNum' = seq /\ m_active' = dst /\ clipboard' = cb
      /\ dirty' = IF give THEN old \ {dst} ELSE old
      /\ primarySeq' = IF dst = Primary THEN seq ELSE primarySeq
      /\ system' = IF give /\ dst = Primary
                   THEN [system EXCEPT ![Primary] = cb.content] ELSE system
      /\ Give(dst, w, msgs)
      /\ UNCHANGED <<connected, events, clientSeq, own, grabbed, up, upSender>>
  BY DEF Switch, clientVars
<1>2. /\ SizeInv /\ ServerTypes /\ ClientTypes /\ m_seqNum \in Nat /\ k \in Nat
      /\ clipboard \in SmallInfo(copies) /\ k \in SeqNums /\ v \in 0 .. copies
      /\ copies \in 0 .. MaxCopies /\ primarySeq \in Nat
  BY NumberTypes, ConstantFacts DEF OwnInv, SizeInv, ServerTypes, ClientTypes, SmallInfo
<1>3. seq \in Nat /\ seq \in SeqNums /\ m_seqNum < seq
  BY <1>1, <1>2, ConstantFacts DEF SeqNums
<1>4. leave \in DownMessage /\ enter \in DownMessage /\ leave.type = "leave"
      /\ enter.type = "enter" /\ enter.seq = m_seqNum + 1
  BY <1>3 DEF DownMessage
<1>5. /\ cb.owner = clipboard.owner /\ cb.seqNum = k /\ cb \in SmallInfo(copies)
      /\ publish => cb.content = v
      /\ ~publish => cb = clipboard
  <2>1. CASE publish
    <3>1. cb = Changed(clipboard, k, v)
      BY <2>1
    <3> HIDE DEF cb, v
    <3>2. cb.owner = clipboard.owner /\ cb.seqNum = k /\ cb \in SmallInfo(copies)
      BY <1>2, <3>1, ChangedType
    <3>3. cb.content = v
      BY <1>2, <3>1 DEF Changed, SmallInfo
    <3> QED BY <2>1, <3>2, <3>3
  <2>2. CASE ~publish
    BY <1>2, <2>2
  <2> QED BY <2>1, <2>2
<1> HIDE DEF cb, leave, enter
<1>6. w \in Small(copies) \cup {Nothing} /\ (give => w # Nothing)
  BY <1>2, <1>5, SmallFacts DEF SmallInfo
<1>7. (~give => w = Nothing) /\ (\A d \in connected : d \in dirty => d \in old)
  BY <1>6
<1> HIDE DEF w, old
<1>8. ASSUME NEW d \in Clients
      PROVE  /\ PeerNumbers(d) /\ down[d] \in Seq(DownMessage) /\ clientSeq[d] \in Nat
             /\ clientSeq[d] <= m_seqNum /\ InOrder(down[d], clientSeq[d], m_seqNum)
             /\ InOrder(down[d], clientSeq[d], seq)
             /\ clientSeq[d] <= seq
  <2>1. /\ PeerNumbers(d) /\ down[d] \in Seq(DownMessage) /\ clientSeq[d] \in Nat
        /\ clientSeq[d] <= m_seqNum /\ InOrder(down[d], clientSeq[d], m_seqNum)
    BY <1>2, NumberTypes DEF OwnInv, Numbers, PeerNumbers
  <2>2. InOrder(down[d], clientSeq[d], seq)
    BY <1>2, <2>1, MoreNumbers
  <2>3. clientSeq[d] <= seq
    BY <1>2, <2>1
  <2> QED BY <2>1, <2>2, <2>3
<1>9. k <= m_seqNum /\ k <= seq
  BY <1>2 DEF OwnInv, Numbers
\* A client's part, when the numbers of its messages fit.
<1>10. ASSUME NEW d \in Clients, d \in connected, InOrder(down'[d], clientSeq[d], seq),
              dst = d => Arrives(down'[d], clientSeq[d], seq)
       PROVE  PeerNumbers(d)'
  BY <1>1, <1>8, <1>10 DEF PeerNumbers
<1>11. ASSUME NEW d \in Clients, d # m_active, d # dst
       PROVE  Still(d) /\ PeerNumbers(d)'
  <2>1. msgs[d] = <<>>
    BY <1>11
  <2> HIDE DEF msgs
  <2>2. down'[d] = down[d] /\ downSender'[d] = downSender[d]
    BY <1>1, <1>2, <1>11, <2>1, GiveNothing
  <2> QED BY <1>1, <1>8, <1>11, <2>2 DEF Still, PeerNumbers
<1>12. ASSUME NEW d \in Clients, d = m_active
       PROVE  /\ down'[d] = Append(down[d], leave) /\ downSender'[d] = downSender[d]
              /\ PeerNumbers(d)'
  <2>1. msgs[d] = <<leave>>
    BY <1>1, <1>12
  <2>2. down[d] \o <<leave>> = Append(down[d], leave) /\ Append(down[d], leave) \in Seq(DownMessage)
    BY <1>4, <1>8, AppendOne
  <2> HIDE DEF msgs
  <2>3. down'[d] = Append(down[d], leave) /\ downSender'[d] = downSender[d]
    <3>1. down[d] \o msgs[d] \in Seq(DownMessage)
      BY <2>1, <2>2
    <3>2. Give(dst, w, msgs) /\ d # dst
      BY <1>1, <1>12
    <3>3. down'[d] = down[d] \o msgs[d] /\ downSender'[d] = downSender[d]
      BY <3>1, <3>2, GiveMessages
    <3> QED BY <2>1, <2>2, <3>3
  <2>4. InOrder(Append(down[d], leave), clientSeq[d], seq)
    BY <1>3, <1>4, <1>8, QuietMessage
  <2>5. d \in connected
    BY <1>2, <1>12, ConstantFacts DEF ServerTypes
  <2> QED BY <1>1, <1>10, <1>12, <2>3, <2>4, <2>5
<1>13. ASSUME NEW d \in Clients, d = dst
       PROVE  /\ PeerNumbers(d)' /\ ~ Behind(down'[d], clientSeq[d], k)
              /\ give => /\ Ended(down'[d], downSender'[d])
                         /\ Reached(down'[d], clientSeq[d], downSender'[d], k)
              /\ ~give => /\ Reached(down[d], clientSeq[d], downSender[d], k)
                             => Reached(down'[d], clientSeq[d], downSender'[d], k)
                          /\ Ended(down[d], downSender[d]) => Ended(down'[d], downSender'[d])
  <2> PICK q : q = Append(down[d], enter)
    OBVIOUS
  <2>1. msgs[d] = <<enter>>
    BY <1>1, <1>13
  <2> HIDE DEF msgs
  <2>2. down[d] \o msgs[d] = q /\ q \in Seq(DownMessage)
    BY <1>4, <1>8, <2>1, AppendOne
  <2>3. /\ InOrder(q, clientSeq[d], seq) /\ Arrives(q, clientSeq[d], seq)
        /\ ~ Behind(q, clientSeq[d], k)
        /\ Reached(down[d], clientSeq[d], downSender[d], k)
           => Reached(q, clientSeq[d], downSender[d], k)
        /\ Ended(down[d], downSender[d]) => Ended(q, downSender[d])
    <3> PICK g : g = downSender[d]
      OBVIOUS
    <3>1. /\ InOrder(Append(down[d], enter), clientSeq[d], m_seqNum + 1)
          /\ Arrives(Append(down[d], enter), clientSeq[d], m_seqNum + 1)
      BY <1>2, <1>4, <1>8, EnterMessage
    <3>2. /\ ~ Behind(Append(down[d], enter), clientSeq[d], k)
          /\ Reached(down[d], clientSeq[d], g, k) => Reached(Append(down[d], enter), clientSeq[d], g, k)
      BY <1>2, <1>4, <1>8, <1>9, EnterMessage
    <3>3. Ended(down[d], g) => Ended(Append(down[d], enter), g)
      BY <1>2, <1>4, <1>8, EnterMessage
    <3> QED BY <3>1, <3>2, <3>3
  <2> PICK s \in Nat : s = clientSeq[d]
    BY <1>8
  <2> PICK n \in Nat : n = seq
    BY <1>3
  <2> PICK x \in Nat : x = k
    BY <1>2
  <2>4. /\ SizeInv /\ Give(dst, w, msgs) /\ w \in Small(copies) \cup {Nothing}
        /\ Adds(d, msgs, q) /\ q \in Seq(DownMessage) /\ d = dst
    BY <1>1, <1>2, <1>6, <1>13, <2>2 DEF Adds
  <2>5. InOrder(q, s, n) /\ Arrives(q, s, n) /\ ~ Behind(q, s, x)
    BY <2>3
  <2> HIDE DEF k, seq
  <2>6. ASSUME w # Nothing
         PROVE  /\ InOrder(down'[d], s, n) /\ Arrives(down'[d], s, n) /\ ~ Behind(down'[d], s, x)
                /\ Ended(down'[d], downSender'[d]) /\ Reached(down'[d], s, downSender'[d], x)
    <3> PICK r : r = down'[d]
      OBVIOUS
    <3> PICK g : g = downSender'[d]
      OBVIOUS
    <3>1. Given(q, r, g)
      BY <2>4, <2>6, GiveWrites
    <3>2. /\ InOrder(r, s, n) /\ Arrives(r, s, n) /\ ~ Behind(r, s, x)
          /\ Reached(r, s, g, x) /\ Ended(r, g)
      BY <2>4, <2>5, <3>1, GivenNumbers
    <3> QED BY <3>2
  <2>7. ASSUME w = Nothing
         PROVE  /\ InOrder(down'[d], s, n) /\ Arrives(down'[d], s, n) /\ ~ Behind(down'[d], s, x)
                /\ down'[d] = q /\ downSender'[d] = downSender[d]
    <3>1. down'[d] = q /\ downSender'[d] = downSender[d]
      <4>1. down[d] \o msgs[d] \in Seq(DownMessage) /\ down[d] \o msgs[d] = q
        BY <2>2
      <4> QED BY <2>4, <2>7, <4>1, GiveMessages
    <3> QED BY <2>5, <2>7, <3>1
  <2>8. InOrder(down'[d], s, n) /\ Arrives(down'[d], s, n) /\ ~ Behind(down'[d], s, x)
    BY <2>6, <2>7
  <2>9. w # Nothing => Ended(down'[d], downSender'[d]) /\ Reached(down'[d], s, downSender'[d], x)
    BY <2>6
  <2>10. w = Nothing => down'[d] = q /\ downSender'[d] = downSender[d]
    BY <2>7
  <2>11. PeerNumbers(d)'
    <3>1. d \in connected
      BY <1>1, <1>13, ConstantFacts
    <3> QED BY <1>10, <2>8, <3>1
  <2> QED BY <1>6, <1>7, <2>3, <2>8, <2>9, <2>10, <2>11
<1>14. Numbers'
  <2>1. \A d \in Clients : PeerNumbers(d)'
    BY <1>11, <1>12, <1>13
  <2>2. primarySeq' <= seq
    BY <1>1, <1>2, <1>3 DEF OwnInv, Numbers
  <2>3. ASSUME NEW j \in DOMAIN events PROVE Fresh(events[j])'
    <3>1. Fresh(events[j]) /\ events[j].seq \in Nat
      BY <1>2, NumberTypes DEF OwnInv, Numbers
    <3>2. events[j].seq <= m_seqNum => events[j].seq <= seq
      BY <1>2, <3>1
    <3> HIDE DEF seq
    <3> QED BY <1>1, <3>1, <3>2 DEF Fresh
  <2> HIDE DEF seq, give
  <2> QED BY <1>1, <1>5, <1>9, <2>1, <2>2, <2>3 DEF Numbers
<1>15. PrimaryGrabs' <=> PrimaryGrabs
  BY <1>1 DEF PrimaryGrabs, GrabsWaiting
\* A copy above the limit is the primary screen's, which is given nothing then.
<1>16. LargeFits'
  <2> SUFFICES ASSUME cb.content \in Oversized
               PROVE  cb.owner = Primary /\ (system'[Primary] = cb.content \/ PrimaryGrabs)
    BY <1>1, <1>15 DEF LargeFits, TooLarge
  <2>1. system' = system
    BY <1>1
  <2> QED BY <1>5, <2>1 DEF OwnInv, LargeFits, TooLarge
<1>17. ASSUME ~ TooLarge', ~ PrimaryGrabs PROVE AllServed'
  <2>1. cb.content \notin Oversized
    BY <1>1, <1>17 DEF TooLarge
  <2>2. ~ TooLarge
    BY <1>5, <1>17, <2>1 DEF OwnInv, LargeFits, TooLarge
  <2>3. AllServed
    BY <1>17, <2>2 DEF OwnInv
  <2> SUFFICES ASSUME NEW d \in connected PROVE Served(d)' /\ Owns(d)'
    BY <1>1 DEF AllServed
  <2>4. d \in Clients /\ Served(d) /\ Owns(d)
    BY <1>2, <2>3 DEF AllServed, ServerTypes
  <2>5. /\ clipboard'.seqNum = k /\ clipboard'.owner = clipboard.owner
        /\ Claims(d) => Claims(d)'
        /\ d # dst /\ d \in dirty => d \in dirty'
    BY <1>1, <1>5, <1>7 DEF Claims, GrabsWaiting
  <2>6. CASE d # m_active /\ d # dst
    BY <1>11, <2>4, <2>5, <2>6, StillServed
  <2>7. CASE d = m_active
    <3>1. /\ Behind(down'[d], clientSeq[d], k) <=> Behind(down[d], clientSeq[d], k)
          /\ Reached(down[d], clientSeq[d], downSender[d], k)
             => Reached(down'[d], clientSeq[d], downSender'[d], k)
          /\ Ended(down[d], downSender[d]) => Ended(down'[d], downSender'[d])
      <4> PICK g : g = downSender[d]
        OBVIOUS
      <4>1. /\ Behind(Append(down[d], leave), clientSeq[d], k) <=> Behind(down[d], clientSeq[d], k)
            /\ Reached(down[d], clientSeq[d], g, k) => Reached(Append(down[d], leave), clientSeq[d], g, k)
        BY <1>2, <1>4, <1>8, <2>4, QuietMessage
      <4>2. Ended(down[d], g) => Ended(Append(down[d], leave), g)
        BY <1>2, <1>4, <1>8, <2>4, QuietMessage
      <4> QED BY <1>12, <2>4, <2>7, <4>1, <4>2
    <3>2. d # dst
      BY <1>1, <2>7
    <3>3. Late(d)' <=> Late(d)
      BY <1>1, <2>5, <3>1 DEF Late
    <3>4. Served(d)'
      BY <1>1, <2>4, <2>5, <3>1, <3>2, <3>3 DEF Served
    <3>5. Owns(d)'
      BY <1>1, <2>4, <2>5, <3>1, <3>3 DEF Owns
    <3> QED BY <3>4, <3>5
  <2>8. CASE d = dst
    <3>1. ~ Late(d)'
      BY <1>1, <1>13, <2>4, <2>5, <2>8 DEF Late
    <3>2. CASE give
      <4>1. /\ Ended(down'[d], downSender'[d])
            /\ Reached(down'[d], clientSeq[d], downSender'[d], k)
        BY <1>13, <2>4, <2>8, <3>2
      <4> QED BY <1>1, <2>4, <2>5, <3>1, <4>1, EndedServed
    <3>3. CASE ~give
      <4>1. d \notin dirty
        BY <1>7, <2>1, <2>8, <3>3
      <4>2. Reached(down[d], clientSeq[d], downSender[d], k)
        BY <2>4, <4>1 DEF Served
      <4>3. ~ Late(d)
        BY <1>2, <1>8, <2>4, <4>2, ReachedNotBehind DEF Late
      <4>4. Reached(down'[d], clientSeq[d], downSender'[d], k)
        BY <1>13, <2>4, <2>8, <3>3, <4>2
      <4>5. Ended(down[d], downSender[d]) => Ended(down'[d], downSender'[d])
        BY <1>13, <2>4, <2>8, <3>3
      <4>6. Served(d)'
        BY <1>1, <2>5, <4>4 DEF Served
      <4>7. Owns(d)'
        BY <1>1, <2>4, <2>5, <4>3, <4>5 DEF Owns
      <4> QED BY <4>6, <4>7
    <3> QED BY <3>2, <3>3
  <2> QED BY <2>6, <2>7, <2>8
<1> QED BY <1>14, <1>15, <1>16, <1>17 DEF OwnInv

\* The server takes the first event: the others stay.
LEMMA EventTaken ==
  ASSUME OwnInv, events # <<>>, events' = Tail(events)
  PROVE  /\ Head(events) \in Event /\ Fresh(Head(events)) /\ Head(events).seq \in Nat
         /\ \A c : \A j \in GrabsWaiting(c) :
               \/ Head(events).type = "grabbed" /\ Head(events).from = c /\ events[j] = Head(events)
               \/ \E j2 \in GrabsWaiting(c)' : events'[j2] = events[j]
         /\ \A j \in DOMAIN events' : \E j2 \in DOMAIN events : events'[j] = events[j2]
<1>1. events \in Seq(Event) /\ \A j \in DOMAIN events : events[j].seq \in Nat /\ Fresh(events[j])
  BY NumberTypes DEF OwnInv, Numbers
<1>2. /\ Head(events) = events[1] /\ Head(events) \in Event /\ 1 \in DOMAIN events
      /\ \A j \in DOMAIN events' : j + 1 \in DOMAIN events /\ events'[j] = events[j + 1]
      /\ \A j \in DOMAIN events : j # 1 => j - 1 \in DOMAIN events' /\ events'[j - 1] = events[j]
  BY <1>1, HeadTail
<1>3. ASSUME NEW c, NEW j \in GrabsWaiting(c)
      PROVE  \/ /\ Head(events).type = "grabbed" /\ Head(events).from = c
                /\ events[j] = Head(events)
             \/ \E j2 \in GrabsWaiting(c)' : events'[j2] = events[j]
  <2>1. j \in DOMAIN events /\ events[j].type = "grabbed" /\ events[j].from = c
    BY <1>3 DEF GrabsWaiting
  <2>2. CASE j = 1
    BY <1>2, <2>1, <2>2
  <2>3. CASE j # 1
    <3>1. j - 1 \in DOMAIN events' /\ events'[j - 1] = events[j]
      BY <1>2, <2>1, <2>3
    <3>2. j - 1 \in GrabsWaiting(c)'
      BY <2>1, <3>1 DEF GrabsWaiting
    <3> QED BY <3>1, <3>2
  <2> QED BY <2>2, <2>3
<1> QED BY <1>1, <1>2, <1>3

\* A step of the server that writes to its clients no number, and raises none.
LEMMA ServerNumbers ==
  ASSUME OwnInv, events # <<>>, events' = Tail(events),
         UNCHANGED <<m_active, m_seqNum, primarySeq, connected, clientVars, up, upSender>>,
         clipboard'.seqNum <= m_seqNum,
         \A c \in Clients \ connected : down'[c] = down[c] /\ downSender'[c] = downSender[c],
         \A c \in connected :
            /\ InOrder(down[c], clientSeq[c], m_seqNum) => InOrder(down'[c], clientSeq[c], m_seqNum)
            /\ Arrives(down[c], clientSeq[c], m_seqNum) => Arrives(down'[c], clientSeq[c], m_seqNum)
  PROVE  Numbers'
<1>1. \A c \in Clients : PeerNumbers(c)
  BY DEF OwnInv, Numbers
<1>2. UNCHANGED <<clientSeq, own, grabbed>>
  BY DEF clientVars
<1>3. ASSUME NEW c \in Clients PROVE PeerNumbers(c)'
  <2>1. CASE c \in connected
    BY <1>1, <1>2, <2>1 DEF PeerNumbers
  <2>2. CASE c \notin connected
    BY <1>1, <1>2, <2>2 DEF PeerNumbers
  <2> QED BY <2>1, <2>2
<1>4. ASSUME NEW j \in DOMAIN events' PROVE Fresh(events[j])'
  <2>1. PICK j2 \in DOMAIN events : events'[j] = events[j2]
    BY EventTaken
  <2>2. Fresh(events[j2])
    BY DEF OwnInv, Numbers
  <2> QED BY <1>2, <2>1, <2>2 DEF Fresh
<1> QED BY <1>3, <1>4 DEF OwnInv, Numbers

\* handleClipboardGrabbed, when the grab is refused for its number.
LEMMA RefusedOwns ==
  ASSUME OwnInv, NEW e, events # <<>>, events' = Tail(events), e = Head(events),
         UNCHANGED <<m_active, m_seqNum, primarySeq, connected, clientVars, up, upSender>>,
         e.type = "grabbed" => e.from # Primary /\ e.seq < clipboard.seqNum, SizeInv',
         UNCHANGED <<clipboard, dirty, system, down, downSender>>
  PROVE  OwnInv'
<1>1. /\ e.seq \in Nat /\ clipboard.seqNum \in Nat /\ clipboard.seqNum <= m_seqNum
      /\ connected \subseteq Clients
  BY EventTaken, NumberTypes DEF OwnInv, Numbers
<1>2. Numbers'
  BY <1>1, ServerNumbers
<1>3. PrimaryGrabs => PrimaryGrabs'
  BY EventTaken DEF PrimaryGrabs
<1>4. LargeFits' /\ (TooLarge => TooLarge')
  BY <1>3 DEF OwnInv, LargeFits, TooLarge
<1>5. ASSUME AllServed PROVE AllServed'
  <2> SUFFICES ASSUME NEW c \in connected PROVE Served(c)' /\ Owns(c)'
    BY DEF AllServed
  <2>1. Served(c) /\ Owns(c) /\ Still(c) /\ c \in Clients
    BY <1>1, <1>5 DEF AllServed, Still, clientVars
  <2>2. Claims(c) => Claims(c)'
    <3>1. ASSUME NEW j \in GrabsWaiting(c), clipboard.seqNum <= events[j].seq PROVE Claims(c)'
      <4>1. ~ (e.type = "grabbed" /\ events[j] = e)
        BY <1>1, <3>1
      <4>2. PICK j2 \in GrabsWaiting(c)' : events'[j2] = events[j]
        BY <4>1, EventTaken
      <4> QED BY <3>1, <4>2 DEF Claims
    <3> QED BY <3>1, <2>1 DEF Claims, Still
  <2> QED BY <2>1, <2>2, StillServed
<1> QED BY <1>2, <1>3, <1>4, <1>5 DEF OwnInv

\* ... and when it is accepted: the others are told.
LEMMA GrabbedOwns ==
  ASSUME OwnInv, SizeInv', NEW e, events # <<>>, events' = Tail(events), e = Head(events),
         UNCHANGED <<m_active, m_seqNum, primarySeq, connected, clientVars, up, upSender>>,
         e.type = "grabbed", HandleGrabbed(e.from, e.seq)
  PROVE  OwnInv'
<1> DEFINE from == e.from
           cleared == [owner |-> from, seqNum |-> e.seq, content |-> Empty,
                       data |-> Empty]
           v == system[Primary]
           away == from = Primary /\ m_active # Primary
           resend == away /\ Accepted(cleared, e.seq, v)
           others == (connected \cup {Primary}) \ {from}
           grab == [type |-> "grab"]
           msgs == [c \in Clients |-> IF c \in connected \ {from} THEN <<grab>> ELSE <<>>]
           w == IF resend THEN v ELSE Nothing
<1>1. CASE from # Primary /\ e.seq < clipboard.seqNum
  <2>1. UNCHANGED <<clipboard, dirty, system, down, downSender>>
    BY <1>1 DEF HandleGrabbed
  <2> QED BY <1>1, <2>1, RefusedOwns
<1>2. CASE ~ (from # Primary /\ e.seq < clipboard.seqNum)
  <2>1. /\ clipboard' = (IF away THEN Changed(cleared, e.seq, v) ELSE cleared)
        /\ dirty' = others \ (IF resend THEN {m_active} ELSE {})
        /\ system' = IF from = Primary THEN system
                     ELSE [system EXCEPT ![Primary] = Empty]
        /\ Give(m_active, w, msgs)
    BY <1>2 DEF HandleGrabbed
  <2>2. /\ SizeInv /\ ServerTypes /\ ClientTypes /\ m_seqNum \in Nat
        /\ e \in Event /\ e.seq \in Nat /\ Fresh(e) /\ from \in connected \cup {Primary}
        /\ from \in Screens /\ e.seq \in SeqNums /\ v \in 0 .. copies /\ copies \in 0 .. MaxCopies
        /\ connected \subseteq Clients /\ m_active \in connected \cup {Primary}
    BY EventTaken, NumberTypes, Copies, ConstantFacts
       DEF OwnInv, SizeInv, ServerTypes, ClientTypes, Event, Fresh
  <2>3. /\ clipboard'.owner = from /\ clipboard'.seqNum = e.seq
        /\ clipboard'.content = (IF away THEN v ELSE Empty)
    <3>1. cleared \in SmallInfo(copies) /\ cleared.owner = from /\ cleared.seqNum = e.seq
          /\ cleared.content = Empty
      BY <2>2, SmallFacts DEF SmallInfo
    <3> HIDE DEF cleared
    <3>2. /\ Changed(cleared, e.seq, v).owner = from /\ Changed(cleared, e.seq, v).seqNum = e.seq
      BY <2>2, <3>1, ChangedType
    <3>3. Changed(cleared, e.seq, v).content = v
      BY <2>2, <3>1 DEF Changed, SmallInfo
    <3> QED BY <2>1, <3>1, <3>2, <3>3
  <2>4. w \in Small(copies) \cup {Nothing}
    BY <2>2, SmallFacts DEF Accepted
  <2>5. e.seq <= m_seqNum
    <3>1. CASE from = Primary
      BY <2>2, <3>1 DEF Fresh
    <3>2. CASE from # Primary
      <4>1. from \in Clients /\ e.seq <= clientSeq[from]
        BY <2>2, <3>2 DEF Fresh
      <4>2. clientSeq[from] \in Nat /\ clientSeq[from] <= m_seqNum
        BY <4>1, NumberTypes DEF OwnInv, Numbers, PeerNumbers
      <4> QED BY <2>2, <4>1, <4>2
    <3> QED BY <3>1, <3>2
  <2>6. grab \in DownMessage /\ grab.type = "grab"
    BY DEF DownMessage
  <2> HIDE DEF grab, cleared
  <2>7. \A c \in Clients : msgs[c] = IF c \in connected /\ c # from THEN <<grab>> ELSE <<>>
    OBVIOUS
  <2> HIDE DEF msgs, w
  \* A client that is told, and what its messages then are.
  <2>8. ASSUME NEW c \in connected, c # from
        PROVE  /\ InOrder(down[c], clientSeq[c], m_seqNum) => InOrder(down'[c], clientSeq[c], m_seqNum)
               /\ Arrives(down[c], clientSeq[c], m_seqNum) => Arrives(down'[c], clientSeq[c], m_seqNum)
               /\ Behind(down'[c], clientSeq[c], e.seq) <=> Behind(down[c], clientSeq[c], e.seq)
               /\ ~ Behind(down[c], clientSeq[c], e.seq)
                  => Reached(down'[c], clientSeq[c], downSender'[c], e.seq)
               /\ Ended(down'[c], downSender'[c])
    <3> PICK q : q = Append(down[c], grab)
      OBVIOUS
    <3> PICK s \in Nat : s = clientSeq[c]
      BY <2>2, NumberTypes
    <3>1. down[c] \in Seq(DownMessage) /\ c \in Clients
      BY <2>2, NumberTypes
    <3>2. q \in Seq(DownMessage) /\ down[c] \o <<grab>> = q
      BY <2>6, <3>1, AppendOne
    <3>3. Adds(c, msgs, q) /\ down[c] \o msgs[c] \in Seq(DownMessage) /\ down[c] \o msgs[c] = q
      BY <2>7, <2>8, <3>1, <3>2 DEF Adds
    <3>4. /\ InOrder(down[c], s, m_seqNum) => InOrder(q, s, m_seqNum)
          /\ Arrives(down[c], s, m_seqNum) => Arrives(q, s, m_seqNum)
          /\ Behind(q, s, e.seq) <=> Behind(down[c], s, e.seq)
      <4>1. /\ InOrder(down[c], s, m_seqNum) => InOrder(Append(down[c], grab), s, m_seqNum)
            /\ Arrives(down[c], s, m_seqNum) => Arrives(Append(down[c], grab), s, m_seqNum)
        BY <2>2, <2>6, <3>1, QuietMessage
      <4>2. Behind(Append(down[c], grab), s, e.seq) <=> Behind(down[c], s, e.seq)
        BY <2>2, <2>6, <3>1, QuietMessage
      <4> QED BY <4>1, <4>2
    <3>5. Given(q, down'[c], downSender'[c]) \/ down'[c] = q
      <4>1. CASE c = m_active /\ w # Nothing
        BY <2>1, <2>2, <2>4, <3>1, <3>2, <3>3, <4>1, GiveWrites
      <4>2. CASE ~ (c = m_active /\ w # Nothing)
        <5>1. c # m_active \/ w = Nothing
          BY <4>2
        <5>2. Give(m_active, w, msgs) /\ down[c] \o msgs[c] \in Seq(DownMessage)
          BY <2>1, <3>3
        <5>3. down'[c] = down[c] \o msgs[c] /\ downSender'[c] = downSender[c]
          BY <3>1, <5>1, <5>2, GiveMessages
        <5> QED BY <3>3, <5>3
      <4> QED BY <4>1, <4>2
    <3> PICK r : r = down'[c]
      OBVIOUS
    <3> PICK g : g = downSender'[c]
      OBVIOUS
    <3>6. CASE Given(q, r, g)
      <4>1. /\ InOrder(q, s, m_seqNum) => InOrder(r, s, m_seqNum)
            /\ Arrives(q, s, m_seqNum) => Arrives(r, s, m_seqNum)
            /\ Behind(r, s, e.seq) <=> Behind(q, s, e.seq)
            /\ ~ Behind(q, s, e.seq) => Reached(r, s, g, e.seq)
            /\ Ended(r, g)
        BY <2>2, <3>2, <3>6, GivenNumbers
      <4> QED BY <3>4, <4>1
    <3>7. CASE r = q
      <4>1. ~ Behind(down[c], s, e.seq) => Reached(Append(down[c], grab), s, g, e.seq)
        BY <2>2, <2>6, <3>1, EndingMessage
      <4>2. Ended(Append(down[c], grab), g)
        BY <2>2, <2>6, <3>1, EndingMessage
      <4> QED BY <3>4, <3>7, <4>1, <4>2
    <3> QED BY <3>5, <3>6, <3>7
  \* A client that is not.
  <2>9. ASSUME NEW c \in Clients, c \notin connected \/ c = from
         PROVE  down'[c] = down[c] /\ downSender'[c] = downSender[c]
    <3>1. msgs[c] = <<>>
      BY <2>7, <2>9
    <3>2. c # m_active \/ w = Nothing
      BY <2>2, <2>9, ConstantFacts DEF w
    <3>3. down[c] \in Seq(DownMessage)
      BY <2>2, NumberTypes
    <3>4. down[c] \o <<>> = down[c]
      BY <3>3, AppendOne
    <3>5. down[c] \o msgs[c] \in Seq(DownMessage) /\ Give(m_active, w, msgs)
      BY <2>1, <3>1, <3>3, <3>4
    <3>6. down'[c] = down[c] \o msgs[c] /\ downSender'[c] = downSender[c]
      BY <3>2, <3>5, GiveMessages
    <3> QED BY <3>1, <3>4, <3>6
  <2>10. Numbers'
    <3>1. \A c \in Clients \ connected : down'[c] = down[c] /\ downSender'[c] = downSender[c]
      BY <2>9
    <3>2. ASSUME NEW c \in connected
          PROVE  /\ InOrder(down[c], clientSeq[c], m_seqNum) => InOrder(down'[c], clientSeq[c], m_seqNum)
                 /\ Arrives(down[c], clientSeq[c], m_seqNum) => Arrives(down'[c], clientSeq[c], m_seqNum)
      BY <2>2, <2>8, <2>9
    <3>3. clipboard'.seqNum <= m_seqNum
      BY <2>3, <2>5
    <3> QED BY <3>1, <3>2, <3>3, ServerNumbers
  <2>11. LargeFits'
    <3> SUFFICES ASSUME clipboard'.content \in Oversized
                 PROVE  from = Primary /\ system'[Primary] = clipboard'.content
      BY <2>3 DEF LargeFits, TooLarge
    <3> QED BY <2>1, <2>3, ConstantFacts
  <2>12. ASSUME NEW c \in connected PROVE Served(c)' /\ Owns(c)'
    <3>0. c \in Clients /\ clientSeq'[c] = clientSeq[c] /\ connected' = connected /\ own' = own
      BY <2>2 DEF clientVars
    <3>1. CASE c = from
      <4>1. e.seq <= clientSeq[c]
        BY <2>2, <3>0, <3>1, ConstantFacts DEF Fresh
      <4> QED BY <2>3, <3>0, <3>1, <4>1 DEF Served, Owns, Reached
    <3>2. CASE c # from
      <4>1. Late(c)' => c \in dirty'
        <5>1. CASE resend /\ c = m_active
          <6>1. Arrives(down[c], clientSeq[c], m_seqNum) /\ clientSeq[c] \in Nat
                /\ down[c] \in Seq(DownMessage)
            BY <3>0, <5>1, NumberTypes DEF OwnInv, Numbers, PeerNumbers
          <6>2. ~ Behind(down[c], clientSeq[c], e.seq)
            BY <2>2, <2>5, <6>1, MessageNumbers DEF Arrives, Behind
          <6> QED BY <2>3, <2>8, <3>0, <3>2, <6>2 DEF Late
        <5>2. CASE ~ (resend /\ c = m_active)
          BY <2>1, <3>0, <3>2, <5>2
        <5> QED BY <5>1, <5>2
      <4>2. Late(c)' <=> Behind(down'[c], clientSeq[c], e.seq)
        BY <2>3, <3>0 DEF Late
      <4>3. /\ ~ Late(c)' => Reached(down[c], clientSeq[c], downSender[c], clipboard.seqNum)'
            /\ Ended(down[c], downSender[c])'
        BY <2>3, <2>8, <3>0, <3>2, <4>2
      <4> QED BY <3>0, <4>1, <4>3, EndedServed
    <3> QED BY <3>1, <3>2
  <2> QED BY <2>10, <2>11, <2>12 DEF OwnInv, AllServed
<1> QED BY <1>1, <1>2

\* handleClipboardChanged: the active screen is given the data, and the others
\* are to be.
LEMMA ChangedOwns ==
  ASSUME OwnInv, SizeInv', Expected \/ ~ TooLarge, NEW e, events # <<>>,
         events' = Tail(events), e = Head(events),
         UNCHANGED <<m_active, m_seqNum, primarySeq, connected, clientVars, up, upSender>>,
         e.type = "changed", HandleChanged(e.from, e.seq)
  PROVE  OwnInv'
<1> DEFINE from == e.from
           v == proxyClip[from]
           accepted == Accepted(clipboard, e.seq, v)
           dst == IF accepted /\ m_active # from THEN {m_active} ELSE {}
           w == IF dst = {} THEN Nothing ELSE v
           msgs == [c \in Clients |-> <<>>]
           k == clipboard.seqNum
<1>1. /\ clipboard' = Changed(clipboard, e.seq, v)
      /\ dirty' = IF accepted THEN ((connected \cup {Primary}) \ {from}) \ dst ELSE dirty
      /\ system' = IF Primary \in dst THEN [system EXCEPT ![Primary] = v] ELSE system
      /\ Give(m_active, w, msgs)
  BY DEF HandleChanged
<1>2. /\ SizeInv /\ ServerTypes /\ ClientTypes /\ m_seqNum \in Nat /\ k \in Nat /\ k \in SeqNums
      /\ e \in Event /\ e.seq \in Nat /\ e.seq \in SeqNums /\ Fresh(e) /\ from \in Clients
      /\ from \in connected /\ e.seq <= clientSeq[from] /\ clientSeq[from] \in Nat
      /\ v \in Small(copies) /\ v \in 0 .. copies /\ copies \in 0 .. MaxCopies
      /\ v # Nothing /\ v \notin Oversized
      /\ clipboard \in SmallInfo(copies)
      /\ connected \subseteq Clients /\ m_active \in connected \cup {Primary} /\ Primary \notin Clients
  <2>1. e \in Event /\ e.seq \in Nat /\ Fresh(e)
    BY EventTaken
  <2>2. from \in Clients /\ e.seq \in SeqNums
    BY <2>1 DEF Event
  <2>3. SizeInv /\ ServerTypes /\ ClientTypes /\ Primary \notin Clients
    BY ConstantFacts DEF OwnInv, SizeInv
  <2>4. from \in connected /\ e.seq <= clientSeq[from]
    BY <2>1, <2>2, <2>3 DEF Fresh
  <2>5. /\ v \in Small(copies) /\ v \in 0 .. copies /\ copies \in 0 .. MaxCopies
        /\ v # Nothing /\ v \notin Oversized
    BY <2>2, <2>3, Copies DEF ServerTypes
  <2>6. clipboard \in SmallInfo(copies) /\ k \in SeqNums
    BY <2>3 DEF ServerTypes, SmallInfo
  <2> QED BY <2>1, <2>2, <2>3, <2>4, <2>5, <2>6, NumberTypes
<1>3. /\ clipboard'.owner = clipboard.owner /\ clipboard'.seqNum = k
      /\ clipboard'.content = (IF e.seq < k THEN clipboard.content ELSE v)
      /\ accepted => k <= e.seq
  <2>1. clipboard'.owner = clipboard.owner /\ clipboard'.seqNum = k
    BY <1>1, <1>2, ChangedType
  <2>2. clipboard'.content = (IF e.seq < k THEN clipboard.content ELSE v)
    BY <1>1, <1>2 DEF Changed, SmallInfo
  <2> QED BY <1>2, <2>1, <2>2 DEF Accepted
<1>4. w \in Small(copies) \cup {Nothing} /\ \A c \in Clients : msgs[c] = <<>>
  BY <1>2
<1>5. (w # Nothing <=> accepted /\ m_active # from) /\ (dst = {} <=> ~ (accepted /\ m_active # from))
  BY <1>2
<1> HIDE DEF msgs, w
<1>6. ASSUME NEW c \in Clients
      PROVE  /\ down[c] \in Seq(DownMessage) /\ clientSeq[c] \in Nat /\ PeerNumbers(c)
             /\ Adds(c, msgs, down[c]) /\ down[c] \o msgs[c] \in Seq(DownMessage)
             /\ down[c] \o msgs[c] = down[c]
  <2>1. down[c] \in Seq(DownMessage) /\ clientSeq[c] \in Nat /\ PeerNumbers(c)
    BY <1>2, NumberTypes DEF OwnInv, Numbers
  <2>2. down[c] \o <<>> = down[c]
    BY <2>1, AppendOne
  <2>3. down[c] \o msgs[c] = down[c]
    BY <1>4, <2>2
  <2> QED BY <2>1, <2>3 DEF Adds
<1>7. ASSUME NEW c \in Clients, c # m_active \/ w = Nothing
      PROVE  down'[c] = down[c] /\ downSender'[c] = downSender[c]
  <2>1. Give(m_active, w, msgs) /\ down[c] \o msgs[c] \in Seq(DownMessage)
    BY <1>1, <1>6
  <2>2. down'[c] = down[c] \o msgs[c] /\ downSender'[c] = downSender[c]
    BY <1>7, <2>1, GiveMessages
  <2> QED BY <1>6, <2>2
<1>8. ASSUME NEW c \in Clients, c = m_active, w # Nothing
      PROVE  /\ InOrder(down[c], clientSeq[c], m_seqNum) => InOrder(down'[c], clientSeq[c], m_seqNum)
             /\ Arrives(down[c], clientSeq[c], m_seqNum) => Arrives(down'[c], clientSeq[c], m_seqNum)
             /\ Behind(down'[c], clientSeq[c], k) <=> Behind(down[c], clientSeq[c], k)
             /\ ~ Behind(down[c], clientSeq[c], k)
                => Reached(down'[c], clientSeq[c], downSender'[c], k)
             /\ Ended(down'[c], downSender'[c])
  <2>1. Given(down[c], down'[c], downSender'[c])
    <3>1. Give(m_active, w, msgs) /\ SizeInv
      BY <1>1, <1>2
    <3>2. Adds(c, msgs, down[c]) /\ down[c] \in Seq(DownMessage)
      BY <1>6
    <3> QED BY <1>4, <1>8, <3>1, <3>2, GiveWrites
  <2> PICK r : r = down'[c]
    OBVIOUS
  <2> PICK g : g = downSender'[c]
    OBVIOUS
  <2>2. Given(down[c], r, g)
    BY <2>1
  <2>3. /\ InOrder(down[c], clientSeq[c], m_seqNum) => InOrder(r, clientSeq[c], m_seqNum)
        /\ Arrives(down[c], clientSeq[c], m_seqNum) => Arrives(r, clientSeq[c], m_seqNum)
        /\ Ended(r, g)
    BY <1>2, <1>6, <2>2, GivenNumbers
  <2>4. /\ Behind(r, clientSeq[c], k) <=> Behind(down[c], clientSeq[c], k)
        /\ ~ Behind(down[c], clientSeq[c], k) => Reached(r, clientSeq[c], g, k)
    BY <1>2, <1>6, <2>2, GivenNumbers
  <2> QED BY <2>3, <2>4
<1>9. Numbers'
  <2>1. \A c \in Clients \ connected : down'[c] = down[c] /\ downSender'[c] = downSender[c]
    BY <1>2, <1>7
  <2>2. ASSUME NEW c \in connected
        PROVE  /\ InOrder(down[c], clientSeq[c], m_seqNum) => InOrder(down'[c], clientSeq[c], m_seqNum)
               /\ Arrives(down[c], clientSeq[c], m_seqNum) => Arrives(down'[c], clientSeq[c], m_seqNum)
    BY <1>2, <1>7, <1>8
  <2>3. clipboard'.seqNum <= m_seqNum
    BY <1>3 DEF OwnInv, Numbers
  <2> QED BY <2>1, <2>2, <2>3, ServerNumbers
<1>10. PrimaryGrabs => PrimaryGrabs'
  BY EventTaken DEF PrimaryGrabs
<1>11. LargeFits'
  <2> SUFFICES ASSUME clipboard'.content \in Oversized
               PROVE  clipboard.owner = Primary /\ (system'[Primary] = clipboard'.content \/ PrimaryGrabs)
    BY <1>3, <1>10 DEF LargeFits, TooLarge
  <2>1. e.seq < k /\ clipboard'.content = clipboard.content
    BY <1>2, <1>3
  <2>2. ~accepted
    BY <1>2, <1>3, <2>1
  <2>3. system' = system
    BY <1>1, <2>2
  <2> QED BY <2>1, <2>3 DEF OwnInv, LargeFits, TooLarge
\* Data cannot come when what is shared is above the limit: that is the primary
\* screen's.
<1>12. ASSUME ~ TooLarge', ~ PrimaryGrabs' PROVE AllServed'
  <2>1. ~ TooLarge
    <3> SUFFICES ASSUME TooLarge PROVE FALSE
      OBVIOUS
    <3>1. clipboard.owner = Primary /\ Expected
      BY DEF OwnInv, LargeFits
    <3>2. ~ (e.seq < k)
      BY <1>3, <1>12 DEF TooLarge
    <3>3. e.seq >= clipboard.seqNum
      BY <1>2, <3>2
    <3> QED BY <1>2, <3>1, <3>3 DEF Expected
  <2>2. AllServed
    BY <1>10, <1>12, <2>1 DEF OwnInv
  <2> SUFFICES ASSUME NEW c \in connected PROVE Served(c)' /\ Owns(c)'
    BY DEF AllServed
  <2>3. c \in Clients /\ Served(c) /\ Owns(c)
    BY <1>2, <2>2 DEF AllServed
  <2>4. Claims(c) => Claims(c)'
    <3>1. ASSUME NEW j \in GrabsWaiting(c), k <= events[j].seq PROVE Claims(c)'
      <4>1. PICK j2 \in GrabsWaiting(c)' : events'[j2] = events[j]
        BY EventTaken
      <4> QED BY <1>3, <3>1, <4>1 DEF Claims
    <3> QED BY <1>3, <3>1 DEF Claims
  <2>5. CASE accepted /\ c = m_active /\ c # from
    <3>1. Arrives(down[c], clientSeq[c], m_seqNum) /\ k <= m_seqNum
      BY <1>6, <2>3, <2>5 DEF PeerNumbers, OwnInv, Numbers
    <3>2. ~ Behind(down[c], clientSeq[c], k)
      BY <1>2, <1>6, <2>3, <3>1, MessageNumbers DEF Arrives, Behind
    <3>3. w # Nothing
      BY <1>5, <2>5
    <3>4. clientSeq'[c] = clientSeq[c]
      BY DEF clientVars
    <3>5. ~ Late(c)'
      BY <1>3, <1>8, <2>3, <2>5, <3>2, <3>3, <3>4 DEF Late
    <3>6. Reached(down[c], clientSeq[c], downSender[c], clipboard.seqNum)'
          /\ Ended(down[c], downSender[c])'
      BY <1>3, <1>8, <2>3, <2>5, <3>2, <3>3, <3>4
    <3> QED BY <2>3, <3>5, <3>6, EndedServed
  <2>6. CASE ~ (accepted /\ c = m_active /\ c # from)
    <3>1. c # m_active \/ w = Nothing
      BY <1>5, <2>6
    <3>2. Still(c)
      BY <1>7, <2>3, <3>1 DEF Still, clientVars
    <3>3. CASE c = from
      <4>1. ((Late(c)' <=> Late(c)) /\ k <= clientSeq[c]) \/ ~accepted
        BY <1>2, <1>3, <3>2, <3>3 DEF Late, Still
      <4>2. CASE ~accepted
        <5>1. dirty' = dirty
          BY <1>1, <4>2
        <5> QED BY <1>3, <2>3, <2>4, <3>2, <5>1, StillServed
      <4>3. CASE (Late(c)' <=> Late(c)) /\ k <= clientSeq[c]
        <5>1. Served(c)'
          BY <1>3, <3>2, <4>3 DEF Served, Reached, Still
        <5>2. Owns(c)'
          BY <1>3, <2>3, <2>4, <3>2, <4>3 DEF Owns, Still
        <5> QED BY <5>1, <5>2
      <4> QED BY <4>1, <4>2, <4>3
    <3>4. CASE c # from
      <4>1. c \in dirty => c \in dirty'
        BY <1>1, <2>6, <3>4
      <4> QED BY <1>3, <2>3, <2>4, <3>2, <4>1, StillServed
    <3> QED BY <3>3, <3>4
  <2> QED BY <2>5, <2>6
<1> QED BY <1>9, <1>10, <1>11, <1>12 DEF OwnInv

LEMMA HandleEventOwns ==
  ASSUME OwnInv, SizeInv', Expected \/ ~ TooLarge, HandleEvent
  PROVE  OwnInv'
<1>1. /\ events # <<>> /\ events' = Tail(events)
      /\ UNCHANGED <<m_active, m_seqNum, primarySeq, connected, clientVars, up, upSender>>
      /\ IF Head(events).type = "grabbed" THEN HandleGrabbed(Head(events).from, Head(events).seq)
                                          ELSE HandleChanged(Head(events).from, Head(events).seq)
  BY DEF HandleEvent
<1>2. PICK e : e = Head(events)
  OBVIOUS
<1>3. e \in Event
  BY <1>1, <1>2, EventTaken
<1>4. e.type \in {"grabbed", "changed"}
  BY <1>3 DEF Event
<1>5. CASE e.type = "grabbed"
  <2>1. HandleGrabbed(e.from, e.seq)
    BY <1>1, <1>2, <1>5
  <2> QED BY <1>1, <1>2, <1>5, <2>1, GrabbedOwns
<1>6. CASE e.type = "changed"
  <2>1. HandleChanged(e.from, e.seq)
    BY <1>1, <1>2, <1>6
  <2> QED BY <1>1, <1>2, <1>6, <2>1, ChangedOwns
<1> QED BY <1>4, <1>5, <1>6

-----------------------------------------------------------------------------
(* The owner and the claims agree *)

LEMMA OwnInit == Init => OwnInv
<1> SUFFICES ASSUME Init PROVE OwnInv
  OBVIOUS
<1>1. /\ m_active = Primary /\ m_seqNum = 0 /\ primarySeq = 0 /\ connected = Clients
      /\ clipboard.owner = Primary /\ clipboard.seqNum = 0 /\ clipboard.content = Empty
      /\ events = <<>>
      /\ \A c \in Clients : /\ down[c] = <<>> /\ up[c] = <<>> /\ upSender[c] = NoUpload
                            /\ clientSeq[c] = 0 /\ own[c] = FALSE
  BY DEF Init
<1>2. ASSUME NEW c \in Clients PROVE PeerNumbers(c) /\ Served(c) /\ Owns(c)
  <2>1. InOrder(<<>>, 0, 0) /\ NoUpload.seq <= 0
    BY DEF InOrder, Enters, NoUpload
  <2>2. PeerNumbers(c)
    BY <1>1, <2>1, ConstantFacts DEF PeerNumbers
  <2> QED BY <1>1, <2>2 DEF Served, Reached, Owns
<1>3. Numbers
  BY <1>1, <1>2 DEF Numbers
<1>4. LargeFits /\ AllServed
  BY <1>1, <1>2, ConstantFacts DEF LargeFits, TooLarge, AllServed
<1> QED BY <1>3, <1>4, SizeInit DEF OwnInv

LEMMA OwnNext == OwnInv /\ SizeInv' /\ (Expected \/ ~ TooLarge) /\ [Next]_vars => OwnInv'
<1> SUFFICES ASSUME OwnInv, SizeInv', Expected \/ ~ TooLarge, [Next]_vars PROVE OwnInv'
  OBVIOUS
<1>1. CASE HandleEvent
  BY <1>1, HandleEventOwns
<1>2. CASE CopyOnPrimary
  BY <1>2, CopyOnPrimaryOwns
<1>3. ASSUME NEW c \in Clients, ReceiveUp(c) \/ ReceiveDown(c) \/ GrabOnClient(c)
                                \/ FinishUp(c) \/ FinishDown(c)
      PROVE  OwnInv'
  BY <1>3, ReceiveUpOwns, ReceiveDownOwns, GrabOnClientOwns, FinishUpOwns, FinishDownOwns
<1>4. ASSUME NEW c \in Clients, CopyOnClient(c) \/ Drop(c) \/ Reconnect(c) PROVE OwnInv'
  BY <1>4, CopyOnClientOwns, DropOwns, ReconnectOwns
<1>5. ASSUME NEW s \in Screens, Switch(s) PROVE OwnInv'
  BY <1>5, SwitchOwns
<1>6. CASE UNCHANGED vars
  <2>1. UNCHANGED <<m_active, m_seqNum, clipboard, dirty, primarySeq, connected, events,
                    down, up, downSender, upSender, clientSeq, own, grabbed, system>>
    BY <1>6 DEF vars, serverVars, clientVars, wireVars
  <2>2. Numbers'
    BY <2>1 DEF OwnInv, Numbers, Fresh, PeerNumbers
  <2>3. LargeFits' /\ (TooLarge => TooLarge') /\ (PrimaryGrabs => PrimaryGrabs')
    BY <2>1 DEF OwnInv, LargeFits, TooLarge, PrimaryGrabs, GrabsWaiting
  <2>4. AllServed => AllServed'
    BY <2>1 DEF AllServed, Served, Owns, Late, Claims, GrabsWaiting
  <2> QED BY <2>2, <2>3, <2>4 DEF OwnInv
<1> QED BY <1>1, <1>2, <1>3, <1>4, <1>5, <1>6 DEF Next, Messages

\* When all is handled no claim is on its way, and nothing will end one.
LEMMA OwnAgrees == OwnInv => OwnershipAgrees
<1> SUFFICES ASSUME OwnInv, Idle, ~ TooLarge, NEW c \in connected, own[c],
                    clientSeq[c] >= clipboard.seqNum
             PROVE  clipboard.owner = c
  BY DEF OwnershipAgrees, TooLarge
<1>1. c \in Clients /\ clientSeq[c] \in Nat /\ clipboard.seqNum \in Nat
  BY NumberTypes DEF OwnInv
<1>2. down[c] = <<>> /\ up[c] = <<>> /\ downSender[c] = Nothing /\ events = <<>>
  BY <1>1 DEF Idle
<1>3. ~ PrimaryGrabs /\ ~ Claims(c)
  BY <1>2 DEF PrimaryGrabs, Claims, GrabsWaiting
<1>4. ~ Ended(down[c], downSender[c]) /\ ~ Late(c)
  BY <1>1, <1>2 DEF Ended, Tells, Late, Behind
<1>5. Owns(c)
  BY <1>3 DEF OwnInv, AllServed
<1> QED BY <1>3, <1>4, <1>5 DEF Owns

\* As long as what the server accepts in place of a copy above the limit is its
\* owner's (onClipboardChanged's assert), a client that claims the clipboard with a
\* number the server would accept is its owner, when all is handled.
THEOREM OwnershipAgreesAlways == Spec /\ [](TooLarge => Expected) => []OwnershipAgrees
<1>1. OwnInv /\ SizeInv' /\ (TooLarge => Expected) /\ [Next]_vars => OwnInv'
  BY OwnNext
<1> QED BY <1>1, OwnInit, OwnAgrees, SizeInvariant, PTL DEF Spec

\* As long as no copy was above the limit, it is so whatever the order of messages.
THEOREM OwnershipAgreesSmall == Spec => [](NothingTooLarge => OwnershipAgrees)
<1>1. SizeInv /\ NothingTooLarge => ~ TooLarge
  BY NoneLarge DEF SizeInv, ServerTypes, SmallInfo, TooLarge
<1>2. /\ (NothingTooLarge => OwnInv) /\ SizeInv /\ SizeInv' /\ [Next]_vars
      => (NothingTooLarge => OwnInv)'
  BY <1>1, StillNone, OwnNext
<1> QED BY <1>2, OwnInit, OwnAgrees, SizeInvariant, PTL DEF Spec
=============================================================================
