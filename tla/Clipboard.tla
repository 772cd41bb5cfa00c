------------------------------ MODULE Clipboard ------------------------------
(***************************************************************************)
(* Sharing one clipboard between the server and its clients                *)
(* (src/src/lib/server/Server.cpp, src/src/lib/client/Client.cpp and their *)
(* proxies).  A screen whose user copies something grabs the clipboard for *)
(* everybody; its data follows when the cursor leaves it, or at once when  *)
(* it is not the active screen; the server gives the data to a screen when *)
(* the cursor enters it.  The two directions of a connection are message   *)
(* queues, and the server handles what arrives through its event queue.    *)
(*                                                                         *)
(* A content is the number of the copy that made it, 0 when the clipboard  *)
(* was emptied.  The chunks of a transfer are one message here, written    *)
(* when the last chunk is: at once for a small content, later for one that *)
(* is sent in paced turns (Paced), so that other messages overtake it.     *)
(***************************************************************************)
EXTENDS Naturals, Sequences, Queues

CONSTANTS
    Clients,
    Primary,
    MaxCopies,        \* bound: copies the users make
    MaxSwitches,      \* bound: screen switches
    MaxDrops,         \* bound: broken connections
    Paced,            \* copies too large to send in one turn
    Oversized,        \* copies above the limit on shared clipboards
    Background        \* copies may happen on a screen without the cursor

Screens == Clients \cup {Primary}
Empty == 0
Contents == 0 .. MaxCopies
SeqNums == 0 .. MaxSwitches
Nothing == MaxCopies + 1      \* no transfer under way

ASSUME ClipboardAssumption ==
    /\ Primary \notin Clients
    /\ {MaxCopies, MaxSwitches, MaxDrops} \subseteq Nat
    /\ Paced \subseteq 1 .. MaxCopies /\ Oversized \subseteq 1 .. MaxCopies
    /\ Background \in BOOLEAN

VARIABLES
    m_active,         \* the screen with the cursor
    m_seqNum,         \* number of the last enter message
    clipboard,        \* the server's ClipboardInfo
    dirty,            \* screens whose clipboard the server knows to be old
    primarySeq,       \* sequence number the primary screen puts in events
    connected,        \* clients in the server's client list
    proxyClip,        \* client -> the proxy's copy of the clipboard
    events,           \* the server's event queue
    down, up,         \* client -> queue of messages to and from the client
    downSender,       \* client -> content the proxy is still sending
    upSender,         \* client -> content and number it is still sending
    clientActive,     \* client -> Client::m_active
    clientSeq,        \* client -> ServerProxy::m_seqNum
    own, sent,        \* client -> m_ownClipboard, m_sentClipboard
    dataSent,         \* client -> m_dataClipboard: the content it has sent last
    grabbed,          \* client -> ClipboardGrabbed events in its own queue
    system,           \* screen -> content of its system clipboard
    copies, drops     \* counters for the bounds

serverVars == <<m_active, m_seqNum, clipboard, dirty, primarySeq, connected,
                proxyClip, events>>
clientVars == <<clientActive, clientSeq, own, sent, dataSent, grabbed>>
wireVars == <<down, up, downSender, upSender>>
vars == <<serverVars, clientVars, wireVars, system, copies, drops>>

DownMessage == [type : {"enter"}, seq : SeqNums]
               \cup [type : {"leave", "grab"}]
               \cup [type : {"data"}, content : Contents]
Upload == [content : Contents, seq : SeqNums]
UpMessage == [type : {"grab"}, seq : SeqNums]
             \cup [type : {"data"}, content : Contents, seq : SeqNums]
EventType == [type : {"grabbed", "changed"}, from : Screens, seq : SeqNums]
ClipboardInfo == [owner : Screens, seqNum : SeqNums, content : Contents,
                  data : Contents]

TypeOK ==
    /\ m_active \in Screens
    /\ m_seqNum \in SeqNums
    /\ clipboard \in ClipboardInfo
    /\ dirty \subseteq Screens
    /\ primarySeq \in SeqNums
    /\ connected \subseteq Clients
    /\ proxyClip \in [Clients -> Contents]
    /\ events \in Seq(EventType)
    /\ down \in [Clients -> Seq(DownMessage)]
    /\ up \in [Clients -> Seq(UpMessage)]
    /\ downSender \in [Clients -> Contents \cup {Nothing}]
    /\ upSender \in [Clients -> Upload \cup {[content |-> Nothing, seq |-> 0]}]
    /\ clientActive \in [Clients -> BOOLEAN]
    /\ clientSeq \in [Clients -> SeqNums]
    /\ own \in [Clients -> BOOLEAN]
    /\ sent \in [Clients -> BOOLEAN]
    /\ dataSent \in [Clients -> Contents \cup {Nothing}]
    /\ grabbed \in [Clients -> 0 .. MaxCopies]
    /\ system \in [Screens -> Contents]
    /\ copies \in 0 .. MaxCopies
    /\ drops \in 0 .. MaxDrops

NoUpload == [content |-> Nothing, seq |-> 0]

Init ==
    /\ m_active = Primary
    /\ m_seqNum = 0
    /\ clipboard = [owner |-> Primary, seqNum |-> 0, content |-> Empty,
                    data |-> Empty]
    /\ dirty = Clients
    /\ primarySeq = 0
    /\ connected = Clients
    /\ proxyClip = [c \in Clients |-> Empty]
    /\ events = <<>>
    /\ down = [c \in Clients |-> <<>>]
    /\ up = [c \in Clients |-> <<>>]
    /\ downSender = [c \in Clients |-> Nothing]
    /\ upSender = [c \in Clients |-> NoUpload]
    /\ clientActive = [c \in Clients |-> FALSE]
    /\ clientSeq = [c \in Clients |-> 0]
    /\ own = [c \in Clients |-> FALSE]
    /\ sent = [c \in Clients |-> FALSE]
    /\ dataSent = [c \in Clients |-> Nothing]
    /\ grabbed = [c \in Clients |-> 0]
    /\ system = [s \in Screens |-> Empty]
    /\ copies = 0
    /\ drops = 0

-----------------------------------------------------------------------------
(* The server *)

\* Mutant: the sequence number of an update is not compared.
ChangedAnySeq(cb, seq, v) ==
    IF v \in Oversized THEN [cb EXCEPT !.content = v]
    ELSE [cb EXCEPT !.content = v, !.data = v]

\* onClipboardChanged: the record after an update from its owner, and
\* whether the update is new data that the other screens do not have.
Changed(cb, seq, v) ==
    CASE seq < cb.seqNum -> cb
      [] seq >= cb.seqNum /\ v \in Oversized -> [cb EXCEPT !.content = v]
      [] OTHER -> [cb EXCEPT !.content = v, !.data = v]
Accepted(cb, seq, v) == seq >= cb.seqNum /\ v \notin Oversized /\ v # cb.data

\* The messages msgs[c] are written to each client c, and content v is given
\* to the screen dst (no content when v is Nothing).  A new transfer to a
\* client cancels the one under way.
Give(dst, v, msgs) ==
    LET given == [c \in Clients |-> c = dst /\ v # Nothing]
    IN  /\ down' = [c \in Clients |->
               down[c] \o msgs[c] \o IF given[c] /\ v \notin Paced
                                     THEN <<[type |-> "data", content |-> v]>>
                                     ELSE <<>>]
        /\ downSender' = [c \in Clients |->
               IF given[c] THEN IF v \in Paced THEN v ELSE Nothing
               ELSE downSender[c]]
        /\ proxyClip' = [c \in Clients |->
               IF given[c] THEN v ELSE proxyClip[c]]

\* Mutant: the grab does not record its sequence number.
HandleGrabbedKeepsSeq(from, seq) ==
    IF from # Primary /\ seq < clipboard.seqNum
    THEN UNCHANGED <<clipboard, dirty, system, down, downSender, proxyClip>>
    ELSE /\ clipboard' = [clipboard EXCEPT !.owner = from, !.content = Empty,
                                          !.data = Empty]
         /\ dirty' = (connected \cup {Primary}) \ {from}
         /\ system' = IF from = Primary THEN system
                      ELSE [system EXCEPT ![Primary] = Empty]
         /\ Give(m_active, Nothing, [c \in Clients |-> IF c \in connected \ {from}
                                              THEN <<[type |-> "grab"]>>
                                              ELSE <<>>])

\* handleClipboardGrabbed.
HandleGrabbed(from, seq) ==
    LET cleared == [owner |-> from, seqNum |-> seq, content |-> Empty,
                    data |-> Empty]
        v == system[Primary]
        away == from = Primary /\ m_active # Primary
        resend == away /\ Accepted(cleared, seq, v)
        others == (connected \cup {Primary}) \ {from}
    IN  IF from # Primary /\ seq < clipboard.seqNum
        THEN UNCHANGED <<clipboard, dirty, system, down, downSender, proxyClip>>
        ELSE /\ clipboard' = IF away THEN Changed(cleared, seq, v) ELSE cleared
             /\ dirty' = others \ (IF resend THEN {m_active} ELSE {})
             /\ system' = IF from = Primary THEN system
                          ELSE [system EXCEPT ![Primary] = Empty]
             /\ Give(m_active, IF resend THEN v ELSE Nothing,
                     [c \in Clients |-> IF c \in connected \ {from}
                                THEN <<[type |-> "grab"]>> ELSE <<>>])

\* Mutant: the others are marked dirty, but the active screen is not given the data.
HandleChangedKeepsData(from, seq) ==
    /\ clipboard' = Changed(clipboard, seq, proxyClip[from])
    /\ dirty' = IF Accepted(clipboard, seq, proxyClip[from])
                THEN (connected \cup {Primary}) \ {from} ELSE dirty
    /\ UNCHANGED <<system, down, downSender, proxyClip>>

\* handleClipboardChanged and onClipboardChanged.
HandleChanged(from, seq) ==
    LET v == proxyClip[from]
        accepted == Accepted(clipboard, seq, v)
        dst == IF accepted /\ m_active # from THEN {m_active} ELSE {}
    IN  /\ clipboard' = Changed(clipboard, seq, v)
        /\ dirty' = IF accepted THEN ((connected \cup {Primary}) \ {from}) \ dst
                                ELSE dirty
        /\ system' = IF Primary \in dst THEN [system EXCEPT ![Primary] = v]
                                        ELSE system
        /\ Give(m_active, IF dst = {} THEN Nothing ELSE v, [c \in Clients |-> <<>>])

HandleEvent ==
    /\ events # <<>>
    /\ LET e == Head(events)
       IN  IF e.type = "grabbed" THEN HandleGrabbed(e.from, e.seq)
                                 ELSE HandleChanged(e.from, e.seq)
    /\ events' = Tail(events)
    /\ UNCHANGED <<m_active, m_seqNum, primarySeq, connected, clientVars, up,
                   upSender, copies, drops>>

\* Mutant: the size of the clipboard is not checked.
SwitchAnySize(dst) ==
    LET seq == m_seqNum + 1
        give == dst \in dirty
    IN  /\ dst # m_active /\ dst \in connected \cup {Primary}
        /\ m_seqNum < MaxSwitches
        /\ m_seqNum' = seq
        /\ m_active' = dst
        /\ dirty' = dirty \ {dst}
        /\ clipboard' = IF m_active = Primary /\ clipboard.owner = Primary
                        THEN Changed(clipboard, clipboard.seqNum, system[Primary])
                        ELSE clipboard
        /\ primarySeq' = IF dst = Primary THEN seq ELSE primarySeq
        /\ system' = IF give /\ dst = Primary
                     THEN [system EXCEPT ![Primary] = clipboard'.content]
                     ELSE system
        /\ Give(dst, IF give THEN clipboard'.content ELSE Nothing,
                [c \in Clients |-> CASE c = m_active -> <<[type |-> "leave"]>>
                             [] c = dst -> <<[type |-> "enter", seq |-> seq]>>
                             [] OTHER -> <<>>])
        /\ UNCHANGED <<connected, events, clientVars, up, upSender, copies,
                       drops>>

\* switchScreen.
Switch(dst) ==
    LET seq == m_seqNum + 1
        publish == m_active = Primary /\ clipboard.owner = Primary
        v == system[Primary]
        cb == IF publish THEN Changed(clipboard, clipboard.seqNum, v)
                         ELSE clipboard
        old == IF publish /\ Accepted(clipboard, clipboard.seqNum, v)
               THEN connected ELSE dirty
        give == dst \in old /\ cb.content \notin Oversized
    IN  /\ dst # m_active /\ dst \in connected \cup {Primary}
        /\ m_seqNum < MaxSwitches
        /\ m_seqNum' = seq
        /\ m_active' = dst
        /\ clipboard' = cb
        /\ dirty' = IF give THEN old \ {dst} ELSE old
        /\ primarySeq' = IF dst = Primary THEN seq ELSE primarySeq
        /\ system' = IF give /\ dst = Primary
                     THEN [system EXCEPT ![Primary] = cb.content] ELSE system
        /\ Give(dst, IF give THEN cb.content ELSE Nothing,
                [c \in Clients |-> CASE c = m_active -> <<[type |-> "leave"]>>
                             [] c = dst -> <<[type |-> "enter", seq |-> seq]>>
                             [] OTHER -> <<>>])
        /\ UNCHANGED <<connected, events, clientVars, up, upSender, copies,
                       drops>>

\* Mutant: a sender that does not stop when it is done.
FinishDownAgain(c) ==
    /\ m_active = c
    /\ downSender' = [downSender EXCEPT ![c] = Nothing]
    /\ down' = [down EXCEPT
                   ![c] = Append(@, [type |-> "data", content |-> downSender[c]])]
    /\ UNCHANGED <<serverVars, clientVars, up, upSender, system, copies, drops>>

\* The last chunk of a paced transfer to a client is written.
FinishDown(c) ==
    /\ downSender[c] # Nothing
    /\ downSender' = [downSender EXCEPT ![c] = Nothing]
    /\ down' = [down EXCEPT
                   ![c] = Append(@, [type |-> "data", content |-> downSender[c]])]
    /\ UNCHANGED <<serverVars, clientVars, up, upSender, system, copies, drops>>

\* A client's proxy reads a message and puts an event in the queue.
ReceiveUp(c) ==
    /\ up[c] # <<>>
    /\ LET m == Head(up[c])
       IN  /\ proxyClip' = IF m.type = "data"
                           THEN [proxyClip EXCEPT ![c] = m.content]
                           ELSE proxyClip
           /\ events' = Append(events,
                  [type |-> IF m.type = "grab" THEN "grabbed" ELSE "changed",
                   from |-> c, seq |-> m.seq])
    /\ up' = [up EXCEPT ![c] = Tail(@)]
    /\ UNCHANGED <<m_active, m_seqNum, clipboard, dirty, primarySeq, connected,
                   clientVars, down, downSender, upSender, system, copies,
                   drops>>

\* The connection of a client breaks.  The client leaves the list, events of
\* its proxy have no handler any more, and the cursor jumps to the primary
\* screen if it was the active one (forceLeaveClient).
Drop(c) ==
    /\ c \in connected /\ drops < MaxDrops
    /\ drops' = drops + 1
    /\ connected' = connected \ {c}
    /\ events' = Kept(events, {e \in EventType : e.from # c})
    /\ IF m_active = c
       THEN m_active' = Primary /\ primarySeq' = m_seqNum
       ELSE UNCHANGED <<m_active, primarySeq>>
    /\ down' = [down EXCEPT ![c] = <<>>]
    /\ up' = [up EXCEPT ![c] = <<>>]
    /\ downSender' = [downSender EXCEPT ![c] = Nothing]
    /\ upSender' = [upSender EXCEPT ![c] = NoUpload]
    /\ grabbed' = [grabbed EXCEPT ![c] = 0]
    /\ UNCHANGED <<m_seqNum, clipboard, dirty, proxyClip, clientActive, clientSeq,
                   own, sent, dataSent, system, copies>>

-----------------------------------------------------------------------------
(* The screens *)

\* A user copies something on the primary screen: the platform posts the event.
CopyOnPrimary ==
    /\ copies < MaxCopies
    /\ m_active = Primary \/ Background
    /\ copies' = copies + 1
    /\ system' = [system EXCEPT ![Primary] = copies + 1]
    /\ events' = Append(events, [type |-> "grabbed", from |-> Primary,
                                 seq |-> primarySeq])
    /\ UNCHANGED <<m_active, m_seqNum, clipboard, dirty, primarySeq, connected,
                   proxyClip, clientVars, wireVars, drops>>

\* sendClipboard, after the messages msgs, of a clipboard that was sent before
\* or not: if the condition holds, the content is not too large, and it is not
\* what was sent last, its transfer starts.
Send(c, msgs, cond, was) ==
    LET v == system[c]
        sends == cond /\ v \notin Oversized /\ (~was \/ v # dataSent[c])
        data == [type |-> "data", content |-> v, seq |-> clientSeq[c]]
    IN  /\ sent' = [sent EXCEPT ![c] = was \/ sends]
        /\ dataSent' = [dataSent EXCEPT ![c] = IF sends THEN v ELSE @]
        /\ up' = [up EXCEPT ![c] = @ \o msgs \o IF sends /\ v \notin Paced
                                               THEN <<data>> ELSE <<>>]
        /\ upSender' = [upSender EXCEPT ![c] =
               IF ~sends THEN @
               ELSE IF v \in Paced THEN [content |-> v, seq |-> clientSeq[c]]
               ELSE NoUpload]

\* A user copies something on a client's screen: the platform posts the event.
CopyOnClient(c) ==
    /\ copies < MaxCopies
    /\ c \in connected
    /\ (clientActive[c] /\ clientSeq[c] # 0) \/ Background
    /\ copies' = copies + 1
    /\ system' = [system EXCEPT ![c] = copies + 1]
    /\ grabbed' = [grabbed EXCEPT ![c] = @ + 1]
    /\ UNCHANGED <<serverVars, clientActive, clientSeq, own, sent, dataSent, wireVars, drops>>

\* Client::handleClipboardGrabbed: tell the server, and send the data too if
\* this is not the active screen.
GrabOnClient(c) ==
    /\ grabbed[c] # 0
    /\ grabbed' = [grabbed EXCEPT ![c] = @ - 1]
    /\ own' = [own EXCEPT ![c] = TRUE]
    /\ Send(c, <<[type |-> "grab", seq |-> clientSeq[c]]>>, ~clientActive[c], FALSE)
    /\ UNCHANGED <<serverVars, clientActive, clientSeq, down, downSender, system,
                   copies, drops>>

\* Mutant: a grab of another screen does not end the client's ownership.
ReceiveDownKeepsOwn(c) ==
    /\ down[c] # <<>>
    /\ down' = [down EXCEPT ![c] = Tail(@)]
    /\ LET m == Head(down[c])
       IN  \/ /\ m.type \in {"enter", "leave"}
              /\ clientActive' = [clientActive EXCEPT ![c] = m.type = "enter"]
              /\ clientSeq' = [clientSeq EXCEPT
                                  ![c] = IF m.type = "enter" THEN m.seq ELSE @]
              /\ Send(c, <<>>, m.type = "leave" /\ own[c], sent[c])
              /\ UNCHANGED <<own, system>>
           \/ /\ m.type \in {"grab", "data"}
              /\ system' = [system EXCEPT ![c] = IF m.type = "data"
                                                 THEN m.content ELSE Empty]
              /\ UNCHANGED <<own, sent, dataSent, clientActive, clientSeq, up, upSender>>
    /\ UNCHANGED <<serverVars, grabbed, downSender, copies, drops>>

\* A client handles a message of the server.
ReceiveDown(c) ==
    /\ down[c] # <<>>
    /\ down' = [down EXCEPT ![c] = Tail(@)]
    /\ LET m == Head(down[c])
       IN  \/ /\ m.type = "enter"
              /\ clientActive' = [clientActive EXCEPT ![c] = TRUE]
              /\ clientSeq' = [clientSeq EXCEPT ![c] = m.seq]
              /\ UNCHANGED <<own, sent, dataSent, system, up, upSender>>
           \/ /\ m.type = "leave"
              /\ clientActive' = [clientActive EXCEPT ![c] = FALSE]
              /\ Send(c, <<>>, own[c], sent[c])
              /\ UNCHANGED <<clientSeq, own, system>>
           \/ /\ m.type \in {"grab", "data"}
              /\ system' = [system EXCEPT ![c] = IF m.type = "data"
                                                 THEN m.content ELSE Empty]
              /\ own' = [own EXCEPT ![c] = FALSE]
              /\ sent' = [sent EXCEPT ![c] = FALSE]
              /\ UNCHANGED <<dataSent, clientActive, clientSeq, up, upSender>>
    /\ UNCHANGED <<serverVars, grabbed, downSender, copies, drops>>

\* The last chunk of a paced transfer to the server is written.
FinishUp(c) ==
    /\ upSender[c] # NoUpload
    /\ upSender' = [upSender EXCEPT ![c] = NoUpload]
    /\ up' = [up EXCEPT ![c] = Append(@, [type |-> "data",
                  content |-> upSender[c].content, seq |-> upSender[c].seq])]
    /\ UNCHANGED <<serverVars, clientVars, down, downSender, system, copies,
                   drops>>

\* Mutant: the clipboard state of the old connection is kept.
ReconnectKeepsState(c) ==
    /\ c \notin connected
    /\ connected' = connected \cup {c}
    /\ dirty' = dirty \ {c}
    /\ UNCHANGED <<m_active, m_seqNum, clipboard, primarySeq, proxyClip, events,
                   clientVars, wireVars, system, copies, drops>>

\* A client connects again: a new proxy, and Client::handleConnected.
Reconnect(c) ==
    /\ c \notin connected
    /\ connected' = connected \cup {c}
    /\ dirty' = dirty \cup {c}
    /\ proxyClip' = [proxyClip EXCEPT ![c] = Empty]
    /\ clientSeq' = [clientSeq EXCEPT ![c] = 0]
    /\ own' = [own EXCEPT ![c] = FALSE]
    /\ sent' = [sent EXCEPT ![c] = FALSE]
    /\ UNCHANGED <<m_active, m_seqNum, clipboard, primarySeq, events,
                   clientActive, dataSent, grabbed, wireVars, system, copies, drops>>

-----------------------------------------------------------------------------
(* The specification *)

Messages == \/ HandleEvent
            \/ \E c \in Clients : \/ ReceiveUp(c)
                                  \/ ReceiveDown(c)
                                  \/ GrabOnClient(c)
                                  \/ FinishUp(c)
                                  \/ FinishDown(c)

Next == \/ Messages
        \/ CopyOnPrimary
        \/ \E c \in Clients : CopyOnClient(c) \/ Drop(c) \/ Reconnect(c)
        \/ \E s \in Screens : Switch(s)

Spec == Init /\ [][Next]_vars

-----------------------------------------------------------------------------
(* Properties *)

\* Data that is not out of sequence comes from the screen that owns the
\* clipboard (onClipboardChanged: "should be the expected client").
Expected ==
    events # <<>> =>
        LET e == Head(events)
        IN  e.type = "changed" /\ e.seq >= clipboard.seqNum
            => e.from = clipboard.owner

\* A grab of client c is still on its way to the server.
GrabFollows(c) ==
    \/ grabbed[c] # 0
    \/ \E i \in DOMAIN up[c] : up[c][i].type = "grab"
    \/ \E i \in DOMAIN events : events[i].type = "grabbed" /\ events[i].from = c

\* Data that is not out of sequence comes from the screen that owns the
\* clipboard, or from one that left with a new copy before it told of it
\* (Client::leave): its grab is still to come.
ExpectedClient ==
    events # <<>> =>
        LET e == Head(events)
        IN  e.type = "changed" /\ e.seq >= clipboard.seqNum
            => e.from = clipboard.owner \/ GrabFollows(e.from)

\* The active screen has the shared clipboard, or is being given it, unless
\* the owner's data is unknown or too large (switchScreen: "send the
\* clipboard data to new active screen").
UpToDate ==
    m_active \in dirty => \/ clipboard.data = Empty
                          \/ clipboard.content \in Oversized

\* ... as long as no connection breaks: the jump to the primary screen gives it
\* nothing.
ActiveUpToDate == drops = 0 => UpToDate

Idle == /\ events = <<>>
        /\ \A c \in Clients : /\ down[c] = <<>> /\ up[c] = <<>> /\ grabbed[c] = 0
                              /\ downSender[c] = Nothing
                              /\ upSender[c] = NoUpload

\* When all messages are handled and the cursor is not on the owner's screen,
\* the server has the owner's copy (ProtocolTypes.h on leaving a screen: "Send
\* clipboard data for any clipboards it has grabbed").
OwnerPublished ==
    LET o == clipboard.owner
    IN  Idle /\ o # m_active /\ o \in connected \cup {Primary}
        => clipboard.data = system[o] \/ system[o] \in Oversized

\* A copy above the limit is found only on the screen where it was made.
OversizedStays ==
    \A s, t \in Screens : system[s] \in Oversized /\ system[s] = system[t] => s = t

\* When all is handled, a client that claims the clipboard with a sequence
\* number the server would accept is its owner (handleClipboardGrabbed: "mark
\* screen as owning clipboard", "tell all other screens").  A copy too large to
\* be given to a screen that is entered does not end the screen's claim.
OwnershipAgrees ==
    Idle /\ clipboard.content \notin Oversized =>
        \A c \in connected :
            own[c] /\ clientSeq[c] >= clipboard.seqNum => clipboard.owner = c

\* The data that the server shares for one owner does not go back to an older
\* copy, when no client has sent data ahead of a grab that is still to come, or
\* was lost with its connection.  (The next owner's may be older: an update
\* takes what the proxy has when it is handled.)
NeverOlder ==
    [][drops' = 0 /\ clipboard'.owner = clipboard.owner
       /\ (\A c \in Clients : ~GrabFollows(c))
       => clipboard'.data = Empty \/ clipboard'.data >= clipboard.data]_vars
=============================================================================
