--------------------------- MODULE ServerProofs ---------------------------
(***************************************************************************)
(* Proofs about Server for any number of clients, screens, edges and       *)
(* configurations.                                                         *)
(***************************************************************************)
EXTENDS Server, TLAPS

\* No timer or tap without a target, for any pending switch.
Targeted(sw) == sw.screen = Null => sw = Idle

TypeInv == TypeOK /\ PendingHasTarget

LEMMA IdleType == Idle \in SwitchType /\ Targeted(Idle)
  BY DEF Idle, SwitchType, MaybeClient, Targeted

LEMMA StopSwitchType ==
  ASSUME NEW sw \in SwitchType, Targeted(sw)
  PROVE  StopSwitch(sw) = Idle
  BY DEF StopSwitch, Targeted

\* isSwitchOkay keeps a pending switch well formed, and permits a switch only
\* to an actual screen, on an actual edge, and only when not locked.
LEMMA SwitchOkayType ==
  ASSUME NEW sw \in SwitchType, Targeted(sw), NEW dst \in MaybeClient,
         NEW dir \in Directions \cup {NoDirection}, NEW at \in Moment
  PROVE  LET r == IsSwitchOkay(sw, dst, dir, at)
         IN  /\ r.switch \in SwitchType
             /\ Targeted(r.switch)
             /\ r.okay => /\ dst \in AllClients
                          /\ dir # NoDirection
                          /\ ~IsLockedToScreen(at.held)
<1> DEFINE isNew == dir # sw.dir
           aimed == IF isNew \/ sw.screen = Null
                    THEN [sw EXCEPT !.dir = dir, !.screen = dst] ELSE sw
           second == TwoTap /\ ~isNew /\ sw.tap = "armed" /\ at.inTime
           tapped == IF TwoTap /\ ~second
                     THEN [aimed EXCEPT !.tap = "engaged"] ELSE aimed
           waits == SwitchDelay /\ ~second
           timed == IF waits /\ (isNew \/ sw.timer = Null)
                    THEN [tapped EXCEPT !.timer = dst] ELSE tapped
           prevent == waits \/ (TwoTap /\ ~second)
           refuse == at.corner \/ (~prevent /\ IsLockedToScreen(at.held))
           r == IsSwitchOkay(sw, dst, dir, at)
<1> SUFFICES /\ r.switch \in SwitchType
             /\ Targeted(r.switch)
             /\ r.okay => /\ dst \in AllClients
                          /\ dir # NoDirection
                          /\ ~IsLockedToScreen(at.held)
  OBVIOUS
<1>1. CASE dir = NoDirection
  BY <1>1 DEF IsSwitchOkay
<1>2. CASE dir # NoDirection /\ dst = Null
  BY <1>2, StopSwitchType, IdleType DEF IsSwitchOkay
<1>3. CASE dir # NoDirection /\ dst # Null /\ refuse
  <2>1. r = [okay |-> FALSE, switch |-> Idle]
    BY <1>3 DEF IsSwitchOkay
  <2> QED BY <2>1, IdleType
<1>4. CASE dir # NoDirection /\ dst # Null /\ ~refuse
  <2>1. r = [okay |-> ~prevent, switch |-> timed]
    BY <1>4 DEF IsSwitchOkay
  <2>2. dst \in AllClients /\ dst # Null
    BY <1>4 DEF MaybeClient
  <2>3. aimed \in SwitchType /\ aimed.screen # Null
    BY <2>2 DEF SwitchType, MaybeClient
  <2>4. tapped \in SwitchType /\ tapped.screen # Null
    BY <2>3 DEF SwitchType
  <2>5. timed \in SwitchType /\ timed.screen # Null
    BY <2>2, <2>4 DEF SwitchType, MaybeClient
  <2>6. ~prevent => ~IsLockedToScreen(at.held)
    BY <1>4
  <2> HIDE DEF timed, prevent, r
  <2> QED BY <1>4, <2>1, <2>2, <2>5, <2>6 DEF Targeted
<1> QED BY <1>1, <1>2, <1>3, <1>4
-----------------------------------------------------------------------------
(* Type correctness *)

FocusType ==
    /\ m_active \in AllClients
    /\ cursorOn \in AllClients
    /\ entered \in [AllClients -> BOOLEAN]
    /\ m_switch \in SwitchType
    /\ PendingHasTarget

MembersType ==
    /\ m_clients \in [Screens -> MaybeClient]
    /\ m_clientSet \subseteq AllClients
    /\ m_oldClients \subseteq Clients
    /\ reported \in [Clients -> MaybeScreen]
    /\ gone \subseteq Clients

OtherType ==
    /\ config \in ConfigType
    /\ m_activeSaver \in MaybeClient
    /\ m_lockedToScreen \in BOOLEAN
    /\ saver \in BOOLEAN
    /\ told \subseteq Clients
    /\ asked \in BOOLEAN
    /\ fault \in BOOLEAN

LEMMA TypeParts == TypeInv <=> FocusType /\ MembersType /\ OtherType
  BY DEF TypeInv, TypeOK, FocusType, MembersType, OtherType

LEMMA DerefType == ASSUME NEW S, Deref(S) PROVE fault' \in BOOLEAN
  BY DEF Deref

LEMMA SwitchStepType ==
  ASSUME FocusType, NEW dst \in AllClients, NEW sw \in SwitchType,
         Targeted(sw), Switch(dst, sw)
  PROVE  FocusType'
<1>1. m_switch' = Idle
  BY StopSwitchType DEF Switch
<1>2. m_switch' \in SwitchType /\ PendingHasTarget'
  BY <1>1, IdleType DEF PendingHasTarget
<1>3. /\ m_active' \in AllClients
      /\ cursorOn' \in AllClients
      /\ entered' \in [AllClients -> BOOLEAN]
  BY DEF Switch, FocusType
<1> QED BY <1>2, <1>3 DEF FocusType

LEMMA ClientsAtType ==
  ASSUME MembersType, NEW ns
  PROVE  ClientsAt(ns) \subseteq AllClients
  BY DEF ClientsAt, MembersType, MaybeClient

LEMMA NeighborType ==
  ASSUME MembersType, NEW src, NEW dir
  PROVE  /\ GetNeighbor(src, dir) \subseteq MaybeClient
         /\ MapToNeighbor(src, dir) \subseteq MaybeClient
<1>1. \A ns : ClientsAt(ns) \subseteq AllClients
  BY ClientsAtType
<1> QED BY <1>1 DEF GetNeighbor, MapToNeighbor, MaybeClient

LEMMA CrossEdgesType ==
  ASSUME FocusType, MembersType,
         NEW h \in Directions \cup {NoDirection},
         NEW v \in Directions \cup {NoDirection}, CrossEdges(h, v)
  PROVE  FocusType' /\ (fault \in BOOLEAN => fault' \in BOOLEAN)
<1>1. PICK dh \in IF h = NoDirection THEN {Null} ELSE MapToNeighbor(m_active, h),
           dv \in IF v = NoDirection THEN {Null} ELSE MapToNeighbor(m_active, v),
           at \in Moment :
        LET first == IsSwitchOkay(m_switch, dh, h, at)
            second == IsSwitchOkay(first.switch, dv, v, at)
        IN  \/ /\ first.okay
               /\ Switch(dh, first.switch)
               /\ Deref({dh})
            \/ /\ ~first.okay /\ second.okay
               /\ Switch(dv, second.switch)
               /\ Deref({dv})
            \/ /\ ~first.okay /\ ~second.okay
               /\ m_switch' = second.switch
               /\ cursorOn' = m_active
               /\ UNCHANGED <<m_active, entered, fault>>
  BY DEF CrossEdges
<1> DEFINE first == IsSwitchOkay(m_switch, dh, h, at)
           second == IsSwitchOkay(first.switch, dv, v, at)
<1>2. dh \in MaybeClient /\ dv \in MaybeClient
  BY NeighborType DEF MaybeClient
<1>3. m_switch \in SwitchType /\ Targeted(m_switch)
  BY DEF FocusType, PendingHasTarget, Targeted
<1>4. /\ first.switch \in SwitchType /\ Targeted(first.switch)
      /\ first.okay => dh \in AllClients
  BY <1>2, <1>3, SwitchOkayType
<1> HIDE DEF first
<1>5. /\ second.switch \in SwitchType /\ Targeted(second.switch)
      /\ second.okay => dv \in AllClients
  BY <1>2, <1>4, SwitchOkayType
<1> HIDE DEF second
<1>6. CASE first.okay /\ Switch(dh, first.switch) /\ Deref({dh})
  BY <1>4, <1>6, SwitchStepType, DerefType
<1>7. CASE second.okay /\ Switch(dv, second.switch) /\ Deref({dv})
  BY <1>5, <1>7, SwitchStepType, DerefType
<1>8. CASE /\ m_switch' = second.switch
           /\ cursorOn' = m_active
           /\ UNCHANGED <<m_active, entered, fault>>
  BY <1>5, <1>8 DEF FocusType, PendingHasTarget, Targeted
<1> QED BY <1>1, <1>6, <1>7, <1>8 DEF first, second

LEMMA NoSwitchType ==
  ASSUME NEW sw \in SwitchType, Targeted(sw), NEW next \in NoSwitch(sw)
  PROVE  next \in SwitchType /\ Targeted(next)
<1>1. PICK t \in {"off", "engaged", "armed"} :
         next = [sw EXCEPT !.tap = t, !.timer = Null]
              /\ (sw.tap = "off" => t = "off")
  BY DEF NoSwitch, SwitchType
<1>2. next \in SwitchType
  BY <1>1 DEF SwitchType, MaybeClient
<1>3. ASSUME next.screen = Null PROVE next = Idle
  <2>1. sw = Idle
    BY <1>1, <1>3 DEF SwitchType, Targeted
  <2>2. next = [Idle EXCEPT !.tap = "off", !.timer = Null]
    BY <1>1, <2>1 DEF Idle
  <2> QED BY <2>2 DEF Idle
<1> QED BY <1>2, <1>3 DEF Targeted

LEMMA StayInsideType ==
  ASSUME FocusType, NEW switches, StayInside(switches),
         \A sw \in switches : sw \in SwitchType /\ Targeted(sw)
  PROVE  FocusType' /\ fault' = fault
  BY DEF FocusType, StayInside, PendingHasTarget, Targeted

LEMMA ForceLeaveType ==
  ASSUME FocusType, m_activeSaver \in MaybeClient, NEW cs, ForceLeave(cs)
  PROVE  /\ m_active' \in AllClients
         /\ cursorOn' \in AllClients
         /\ entered' \in [AllClients -> BOOLEAN]
         /\ m_activeSaver' \in MaybeClient
  BY DEF FocusType, ForceLeave, AllClients, MaybeClient

LEMMA LeftSwitchType ==
  ASSUME FocusType, NEW cs
  PROVE  LeftSwitch(cs) \in SwitchType /\ Targeted(LeftSwitch(cs))
<1>1. m_switch \in SwitchType /\ Targeted(m_switch)
  BY DEF FocusType, PendingHasTarget, Targeted
<1>2. StopSwitch(m_switch) \in SwitchType /\ Targeted(StopSwitch(m_switch))
  BY <1>1, StopSwitchType, IdleType
<1> QED BY <1>1, <1>2 DEF LeftSwitch

LEMMA WithoutType ==
  ASSUME MembersType, NEW cs, NEW cfg
  PROVE  Without(cs, cfg) \in [Screens -> MaybeClient]
  BY DEF Without, MembersType, MaybeClient

\* The handlers of input and of the screen saver.
LEMMA SwitchNextType ==
  ASSUME TypeInv, SwitchNext
  PROVE  TypeInv'
<1> USE DEF inputVars, members, focus
<1> SUFFICES FocusType' /\ MembersType' /\ OtherType'
  BY TypeParts, PTL
<1>0. FocusType /\ MembersType /\ OtherType
  BY TypeParts
<1>a. m_switch \in SwitchType /\ Targeted(m_switch)
  BY <1>0 DEF FocusType, PendingHasTarget, Targeted
<1>b. \A n \in Screens : m_clients[n] # Null => m_clients[n] \in AllClients
  BY <1>0 DEF MembersType, MaybeClient
<1>c. ASSUME NEW c \in AllClients, JumpToScreen(c)
      PROVE  FocusType' /\ MembersType' /\ OtherType'
  <2>1. FocusType' /\ fault' \in BOOLEAN
    BY <1>0, <1>a, <1>c, SwitchStepType, DerefType DEF JumpToScreen
  <2> QED BY <1>0, <1>c, <2>1 DEF JumpToScreen, MembersType, OtherType
<1>1. CASE UseDeletedActive
  BY <1>0, <1>1 DEF UseDeletedActive, FocusType, MembersType, OtherType,
                    PendingHasTarget
<1>2. CASE OnMouseMovePrimary
  <2>1. CASE \E h \in {"Left", "Right", NoDirection},
               v \in {"Top", "Bottom", NoDirection} :
                /\ {h, v} \subseteq Directions \cup {NoDirection}
                /\ h # NoDirection \/ v # NoDirection
                /\ CrossEdges(h, v)
    <3>1. PICK h, v : /\ h \in Directions \cup {NoDirection}
                      /\ v \in Directions \cup {NoDirection}
                      /\ CrossEdges(h, v)
      BY <2>1
    <3>2. FocusType' /\ fault' \in BOOLEAN
      BY <1>0, <3>1, CrossEdgesType DEF OtherType
    <3> QED BY <1>0, <1>2, <3>2 DEF OnMouseMovePrimary, MembersType, OtherType
  <2>2. CASE StayInside(NoSwitch(m_switch))
    <3>1. FocusType' /\ fault' = fault
      BY <1>0, <1>a, <2>2, NoSwitchType, StayInsideType
    <3> QED BY <1>0, <1>2, <3>1 DEF OnMouseMovePrimary, MembersType, OtherType
  <2> QED BY <1>2, <2>1, <2>2 DEF OnMouseMovePrimary
<1>3. CASE OnMouseMoveSecondary
  <2> DEFINE switches == {m_switch} \cup
                     (IF m_switch.screen # Null THEN NoSwitch(m_switch) ELSE {})
  <2>1. StayInside(switches) => FocusType' /\ fault' \in BOOLEAN
    <3>1. \A sw \in switches : sw \in SwitchType /\ Targeted(sw)
      BY <1>a, NoSwitchType
    <3> HIDE DEF switches
    <3> QED BY <1>0, <3>1, StayInsideType DEF OtherType
  <2>2. ASSUME NEW dir \in Directions, CrossEdges(dir, NoDirection)
        PROVE  FocusType' /\ fault' \in BOOLEAN
    BY <1>0, <2>2, CrossEdgesType DEF OtherType
  <2>3. FocusType' /\ fault' \in BOOLEAN
    BY <1>3, <2>1, <2>2 DEF OnMouseMoveSecondary
  <2> QED BY <1>0, <1>3, <2>3 DEF OnMouseMoveSecondary, MembersType, OtherType
<1>4. ASSUME NEW held \in BOOLEAN, HandleSwitchWaitTimeout(held)
      PROVE  FocusType' /\ MembersType' /\ OtherType'
  <2>1. m_switch.screen \in AllClients
    BY <1>a, <1>4 DEF HandleSwitchWaitTimeout, SwitchType, MaybeClient,
                      Targeted, Idle
  <2>2. FocusType' /\ fault' \in BOOLEAN
    <3>1. CASE IsLockedToScreen(held)
      <4>1. m_switch' = Idle /\ UNCHANGED <<m_active, cursorOn, entered, fault>>
        BY <1>a, <1>4, <3>1, StopSwitchType DEF HandleSwitchWaitTimeout
      <4> QED BY <1>0, <4>1, IdleType
              DEF FocusType, OtherType, PendingHasTarget
    <3>2. CASE ~IsLockedToScreen(held)
      BY <1>0, <1>a, <1>4, <2>1, <3>2, SwitchStepType, DerefType
      DEF HandleSwitchWaitTimeout
    <3> QED BY <3>1, <3>2
  <2> QED BY <1>0, <1>4, <2>2
          DEF HandleSwitchWaitTimeout, MembersType, OtherType
<1>5. ASSUME NEW n \in Screens, HandleSwitchToScreen(n)
      PROVE  FocusType' /\ MembersType' /\ OtherType'
  BY <1>b, <1>c, <1>5 DEF HandleSwitchToScreen
<1>6. ASSUME NEW dir \in Directions, HandleSwitchInDirection(dir)
      PROVE  FocusType' /\ MembersType' /\ OtherType'
  <2>1. PICK c \in GetNeighbor(m_active, dir) \ {Null} : JumpToScreen(c)
    BY <1>6 DEF HandleSwitchInDirection
  <2>2. c \in AllClients
    BY <1>0, NeighborType DEF MaybeClient
  <2> QED BY <1>c, <2>1, <2>2
<1>7. CASE HandleToggleScreen
  <2>1. PICK n \in Screens : m_clients[n] # Null /\ JumpToScreen(m_clients[n])
    BY <1>7 DEF HandleToggleScreen
  <2> QED BY <1>b, <1>c, <2>1
<1>8. CASE HandleLockCursorToScreen
  BY <1>0, <1>8, DerefType DEF HandleLockCursorToScreen, FocusType,
     MembersType, OtherType, PendingHasTarget
<1>9. ASSUME NEW c \in Clients, HandleShapeChanged(c)
      PROVE  FocusType' /\ MembersType' /\ OtherType'
  BY <1>0, <1>9 DEF HandleShapeChanged, FocusType, MembersType, OtherType,
     PendingHasTarget, AllClients
<1>10. CASE OnScreensaverActivated
  <2>1. FocusType'
    <3>1. CASE m_active # Primary
      BY <1>0, <1>a, <1>10, <3>1, SwitchStepType
      DEF OnScreensaverActivated, AllClients
    <3>2. CASE m_active = Primary
      BY <1>0, <1>10, <3>2 DEF OnScreensaverActivated, FocusType,
         PendingHasTarget
    <3> QED BY <3>1, <3>2
  <2> QED BY <1>0, <1>10, <2>1, DerefType
          DEF OnScreensaverActivated, FocusType, MembersType, OtherType,
              MaybeClient
<1>11. CASE OnScreensaverDeactivated
  <2>1. FocusType'
    <3>1. CASE m_activeSaver \notin {Null, Primary}
      BY <1>0, <1>a, <1>11, <3>1, SwitchStepType
      DEF OnScreensaverDeactivated, OtherType, MaybeClient
    <3>2. CASE m_activeSaver \in {Null, Primary}
      BY <1>0, <1>11, <3>2 DEF OnScreensaverDeactivated, FocusType,
         PendingHasTarget
    <3> QED BY <3>1, <3>2
  <2> QED BY <1>0, <1>11, <2>1, DerefType
          DEF OnScreensaverDeactivated, MembersType, OtherType, MaybeClient
<1> QED BY <1>1, <1>2, <1>3, <1>4, <1>5, <1>6, <1>7, <1>8, <1>9, <1>10, <1>11
        DEF SwitchNext

\* Connections, reloads and disconnect().
LEMMA ClientNextType ==
  ASSUME TypeInv, ClientNext
  PROVE  TypeInv'
<1> USE DEF members, focus
<1> SUFFICES FocusType' /\ MembersType' /\ OtherType'
  BY TypeParts, PTL
<1>0. FocusType /\ MembersType /\ OtherType
  BY TypeParts
<1>1. ASSUME NEW c \in Clients, NEW n \in Screens, AdoptClient(c, n)
      PROVE  FocusType' /\ MembersType' /\ OtherType'
  <2>1. m_clients' \in [Screens -> MaybeClient]
    BY <1>0, <1>1 DEF AdoptClient, MembersType, AllClients, MaybeClient
  <2>2. MembersType'
    BY <1>0, <1>1, <2>1 DEF AdoptClient, MembersType, AllClients, MaybeScreen
  <2>3. OtherType'
    BY <1>0, <1>1 DEF AdoptClient, OtherType
  <2> QED BY <1>0, <1>1, <2>2, <2>3 DEF AdoptClient, FocusType,
             PendingHasTarget
<1>2. ASSUME NEW c \in Clients, ClientGone(c)
      PROVE  FocusType' /\ MembersType' /\ OtherType'
  BY <1>0, <1>2 DEF ClientGone, FocusType, PendingHasTarget, MembersType,
     OtherType
<1>3. ASSUME NEW c \in Clients, HandleClientDisconnected(c)
      PROVE  FocusType' /\ MembersType' /\ OtherType'
  <2>1. FocusType' /\ m_activeSaver' \in MaybeClient
    <3>1. CASE c \in m_clientSet
      <4>1. /\ ForceLeave({c})
            /\ m_switch' \in SwitchType /\ Targeted(m_switch')
        BY <1>0, <1>3, <3>1, LeftSwitchType DEF HandleClientDisconnected
      <4> QED BY <1>0, <4>1, ForceLeaveType
              DEF OtherType, FocusType, PendingHasTarget, Targeted
    <3>2. CASE c \notin m_clientSet
      BY <1>0, <1>3, <3>2 DEF HandleClientDisconnected, OtherType, FocusType,
         PendingHasTarget
    <3> QED BY <3>1, <3>2
  <2>2. m_clients' \in [Screens -> MaybeClient]
    BY <1>0, <1>3, WithoutType DEF HandleClientDisconnected
  <2>3. asked' \in BOOLEAN
    BY <1>0, <1>3, Zenon DEF HandleClientDisconnected, OtherType
  <2>4. MembersType'
    BY <1>0, <1>3, <2>2 DEF HandleClientDisconnected, Delete, MembersType,
       MaybeScreen
  <2>5. OtherType'
    BY <1>0, <1>3, <2>1, <2>3 DEF HandleClientDisconnected, Delete, OtherType
  <2> QED BY <2>1, <2>4, <2>5
<1>4. ASSUME NEW c \in Clients, HandleClientCloseTimeout(c)
      PROVE  FocusType' /\ MembersType' /\ OtherType'
  <2>1. asked' \in BOOLEAN
    BY <1>0, <1>4, Zenon DEF HandleClientCloseTimeout, OtherType
  <2>2. MembersType'
    BY <1>0, <1>4 DEF HandleClientCloseTimeout, Delete, MembersType,
       MaybeScreen
  <2>3. OtherType'
    BY <1>0, <1>4, <2>1 DEF HandleClientCloseTimeout, Delete, OtherType
  <2> QED BY <1>0, <1>4, <2>2, <2>3 DEF HandleClientCloseTimeout, FocusType,
             PendingHasTarget
<1>5. ASSUME NEW cs, NEW cfg, cs \subseteq Clients, CloseClients(cs, cfg)
      PROVE  /\ MembersType' /\ told' \subseteq Clients
             /\ m_active' \in AllClients
             /\ cursorOn' \in AllClients
             /\ entered' \in [AllClients -> BOOLEAN]
             /\ m_activeSaver' \in MaybeClient
  <2>1. m_clients' \in [Screens -> MaybeClient]
    BY <1>0, <1>5, WithoutType DEF CloseClients
  <2>2. MembersType' /\ told' \subseteq Clients
    BY <1>0, <1>5, <2>1 DEF CloseClients, MembersType, OtherType
  <2> QED BY <1>0, <1>5, <2>2, ForceLeaveType DEF CloseClients, OtherType
<1>6. ASSUME NEW cfg \in Configs, SetConfig(cfg)
      PROVE  FocusType' /\ MembersType' /\ OtherType'
  <2> DEFINE dropped == ClientsAt({n \in Screens : cfg.canonical[n] # n})
                          \ {Primary}
  <2>1. cfg \in ConfigType
    BY ServerAssumption
  <2>2. CASE cfg.canonical[Primary] = NoName
    BY <1>0, <1>6, <2>1, <2>2 DEF SetConfig, FocusType, PendingHasTarget,
       MembersType, OtherType
  <2>3. CASE cfg.canonical[Primary] # NoName
    <3>1. dropped \subseteq Clients
      BY <1>0, ClientsAtType DEF AllClients
    <3> HIDE DEF dropped
    <3>2. /\ CloseClients(dropped, cfg)
          /\ m_switch' = [LeftSwitch(dropped) EXCEPT
                 !.timer = IF SwitchDelay THEN Null ELSE @,
                 !.tap = IF TwoTap THEN "off" ELSE @]
          /\ Deref(Connected)
      BY <1>6, <2>3 DEF SetConfig, dropped
    <3>3. LeftSwitch(dropped) \in SwitchType /\ Targeted(LeftSwitch(dropped))
      BY <1>0, LeftSwitchType
    <3>4. m_switch' \in SwitchType
      BY <3>2, <3>3 DEF SwitchType, MaybeClient
    <3>5. ASSUME m_switch'.screen = Null PROVE m_switch' = Idle
      <4>1. LeftSwitch(dropped) = Idle
        BY <3>2, <3>3, <3>5 DEF Targeted, SwitchType
      <4>2. m_switch' = [Idle EXCEPT !.timer = Null, !.tap = "off"]
        BY <3>2, <4>1 DEF Idle
      <4> QED BY <4>2 DEF Idle
    <3> QED BY <1>0, <1>5, <1>6, <2>1, <3>1, <3>2, <3>4, <3>5, DerefType
            DEF SetConfig, FocusType, PendingHasTarget, OtherType
  <2> QED BY <2>2, <2>3
<1>7. CASE Disconnect
  <2> DEFINE all == Connected \ {Primary}
  <2>1. all \subseteq Clients
    BY <1>0 DEF Connected, MembersType, MaybeClient, AllClients
  <2> HIDE DEF all
  <2>2. /\ CloseClients(all, config)
        /\ m_switch' = LeftSwitch(all)
        /\ asked' \in BOOLEAN
        /\ Deref(Connected)
        /\ UNCHANGED <<config, m_lockedToScreen, saver>>
    BY <1>7 DEF Disconnect, all
  <2>3. m_switch' \in SwitchType /\ Targeted(m_switch')
    BY <1>0, <2>2, LeftSwitchType
  <2> QED BY <1>0, <1>5, <2>1, <2>2, <2>3, DerefType
          DEF FocusType, PendingHasTarget, Targeted, OtherType
<1> QED BY <1>1, <1>2, <1>3, <1>4, <1>6, <1>7 DEF ClientNext

LEMMA TypeInit == ASSUME Init PROVE TypeInv
<1>1. m_switch \in SwitchType
  BY IdleType DEF Init
<1> QED BY <1>1, ServerAssumption
        DEF Init, TypeInv, TypeOK, PendingHasTarget, MaybeClient, MaybeScreen,
            AllClients, Screens

LEMMA TypeStep == ASSUME TypeInv, [Next]_vars PROVE TypeInv'
<1>1. CASE SwitchNext
  BY <1>1, SwitchNextType
<1>2. CASE ClientNext
  BY <1>2, ClientNextType
<1>3. CASE UNCHANGED vars
  BY <1>3 DEF vars, members, focus, TypeInv, TypeOK, PendingHasTarget
<1> QED BY <1>1, <1>2, <1>3 DEF Next

\* Every variable keeps its type; in particular the cursor is never sent to a
\* null client.
THEOREM TypeCorrect == Spec => []TypeOK
<1>1. TypeInv => TypeOK
  BY DEF TypeInv
<1> QED BY <1>1, TypeInit, TypeStep, PTL DEF Spec

\* No wait or double tap is pending without a target, so stopSwitch may skip
\* its work when there is none and the timeout may use the target unchecked.
THEOREM PendingAlwaysTargeted == Spec => []PendingHasTarget
<1>1. TypeInv => PendingHasTarget
  BY DEF TypeInv
<1> QED BY <1>1, TypeInit, TypeStep, PTL DEF Spec

-----------------------------------------------------------------------------
(* Membership, for configurations without aliases *)

\* No name is an alias of another one, now or after a reload.
NoAliases == \A cfg \in Configs \cup {InitialConfig} : \A n \in Screens :
                cfg.canonical[n] \in {n, NoName}

NameOf(c) == IF c = Primary THEN Primary ELSE reported[c]

\* The inductive form of Membership: an entry of the list and its client
\* determine each other through the name the client reported.
MemberInv ==
    /\ \A n \in Screens : config.canonical[n] \in {n, NoName}
    /\ \A n \in Screens : m_clients[n] # Null
          => m_clients[n] \in m_clientSet /\ NameOf(m_clients[n]) = n
    /\ \A c \in m_clientSet : NameOf(c) \in Screens /\ m_clients[NameOf(c)] = c
    /\ Primary \in m_clientSet
    /\ m_clientSet \cap m_oldClients = {}
    /\ \A c \in Clients : reported[c] # NoName <=>
                           c \in m_clientSet \cup m_oldClients

LEMMA ConnectedIsSet ==
  ASSUME TypeInv, MemberInv
  PROVE  Connected = m_clientSet
<1>1. Null \notin m_clientSet
  BY ServerAssumption DEF TypeInv, TypeOK
<1>2. Connected \subseteq m_clientSet
  BY DEF MemberInv, Connected
<1>3. m_clientSet \subseteq Connected
  <2> SUFFICES ASSUME NEW c \in m_clientSet PROVE c \in Connected
    OBVIOUS
  <2>1. NameOf(c) \in Screens /\ m_clients[NameOf(c)] = c
    BY DEF MemberInv
  <2> QED BY <1>1, <2>1 DEF Connected
<1> QED BY <1>2, <1>3

LEMMA MemberInvImplies == ASSUME TypeInv, MemberInv PROVE Membership
<1>1. Connected = m_clientSet
  BY ConnectedIsSet
<1>2. m_clientSet \cup m_oldClients = Live
  BY DEF TypeInv, TypeOK, MemberInv, Live, AllClients
<1>3. \A i, j \in Screens : m_clients[i] = m_clients[j] /\ i # j
                            => m_clients[i] = Null
  BY DEF MemberInv
<1> QED BY <1>1, <1>2, <1>3 DEF MemberInv, Membership

\* A step that changes none of the collections.
LEMMA MemberSame ==
  ASSUME MemberInv, UNCHANGED <<config, members>>
  PROVE  MemberInv'
  BY DEF MemberInv, members, NameOf

\* Without aliases removeClient erases the entry of its own client.
LEMMA MemberRemove ==
  ASSUME TypeInv, MemberInv, NEW cs, cs \subseteq Clients, NEW cfg,
         \A n \in Screens : cfg.canonical[n] \in {n, NoName}
  PROVE  Without(cs, cfg) =
           [n \in Screens |-> IF m_clients[n] \in cs THEN Null
                             ELSE m_clients[n]]
<1>1. \A c \in m_clientSet : NameUnder(cfg, c) = NameOf(c)
  BY DEF MemberInv, NameUnder, NameOf
<1>2. ASSUME NEW n \in Screens
      PROVE  n \in {NameUnder(cfg, c) : c \in cs \cap m_clientSet}
               <=> m_clients[n] \in cs
  BY <1>1, <1>2, ServerAssumption DEF MemberInv, TypeInv, TypeOK, AllClients
<1> QED BY <1>2 DEF Without

LEMMA MemberInit == ASSUME Init, NoAliases PROVE MemberInv
  BY ServerAssumption
  DEF Init, NoAliases, MemberInv, NameOf, Screens, AllClients

LEMMA MemberStep ==
  ASSUME TypeInv, MemberInv, NoAliases, [Next]_vars
  PROVE  MemberInv'
<1> USE DEF members
<1>0. Primary \notin Clients /\ NoName \notin Screens /\ Null \notin AllClients
  BY ServerAssumption
<1>1. CASE UNCHANGED <<config, members>>
  BY <1>1, MemberSame
<1>2. ASSUME NEW c \in Clients, NEW n \in Screens, AdoptClient(c, n)
      PROVE  MemberInv'
  <2> DEFINE key == config.canonical[n]
  <2>1. c \notin m_clientSet \cup m_oldClients
    BY <1>2 DEF AdoptClient, MemberInv
  <2>2. \A d \in AllClients : d # c => NameOf(d)' = NameOf(d)
    BY <1>2 DEF AdoptClient, NameOf, TypeInv, TypeOK, AllClients
  <2>3. reported' \in [Clients -> MaybeScreen] /\ reported'[c] = n
    BY <1>2 DEF AdoptClient, TypeInv, TypeOK, MaybeScreen
  <2>4. NameOf(c)' = n
    BY <1>0, <2>3 DEF NameOf
  <2>5. m_clientSet \subseteq AllClients
    BY DEF TypeInv, TypeOK
  <2>6. CASE key = NoName \/ (key # NoName /\ m_clients[key] # Null)
    <3>1. /\ m_oldClients' = m_oldClients \cup {c}
          /\ UNCHANGED <<m_clients, m_clientSet, config>>
      BY <1>2, <2>6 DEF AdoptClient
    <3>2. \A d \in Clients : reported'[d] # NoName <=>
                             d \in m_clientSet' \cup m_oldClients'
      BY <1>0, <1>2, <2>1, <3>1 DEF AdoptClient, MemberInv, TypeInv, TypeOK
    <3> QED BY <2>1, <2>2, <2>5, <3>1, <3>2 DEF MemberInv
  <2>7. CASE key # NoName /\ m_clients[key] = Null
    <3>1. key = n
      BY <2>7 DEF MemberInv
    <3>2. /\ m_clients' = [m_clients EXCEPT ![n] = c]
          /\ m_clientSet' = m_clientSet \cup {c}
          /\ UNCHANGED <<m_oldClients, config>>
      BY <1>2, <2>7, <3>1 DEF AdoptClient
    <3>3. \A d \in Clients : reported'[d] # NoName <=>
                             d \in m_clientSet' \cup m_oldClients'
      BY <1>0, <1>2, <2>1, <3>2 DEF AdoptClient, MemberInv, TypeInv, TypeOK
    <3>4. \A k \in Screens : m_clients'[k] = IF k = n THEN c ELSE m_clients[k]
      BY <3>2 DEF TypeInv, TypeOK
    <3>5. \A k \in Screens : m_clients'[k] # Null
            => m_clients'[k] \in m_clientSet' /\ NameOf(m_clients[k])' = k
      BY <2>1, <2>2, <2>4, <2>5, <3>2, <3>4 DEF MemberInv
    <3>6. \A d \in m_clientSet' : NameOf(d)' \in Screens
                                  /\ m_clients'[NameOf(d)'] = d
      <4>1. CASE m_clients[n] = Null
        BY <2>1, <2>2, <2>4, <2>5, <3>2, <3>4, <4>1, <1>0
        DEF MemberInv
      <4> QED BY <2>7, <3>1, <4>1
    <3> QED BY <2>1, <3>2, <3>3, <3>5, <3>6 DEF MemberInv
  <2> QED BY <2>6, <2>7
\* The clients cs leave the list, and become closing or are deleted.
<1>3. ASSUME NEW cs, cs \subseteq Clients, NEW cfg,
             \A n \in Screens : cfg.canonical[n] \in {n, NoName},
             config' = cfg,
             m_clients' = Without(cs, cfg),
             m_clientSet' = m_clientSet \ cs,
             m_clientSet' \cap m_oldClients' = {},
             \A c \in m_clientSet' : NameOf(c)' = NameOf(c),
             \A c \in Clients : reported'[c] # NoName <=>
                                 c \in m_clientSet' \cup m_oldClients'
      PROVE  MemberInv'
  <2>1. \A k \in Screens : m_clients'[k] = IF m_clients[k] \in cs THEN Null
                                           ELSE m_clients[k]
    BY <1>3, MemberRemove
  <2>2. \A k \in Screens : m_clients'[k] # Null
          => m_clients'[k] \in m_clientSet' /\ NameOf(m_clients[k])' = k
    BY <1>3, <2>1 DEF MemberInv
  <2>3. \A d \in m_clientSet' : NameOf(d)' \in Screens
                                /\ m_clients'[NameOf(d)'] = d
    BY <1>3, <2>1 DEF MemberInv
  <2> QED BY <1>0, <1>3, <2>2, <2>3 DEF MemberInv
<1>4. ASSUME NEW c \in Clients, HandleClientDisconnected(c)
      PROVE  MemberInv'
  <2>1. \A d \in m_clientSet \ {c} : NameOf(d)' = NameOf(d)
    BY <1>4 DEF HandleClientDisconnected, Delete, NameOf, TypeInv, TypeOK,
       AllClients
  <2>2. \A d \in Clients : reported'[d] # NoName <=>
                           d \in m_clientSet' \cup m_oldClients'
    BY <1>4 DEF HandleClientDisconnected, Delete, MemberInv, TypeInv, TypeOK
  <2>3. /\ m_clients' = Without({c}, config)
        /\ m_clientSet' = m_clientSet \ {c}
        /\ m_oldClients' = m_oldClients \ {c}
        /\ config' = config
    BY <1>4 DEF HandleClientDisconnected
  <2>4. m_clientSet' \cap m_oldClients' = {}
    BY <2>3 DEF MemberInv
  <2>5. \A n \in Screens : config.canonical[n] \in {n, NoName}
    BY DEF MemberInv
  <2> QED BY <1>3, <2>1, <2>2, <2>3, <2>4, <2>5
<1>5. ASSUME NEW c \in Clients, HandleClientCloseTimeout(c)
      PROVE  MemberInv'
  <2>1. c \notin m_clientSet
    BY <1>5 DEF HandleClientCloseTimeout, MemberInv
  <2>2. \A d \in m_clientSet : NameOf(d)' = NameOf(d)
    BY <1>5, <2>1 DEF HandleClientCloseTimeout, Delete, NameOf, TypeInv,
       TypeOK, AllClients
  <2>3. \A d \in Clients : reported'[d] # NoName <=>
                           d \in m_clientSet' \cup m_oldClients'
    BY <1>5, <2>1 DEF HandleClientCloseTimeout, Delete, MemberInv, TypeInv,
       TypeOK
  <2> QED BY <1>5, <2>2, <2>3 DEF HandleClientCloseTimeout, MemberInv
<1>6. ASSUME NEW cs, cs \subseteq m_clientSet \ {Primary}, NEW cfg,
             \A n \in Screens : cfg.canonical[n] \in {n, NoName},
             config' = cfg, CloseClients(cs, cfg)
      PROVE  MemberInv'
  <2>1. cs \subseteq Clients
    BY <1>6 DEF TypeInv, TypeOK, AllClients
  <2>2. /\ m_clients' = Without(cs, cfg)
        /\ m_clientSet' = m_clientSet \ cs
        /\ m_oldClients' = m_oldClients \cup cs
        /\ reported' = reported
    BY <1>6 DEF CloseClients
  <2>3. m_clientSet' \cap m_oldClients' = {}
    BY <2>2 DEF MemberInv
  <2>4. \A d \in m_clientSet' : NameOf(d)' = NameOf(d)
    BY <2>2 DEF NameOf
  <2>5. \A d \in Clients : reported'[d] # NoName <=>
                           d \in m_clientSet' \cup m_oldClients'
    BY <1>6, <2>2 DEF MemberInv
  <2> QED BY <1>3, <1>6, <2>1, <2>2, <2>3, <2>4, <2>5
<1>7. Connected = m_clientSet
  BY ConnectedIsSet
<1>8. ASSUME NEW cfg \in Configs, SetConfig(cfg)
      PROVE  MemberInv'
  <2>1. \A n \in Screens : cfg.canonical[n] \in {n, NoName}
    BY DEF NoAliases
  <2>2. CASE cfg.canonical[Primary] = NoName
    BY <1>8, <2>1, <2>2 DEF SetConfig, MemberInv, NameOf
  <2>3. CASE cfg.canonical[Primary] # NoName
    <3> DEFINE dropped == ClientsAt({n \in Screens : cfg.canonical[n] # n})
                            \ {Primary}
    <3>1. dropped \subseteq m_clientSet \ {Primary}
      BY <1>7 DEF ClientsAt, Connected
    <3>2. CloseClients(dropped, cfg) /\ config' = cfg
      BY <1>8, <2>3 DEF SetConfig
    <3> QED BY <1>6, <2>1, <3>1, <3>2
  <2> QED BY <2>2, <2>3
<1>9. CASE Disconnect
  <2>1. CloseClients(Connected \ {Primary}, config) /\ config' = config
    BY <1>9 DEF Disconnect
  <2>2. \A n \in Screens : config.canonical[n] \in {n, NoName}
    BY DEF MemberInv
  <2> QED BY <1>6, <1>7, <2>1, <2>2
<1>10. ASSUME NEW c \in Clients, ClientGone(c)
       PROVE  MemberInv'
  BY <1>10 DEF ClientGone, MemberInv, NameOf
<1>11. CASE SwitchNext
  <2>1. UNCHANGED <<config, members>>
    BY <1>11 DEF SwitchNext, UseDeletedActive, OnMouseMovePrimary,
       OnMouseMoveSecondary, HandleSwitchWaitTimeout, HandleSwitchToScreen,
       HandleSwitchInDirection, HandleToggleScreen, HandleLockCursorToScreen,
       HandleShapeChanged, JumpToScreen, OnScreensaverActivated,
       OnScreensaverDeactivated, inputVars
  <2> QED BY <2>1, MemberSame
<1>12. CASE UNCHANGED vars
  BY <1>12, MemberSame DEF vars
<1> QED BY <1>2, <1>4, <1>5, <1>8, <1>9, <1>10, <1>11, <1>12
        DEF Next, ClientNext

\* The list and the set of clients agree, and every client object is either
\* connected or closing, for any sequence of connections, disconnections,
\* time-outs and reloads whose configurations have no aliases.
THEOREM MembershipHolds == NoAliases => (Spec => []Membership)
<1> SUFFICES ASSUME NoAliases PROVE Spec => []Membership
  OBVIOUS
<1>1. Init => TypeInv /\ MemberInv
  BY TypeInit, MemberInit
<1>2. TypeInv /\ MemberInv /\ [Next]_vars => (TypeInv /\ MemberInv)'
  BY TypeStep, MemberStep
<1>3. TypeInv /\ MemberInv => Membership
  BY MemberInvImplies
<1> QED BY <1>1, <1>2, <1>3, PTL DEF Spec

-----------------------------------------------------------------------------
(* Where the cursor is, when no switch waits on a timer and the screen saver *)
(* is not interrupted by input                                               *)

Quiet == ~SwitchDelay /\ (ScreenSaver => ~InputDuringSaver)

\* Exactly the active screen has been entered, for all client objects.
EnteredInv ==
    /\ m_active \in m_clientSet
    /\ \A c \in AllClients : entered[c] <=> (c = m_active)
    /\ ~MayRefuseLeave => cursorOn = m_active

\* The cursor is on the primary screen while the screen saver runs, so the
\* client that leaves is either the active one or the saved one, not both.
SaverInv ==
    /\ saver => ScreenSaver /\ m_active = Primary
    /\ m_activeSaver # Null => saver
    /\ m_activeSaver \in m_clientSet \cup {Null}

FocusInv == ~fault /\ m_switch.timer = Null /\ EnteredInv /\ SaverInv

IInv == TypeInv /\ MemberInv /\ FocusInv

LEMMA LiveClients ==
  ASSUME TypeInv, MemberInv
  PROVE  /\ m_clientSet \subseteq Live
         /\ Connected = m_clientSet
         /\ \A ns : ClientsAt(ns) \subseteq m_clientSet
<1>1. Connected = m_clientSet
  BY ConnectedIsSet
<1>2. m_clientSet \subseteq Live
  BY MemberInvImplies DEF MemberInv, TypeInv, TypeOK, Live, AllClients
<1> QED BY <1>1, <1>2 DEF ClientsAt, Connected

LEMMA NeighborsConnected ==
  ASSUME TypeInv, MemberInv, NEW src, NEW dir
  PROVE  /\ GetNeighbor(src, dir) \subseteq m_clientSet \cup {Null}
         /\ MapToNeighbor(src, dir) \subseteq m_clientSet \cup {Null}
<1>1. \A ns : ClientsAt(ns) \subseteq m_clientSet
  BY LiveClients
<1> QED BY <1>1 DEF GetNeighbor, MapToNeighbor

\* switchScreen to a connected screen keeps the focus where it was or moves
\* all of it.
LEMMA SwitchFocus ==
  ASSUME IInv, NEW dst \in m_clientSet, NEW sw \in SwitchType, Targeted(sw),
         Switch(dst, sw), UNCHANGED m_clientSet
  PROVE  EnteredInv' /\ m_active' \in {dst, m_active} /\ m_switch' = Idle
<1>1. m_switch' = Idle
  BY StopSwitchType DEF Switch
<1>2. dst \in AllClients /\ m_active \in AllClients
      /\ entered \in [AllClients -> BOOLEAN]
  BY DEF IInv, TypeInv, TypeOK
<1> QED BY <1>1, <1>2 DEF Switch, IInv, FocusInv, EnteredInv

LEMMA SwitchOkayNoTimer ==
  ASSUME ~SwitchDelay, NEW sw \in SwitchType, Targeted(sw), sw.timer = Null,
         NEW dst \in MaybeClient, NEW dir \in Directions \cup {NoDirection},
         NEW at \in Moment
  PROVE  IsSwitchOkay(sw, dst, dir, at).switch.timer = Null
  BY DEF IsSwitchOkay, StopSwitch, Idle, SwitchType, Targeted

LEMMA CrossEdgesFocus ==
  ASSUME IInv, Quiet,
         NEW h \in Directions \cup {NoDirection},
         NEW v \in Directions \cup {NoDirection},
         CrossEdges(h, v), UNCHANGED inputVars
  PROVE  EnteredInv' /\ ~fault' /\ m_switch'.timer = Null
<1>1. PICK dh \in IF h = NoDirection THEN {Null} ELSE MapToNeighbor(m_active, h),
           dv \in IF v = NoDirection THEN {Null} ELSE MapToNeighbor(m_active, v),
           at \in Moment :
        LET first == IsSwitchOkay(m_switch, dh, h, at)
            second == IsSwitchOkay(first.switch, dv, v, at)
        IN  \/ /\ first.okay
               /\ Switch(dh, first.switch)
               /\ Deref({dh})
            \/ /\ ~first.okay /\ second.okay
               /\ Switch(dv, second.switch)
               /\ Deref({dv})
            \/ /\ ~first.okay /\ ~second.okay
               /\ m_switch' = second.switch
               /\ cursorOn' = m_active
               /\ UNCHANGED <<m_active, entered, fault>>
  BY DEF CrossEdges
<1> DEFINE first == IsSwitchOkay(m_switch, dh, h, at)
           second == IsSwitchOkay(first.switch, dv, v, at)
<1>2. dh \in m_clientSet \cup {Null} /\ dv \in m_clientSet \cup {Null}
  BY NeighborsConnected DEF IInv
<1>a. dh \in MaybeClient /\ dv \in MaybeClient
  BY <1>2 DEF IInv, TypeInv, TypeOK, MaybeClient
<1>3. m_switch \in SwitchType /\ Targeted(m_switch) /\ m_switch.timer = Null
  BY DEF IInv, TypeInv, TypeOK, PendingHasTarget, Targeted, FocusInv
<1>4. /\ first.switch \in SwitchType /\ Targeted(first.switch)
      /\ first.switch.timer = Null
      /\ first.okay => dh \in AllClients
  BY <1>a, <1>3, SwitchOkayType, SwitchOkayNoTimer DEF Quiet
<1> HIDE DEF first
<1>5. /\ second.switch \in SwitchType /\ Targeted(second.switch)
      /\ second.switch.timer = Null
      /\ second.okay => dv \in AllClients
  BY <1>a, <1>4, SwitchOkayType, SwitchOkayNoTimer DEF Quiet
<1> HIDE DEF second
<1>6. UNCHANGED m_clientSet /\ Null \notin AllClients /\ m_clientSet \subseteq Live
  BY LiveClients, ServerAssumption DEF IInv, inputVars, members
<1>7. CASE first.okay /\ Switch(dh, first.switch) /\ Deref({dh})
  <2>1. dh \in m_clientSet
    BY <1>2, <1>4, <1>6, <1>7
  <2>2. EnteredInv' /\ m_switch' = Idle
    BY <1>4, <1>6, <1>7, <2>1, SwitchFocus
  <2> QED BY <1>6, <1>7, <2>1, <2>2 DEF Deref, Idle
<1>8. CASE second.okay /\ Switch(dv, second.switch) /\ Deref({dv})
  <2>1. dv \in m_clientSet
    BY <1>2, <1>5, <1>6, <1>8
  <2>2. EnteredInv' /\ m_switch' = Idle
    BY <1>5, <1>6, <1>8, <2>1, SwitchFocus
  <2> QED BY <1>6, <1>8, <2>1, <2>2 DEF Deref, Idle
<1>9. CASE /\ m_switch' = second.switch
           /\ cursorOn' = m_active
           /\ UNCHANGED <<m_active, entered, fault>>
  BY <1>5, <1>6, <1>9 DEF IInv, FocusInv, EnteredInv
<1> QED BY <1>1, <1>7, <1>8, <1>9 DEF first, second

LEMMA StayInsideFocus ==
  ASSUME IInv, NEW switches, StayInside(switches), UNCHANGED inputVars,
         \A sw \in switches : sw.timer = Null
  PROVE  EnteredInv' /\ ~fault' /\ m_switch'.timer = Null
  BY DEF StayInside, IInv, FocusInv, EnteredInv, inputVars, members

LEMMA FocusSwitchNext ==
  ASSUME IInv, Quiet, SwitchNext
  PROVE  FocusInv'
<1> USE DEF members, focus
<1>a. /\ m_switch \in SwitchType /\ Targeted(m_switch)
      /\ m_switch.timer = Null
      /\ m_clientSet \subseteq AllClients
  BY DEF IInv, TypeInv, TypeOK, PendingHasTarget, Targeted, FocusInv
<1>b. /\ m_clientSet \subseteq Live /\ Connected = m_clientSet
      /\ m_active \in Live
      /\ Null \notin AllClients /\ Primary \in m_clientSet
  BY LiveClients, ServerAssumption
  DEF IInv, FocusInv, EnteredInv, MemberInv
\* Input comes only while the screen saver is off, so nothing is saved.
<1>c. ASSUME InputOK PROVE ~saver /\ m_activeSaver = Null
  BY <1>c DEF InputOK, Quiet, IInv, FocusInv, SaverInv
<1>d. ASSUME ~saver, m_activeSaver = Null, UNCHANGED inputVars,
             EnteredInv', ~fault', m_switch'.timer = Null
      PROVE  FocusInv'
  BY <1>d DEF FocusInv, SaverInv, inputVars
<1>e. ASSUME NEW c \in m_clientSet, JumpToScreen(c), InputOK
      PROVE  FocusInv'
  <2>1. EnteredInv' /\ m_switch' = Idle
    BY <1>a, <1>e, SwitchFocus DEF JumpToScreen, inputVars
  <2>2. ~fault'
    BY <1>b, <1>e DEF JumpToScreen, Deref
  <2> QED BY <1>c, <1>d, <1>e, <2>1, <2>2 DEF JumpToScreen, Idle
<1>1. CASE UseDeletedActive
  BY <1>1, <1>b DEF UseDeletedActive
<1>2. CASE OnMouseMovePrimary
  <2>1. EnteredInv' /\ ~fault' /\ m_switch'.timer = Null
    <3>1. CASE StayInside(NoSwitch(m_switch))
      <4>1. \A sw \in NoSwitch(m_switch) : sw.timer = Null
        BY <1>a DEF NoSwitch, SwitchType
      <4> HIDE DEF NoSwitch
      <4> QED BY <1>2, <3>1, <4>1, StayInsideFocus DEF OnMouseMovePrimary
    <3>2. CASE \E h \in {"Left", "Right", NoDirection},
                 v \in {"Top", "Bottom", NoDirection} :
                  /\ {h, v} \subseteq Directions \cup {NoDirection}
                  /\ h # NoDirection \/ v # NoDirection
                  /\ CrossEdges(h, v)
      <4>1. PICK h, v : /\ h \in Directions \cup {NoDirection}
                        /\ v \in Directions \cup {NoDirection}
                        /\ CrossEdges(h, v)
        BY <3>2
      <4> QED BY <1>2, <4>1, CrossEdgesFocus DEF OnMouseMovePrimary
    <3> QED BY <1>2, <3>1, <3>2 DEF OnMouseMovePrimary
  <2> QED BY <1>2, <1>c, <1>d, <2>1 DEF OnMouseMovePrimary
<1>3. CASE OnMouseMoveSecondary
  <2> DEFINE switches == {m_switch} \cup
                     (IF m_switch.screen # Null THEN NoSwitch(m_switch) ELSE {})
  <2>1. EnteredInv' /\ ~fault' /\ m_switch'.timer = Null
    <3>1. CASE StayInside(switches)
      <4>1. \A sw \in switches : sw.timer = Null
        BY <1>a DEF NoSwitch, SwitchType
      <4> HIDE DEF switches
      <4> QED BY <1>3, <3>1, <4>1, StayInsideFocus DEF OnMouseMoveSecondary
    <3>2. CASE \E dir \in Directions : CrossEdges(dir, NoDirection)
      BY <1>3, <3>2, CrossEdgesFocus DEF OnMouseMoveSecondary
    <3> QED BY <1>3, <3>1, <3>2 DEF OnMouseMoveSecondary
  <2> QED BY <1>3, <1>c, <1>d, <2>1 DEF OnMouseMoveSecondary
<1>4. ASSUME NEW held \in BOOLEAN, HandleSwitchWaitTimeout(held)
      PROVE  FALSE
  BY <1>4, <1>a DEF HandleSwitchWaitTimeout
<1>5. ASSUME NEW n \in Screens, HandleSwitchToScreen(n)
      PROVE  FocusInv'
  BY <1>5, <1>b, <1>e DEF HandleSwitchToScreen, Connected
<1>6. ASSUME NEW dir \in Directions, HandleSwitchInDirection(dir)
      PROVE  FocusInv'
  <2>1. PICK c \in GetNeighbor(m_active, dir) \ {Null} : JumpToScreen(c)
    BY <1>6 DEF HandleSwitchInDirection
  <2>2. c \in m_clientSet
    BY NeighborsConnected DEF IInv
  <2> QED BY <1>6, <1>e, <2>1, <2>2 DEF HandleSwitchInDirection
<1>7. CASE HandleToggleScreen
  <2>1. PICK n \in Screens : m_clients[n] # Null /\ JumpToScreen(m_clients[n])
    BY <1>7 DEF HandleToggleScreen
  <2>2. m_clients[n] \in m_clientSet
    BY <1>b, <2>1 DEF Connected
  <2> QED BY <1>7, <1>e, <2>1, <2>2 DEF HandleToggleScreen
<1>8. CASE HandleLockCursorToScreen
  BY <1>8, <1>b DEF HandleLockCursorToScreen, IInv, FocusInv, EnteredInv,
     SaverInv, Deref
<1>9. ASSUME NEW c \in Clients, HandleShapeChanged(c)
      PROVE  FocusInv'
  BY <1>9 DEF HandleShapeChanged, IInv, FocusInv, EnteredInv, SaverInv,
     inputVars
<1>10. CASE OnScreensaverActivated
  <2>1. m_active \in m_clientSet /\ UNCHANGED m_clientSet /\ saver'
        /\ m_activeSaver' = m_active /\ ScreenSaver
    BY <1>10 DEF OnScreensaverActivated, IInv, FocusInv, EnteredInv
  <2>2. ~fault'
    BY <1>10, <1>b DEF OnScreensaverActivated, Deref
  <2>3. EnteredInv' /\ m_active' = Primary /\ m_switch'.timer = Null
    <3>1. CASE m_active # Primary
      <4>1. Switch(Primary, m_switch)
        BY <1>10, <3>1 DEF OnScreensaverActivated
      <4>2. EnteredInv' /\ m_switch' = Idle
        BY <1>a, <1>b, <2>1, <4>1, SwitchFocus
      <4>3. m_active' = Primary
        BY <3>1, <4>1 DEF Switch
      <4> QED BY <4>2, <4>3 DEF Idle
    <3>2. CASE m_active = Primary
      BY <1>10, <1>a, <2>1, <3>2 DEF OnScreensaverActivated, IInv, FocusInv,
         EnteredInv
    <3> QED BY <3>1, <3>2
  <2> QED BY <2>1, <2>2, <2>3 DEF FocusInv, SaverInv
<1>11. CASE OnScreensaverDeactivated
  <2>1. m_activeSaver \in m_clientSet \cup {Null} /\ UNCHANGED m_clientSet
        /\ ~saver' /\ m_activeSaver' = Null
    BY <1>11 DEF OnScreensaverDeactivated, IInv, FocusInv, SaverInv
  <2>2. ~fault'
    BY <1>11, <1>b, <2>1 DEF OnScreensaverDeactivated, Deref
  <2>3. EnteredInv' /\ m_switch'.timer = Null
    <3>1. CASE m_activeSaver \notin {Null, Primary}
      <4>1. Switch(m_activeSaver, m_switch)
        BY <1>11, <3>1 DEF OnScreensaverDeactivated
      <4> QED BY <1>a, <2>1, <3>1, <4>1, SwitchFocus DEF Idle
    <3>2. CASE m_activeSaver \in {Null, Primary}
      BY <1>11, <1>a, <2>1, <3>2 DEF OnScreensaverDeactivated, IInv, FocusInv,
         EnteredInv
    <3> QED BY <3>1, <3>2
  <2> QED BY <2>1, <2>2, <2>3 DEF FocusInv, SaverInv
<1> QED BY <1>1, <1>2, <1>3, <1>4, <1>5, <1>6, <1>7, <1>8, <1>9, <1>10, <1>11
        DEF SwitchNext


\* Removing connected clients moves the focus of the one that has it to the
\* primary screen, and forgets the screen saver's target with its client.
LEMMA ForceLeaveFocus ==
  ASSUME IInv, NEW cs, cs \subseteq m_clientSet \ {Primary}, ForceLeave(cs),
         m_switch'.timer = Null, m_clientSet' = m_clientSet \ cs,
         UNCHANGED saver, ~fault'
  PROVE  FocusInv'
<1>1. /\ m_active \in m_clientSet /\ m_active \in AllClients
      /\ \A c \in AllClients : entered[c] <=> (c = m_active)
      /\ ~MayRefuseLeave => cursorOn = m_active
      /\ Primary \in AllClients /\ Null \notin AllClients
      /\ Primary \in m_clientSet /\ m_clientSet \subseteq AllClients
  BY ServerAssumption DEF IInv, FocusInv, EnteredInv, TypeInv, TypeOK,
     MemberInv, AllClients
<1>2. CASE m_activeSaver = Null
  <2>1. /\ m_active' = IF m_active \in cs THEN Primary ELSE m_active
        /\ cursorOn' = IF m_active \in cs THEN Primary ELSE cursorOn
        /\ m_activeSaver' = Null
    BY <1>2 DEF ForceLeave
  <2>2. \A c \in AllClients :
          entered'[c] <=> \/ c \notin cs /\ entered[c]
                          \/ c \notin cs /\ c = Primary /\ m_active \in cs
    BY <1>2 DEF ForceLeave
  <2>3. EnteredInv'
    BY <1>1, <2>1, <2>2 DEF EnteredInv
  <2> QED BY <1>1, <2>1, <2>3 DEF FocusInv, SaverInv, IInv
<1>3. CASE m_activeSaver # Null
  <2>1. m_active = Primary /\ saver /\ ScreenSaver
        /\ m_activeSaver \in m_clientSet
    BY <1>3 DEF IInv, FocusInv, SaverInv
  <2>2. m_active' = Primary /\ (~MayRefuseLeave => cursorOn' = Primary)
    BY <1>1, <1>3, <2>1 DEF ForceLeave
  <2>3. \A c \in AllClients : entered'[c] <=> c \notin cs /\ entered[c]
    BY <1>3 DEF ForceLeave
  <2>4. EnteredInv'
    BY <1>1, <2>1, <2>2, <2>3 DEF EnteredInv
  <2>5. m_activeSaver' \in m_clientSet' \cup {Null}
    BY <1>3, <2>1 DEF ForceLeave
  <2> QED BY <2>1, <2>2, <2>4, <2>5 DEF FocusInv, SaverInv
<1> QED BY <1>2, <1>3

LEMMA LeftSwitchNoTimer ==
  ASSUME IInv, NEW cs PROVE LeftSwitch(cs).timer = Null
  BY DEF LeftSwitch, StopSwitch, Idle, IInv, FocusInv

LEMMA FocusClientNext ==
  ASSUME IInv, Quiet, ClientNext
  PROVE  FocusInv'
<1> USE DEF members, focus
<1>a. /\ m_clientSet \subseteq AllClients /\ m_clientSet \subseteq Live
      /\ Connected = m_clientSet /\ Null \notin AllClients
      /\ \A ns : ClientsAt(ns) \subseteq m_clientSet
      /\ Primary \notin Clients
  BY LiveClients, ServerAssumption DEF IInv, TypeInv, TypeOK
<1>1. ASSUME NEW c \in Clients, NEW n \in Screens, AdoptClient(c, n)
      PROVE  FocusInv'
  <2>1. UNCHANGED <<focus, m_activeSaver, m_switch, saver, fault>>
        /\ m_clientSet \subseteq m_clientSet'
    BY <1>1 DEF AdoptClient
  <2> QED BY <2>1 DEF IInv, FocusInv, EnteredInv, SaverInv
<1>2. ASSUME NEW c \in Clients, ClientGone(c)
      PROVE  FocusInv'
  BY <1>2 DEF ClientGone, IInv, FocusInv, EnteredInv, SaverInv
<1>3. ASSUME NEW c \in Clients, HandleClientDisconnected(c)
      PROVE  FocusInv'
  <2>1. m_clientSet' = m_clientSet \ {c} /\ UNCHANGED <<saver, fault>>
    BY <1>3 DEF HandleClientDisconnected
  <2>2. CASE c \in m_clientSet
    <3>1. ForceLeave({c}) /\ m_switch' = LeftSwitch({c})
      BY <1>3, <2>2 DEF HandleClientDisconnected
    <3>2. {c} \subseteq m_clientSet \ {Primary}
      BY <1>a, <2>2
    <3>3. ~fault' /\ m_switch'.timer = Null
      BY <2>1, <3>1, LeftSwitchNoTimer DEF IInv, FocusInv
    <3> QED BY <2>1, <3>1, <3>2, <3>3, ForceLeaveFocus
  <2>3. CASE c \notin m_clientSet
    <3>1. UNCHANGED <<focus, m_activeSaver, m_switch>>
          /\ m_clientSet' = m_clientSet
      BY <1>3, <2>1, <2>3 DEF HandleClientDisconnected
    <3> QED BY <2>1, <3>1 DEF IInv, FocusInv, EnteredInv, SaverInv
  <2> QED BY <2>2, <2>3
<1>4. ASSUME NEW c \in Clients, HandleClientCloseTimeout(c)
      PROVE  FocusInv'
  BY <1>4 DEF HandleClientCloseTimeout, IInv, FocusInv, EnteredInv, SaverInv
<1>5. ASSUME NEW cfg \in Configs, SetConfig(cfg)
      PROVE  FocusInv'
  <2>1. CASE cfg.canonical[Primary] = NoName
    BY <1>5, <2>1 DEF SetConfig, IInv, FocusInv, EnteredInv, SaverInv
  <2>2. CASE cfg.canonical[Primary] # NoName
    <3> DEFINE dropped == ClientsAt({n \in Screens : cfg.canonical[n] # n})
                            \ {Primary}
    <3>1. dropped \subseteq m_clientSet \ {Primary}
      BY <1>a
    <3>2. /\ CloseClients(dropped, cfg)
          /\ m_switch' = [LeftSwitch(dropped) EXCEPT
                 !.timer = IF SwitchDelay THEN Null ELSE @,
                 !.tap = IF TwoTap THEN "off" ELSE @]
          /\ Deref(Connected) /\ UNCHANGED saver
      BY <1>5, <2>2 DEF SetConfig
    <3>3. LeftSwitch(dropped) \in SwitchType
      BY IdleType DEF LeftSwitch, StopSwitch, IInv, TypeInv, TypeOK
    <3>4. m_switch'.timer = Null
      <4>1. LeftSwitch(dropped).timer = Null
        BY LeftSwitchNoTimer
      <4> HIDE DEF dropped
      <4> QED BY <3>2, <3>3, <4>1 DEF SwitchType
    <3>5. ~fault'
      BY <1>a, <3>2 DEF Deref
    <3> HIDE DEF dropped
    <3> QED BY <3>1, <3>2, <3>4, <3>5, ForceLeaveFocus DEF CloseClients
  <2> QED BY <2>1, <2>2
<1>6. CASE Disconnect
  <2>1. /\ CloseClients(m_clientSet \ {Primary}, config)
        /\ m_switch' = LeftSwitch(m_clientSet \ {Primary})
        /\ Deref(m_clientSet) /\ UNCHANGED saver
    BY <1>6, <1>a DEF Disconnect
  <2>2. m_switch'.timer = Null /\ ~fault'
    BY <1>a, <2>1, LeftSwitchNoTimer DEF Deref
  <2> QED BY <2>1, <2>2, ForceLeaveFocus DEF CloseClients
<1> QED BY <1>1, <1>2, <1>3, <1>4, <1>5, <1>6 DEF ClientNext

LEMMA FocusInit ==
  ASSUME Init PROVE FocusInv
  BY ServerAssumption DEF Init, FocusInv, EnteredInv, SaverInv, Idle,
     AllClients

\* The inductive invariant: types, membership and focus together.
LEMMA IInvHolds == NoAliases /\ Quiet => (Spec => []IInv)
<1> SUFFICES ASSUME NoAliases, Quiet PROVE Spec => []IInv
  OBVIOUS
<1>1. Init => IInv
  BY TypeInit, MemberInit, FocusInit DEF IInv
<1>2. ASSUME IInv, [Next]_vars PROVE IInv'
  <2>1. TypeInv' /\ MemberInv'
    BY <1>2, TypeStep, MemberStep DEF IInv
  <2>2. FocusInv'
    <3>1. CASE UNCHANGED vars
      BY <1>2, <3>1 DEF vars, members, focus, IInv, FocusInv, EnteredInv,
         SaverInv
    <3> QED BY <1>2, <3>1, FocusSwitchNext, FocusClientNext DEF Next
  <2> QED BY <2>1, <2>2 DEF IInv
<1> QED BY <1>1, <1>2, PTL DEF Spec

\* The cursor is on a connected screen in every reachable state, for any
\* clients that come, go, time out, or are dropped by a reload.
THEOREM ActiveAlwaysConnected ==
  NoAliases /\ Quiet => (Spec => []ActiveConnected)
<1> SUFFICES ASSUME NoAliases, Quiet PROVE Spec => []ActiveConnected
  OBVIOUS
<1>1. IInv => ActiveConnected
  BY DEF IInv, FocusInv, EnteredInv, ActiveConnected
<1> QED BY <1>1, IInvHolds, PTL

\* Exactly the active screen among the connected ones has been entered.
THEOREM OneScreenEntered == NoAliases /\ Quiet => (Spec => []OneEntered)
<1> SUFFICES ASSUME NoAliases, Quiet PROVE Spec => []OneEntered
  OBVIOUS
<1>1. IInv => OneEntered
  BY DEF IInv, FocusInv, EnteredInv, OneEntered, TypeInv, TypeOK
<1> QED BY <1>1, IInvHolds, PTL

\* When the screen saver ends the cursor goes back to a connected screen.
THEOREM SaverTargetAlwaysConnected ==
  NoAliases /\ Quiet => (Spec => []SaverTargetConnected)
<1> SUFFICES ASSUME NoAliases, Quiet PROVE Spec => []SaverTargetConnected
  OBVIOUS
<1>1. IInv => SaverTargetConnected
  BY DEF IInv, FocusInv, SaverInv, SaverTargetConnected
<1> QED BY <1>1, IInvHolds, PTL

\* No handler dereferences a deleted client.
THEOREM NeverFaults == NoAliases /\ Quiet => (Spec => []NoFault)
<1> SUFFICES ASSUME NoAliases, Quiet PROVE Spec => []NoFault
  OBVIOUS
<1>1. IInv => NoFault
  BY DEF IInv, FocusInv, NoFault
<1> QED BY <1>1, IInvHolds, PTL

\* The recorded position is on the active screen when canLeave() is never
\* refused.
THEOREM CursorAlwaysOnActive ==
  NoAliases /\ Quiet /\ ~MayRefuseLeave => (Spec => []CursorOnActive)
<1> SUFFICES ASSUME NoAliases, Quiet, ~MayRefuseLeave
             PROVE Spec => []CursorOnActive
  OBVIOUS
<1>1. IInv => CursorOnActive
  BY DEF IInv, FocusInv, EnteredInv, CursorOnActive
<1> QED BY <1>1, IInvHolds, PTL

-----------------------------------------------------------------------------
(* The lock *)

LEMMA CrossEdgesLocked ==
  ASSUME TypeInv, NEW h \in Directions \cup {NoDirection},
         NEW v \in Directions \cup {NoDirection}, CrossEdges(h, v),
         m_lockedToScreen, ~DisableLock
  PROVE  m_active' = m_active
<1>1. PICK dh \in IF h = NoDirection THEN {Null} ELSE MapToNeighbor(m_active, h),
           dv \in IF v = NoDirection THEN {Null} ELSE MapToNeighbor(m_active, v),
           at \in Moment :
        LET first == IsSwitchOkay(m_switch, dh, h, at)
            second == IsSwitchOkay(first.switch, dv, v, at)
        IN  first.okay \/ second.okay \/ UNCHANGED m_active
  BY DEF CrossEdges
<1> DEFINE first == IsSwitchOkay(m_switch, dh, h, at)
           second == IsSwitchOkay(first.switch, dv, v, at)
<1>2. dh \in MaybeClient /\ dv \in MaybeClient
  BY NeighborType, TypeParts DEF MaybeClient
<1>3. m_switch \in SwitchType /\ Targeted(m_switch)
  BY DEF TypeInv, TypeOK, PendingHasTarget, Targeted
<1>4. IsLockedToScreen(at.held)
  BY DEF IsLockedToScreen
<1>5. first.switch \in SwitchType /\ Targeted(first.switch) /\ ~first.okay
  BY <1>2, <1>3, <1>4, SwitchOkayType
<1> HIDE DEF first
<1>6. ~second.okay
  BY <1>2, <1>4, <1>5, SwitchOkayType
<1> QED BY <1>1, <1>5, <1>6 DEF first, second

\* While the cursor is locked no motion and no expired wait moves it to
\* another screen, whatever the options and the configuration.
THEOREM LockAlwaysHolds == Spec => LockHolds
<1> DEFINE A == m_lockedToScreen /\ ~DisableLock /\ m_active' # m_active
                => ~(\/ OnMouseMovePrimary
                     \/ OnMouseMoveSecondary
                     \/ \E held \in BOOLEAN : HandleSwitchWaitTimeout(held))
<1>1. ASSUME TypeInv, [Next]_vars PROVE [A]_vars
  <2> SUFFICES ASSUME m_lockedToScreen, ~DisableLock,
                      \/ OnMouseMovePrimary
                      \/ OnMouseMoveSecondary
                      \/ \E held \in BOOLEAN : HandleSwitchWaitTimeout(held)
               PROVE  m_active' = m_active
    OBVIOUS
  <2>1. CASE OnMouseMovePrimary
    BY <1>1, <2>1, CrossEdgesLocked DEF OnMouseMovePrimary, StayInside
  <2>2. CASE OnMouseMoveSecondary
    BY <1>1, <2>2, CrossEdgesLocked DEF OnMouseMoveSecondary, StayInside
  <2>3. CASE \E held \in BOOLEAN : HandleSwitchWaitTimeout(held)
    BY <2>3 DEF HandleSwitchWaitTimeout, IsLockedToScreen, focus
  <2> QED BY <2>1, <2>2, <2>3
<1>2. Init => TypeInv
  BY TypeInit
<1>3. TypeInv /\ [Next]_vars => TypeInv'
  BY TypeStep
<1> QED BY <1>1, <1>2, <1>3, PTL DEF Spec, LockHolds, A
=============================================================================
