------------------------------- MODULE Server -------------------------------
(***************************************************************************)
(* The server's core (src/src/lib/server/Server.cpp): which clients are    *)
(* connected, which one has the cursor, and how the cursor moves between   *)
(* screens.  The server is one thread that takes events from a queue, so   *)
(* every handler is one action.  A client is a BaseClientProxy object; a   *)
(* deleted object that some variable still points to is never reused for a *)
(* new connection here, so a dangling pointer stays recognisable, and the  *)
(* step that first dereferences one sets fault: the C++ program has no     *)
(* defined behaviour from there on, and the model stops.                   *)
(*                                                                         *)
(* Left out: the pixel geometry of an edge crossing (a motion may hit any  *)
(* edge, and the layout says which screens can lie behind it), clipboards, *)
(* keys and options other than the switching ones.                         *)
(***************************************************************************)
EXTENDS Naturals, FiniteSets

CONSTANTS
    Clients,          \* ClientProxy objects the server may have at a time
    Names,            \* screen names a client may report
    Primary,          \* the primary client, and the name of its screen
    Null,             \* nullptr
    NoName,           \* the empty string
    Directions,       \* the edges in use, some of Left, Right, Top, Bottom
    NoDirection,
    Rank,             \* the order of screen names in std::map
    InitialConfig,    \* the configuration the server starts with
    Configs,          \* the configurations a reload may bring
    SwitchDelay,      \* option switchDelay > 0
    TwoTap,           \* option switchDoubleTap > 0
    LockedCorners,    \* option switchCorners is set
    DisableLock,      \* option disableLockToScreen
    RelativeMoves,    \* option relativeMouseMoves
    MayRefuseLeave,   \* the platform screen's canLeave() may return false
    ScreenSaver,      \* the primary screen reports its screen saver
    InputDuringSaver  \* hotkeys and motion are delivered while it runs

AllClients == Clients \cup {Primary}
Screens == Names \cup {Primary}
MaybeScreen == Screens \cup {NoName}
MaybeClient == AllClients \cup {Null}

\* A configuration gives each name its canonical name (NoName when the name
\* is not in it) and each edge the screens linked to parts of that edge
\* (NoName for a part with no link).
ConfigType == [canonical : [Screens -> MaybeScreen],
               link : [Screens -> [Directions -> SUBSET MaybeScreen]]]

ASSUME ServerAssumption ==
    /\ Primary \notin Clients /\ Primary \notin Names
    /\ Null \notin AllClients /\ NoName \notin Screens
    /\ NoDirection \notin Directions
    /\ IsFiniteSet(Screens) /\ Rank \in [Screens -> Nat]
    /\ Configs \subseteq ConfigType
    /\ InitialConfig \in ConfigType
    /\ InitialConfig.canonical[Primary] = Primary
    /\ {SwitchDelay, TwoTap, LockedCorners, DisableLock, RelativeMoves,
        MayRefuseLeave, ScreenSaver, InputDuringSaver} \subseteq BOOLEAN

VARIABLES
    config,           \* *m_config, which ServerApp overwrites on a reload
    m_clients,        \* screen name -> client, Null where there is no entry
    m_clientSet,      \* the same clients as a set
    m_oldClients,     \* clients told to close, each with a 5 second timer
    reported,         \* client -> the name it reported, NoName if deleted
    gone,             \* clients whose ClientProxyDisconnected event is queued
    m_active,         \* the client with focus
    m_activeSaver,    \* the client with focus when the screen saver started
    cursorOn,         \* the screen whose coordinates m_x and m_y are
    entered,          \* client -> was it last told to enter, not to leave
    m_switch,         \* the pending switch, see SwitchType
    m_lockedToScreen,
    saver,            \* the primary's screen saver is running
    told,             \* clients last told that the screen saver is on
    asked,            \* disconnect() was called and not yet answered
    fault             \* a deleted client was dereferenced

\* m_switchScreen, m_switchDir, m_switchWaitTimer and the two tap flags.
\* timer is Null when m_switchWaitTimer is, and otherwise the screen in whose
\* coordinates m_switchWaitX and m_switchWaitY are.
SwitchType == [screen : MaybeClient, dir : Directions \cup {NoDirection},
               timer : MaybeClient, tap : {"off", "engaged", "armed"}]

Idle == [screen |-> Null, dir |-> NoDirection, timer |-> Null, tap |-> "off"]

members == <<m_clients, m_clientSet, m_oldClients, reported, gone>>
focus == <<m_active, cursorOn, entered>>
vars == <<config, members, focus, m_activeSaver, m_switch, m_lockedToScreen,
          saver, told, asked, fault>>

TypeOK ==
    /\ config \in ConfigType
    /\ m_clients \in [Screens -> MaybeClient]
    /\ m_clientSet \subseteq AllClients
    /\ m_oldClients \subseteq Clients
    /\ reported \in [Clients -> MaybeScreen]
    /\ gone \subseteq Clients
    /\ m_active \in AllClients
    /\ m_activeSaver \in MaybeClient
    /\ cursorOn \in AllClients
    /\ entered \in [AllClients -> BOOLEAN]
    /\ m_switch \in SwitchType
    /\ m_lockedToScreen \in BOOLEAN
    /\ saver \in BOOLEAN
    /\ told \subseteq Clients
    /\ asked \in BOOLEAN
    /\ fault \in BOOLEAN

Init ==
    /\ config = InitialConfig
    /\ m_clients = [n \in Screens |-> IF n = Primary THEN Primary ELSE Null]
    /\ m_clientSet = {Primary}
    /\ m_oldClients = {}
    /\ reported = [c \in Clients |-> NoName]
    /\ gone = {}
    /\ m_active = Primary
    /\ m_activeSaver = Null
    /\ cursorOn = Primary
    /\ entered = [c \in AllClients |-> c = Primary]
    /\ m_switch = Idle
    /\ m_lockedToScreen \in BOOLEAN
    /\ saver = FALSE
    /\ told = {}
    /\ asked = FALSE
    /\ fault = FALSE

-----------------------------------------------------------------------------
(* Lookups *)

Live == {Primary} \cup {c \in Clients : reported[c] # NoName}
Deref(S) == fault' = ~(S \subseteq Live)

\* The client's name under a configuration: its canonical name, or the name
\* it reported when the configuration does not have it.
NameUnder(cfg, c) ==
    LET name == IF c = Primary THEN Primary ELSE reported[c]
    IN  IF cfg.canonical[name] = NoName THEN name ELSE cfg.canonical[name]

Connected == {m_clients[n] : n \in Screens} \ {Null}
Dangling == (Connected \cup {m_active, m_activeSaver, m_switch.screen,
                             m_switch.timer}) \ {Null}

\* The names behind an edge in n + 1 hops of the layout; a hop goes on from
\* the names in the set through.
Behind(src, dir, through) ==
    LET hop[n \in 0 .. Cardinality(Screens)] ==
            IF n = 0 THEN config.link[src][dir]
            ELSE hop[n - 1] \cup UNION {config.link[m][dir] :
                                        m \in hop[n - 1] \cap through}
    IN  hop[Cardinality(Screens)]

Unconnected == {n \in Screens : m_clients[n] = Null}
ClientsAt(ns) == {m_clients[n] : n \in ns \cap Screens} \ {Null}

\* getNeighbor skips unconnected screens; mapToNeighbor may also cross
\* connected ones when the motion is long enough.
GetNeighbor(src, dir) ==
    LET reach == Behind(NameUnder(config, src), dir, Unconnected)
    IN  ClientsAt(reach) \cup (IF NoName \in reach THEN {Null} ELSE {})
MapToNeighbor(src, dir) ==
    LET reach == Behind(NameUnder(config, src), dir, Screens)
    IN  IF GetNeighbor(src, dir) = {Null} THEN {Null}
        ELSE ClientsAt(reach) \cup (GetNeighbor(src, dir) \cap {Null})

-----------------------------------------------------------------------------
(* The pending switch *)

\* Mutant: the wait timer is not stopped.
StopSwitchKeepsTimer(sw) == [Idle EXCEPT !.timer = sw.timer]


StopSwitch(sw) == IF sw.screen # Null THEN Idle ELSE sw

\* A motion that does not cross an edge: the second tap may become possible,
\* or too late; the wait ends.
NoSwitch(sw) ==
    LET taps == CASE sw.tap = "off" -> {"off"}
                  [] sw.tap = "engaged" -> {"off", "engaged", "armed"}
                  [] sw.tap = "armed" -> {"off", "armed"}
    IN  {[sw EXCEPT !.tap = t, !.timer = Null] : t \in taps}

\* What a crossing depends on besides the server's state: is the second tap
\* in time, is the cursor in a locked corner, is a mouse button held down.
Moment == [inTime : BOOLEAN,
           corner : IF LockedCorners THEN BOOLEAN ELSE {FALSE},
           held : IF DisableLock THEN {FALSE} ELSE BOOLEAN]
IsLockedToScreen(held) == ~DisableLock /\ (m_lockedToScreen \/ held)

\* Mutant: the lock is not looked at.
IsSwitchOkayUnlocked(sw, dst, dir, at) ==
    IF dst = Null \/ dir = NoDirection
    THEN [okay |-> FALSE, switch |-> StopSwitch(sw)]
    ELSE [okay |-> ~at.corner, switch |-> Idle]


IsSwitchOkay(sw, dst, dir, at) ==
    LET isNew == dir # sw.dir
        aimed == IF isNew \/ sw.screen = Null
                 THEN [sw EXCEPT !.dir = dir, !.screen = dst] ELSE sw
        second == TwoTap /\ ~isNew /\ sw.tap = "armed" /\ at.inTime
        tapped == IF TwoTap /\ ~second
                  THEN [aimed EXCEPT !.tap = "engaged"] ELSE aimed
        waits == SwitchDelay /\ ~second
        timed == IF waits /\ (isNew \/ sw.timer = Null)
                 THEN [tapped EXCEPT !.timer = dst] ELSE tapped
        prevent == waits \/ (TwoTap /\ ~second)
        refuse == at.corner \/ (~prevent /\ IsLockedToScreen(at.held))
    IN  CASE dir = NoDirection -> [okay |-> FALSE, switch |-> sw]
          [] dir # NoDirection /\ dst = Null ->
                [okay |-> FALSE, switch |-> StopSwitch(sw)]
          [] dir # NoDirection /\ dst # Null /\ refuse ->
                [okay |-> FALSE, switch |-> Idle]
          [] OTHER -> [okay |-> ~prevent, switch |-> timed]

\* Mutant: the screen that loses the cursor is not told to leave.
SwitchWithoutLeave(dst, sw) ==
    /\ m_switch' = StopSwitch(sw)
    /\ cursorOn' = dst
    /\ m_active' = dst
    /\ entered' = [entered EXCEPT ![dst] = TRUE]

\* switchScreen: the position is recorded before the active screen is asked
\* to leave, and only the primary screen can refuse.
Switch(dst, sw) ==
    /\ m_switch' = StopSwitch(sw)
    /\ cursorOn' = dst
    /\ \/ /\ m_active = dst \/ (m_active = Primary /\ MayRefuseLeave)
          /\ UNCHANGED <<m_active, entered>>
       \/ /\ m_active # dst
          /\ m_active' = dst
          /\ entered' = [entered EXCEPT ![m_active] = FALSE, ![dst] = TRUE]

-----------------------------------------------------------------------------
(* Input on the primary screen *)

InputOK == saver => InputDuringSaver

\* Motion and hotkeys start from the active client's shape or name.
UseDeletedActive ==
    /\ InputOK /\ m_active \notin Live
    /\ fault' = TRUE
    /\ UNCHANGED <<config, members, focus, m_activeSaver, m_switch,
                   m_lockedToScreen, saver, told, asked>>

\* A motion over the edges h and v (NoDirection for none), tried in this
\* order; the first one that may switch does.
CrossEdges(h, v) ==
    \E dh \in IF h = NoDirection THEN {Null} ELSE MapToNeighbor(m_active, h),
       dv \in IF v = NoDirection THEN {Null} ELSE MapToNeighbor(m_active, v),
       at \in Moment :
        LET first == IsSwitchOkay(m_switch, dh, h, at)
            second == IsSwitchOkay(first.switch, dv, v, at)
        IN  \/ /\ first.okay
               /\ Switch(dh, first.switch)
               /\ Deref({dh})
            \/ /\ ~first.okay /\ second.okay
               /\ Switch(dv, second.switch)
               /\ Deref({dv})
            \/ /\ ~first.okay /\ ~second.okay
               /\ m_switch' = second.switch
               /\ cursorOn' = m_active
               /\ UNCHANGED <<m_active, entered, fault>>

\* A motion within the active screen.
StayInside(switches) ==
    /\ m_switch' \in switches
    /\ cursorOn' = m_active
    /\ UNCHANGED <<m_active, entered, fault>>

inputVars == <<config, members, m_activeSaver, m_lockedToScreen, saver, told,
               asked>>

OnMouseMovePrimary ==
    /\ InputOK
    /\ m_active = Primary
    /\ \/ StayInside(NoSwitch(m_switch))
       \/ \E h \in {"Left", "Right", NoDirection},
             v \in {"Top", "Bottom", NoDirection} :
              /\ {h, v} \subseteq Directions \cup {NoDirection}
              /\ h # NoDirection \/ v # NoDirection
              /\ CrossEdges(h, v)
    /\ UNCHANGED inputVars

OnMouseMoveSecondary ==
    /\ InputOK /\ m_active \in Live
    /\ m_active # Primary
    /\ ~(RelativeMoves /\ m_lockedToScreen)
    /\ \/ StayInside({m_switch} \cup
                     (IF m_switch.screen # Null THEN NoSwitch(m_switch) ELSE {}))
       \/ \E dir \in Directions : CrossEdges(dir, NoDirection)
    /\ UNCHANGED inputVars

\* Mutant: a lock set while waiting does not stop the switch.
SwitchWaitIgnoresLock(held) ==
    /\ m_switch.timer # Null
    /\ gone = {}
    /\ held \in BOOLEAN
    /\ Switch(m_switch.screen, m_switch)
    /\ Deref({m_switch.screen, m_active})
    /\ UNCHANGED inputVars


HandleSwitchWaitTimeout(held) ==
    /\ m_switch.timer # Null
    /\ gone = {}       \* a timer fires only when the event buffer is empty
    /\ IF IsLockedToScreen(held)
       THEN /\ m_switch' = StopSwitch(m_switch)
            /\ UNCHANGED <<focus, fault>>
       ELSE /\ Switch(m_switch.screen, m_switch)
            /\ Deref({m_switch.screen, m_active})
    /\ UNCHANGED inputVars

JumpToScreen(c) ==
    /\ Switch(c, m_switch)
    /\ Deref({c, m_active})
    /\ UNCHANGED inputVars

\* Mutant: the lookup by name is not checked.
SwitchToAnyScreen(n) ==
    /\ InputOK
    /\ JumpToScreen(m_clients[n])


HandleSwitchToScreen(n) ==
    /\ InputOK
    /\ m_clients[n] # Null
    /\ JumpToScreen(m_clients[n])

HandleSwitchInDirection(dir) ==
    /\ InputOK /\ m_active \in Live
    /\ \E c \in GetNeighbor(m_active, dir) \ {Null} : JumpToScreen(c)

\* How far n is after the name cur in the cyclic order of the names.
Distance(cur, n) ==
    (Rank[n] + Cardinality(Screens) - Rank[cur]) % Cardinality(Screens)

HandleToggleScreen ==
    LET cur == NameUnder(config, m_active)
        others == {n \in Screens : m_clients[n] # Null /\ n # cur}
    IN  /\ InputOK /\ m_active \in Live
        /\ m_clients[cur] # Null
        /\ \E n \in others :
              /\ \A k \in others : Distance(cur, n) <= Distance(cur, k)
              /\ JumpToScreen(m_clients[n])

HandleLockCursorToScreen ==
    /\ InputOK
    /\ m_lockedToScreen' = ~m_lockedToScreen
    /\ IF m_lockedToScreen /\ RelativeMoves /\ m_active # Primary
       THEN cursorOn' = m_active /\ Deref({m_active})
       ELSE UNCHANGED <<cursorOn, fault>>
    /\ UNCHANGED <<config, members, m_active, entered, m_activeSaver,
                   m_switch, saver, told, asked>>

\* Mutant: a shape change of any client moves the cursor.
ShapeChangedAlwaysMoves(c) ==
    /\ c \in m_clientSet \ {Primary}
    /\ cursorOn' = c
    /\ UNCHANGED <<inputVars, m_active, entered, m_switch, fault>>

\* A change of the primary's own shape is handled as a motion.
HandleShapeChanged(c) ==
    /\ c \in m_clientSet \ {Primary}
    /\ cursorOn' = IF c = m_active THEN c ELSE cursorOn
    /\ UNCHANGED <<inputVars, m_active, entered, m_switch, fault>>

-----------------------------------------------------------------------------
(* The screen saver *)

OnScreensaverActivated ==
    /\ ScreenSaver /\ ~saver
    /\ saver' = TRUE
    /\ m_activeSaver' = m_active
    /\ IF m_active # Primary THEN Switch(Primary, m_switch)
                             ELSE UNCHANGED <<focus, m_switch>>
    /\ told' = Connected \cap Clients
    /\ Deref(Connected \cup {m_active})
    /\ UNCHANGED <<config, members, m_lockedToScreen, asked>>

OnScreensaverDeactivated ==
    /\ saver
    /\ saver' = FALSE
    /\ IF m_activeSaver \notin {Null, Primary}
       THEN Switch(m_activeSaver, m_switch)
       ELSE UNCHANGED <<focus, m_switch>>
    /\ m_activeSaver' = Null
    /\ told' = {}
    /\ Deref(Connected \cup {m_active} \cup ({m_activeSaver} \ {Null}))
    /\ UNCHANGED <<config, members, m_lockedToScreen, asked>>

-----------------------------------------------------------------------------
(* Connections *)

Without(cs, cfg) ==
    [n \in Screens |-> IF n \in {NameUnder(cfg, c) : c \in cs \cap m_clientSet}
                       THEN Null ELSE m_clients[n]]

\* Mutants: the primary screen is not told to enter; the screen saver's target
\* is not forgotten; nothing is done.
ForceLeaveNoEnter(cs) ==
    LET hit == m_active \in cs
    IN  /\ m_active' = IF hit THEN Primary ELSE m_active
        /\ cursorOn' = IF hit THEN Primary ELSE cursorOn
        /\ entered' = [c \in AllClients |-> entered[c] /\ c \notin cs]
        /\ m_activeSaver' = IF m_activeSaver \in cs THEN Null
                            ELSE m_activeSaver
ForceLeaveKeepsSaver(cs) ==
    /\ UNCHANGED m_activeSaver
    /\ m_active' = IF m_active \in cs THEN Primary ELSE m_active
    /\ cursorOn' = IF m_active \in cs THEN Primary ELSE cursorOn
    /\ entered' = [c \in AllClients |->
                      (entered[c] /\ c \notin cs)
                      \/ (c = Primary /\ m_active \in cs)]
NoForceLeave(cs) == UNCHANGED <<focus, m_activeSaver>>

\* forceLeaveClient for each client of cs.  The order does not matter: once
\* the cursor is on the primary screen no other client holds it.
ForceLeave(cs) ==
    LET holder == IF m_activeSaver # Null THEN m_activeSaver ELSE m_active
        hit == holder \in cs
    IN  /\ m_active' = IF hit THEN Primary ELSE m_active
        /\ cursorOn' = IF hit THEN Primary ELSE cursorOn
        /\ entered' = [c \in AllClients |->
                          IF c \in cs THEN FALSE
                          ELSE \/ entered[c]
                               \/ c = Primary /\ hit /\ m_activeSaver = Null]
        /\ m_activeSaver' = IF m_activeSaver \in cs THEN Null
                            ELSE m_activeSaver
LeftSwitch(cs) ==
    LET holder == IF m_activeSaver # Null THEN m_activeSaver ELSE m_active
    IN  IF holder \in cs /\ holder = m_switch.screen
        THEN StopSwitch(m_switch) ELSE m_switch

\* ServerDisconnected is sent when a removal leaves only the primary client.
Answered == /\ Cardinality({n \in Screens : m_clients'[n] # Null}) = 1
            /\ m_oldClients' = {}

\* Mutant: a second client with a connected name replaces the first.
AdoptClientReplaces(c, n) ==
    LET key == config.canonical[n]
    IN  /\ reported[c] = NoName /\ c \notin Dangling
        /\ key \in Names
        /\ reported' = [reported EXCEPT ![c] = n]
        /\ m_clients' = [m_clients EXCEPT ![key] = c]
        /\ m_clientSet' = m_clientSet \cup {c}
        /\ told' = IF m_activeSaver # Null THEN told \cup {c} ELSE told
        /\ UNCHANGED <<m_oldClients, config, gone, focus, m_activeSaver,
                       m_switch, m_lockedToScreen, saver, asked, fault>>

\* A connection that finished its handshake reports the name n.  A name that
\* is not in the configuration, or is in use, is turned away with closeClient.
AdoptClient(c, n) ==
    LET key == config.canonical[n]
    IN  /\ reported[c] = NoName /\ c \notin Dangling
        /\ reported' = [reported EXCEPT ![c] = n]
        /\ IF key = NoName \/ (key # NoName /\ m_clients[key] # Null)
           THEN /\ m_oldClients' = m_oldClients \cup {c}
                /\ UNCHANGED <<m_clients, m_clientSet, told>>
           ELSE /\ m_clients' = [m_clients EXCEPT ![key] = c]
                /\ m_clientSet' = m_clientSet \cup {c}
                /\ told' = IF m_activeSaver # Null THEN told \cup {c} ELSE told
                /\ UNCHANGED m_oldClients
        /\ UNCHANGED <<config, gone, focus, m_activeSaver, m_switch,
                       m_lockedToScreen, saver, asked, fault>>

\* The proxy's stream ends, for any reason; its event is put in the queue.
ClientGone(c) ==
    /\ reported[c] # NoName /\ c \notin gone
    /\ gone' = gone \cup {c}
    /\ UNCHANGED <<config, m_clients, m_clientSet, m_oldClients, reported,
                   focus, m_activeSaver, m_switch, m_lockedToScreen, saver,
                   told, asked, fault>>

Delete(c) ==
    /\ reported' = [reported EXCEPT ![c] = NoName]
    /\ gone' = gone \ {c}
    /\ told' = told \ {c}

HandleClientDisconnected(c) ==
    /\ c \in gone /\ c \in m_clientSet \cup m_oldClients
    /\ m_clients' = Without({c}, config)
    /\ m_clientSet' = m_clientSet \ {c}
    /\ m_oldClients' = m_oldClients \ {c}
    /\ IF c \in m_clientSet
       THEN ForceLeave({c}) /\ m_switch' = LeftSwitch({c})
       ELSE UNCHANGED <<focus, m_activeSaver, m_switch>>
    /\ Delete(c)
    /\ asked' = (asked /\ ~Answered)
    /\ UNCHANGED <<config, m_lockedToScreen, saver, fault>>

\* Mutant: dropping the last closing client is not announced.
CloseTimeoutUnannounced(c) ==
    /\ c \in m_oldClients
    /\ gone = {}
    /\ m_oldClients' = m_oldClients \ {c}
    /\ UNCHANGED <<m_clients, m_clientSet>>
    /\ Delete(c)
    /\ UNCHANGED <<config, focus, m_activeSaver, m_switch, m_lockedToScreen,
                   saver, asked, fault>>


HandleClientCloseTimeout(c) ==
    /\ c \in m_oldClients
    /\ gone = {}
    /\ m_oldClients' = m_oldClients \ {c}
    /\ UNCHANGED <<m_clients, m_clientSet>>
    /\ Delete(c)
    /\ asked' = (asked /\ ~Answered)
    /\ UNCHANGED <<config, focus, m_activeSaver, m_switch, m_lockedToScreen,
                   saver, fault>>

\* closeClient for each client of cs.
CloseClients(cs, cfg) ==
    /\ m_clients' = Without(cs, cfg)
    /\ m_clientSet' = m_clientSet \ cs
    /\ m_oldClients' = m_oldClients \cup cs
    /\ ForceLeave(cs)
    /\ UNCHANGED <<reported, gone, told>>

\* The reload overwrites the configuration the server uses and then calls
\* setConfig, which refuses one without the primary screen.
SetConfig(cfg) ==
    LET dropped == ClientsAt({n \in Screens : cfg.canonical[n] # n}) \ {Primary}
    IN  /\ cfg # config
        /\ config' = cfg
        /\ IF cfg.canonical[Primary] = NoName
           THEN UNCHANGED <<members, focus, m_activeSaver, m_switch, told,
                            fault>>
           ELSE /\ CloseClients(dropped, cfg)
                /\ m_switch' = [LeftSwitch(dropped) EXCEPT
                       !.timer = IF SwitchDelay THEN Null ELSE @,
                       !.tap = IF TwoTap THEN "off" ELSE @]
                /\ Deref(Connected)
        /\ UNCHANGED <<m_lockedToScreen, saver, asked>>

Disconnect ==
    LET all == Connected \ {Primary}
    IN  /\ ~asked
        /\ CloseClients(all, config)
        /\ m_switch' = LeftSwitch(all)
        /\ asked' = (all # {} \/ m_oldClients # {})
        /\ Deref(Connected)
        /\ UNCHANGED <<config, m_lockedToScreen, saver>>
-----------------------------------------------------------------------------
(* The specification *)

SwitchNext ==
    \/ UseDeletedActive
    \/ OnMouseMovePrimary
    \/ OnMouseMoveSecondary
    \/ \E held \in BOOLEAN : HandleSwitchWaitTimeout(held)
    \/ \E n \in Screens : HandleSwitchToScreen(n)
    \/ \E dir \in Directions : HandleSwitchInDirection(dir)
    \/ HandleToggleScreen
    \/ HandleLockCursorToScreen
    \/ \E c \in Clients : HandleShapeChanged(c)
    \/ OnScreensaverActivated
    \/ OnScreensaverDeactivated

ClientNext ==
    \/ \E c \in Clients, n \in Screens : AdoptClient(c, n)
    \/ \E c \in Clients : ClientGone(c)
    \/ \E c \in Clients : HandleClientDisconnected(c)
    \/ \E c \in Clients : HandleClientCloseTimeout(c)
    \/ \E cfg \in Configs : SetConfig(cfg)
    \/ Disconnect

Next == ~fault /\ (SwitchNext \/ ClientNext)

\* The event loop handles what is queued, and timers fire.
Fairness ==
    \A c \in Clients : /\ WF_vars(~fault /\ HandleClientDisconnected(c))
                       /\ SF_vars(~fault /\ HandleClientCloseTimeout(c))

Spec == Init /\ [][Next]_vars
FairSpec == Spec /\ Fairness

-----------------------------------------------------------------------------
(* Properties *)

\* The cursor is on a screen whose client is connected, whatever clients
\* come, go, are turned away or are dropped by a reload.
ActiveConnected == ~fault => m_active \in m_clientSet

\* Among the connected screens exactly the active one has been told that the
\* cursor entered it: input goes to one screen, and never to none.
OneEntered == ~fault => \A c \in m_clientSet : entered[c] <=> (c = m_active)

\* The two client collections agree, a closing client is in neither, and
\* every client object that exists is either connected or closing: none is
\* forgotten, and none is called after it is deleted.
Membership ==
    ~fault => /\ Connected = m_clientSet
              /\ m_clientSet \cap m_oldClients = {}
              /\ m_clientSet \cup m_oldClients = Live
              /\ \A i, j \in Screens : m_clients[i] = m_clients[j] /\ i # j
                                       => m_clients[i] = Null

\* stopSwitch does nothing when m_switchScreen is null, and the timeout
\* dereferences it unconditionally: no timer or tap outlives the target.
PendingHasTarget == m_switch.screen = Null => m_switch = Idle

\* The screen to go back to when the screen saver ends is still connected.
SaverTargetConnected == m_activeSaver \in m_clientSet \cup {Null}

\* m_x and m_y are coordinates on the active screen (Server.h: "current mouse
\* position (in absolute screen coordinates) on whichever screen is active").
CursorOnActive == ~fault => cursorOn = m_active

\* No handler dereferences a client that was deleted.
NoFault == ~fault

\* A pending wait aims at the screen whose coordinates it saved (Server.h:
\* "all tests are always trying to reach the same screen").
WaitAimsAtOneScreen ==
    ~fault => m_switch.timer \in {Null, m_switch.screen}

\* A client that is closing or deleted is out of the client list (closeClient:
\* "we also remove the client from the active client list").
ClosedNotListed == ~fault => Connected \subseteq m_clientSet

\* A client that connects while the primary's screen saver runs is told
\* (adoptClient: "activate screen saver on new client if active on the
\* primary screen").
SaverMirrored == saver => m_clientSet \ {Primary} \subseteq told

\* A configuration without the primary screen is refused, so it is not used.
RefusedConfigUnused == config.canonical[Primary] # NoName

\* While the cursor is locked to the screen neither motion nor the end of a
\* wait moves it to another screen; a lock set during a wait stops the wait.
LockHolds ==
    [][m_lockedToScreen /\ ~DisableLock /\ m_active' # m_active
       => ~(\/ OnMouseMovePrimary
            \/ OnMouseMoveSecondary
            \/ \E held \in BOOLEAN : HandleSwitchWaitTimeout(held))]_vars

\* disconnect() is answered with ServerDisconnected once its clients are
\* gone, unless clients keep connecting meanwhile (Server.h: "The server
\* sends the disconnected event when they're all disconnected").
NoMoreAdopted == <>[][\A c \in Clients : reported[c] = NoName
                                         => reported'[c] = NoName]_vars
DisconnectAnswered ==
    NoMoreAdopted => (asked ~> (~asked \/ m_clientSet # {Primary}))

=============================================================================
