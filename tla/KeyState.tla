------------------------------ MODULE KeyState ------------------------------
(***************************************************************************)
(* How a client types what the server's keyboard sends                     *)
(* (src/src/lib/deskflow/KeyState.cpp and KeyMap.cpp).  The client has a   *)
(* layout of its own: for a character it looks for the button and the      *)
(* modifiers that produce it here, moves its modifiers to fit, presses the *)
(* button and moves the modifiers back.  What it has pressed is known to   *)
(* the operating system (pressed) and to KeyState; the server only knows   *)
(* its own keys.                                                           *)
(* Left out: groups and languages, dead keys and other sequences of        *)
(* several buttons, locks, AltGr, and modifiers that other modifiers       *)
(* change.  The computer's own keyboard is not touched.                    *)
(***************************************************************************)
EXTENDS Naturals, Sequences, FiniteSets, SequencesExt, FiniteSetsExt, Functions, Queues

CONSTANTS
    Keys,             \* the server's buttons (serverID)
    KeyId,            \* [Keys -> [BOOLEAN -> ids]]: what a key means, unshifted and shifted
    Modifier,         \* [Keys -> SUBSET Modifiers]: the modifier it is at the server
    Modifiers,        \* the modifier bits, lowest first
    Layout,           \* [ids -> sequences of items]: m_keyIDMap of the client's layout
    m_modifierKeys,   \* [modifier -> sequence of the items that generate it]
    Null,             \* no button, nullptr
    Platform,         \* "windows", "mac" or "linux"
    RemapsHeld        \* the layout may change while keys are pressed

Mods == Range(Modifiers)
Items == UNION {Range(Layout[id]) : id \in DOMAIN Layout}
Buttons == {item.button : item \in Items}

\* A button is that of one modifier at most, whatever else is down, and
\* m_modifierKeys has all its items (KeyMap::setModifierKeys).
ASSUME KeyStateAssumption ==
    /\ IsFiniteSet(Keys) /\ Modifier \in [Keys -> SUBSET Mods]
    /\ Platform \in {"windows", "mac", "linux"} /\ RemapsHeld \in BOOLEAN
    /\ Modifiers \in Seq(Mods) /\ \A id \in DOMAIN Layout : Layout[id] \in Seq(Items)
    /\ \A item \in Items : /\ item.required \subseteq item.sensitive
                           /\ item.sensitive \subseteq Mods
                           /\ item.generates = {} \/ \E m \in Mods : item.generates = {m}
                           /\ item.generates # {} => item.sensitive = {}
    /\ \A m \in Mods : /\ m_modifierKeys[m] \in Seq(Items)
                       /\ Range(m_modifierKeys[m]) = {item \in Items : item.generates = {m}}
    /\ \A i, j \in Items : i.button = j.button => i.generates = j.generates
    /\ IsFiniteSet(Buttons) /\ Null \notin Buttons

VARIABLES
    held,             \* keys that are down at the server
    entered,          \* the cursor is on the client
    pressed,          \* buttons that are down for the operating system
    m_syntheticKeys,  \* [Buttons -> Nat]: how often KeyState has pressed a button
    m_serverKeys,     \* [Keys -> button]: the button pressed for a key of the server
    m_activeModifiers,\* <<modifier, button>>: the modifier keys that are down
    m_mask,           \* the modifiers that are on
    typed             \* the last key pressed: what was asked and what came out

vars == <<held, entered, pressed, m_syntheticKeys, m_serverKeys, m_activeModifiers, m_mask, typed>>

TypeOK ==
    /\ held \subseteq Keys /\ entered \in BOOLEAN /\ pressed \subseteq Buttons
    /\ m_syntheticKeys \in [Buttons -> 0 .. Cardinality(Keys)]
    /\ m_serverKeys \in [Keys -> Buttons \cup {Null}]
    /\ m_activeModifiers \subseteq Mods \X Buttons /\ m_mask \subseteq Mods
    /\ typed = Null \/ typed \in [id : DOMAIN Layout, mask : SUBSET Mods,
                                  button : Buttons, mods : SUBSET Mods]

ButtonsOf(active) == {a[2] : a \in active}
ModsOf(active) == {a[1] : a \in active}

\* The modifiers the operating system sees while the buttons in down are down.
PollActiveModifiers(down) ==
    {m \in Mods : \E item \in Range(m_modifierKeys[m]) : item.button \in down}

----------------------------------------------------------------------------
\* KeyMap: which keystrokes type a key.  A mapping in progress is a record of
\* the keystrokes so far and of the modifiers after them.
Keystroke(button, press, repeat) == [button |-> button, press |-> press, repeat |-> repeat]
Strokes(set, press) == SetToSeq({Keystroke(b, press, FALSE) : b \in set})

\* kKeystrokeModify: press the modifier.  kKeystrokeUnmodify: release every
\* button that generates it.
Modify(map, m, item) ==
    [map EXCEPT !.keys = Append(@, Keystroke(item.button, TRUE, FALSE)),
                !.active = @ \cup {<<m, item.button>>}, !.state = @ \cup {m}]
Unmodify(map, m) ==
    LET down == {a \in map.active : a[1] = m}
    IN  [map EXCEPT !.keys = @ \o Strokes(ButtonsOf(down), FALSE),
                    !.active = @ \ down, !.state = @ \ {m}]

\* A key that generates m but does not use the button.
KeyForModifier(button, m) == Kept(m_modifierKeys[m], {item \in Items : item.button # button})

\* Switches one modifier on or off, when there is a key for it.
Switch(part, button, m, on) ==
    LET keys == KeyForModifier(button, m)
    IN  IF ~part.found THEN part
        ELSE IF keys = <<>> THEN [part EXCEPT !.found = FALSE]
        ELSE IF on THEN Modify(part, m, Head(keys)) ELSE Unmodify(part, m)

\* Moves the modifiers in sensitive to required, the highest bit first.
KeysForModifierState(map, button, required, sensitive) ==
    LET flip == {m \in sensitive : (m \in map.state) # (m \in required)}
        Highest(n) == Modifiers[Len(Modifiers) + 1 - n]
        part[n \in 0 .. Len(Modifiers)] ==
            IF n = 0 THEN map
            ELSE IF Highest(n) \in flip
                 THEN Switch(part[n - 1], button, Highest(n), Highest(n) \in required)
            ELSE part[n - 1]
    IN  part[Len(Modifiers)]

\* The keystroke of the key itself; an auto-repeat sends none on Linux, where
\* the operating system repeats a button that stays down.
AddKey(map, item, isAutoRepeat) ==
    IF isAutoRepeat
    THEN [map EXCEPT !.keys = @ \o
            CASE Platform = "windows" -> <<Keystroke(item.button, FALSE, TRUE),
                                           Keystroke(item.button, TRUE, TRUE)>>
              [] Platform = "mac" -> <<Keystroke(item.button, TRUE, TRUE)>>
              [] OTHER -> <<>>]
    ELSE [map EXCEPT !.keys = Append(@, Keystroke(item.button, TRUE, FALSE)),
                     !.active = @ \cup (item.generates \X {item.button}),
                     !.state = @ \cup item.generates]

\* Mutant: the desired modifiers are not added to what the key needs.
KeyItemAlone(map, item, desired, isCommand, isAutoRepeat) ==
    AddKey(KeysForModifierState(map, item.button, item.required,
                                IF isCommand THEN {} ELSE item.sensitive), item, isAutoRepeat)

\* First what the character needs (unless the key is a command), then the
\* desired modifiers as far as they leave the character alone.
KeysForKeyItem(map, item, desired, isCommand, isAutoRepeat) ==
    LET sensitive == IF isCommand THEN {} ELSE item.sensitive
        needed == KeysForModifierState(map, item.button, item.required, sensitive)
        wanted == KeysForModifierState(needed, item.button, desired,
                                       Mods \ (sensitive \cup item.generates))
    IN  AddKey(wanted, item, isAutoRepeat)

KeysToRestoreModifiers(map, item, before) ==
    LET drop == {a \in map.active : a[2] # item.button /\ a[2] \notin ButtonsOf(before)}
        add == {a \in before : a[2] # item.button /\ a[2] \notin ButtonsOf(map.active)}
        left == map.active \ drop
    IN  [map EXCEPT !.keys = @ \o Strokes(ButtonsOf(drop), FALSE) \o Strokes(ButtonsOf(add), TRUE),
                    !.active = left \cup add,
                    !.state = (@ \ (ModsOf(drop) \ ModsOf(left))) \cup ModsOf(add)]

\* Any command modifier makes a key a command: what counts is the button.
IsCommand(id, mask) == mask \ {"Shift"} # {} /\ \A item \in Range(Layout[id]) : item.generates = {}

\* For a command: the first item on the asked shift level whose other
\* modifiers are asked for.  For a character: the item that fits exactly, or
\* the one that needs the fewest changes.
Candidates(id, desired) ==
    LET items == Range(Layout[id])
        shift == desired \cap {"Shift"}
        Changes(item) == Cardinality({m \in item.sensitive : (m \in item.required) # (m \in desired)})
        Exact(item) == item.required \subseteq desired /\ item.required = item.sensitive \cap desired
        Command(item) == /\ item.required \cap shift = item.sensitive \cap shift
                         /\ item.required \ {"Shift"} \subseteq desired
        Best(item) == \A other \in items : Changes(item) <= Changes(other)
    IN  IF IsCommand(id, desired) THEN Kept(Layout[id], {item \in items : Command(item)})
        ELSE Kept(Layout[id], {item \in items : Exact(item)})
             \o Kept(Layout[id], {item \in items : Best(item)})

\* The item and the keystrokes for an id, found = FALSE when there are none.
MapKey(id, desired, isAutoRepeat) ==
    LET before == [keys |-> <<>>, active |-> m_activeModifiers, state |-> m_mask,
                   button |-> Null, found |-> FALSE]
        items == IF id \in DOMAIN Layout THEN Candidates(id, desired) ELSE <<>>
        item == Head(items)
        map == KeysForKeyItem([before EXCEPT !.button = item.button, !.found = TRUE],
                              item, desired, IsCommand(id, desired), isAutoRepeat)
    IN  IF items = <<>> \/ ~map.found THEN before
        ELSE KeysToRestoreModifiers(map, item, m_activeModifiers)

----------------------------------------------------------------------------
\* KeyState

\* A keystroke as the operating system sees it; out is the last press of the
\* button the key was mapped to.
Fake(sys, key, button, asked) ==
    [down |-> IF key.press THEN sys.down \cup {key.button} ELSE sys.down \ {key.button},
     out |-> IF key.press /\ key.button = button
             THEN [id |-> asked.id, mask |-> asked.mask, button |-> button,
                   mods |-> PollActiveModifiers(sys.down \ {button})]
             ELSE sys.out]

FakeKeys(keys, button, asked) ==
    LET sys[n \in 0 .. Len(keys)] ==
            IF n = 0 THEN [down |-> pressed, out |-> typed]
            ELSE Fake(sys[n - 1], keys[n], button, asked)
    IN  pressed' = sys[Len(keys)].down /\ typed' = sys[Len(keys)].out

\* Counts the modifier buttons, other than the key's own, that the mapping has
\* left in another state than it found them.
UpdateModifierKeyState(counts, button, before, after) ==
    [b \in Buttons |-> IF b = button THEN counts[b]
                       ELSE IF b \in ButtonsOf(before) \ ButtonsOf(after) THEN 0
                       ELSE IF b \in ButtonsOf(after) \ ButtonsOf(before) THEN 1
                       ELSE counts[b]]

\* Mutant: the old button is not released.
SubstitutedNever(keys, new, old) == keys

\* The button of the auto-repeat is not the one that was pressed: the first
\* keystroke of the new button is turned into one of the old.
Substituted(keys, new, old) ==
    LET uses == {i \in DOMAIN keys : keys[i].button = new}
    IN  IF uses = {} THEN keys ELSE [keys EXCEPT ![Min(uses)].button = old]

FakeKeyRepeat(key, id, mask) ==
    LET map == MapKey(id, mask, TRUE)
        old == m_serverKeys[key]
        new == map.button
        asked == [id |-> id, mask |-> mask]
    IN  IF old = Null \/ ~map.found
        THEN UNCHANGED <<pressed, m_syntheticKeys, m_serverKeys, m_activeModifiers, m_mask, typed>>
        ELSE /\ m_activeModifiers' = map.active /\ m_mask' = map.state
             /\ IF new = old
                THEN /\ UNCHANGED <<m_syntheticKeys, m_serverKeys>>
                     /\ FakeKeys(map.keys, new, asked)
                ELSE LET gone == [m_syntheticKeys EXCEPT ![old] = @ - 1]
                         moved == UpdateModifierKeyState(gone, new, m_activeModifiers, map.active)
                     IN  /\ m_syntheticKeys' = [moved EXCEPT ![new] = @ + 1]
                         /\ m_serverKeys' = [m_serverKeys EXCEPT ![key] = new]
                         /\ FakeKeys(Substituted(map.keys, new, old), new, asked)

\* Mutant: an auto-repeat reported as a key down presses the button again.
FakeKeyDownAgain(key, id, mask) ==
    LET map == MapKey(id, mask, FALSE)
    IN  IF ~map.found
        THEN UNCHANGED <<pressed, m_syntheticKeys, m_serverKeys, m_activeModifiers, m_mask, typed>>
        ELSE /\ m_activeModifiers' = map.active /\ m_mask' = map.state
             /\ m_syntheticKeys' = [m_syntheticKeys EXCEPT ![map.button] = @ + 1]
             /\ m_serverKeys' = [m_serverKeys EXCEPT ![key] = map.button]
             /\ FakeKeys(map.keys, map.button, [id |-> id, mask |-> mask])

FakeKeyDown(key, id, mask) ==
    LET map == MapKey(id, mask, FALSE)
        counts == UpdateModifierKeyState(m_syntheticKeys, map.button, m_activeModifiers, map.active)
    IN  IF m_serverKeys[key] # Null THEN FakeKeyRepeat(key, id, mask)
        ELSE IF ~map.found
        THEN UNCHANGED <<pressed, m_syntheticKeys, m_serverKeys, m_activeModifiers, m_mask, typed>>
        ELSE /\ m_activeModifiers' = map.active /\ m_mask' = map.state
             /\ m_syntheticKeys' = [counts EXCEPT ![map.button] = @ + 1]
             /\ m_serverKeys' = [m_serverKeys EXCEPT ![key] = map.button]
             /\ FakeKeys(map.keys, map.button, [id |-> id, mask |-> mask])

\* Mutant: a modifier is off although another of its keys is down.
FakeKeyUpOfLast(key) ==
    LET button == m_serverKeys[key]
        gone == {a \in m_activeModifiers : a[2] = button}
    IN  IF button = Null
        THEN UNCHANGED <<pressed, m_syntheticKeys, m_serverKeys, m_activeModifiers, m_mask, typed>>
        ELSE /\ m_syntheticKeys' = [m_syntheticKeys EXCEPT ![button] = @ - 1]
             /\ m_serverKeys' = [m_serverKeys EXCEPT ![key] = Null]
             /\ m_activeModifiers' = m_activeModifiers \ gone
             /\ m_mask' = m_mask \ ModsOf(gone)
             /\ pressed' = pressed \ {button}
             /\ UNCHANGED typed

FakeKeyUp(key) ==
    LET button == m_serverKeys[key]
        left == {a \in m_activeModifiers : a[2] # button}
    IN  IF button = Null
        THEN UNCHANGED <<pressed, m_syntheticKeys, m_serverKeys, m_activeModifiers, m_mask, typed>>
        ELSE /\ m_syntheticKeys' = [m_syntheticKeys EXCEPT ![button] = @ - 1]
             /\ m_serverKeys' = [m_serverKeys EXCEPT ![key] = Null]
             /\ m_activeModifiers' = left
             /\ m_mask' = m_mask \ (ModsOf(m_activeModifiers \ left) \ ModsOf(left))
             /\ pressed' = pressed \ {button}
             /\ UNCHANGED typed

FakeAllKeysUp ==
    /\ pressed' = pressed \ {b \in Buttons : m_syntheticKeys[b] > 0}
    /\ m_syntheticKeys' = [b \in Buttons |-> 0]
    /\ m_serverKeys' = [k \in Keys |-> Null]
    /\ m_activeModifiers' = {}
    /\ m_mask' = PollActiveModifiers(pressed')

----------------------------------------------------------------------------
\* The server's keyboard.  A key that goes down or repeats while the cursor is
\* on the client is sent with the modifiers that are down at the server, and
\* its id is what it means with them there.
ServerMask == UNION {Modifier[k] : k \in held}
IdOf(key) == KeyId[key]["Shift" \in ServerMask]

\* A key goes down, or its auto-repeat is reported as another key down.
KeyDown(key) ==
    /\ entered
    /\ FakeKeyDown(key, IdOf(key), ServerMask)
    /\ held' = held \cup {key}
    /\ UNCHANGED entered

KeyRepeat(key) ==
    /\ entered /\ key \in held
    /\ FakeKeyRepeat(key, IdOf(key), ServerMask)
    /\ UNCHANGED <<held, entered>>

KeyUp(key) ==
    /\ entered /\ key \in held
    /\ FakeKeyUp(key)
    /\ held' = held \ {key}
    /\ UNCHANGED entered

\* Keys that go down and up while the cursor is elsewhere are not sent.
TypeElsewhere(key) ==
    /\ ~entered
    /\ held' \in {held \cup {key}, held \ {key}}
    /\ UNCHANGED <<entered, pressed, m_syntheticKeys, m_serverKeys, m_activeModifiers, m_mask, typed>>

\* Screen::enterSecondary does nothing about the keys; leaveSecondary releases them.
Enter ==
    /\ ~entered
    /\ entered' = TRUE
    /\ UNCHANGED <<held, pressed, m_syntheticKeys, m_serverKeys, m_activeModifiers, m_mask, typed>>

Leave ==
    /\ entered
    /\ FakeAllKeysUp
    /\ entered' = FALSE
    /\ UNCHANGED <<held, typed>>

\* The layout of the client is reported as changed: updateKeyState forgets
\* everything and asks the operating system.
UpdateKeyState ==
    /\ RemapsHeld \/ pressed = {}
    /\ m_syntheticKeys' = [b \in Buttons |-> 0]
    /\ m_serverKeys' = [k \in Keys |-> Null]
    /\ m_mask' = PollActiveModifiers(pressed)
    /\ m_activeModifiers' = UNION {{m} \X {item.button : item \in Range(m_modifierKeys[m])} : m \in m_mask'}
    /\ UNCHANGED <<held, entered, pressed, typed>>

Init ==
    /\ held = {} /\ entered = FALSE /\ pressed = {}
    /\ m_syntheticKeys = [b \in Buttons |-> 0]
    /\ m_serverKeys = [k \in Keys |-> Null]
    /\ m_activeModifiers = {} /\ m_mask = {} /\ typed = Null

Next ==
    \/ \E key \in Keys : KeyDown(key) \/ KeyRepeat(key) \/ KeyUp(key) \/ TypeElsewhere(key)
    \/ Enter \/ Leave \/ UpdateKeyState

Spec == Init /\ [][Next]_vars

----------------------------------------------------------------------------
\* A button that is down at the client is down for a key that is down at the
\* server: no release is lost, whichever layout, modifier or screen changed
\* while the key was held (KeyState::fakeKeyUp, fakeAllKeysUp).
NothingStuck ==
    \A b \in pressed : entered /\ \E key \in held : m_serverKeys[key] = b

\* What KeyState believes about the modifiers is what the operating system
\* sees: the mask by which characters are mapped and the buttons it would
\* release are never stale (KeyState::m_mask, m_activeModifiers).
ModifiersAgree ==
    /\ m_mask = PollActiveModifiers(pressed)
    /\ ButtonsOf(m_activeModifiers) = {b \in pressed : PollActiveModifiers({b}) # {}}

\* A key types what the server asked for: a character's button goes down with
\* the modifiers the character needs here, a command's with the modifiers that
\* are down at the server (KeyMap::mapKey).
TypedAsAsked ==
    typed # Null =>
        IF IsCommand(typed.id, typed.mask) THEN typed.mods = typed.mask
        ELSE \E item \in Range(Layout[typed.id]) :
                /\ item.button = typed.button
                /\ typed.mods \cap item.sensitive = item.required

----------------------------------------------------------------------------
\* What the proofs suppose of a pair of keyboards.

\* The items that a key of the server may be mapped to.
ItemsOf(key) ==
    UNION {Range(Layout[id]) : id \in {KeyId[key][s] : s \in BOOLEAN} \cap DOMAIN Layout}

\* A key that types a modifier here types that one with and without Shift.
SteadyModifiers ==
    \A key \in Keys : \A i, j \in ItemsOf(key) : i.generates # {} => j.button = i.button

\* Two keys never type the same modifier button.
OwnModifiers ==
    \A k, l \in Keys : k # l =>
      \A i \in ItemsOf(k), j \in ItemsOf(l) : i.button = j.button => i.generates = {}
=============================================================================
