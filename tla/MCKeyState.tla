----------------------------- MODULE MCKeyState -----------------------------
(***************************************************************************)
(* A server with a French layout, where the digit 1 is shifted and the     *)
(* ampersand is not, and a client with an American one, where it is the    *)
(* other way round and on two buttons.  The server's keypad 1 is the       *)
(* client's button of the digit, so two keys may hold one button.          *)
(***************************************************************************)
EXTENDS KeyState

Item(button, required, sensitive, generates) ==
    [button |-> button, required |-> required, sensitive |-> sensitive, generates |-> generates]

ShiftL == Item(50, {}, {}, {"Shift"})
ShiftR == Item(62, {}, {}, {"Shift"})
Ctrl == Item(37, {}, {}, {"Ctrl"})

ServerKeys == {"shift_l", "shift_r", "ctrl", "k1", "kp1", "ka"}
Both(id) == [b \in BOOLEAN |-> id]
FrenchKeys == [shift_l |-> Both("Shift_L"), shift_r |-> Both("Shift_R"), ctrl |-> Both("Ctrl_L"),
               k1 |-> [b \in BOOLEAN |-> IF b THEN "one" ELSE "ampersand"],
               kp1 |-> Both("one"),
               ka |-> [b \in BOOLEAN |-> IF b THEN "A" ELSE "a"]]
FrenchModifier == [shift_l |-> {"Shift"}, shift_r |-> {"Shift"}, ctrl |-> {"Ctrl"},
                   k1 |-> {}, kp1 |-> {}, ka |-> {}]
ShiftCtrl == <<"Shift", "Ctrl">>
AmericanLayout ==
    [Shift_L |-> <<ShiftL>>, Shift_R |-> <<ShiftR>>, Ctrl_L |-> <<Ctrl>>,
     one |-> <<Item(10, {}, {"Shift"}, {})>>, ampersand |-> <<Item(16, {"Shift"}, {"Shift"}, {})>>,
     a |-> <<Item(38, {}, {"Shift"}, {})>>, A |-> <<Item(38, {"Shift"}, {"Shift"}, {})>>]
AmericanModifiers == [Shift |-> <<ShiftL, ShiftR>>, Ctrl |-> <<Ctrl>>]

\* What the theorems about the properties suppose holds of these keyboards.
ASSUME TypicalKeyboards == SteadyModifiers /\ OwnModifiers
=============================================================================
