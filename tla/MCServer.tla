------------------------------ MODULE MCServer ------------------------------
(* Small instances of Server: three names, of which "laptop" and "tablet"  *)
(* lie side by side beyond the right edge of the primary screen "desk".    *)
EXTENDS Server, TLC

MCRank == "desk" :> 0 @@ "laptop" :> 1 @@ "tablet" :> 2
MCDirections == {"Left", "Right"}
ClientSymmetry == Permutations(Clients)

\* The links between the screens of a configuration: an edge part with no
\* screen behind it has NoName.
Layout(present) ==
    [s \in Screens |-> [d \in Directions |->
        CASE s = "desk" /\ d = "Right" -> (present \ {"desk"}) \cup {NoName}
          [] s # "desk" /\ d = "Left" /\ s \in present -> {"desk"}
          [] s = "laptop" /\ d = "Right" /\ "tablet" \in present -> {"tablet"}
          [] OTHER -> {NoName}]]

Plain(present) ==
    [canonical |-> [s \in Screens |-> IF s \in present THEN s ELSE NoName],
     link |-> Layout(present)]

AllThree == Plain(Screens)
NoTablet == Plain({"desk", "laptop"})
DeskOnly == Plain({"desk"})
DeskMissing == Plain({"laptop", "tablet"})

\* "tablet" is an alias of the screen "laptop".
Aliased == [NoTablet EXCEPT !.canonical["tablet"] = "laptop"]

Stable == {}
Dropping == {AllThree, NoTablet, DeskMissing}
Renaming == {Aliased, DeskOnly}
LosingDesk == {AllThree, DeskMissing}
=============================================================================
