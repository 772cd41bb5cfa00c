-------------------------- MODULE ClipboardDelivery --------------------------
(***************************************************************************)
(* What a clipboard transfer promises the screen that receives it          *)
(* (src/src/lib/deskflow/StreamChunker.h: "a newer clipboard cancels the   *)
(* previous sender so their chunks cannot interleave"): each clipboard     *)
(* takes one whole content after the other, made for that clipboard, and   *)
(* never an older one after a newer one.                                   *)
(***************************************************************************)
EXTENDS Naturals, Sequences

CONSTANT Ids

VARIABLES
    made,      \* the clipboard each content was made for, oldest first
    got        \* clipboard -> the last content received, 0 at first

Init == made = <<>> /\ got = [id \in Ids |-> 0]

Make(id) ==
    /\ made' = Append(made, id)
    /\ UNCHANGED got

Deliver(id) ==
    /\ \E c \in 1 .. Len(made) : /\ made[c] = id /\ c >= got[id]
                                 /\ got' = [got EXCEPT ![id] = c]
    /\ UNCHANGED made

Next == \E id \in Ids : Make(id) \/ Deliver(id)

Spec == Init /\ [][Next]_<<made, got>>
=============================================================================
