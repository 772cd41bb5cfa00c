---------------------------- MODULE MCClipboard ----------------------------
(* Small instances of Clipboard: two clients, which are interchangeable.   *)
EXTENDS Clipboard, TLC

ClientSymmetry == Permutations(Clients)

\* Bound: a broken connection takes the place of a copy and of a switch.
DropsReplace == drops + copies <= MaxCopies /\ drops + m_seqNum <= MaxSwitches
\* Bound: no more than three messages or events wait in one queue.
ShortQueues == /\ Len(events) <= 3
               /\ \A c \in Clients : Len(up[c]) <= 3 /\ Len(down[c]) <= 3
=============================================================================
