------------------------------- MODULE Queues -------------------------------
(***************************************************************************)
(* What several parts of the program do to a queue or a list: take out of  *)
(* it every entry that is not wanted any more, in one pass from the front. *)
(***************************************************************************)
EXTENDS Naturals, Sequences

\* The entries of s that are in K, in their order.
Kept(s, K) ==
    LET kept[n \in 0 .. Len(s)] ==
            IF n = 0 THEN <<>>
            ELSE IF s[n] \in K THEN Append(kept[n - 1], s[n]) ELSE kept[n - 1]
    IN  kept[Len(s)]
=============================================================================
