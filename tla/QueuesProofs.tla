---------------------------- MODULE QueuesProofs ----------------------------
(***************************************************************************)
(* Facts about queues that the proofs of the components share, and what    *)
(* Kept leaves of a list, by induction over the list.                      *)
(***************************************************************************)
EXTENDS Queues, Integers, FiniteSets, FiniteSetTheorems, SequenceTheorems,
        WellFoundedInduction, TLAPS

-----------------------------------------------------------------------------
(* The ends of a queue *)

\* A queue that is not empty: its head, and where its entries are in its tail.
LEMMA HeadTail ==
  ASSUME NEW S, NEW s \in Seq(S), s # <<>>
  PROVE  /\ Head(s) = s[1] /\ Head(s) \in S /\ 1 \in DOMAIN s
         /\ Tail(s) \in Seq(S) /\ Len(Tail(s)) = Len(s) - 1
         /\ \A i \in DOMAIN Tail(s) : i + 1 \in DOMAIN s /\ Tail(s)[i] = s[i + 1]
         /\ \A i \in DOMAIN s : i # 1 => i - 1 \in DOMAIN Tail(s) /\ Tail(s)[i - 1] = s[i]
<1>1. Len(s) \in Nat \ {0} /\ DOMAIN s = 1 .. Len(s)
  BY EmptySeq, LenProperties
<1>2. /\ Head(s) \in S /\ Tail(s) \in Seq(S) /\ Len(Tail(s)) = Len(s) - 1
      /\ \A i \in 1 .. Len(Tail(s)) : Tail(s)[i] = s[i + 1]
  BY HeadTailProperties
<1>3. DOMAIN Tail(s) = 1 .. Len(s) - 1
  BY <1>1, <1>2, LenProperties
<1>4. Head(s) = s[1]
  BY <1>1
<1> QED BY <1>1, <1>2, <1>3, <1>4

\* A queue with one more entry.
LEMMA AppendOne ==
  ASSUME NEW S, NEW s \in Seq(S), NEW e \in S
  PROVE  /\ Append(s, e) \in Seq(S) /\ Len(Append(s, e)) = Len(s) + 1
         /\ Append(s, e)[Len(s) + 1] = e /\ Len(s) + 1 \in DOMAIN Append(s, e)
         /\ \A i \in DOMAIN s : i \in DOMAIN Append(s, e) /\ Append(s, e)[i] = s[i]
         /\ \A i \in DOMAIN Append(s, e) : i = Len(s) + 1 \/ i \in DOMAIN s
         /\ s \o <<e>> = Append(s, e) /\ s \o <<>> = s
<1>1. Len(s) \in Nat /\ DOMAIN s = 1 .. Len(s)
  BY LenProperties
<1>2. /\ Append(s, e) \in Seq(S) /\ Len(Append(s, e)) = Len(s) + 1
      /\ \A i \in 1 .. Len(s) + 1 :
             Append(s, e)[i] = IF i <= Len(s) THEN s[i] ELSE e
  BY <1>1
<1>3. DOMAIN Append(s, e) = 1 .. Len(s) + 1
  BY <1>2, LenProperties
<1>4. s \o <<>> = s
  BY ConcatEmptySeq
<1>5. s \o <<e>> = Append(s, e)
  OBVIOUS
<1> QED BY <1>1, <1>2, <1>3, <1>4, <1>5

\* An entry more at the end of two queues one after the other.
AppendsToLast(s, t, e) == Append(s \o t, e) = s \o Append(t, e)

LEMMA ConcatAppend ==
  ASSUME NEW S, NEW s \in Seq(S), NEW t \in Seq(S), NEW e \in S
  PROVE  AppendsToLast(s, t, e)
<1> DEFINE u == <<e>>
<1>1. u \in Seq(S)
  OBVIOUS
<1>2. t \o u = Append(t, e)
  BY AppendOne
<1>3. (s \o t) \in Seq(S)
  BY ConcatProperties
<1>4. (s \o t) \o u = Append(s \o t, e)
  BY <1>3, AppendOne
<1> HIDE DEF u
<1>5. (s \o t) \o u = s \o (t \o u)
  BY <1>1, ConcatAssociative
<1> QED BY <1>2, <1>4, <1>5 DEF AppendsToLast

-----------------------------------------------------------------------------
(* Counting the entries of a kind *)

\* The places of a queue are finitely many.
LEMMA PlacesFinite ==
  ASSUME NEW S, NEW s \in Seq(S), NEW P \in SUBSET DOMAIN s
  PROVE  IsFiniteSet(P) /\ Cardinality(P) \in Nat
<1>1. DOMAIN s = 1 .. Len(s) /\ Len(s) \in Nat
  BY LenProperties
<1>2. IsFiniteSet(DOMAIN s)
  BY <1>1, FS_Interval
<1> QED BY <1>2, FS_Subset, FS_CardinalityType

Places(s, K) == {i \in DOMAIN s : s[i] \in K}

\* An entry of the kind makes one more, any other entry does not count.
LEMMA CountAppend ==
  ASSUME NEW S, NEW s \in Seq(S), NEW e \in S, NEW K
  PROVE  Cardinality(Places(Append(s, e), K)) =
             Cardinality(Places(s, K)) + (IF e \in K THEN 1 ELSE 0)
<1>1. IsFiniteSet(Places(s, K)) /\ Cardinality(Places(s, K)) \in Nat
  BY PlacesFinite DEF Places
<1>2. Len(s) + 1 \notin Places(s, K)
  BY LenProperties DEF Places
<1>3. CASE e \in K
  <2>1. Places(Append(s, e), K) = Places(s, K) \cup {Len(s) + 1}
    BY <1>3, AppendOne DEF Places
  <2> QED BY <2>1, <1>1, <1>2, <1>3, FS_AddElement
<1>4. CASE e \notin K
  <2>1. Places(Append(s, e), K) = Places(s, K)
    BY <1>4, AppendOne DEF Places
  <2> QED BY <2>1, <1>1, <1>4
<1> QED BY <1>3, <1>4

\* Taking the head takes one away if it is of the kind, and none otherwise.
LEMMA CountTail ==
  ASSUME NEW S, NEW s \in Seq(S), s # <<>>, NEW K
  PROVE  Cardinality(Places(s, K)) =
             Cardinality(Places(Tail(s), K)) + (IF Head(s) \in K THEN 1 ELSE 0)
<1> DEFINE rest == Places(Tail(s), K)
           moved == Places(s, K) \ {1}
           f == [i \in rest |-> i + 1]
<1>1. /\ IsFiniteSet(rest) /\ Cardinality(rest) \in Nat
      /\ IsFiniteSet(Places(s, K)) /\ Cardinality(Places(s, K)) \in Nat
      /\ rest \subseteq Nat
  BY HeadTail, PlacesFinite, LenProperties DEF Places
<1>2. f \in [rest -> moved]
  BY HeadTail, LenProperties DEF Places
<1>3. \A i, j \in rest : f[i] = f[j] => i = j
  BY <1>1
<1>4. \A j \in moved : \E i \in rest : f[i] = j
  <2> TAKE j \in moved
  <2>1. j \in DOMAIN s /\ s[j] \in K /\ j # 1 /\ j \in Nat
    BY LenProperties DEF Places
  <2>2. j - 1 \in rest
    BY <2>1, HeadTail DEF Places
  <2> QED BY <2>1, <2>2
<1>5. f \in Bijection(rest, moved)
  BY <1>2, <1>3, <1>4 DEF Bijection, Injection, Surjection, IsInjective
<1>6. Cardinality(moved) = Cardinality(rest)
  BY <1>1, <1>5, FS_Bijection DEF ExistsBijection
<1>7. 1 \in Places(s, K) <=> Head(s) \in K
  BY HeadTail DEF Places
<1>8. Cardinality(moved) = IF 1 \in Places(s, K) THEN Cardinality(Places(s, K)) - 1
                           ELSE Cardinality(Places(s, K))
  BY <1>1, FS_RemoveElement
<1> HIDE DEF moved, rest
<1> QED BY <1>1, <1>6, <1>7, <1>8 DEF rest
-----------------------------------------------------------------------------
(* Induction *)

\* A set of natural numbers that is not empty has a least element.
LEMMA Least ==
  ASSUME NEW T, T \subseteq Nat, T # {}
  PROVE  \E x \in T : \A y \in T : x <= y
<1> DEFINE Less == {p \in Nat \X Nat : p[1] < p[2]}
<1>1. OpToRel(<, Nat) = Less
  BY Zenon DEF OpToRel
<1>2. IsWellFoundedOn(Less, Nat)
  BY <1>1, NatLessThanWellFounded, Zenon
<1> HIDE DEF Less
<1>3. PICK x \in T : \A y \in T : ~ (<<y, x>> \in Less)
  BY <1>2, WFMin
<1>4. ASSUME NEW y \in T, y < x PROVE FALSE
  <2>1. <<y, x>> \in Nat \X Nat /\ <<y, x>>[1] < <<y, x>>[2]
    BY <1>4
  <2>2. <<y, x>> \in Less
    BY <2>1, Zenon DEF Less
  <2> QED BY <2>2, <1>3
<1> QED BY <1>4

\* Induction, for a property given by the set of the numbers that have it.
LEMMA SetInduction ==
  ASSUME NEW T, 0 \in T, \A n \in Nat : n \in T => n + 1 \in T
  PROVE  Nat \subseteq T
<1> SUFFICES ASSUME Nat \ T # {} PROVE FALSE
  OBVIOUS
<1>1. PICK x \in Nat \ T : \A y \in Nat \ T : x <= y
  BY Least
<1>2. x # 0 /\ x - 1 \in Nat
  BY <1>1
<1>3. x - 1 \in T
  BY <1>1, <1>2
<1> QED BY <1>1, <1>2, <1>3

-----------------------------------------------------------------------------
(* Loops: a function that gives the state after each pass of a loop        *)

\* What holds before the loop and is kept by each pass holds after it.
LEMMA LoopInvariant ==
  ASSUME NEW S, NEW N \in Nat, NEW f, f[0] \in S,
         \A n \in 1 .. N : f[n - 1] \in S => f[n] \in S
  PROVE  \A n \in 0 .. N : f[n] \in S
<1> DEFINE T == {n \in Nat : n <= N => f[n] \in S}
<1>1. 0 \in T
  OBVIOUS
<1>2. ASSUME NEW n \in Nat, n \in T PROVE n + 1 \in T
  <2> SUFFICES ASSUME n + 1 <= N PROVE f[n + 1] \in S
    OBVIOUS
  <2>1. n <= N /\ n + 1 \in 1 .. N /\ (n + 1) - 1 = n
    OBVIOUS
  <2> QED BY <1>2, <2>1
<1> HIDE DEF T
<1>3. Nat \subseteq T
  BY <1>1, <1>2, SetInduction
<1> QED BY <1>3 DEF T

\* The loop of k passes from a, where pass n takes x to pass[n, x].
IsLoop(f, S, a, k, pass) ==
  /\ f \in [0 .. k -> S] /\ f[0] = a
  /\ \A n \in 1 .. k : f[n] = pass[<<n, f[n - 1]>>]

LEMMA LoopExists ==
  ASSUME NEW S, NEW a \in S, NEW N \in Nat, NEW pass \in [(1 .. N) \X S -> S]
  PROVE  \E f : IsLoop(f, S, a, N, pass)
<1> DEFINE Upto(k, f) == /\ f \in [0 .. k -> S] /\ f[0] = a
                         /\ \A n \in 1 .. k : f[n] = pass[<<n, f[n - 1]>>]
           T == {k \in Nat : k <= N => \E f : Upto(k, f)}
<1>1. 0 \in T
  <2>1. Upto(0, [i \in 0 .. 0 |-> a])
    OBVIOUS
  <2> QED BY <2>1
<1>2. ASSUME NEW k \in Nat, k \in T PROVE k + 1 \in T
  <2> SUFFICES ASSUME k + 1 <= N PROVE \E f : Upto(k + 1, f)
    OBVIOUS
  <2>1. PICK f : Upto(k, f)
    BY <1>2
  <2> DEFINE next == pass[<<k + 1, f[k]>>]
             g == [i \in 0 .. k + 1 |-> IF i <= k THEN f[i] ELSE next]
  <2>2. f[k] \in S /\ k + 1 \in 1 .. N
    BY <2>1
  <2>3. next \in S
    <3>1. <<k + 1, f[k]>> \in (1 .. N) \X S
      BY <2>2
    <3> QED BY <3>1
  <2> HIDE DEF next
  <2>4. g \in [0 .. k + 1 -> S] /\ g[0] = a
    BY <2>1, <2>3
  <2>5. ASSUME NEW n \in 1 .. k + 1 PROVE g[n] = pass[<<n, g[n - 1]>>]
    <3>1. CASE n = k + 1
      <4>1. g[n] = next /\ g[n - 1] = f[k]
        BY <3>1
      <4> HIDE DEF g
      <4> QED BY <3>1, <4>1 DEF next
    <3>2. CASE n # k + 1
      <4>1. n \in 1 .. k /\ n \in 0 .. k + 1 /\ n - 1 \in 0 .. k + 1 /\ n <= k /\ n - 1 <= k
        BY <3>2
      <4>2. g[n] = f[n] /\ g[n - 1] = f[n - 1]
        BY <4>1
      <4> HIDE DEF g
      <4> QED BY <4>1, <4>2, <2>1
    <3> QED BY <3>1, <3>2
  <2> HIDE DEF g
  <2> QED BY <2>4, <2>5
<1> HIDE DEF T
<1>3. Nat \subseteq T
  BY <1>1, <1>2, SetInduction
<1>4. N \in T /\ N <= N
  BY <1>3
<1> QED BY <1>4 DEF T, IsLoop

-----------------------------------------------------------------------------
(* Kept *)

KeptUpTo(s, K, n, f) ==
  f = [i \in 0 .. n |-> IF i = 0 THEN <<>>
                        ELSE IF s[i] \in K THEN Append(f[i - 1], s[i]) ELSE f[i - 1]]

\* The recursion of Kept has a solution for every beginning of the list.
LEMMA KeptExists ==
  ASSUME NEW S, NEW s \in Seq(S), NEW K
  PROVE  \A n \in Nat : n <= Len(s) => \E f : KeptUpTo(s, K, n, f) /\ f \in [0..n -> Seq(S)]
<1> DEFINE T == {n \in Nat : n <= Len(s) => \E f : KeptUpTo(s, K, n, f) /\ f \in [0..n -> Seq(S)]}
<1>1. 0 \in T
  <2>1. KeptUpTo(s, K, 0, [i \in 0..0 |-> <<>>]) /\ [i \in 0..0 |-> <<>>] \in [0..0 -> Seq(S)]
    BY DEF KeptUpTo
  <2> QED BY <2>1
<1>2. ASSUME NEW n \in Nat, n \in T PROVE n + 1 \in T
  <2> SUFFICES ASSUME n + 1 <= Len(s) PROVE \E f : KeptUpTo(s, K, n+1, f) /\ f \in [0..n+1 -> Seq(S)]
    OBVIOUS
  <2>1. PICK f : KeptUpTo(s, K, n, f) /\ f \in [0..n -> Seq(S)]
    BY <1>2
  <2> DEFINE next == IF s[n + 1] \in K THEN Append(f[n], s[n+1]) ELSE f[n]
             g == [i \in 0 .. n + 1 |-> IF i <= n THEN f[i] ELSE next]
  <2>2. s[n+1] \in S /\ f[n] \in Seq(S)
    BY <2>1
  <2>3. next \in Seq(S)
    BY <2>2
  <2>4. g \in [0..n+1 -> Seq(S)]
    BY <2>1, <2>3
  <2>5. g = [i \in 0 .. n+1 |-> IF i = 0 THEN <<>>
                        ELSE IF s[i] \in K THEN Append(g[i - 1], s[i]) ELSE g[i - 1]]
    <3>1. \A i \in 0 .. n : f[i] = IF i = 0 THEN <<>>
                        ELSE IF s[i] \in K THEN Append(f[i - 1], s[i]) ELSE f[i - 1]
      BY <2>1 DEF KeptUpTo
    <3>2. ASSUME NEW i \in 0..n+1 PROVE g[i] = IF i = 0 THEN <<>>
                        ELSE IF s[i] \in K THEN Append(g[i - 1], s[i]) ELSE g[i - 1]
       <4>1. CASE i = n + 1
         <5>1. g[i - 1] = f[n]
           BY <4>1
         <5> QED BY <4>1, <5>1
       <4>2. CASE i # n + 1 /\ i # 0
         <5>1. i \in 0..n /\ i - 1 \in 0..n /\ i - 1 <= n /\ i <= n
           BY <4>2
         <5>2. g[i] = f[i] /\ g[i-1] = f[i-1]
           BY <5>1
         <5> HIDE DEF g
         <5> QED BY <5>1, <5>2, <3>1, <4>2
       <4>3. CASE i = 0
         BY <4>3, <3>1
       <4> QED BY <4>1, <4>2, <4>3
    <3> HIDE DEF g
    <3> QED BY <3>2, <2>4
  <2> HIDE DEF g
  <2> QED BY <2>4, <2>5 DEF KeptUpTo
<1> HIDE DEF T
<1>3. Nat \subseteq T
  BY <1>1, <1>2, SetInduction
<1> QED BY <1>3 DEF T
\* What a solution is at each place.
LEMMA KeptSteps ==
  ASSUME NEW s, NEW K, NEW n \in Nat, NEW f, KeptUpTo(s, K, n, f)
  PROVE  /\ f[0] = <<>> /\ DOMAIN f = 0 .. n
         /\ \A i \in 1 .. n : f[i] = IF s[i] \in K THEN Append(f[i - 1], s[i]) ELSE f[i - 1]
<1>1. \A i \in 0 .. n : f[i] = IF i = 0 THEN <<>>
                              ELSE IF s[i] \in K THEN Append(f[i - 1], s[i]) ELSE f[i - 1]
  BY DEF KeptUpTo
<1>2. DOMAIN f = 0 .. n
  BY DEF KeptUpTo
<1>3. 0 \in 0 .. n /\ \A i \in 1 .. n : i \in 0 .. n /\ i # 0
  OBVIOUS
<1> QED BY <1>1, <1>2, <1>3, Zenon

\* f goes through the list s, and gives what is kept of each beginning of it.
KeptWalk(S, s, K, f) ==
  /\ f \in [0 .. Len(s) -> Seq(S)]
  /\ f[0] = <<>> /\ Kept(s, K) = f[Len(s)]
  /\ \A i \in 1 .. Len(s) :
         f[i] = IF s[i] \in K THEN Append(f[i - 1], s[i]) ELSE f[i - 1]

\* Kept is the last value of a function that goes through the list.
LEMMA KeptByPass ==
  ASSUME NEW S, NEW s \in Seq(S), NEW K
  PROVE  \E f : KeptWalk(S, s, K, f)
<1> DEFINE n == Len(s)
           Body(f) == [i \in 0 .. n |-> IF i = 0 THEN <<>>
                                     ELSE IF s[i] \in K THEN Append(f[i - 1], s[i]) ELSE f[i - 1]]
           kept == CHOOSE f : f = Body(f)
<1>1. n \in Nat
  BY LenProperties
<1>2. \E f : f = Body(f)
  <2>1. n <= Len(s)
    BY <1>1
  <2>2. \E f : KeptUpTo(s, K, n, f)
    BY <1>1, <2>1, KeptExists
  <2> QED BY <2>2 DEF KeptUpTo
<1>3. KeptUpTo(s, K, n, kept)
  <2>1. kept = Body(kept)
    BY <1>2
  <2> QED BY <2>1 DEF KeptUpTo
<1>4. Kept(s, K) = kept[n]
  BY DEF Kept
<1> HIDE DEF kept, n, Body
<1>5. /\ kept[0] = <<>>
      /\ \A i \in 1 .. n :
             kept[i] = IF s[i] \in K THEN Append(kept[i - 1], s[i]) ELSE kept[i - 1]
      /\ DOMAIN kept = 0 .. n
  BY <1>1, <1>3, KeptSteps
<1> DEFINE T == {i \in Nat : i <= n => kept[i] \in Seq(S)}
<1>6. 0 \in T
  BY <1>5, EmptySeq
<1>7. ASSUME NEW i \in Nat, i \in T PROVE i + 1 \in T
  <2> SUFFICES ASSUME i + 1 <= n PROVE kept[i + 1] \in Seq(S)
    OBVIOUS
  <2>1. kept[i] \in Seq(S) /\ s[i + 1] \in S /\ i + 1 \in 1 .. n
    BY <1>1, <1>7 DEF T, n
  <2>2. kept[i + 1] = IF s[i + 1] \in K THEN Append(kept[i], s[i + 1]) ELSE kept[i]
    BY <2>1, <1>5
  <2> QED BY <2>1, <2>2
<1> HIDE DEF T
<1>8. Nat \subseteq T
  BY <1>6, <1>7, SetInduction
<1>9. \A i \in 0 .. n : kept[i] \in Seq(S)
  BY <1>8, <1>1 DEF T
<1>10. kept \in [0 .. n -> Seq(S)]
  BY <1>3, <1>9 DEF KeptUpTo
<1>11. KeptWalk(S, s, K, kept)
  BY <1>4, <1>5, <1>10 DEF n, KeptWalk
<1> QED BY <1>11

\* What is kept of a list is a list of the same kind of entries.
LEMMA KeptType ==
  ASSUME NEW S, NEW s \in Seq(S), NEW K
  PROVE  Kept(s, K) \in Seq(S)
<1>1. Len(s) \in 0 .. Len(s)
  BY LenProperties
<1>2. PICK f : KeptWalk(S, s, K, f)
  BY KeptByPass
<1> QED BY <1>1, <1>2 DEF KeptWalk

-----------------------------------------------------------------------------
(* What a queue of messages does to the one who takes them, when R holds   *)
(* the steps <<before, message, after>>: it leads from p to q.             *)

Leads(R, s, p, q) ==
  \E f : /\ DOMAIN f = 0 .. Len(s) /\ f[0] = p /\ f[Len(s)] = q
         /\ \A i \in 1 .. Len(s) : <<f[i - 1], s[i], f[i]>> \in R

LEMMA LeadsEmpty ==
  ASSUME NEW R, NEW p
  PROVE  /\ Leads(R, <<>>, p, p)
         /\ \A q : Leads(R, <<>>, p, q) => q = p
<1>1. Leads(R, <<>>, p, p)
  <2> DEFINE f == [i \in 0 .. 0 |-> p]
  <2>1. DOMAIN f = 0 .. 0 /\ f[0] = p /\ \A i \in 1 .. 0 : FALSE
    OBVIOUS
  <2> QED BY <2>1 DEF Leads
<1>2. \A q : Leads(R, <<>>, p, q) => q = p
  BY DEF Leads
<1> QED BY <1>1, <1>2

LEMMA LeadsOne ==
  ASSUME NEW R, NEW p, NEW m, NEW q, <<p, m, q>> \in R
  PROVE  Leads(R, <<m>>, p, q)
<1> DEFINE f == [i \in 0 .. 1 |-> IF i = 0 THEN p ELSE q]
<1>1. DOMAIN f = 0 .. 1 /\ f[0] = p /\ f[1] = q
  OBVIOUS
<1>2. Len(<<m>>) = 1 /\ <<m>>[1] = m
  OBVIOUS
<1> HIDE DEF f
<1>3. \A i \in 1 .. 1 : i = 1 /\ i - 1 = 0
  OBVIOUS
<1>4. \A i \in 1 .. 1 : <<f[i - 1], <<m>>[i], f[i]>> \in R
  BY <1>1, <1>2, <1>3
<1> QED BY <1>1, <1>2, <1>4 DEF Leads

\* With more steps allowed it still leads there.
LEMMA LeadsMore ==
  ASSUME NEW R, NEW R2, R \subseteq R2, NEW s, NEW p, NEW q, Leads(R, s, p, q)
  PROVE  Leads(R2, s, p, q)
BY DEF Leads

\* The first message is a step, and the others lead on from it.
LEMMA LeadsHead ==
  ASSUME NEW S, NEW s \in Seq(S), s # <<>>, NEW R, NEW p, NEW q, Leads(R, s, p, q)
  PROVE  \E x : <<p, Head(s), x>> \in R /\ Leads(R, Tail(s), x, q)
<1>1. PICK f : /\ DOMAIN f = 0 .. Len(s) /\ f[0] = p /\ f[Len(s)] = q
               /\ \A i \in 1 .. Len(s) : <<f[i - 1], s[i], f[i]>> \in R
  BY DEF Leads
<1> DEFINE g == [i \in 0 .. Len(s) - 1 |-> f[i + 1]]
<1>2. /\ Len(s) \in Nat \ {0} /\ Len(Tail(s)) = Len(s) - 1 /\ Head(s) = s[1]
      /\ \A i \in 1 .. Len(s) - 1 : Tail(s)[i] = s[i + 1]
  BY EmptySeq, LenProperties, HeadTailProperties, HeadTail
<1>3. DOMAIN g = 0 .. Len(s) - 1 /\ \A i \in 0 .. Len(s) - 1 : g[i] = f[i + 1]
  OBVIOUS
<1> HIDE DEF g
<1>4. <<p, Head(s), g[0]>> \in R
  <2>1. 1 \in 1 .. Len(s) /\ 1 - 1 = 0 /\ 0 + 1 = 1 /\ 0 \in 0 .. Len(s) - 1
    BY <1>2
  <2>2. g[0] = f[1] /\ <<f[0], s[1], f[1]>> \in R
    BY <2>1, <1>1, <1>3
  <2> QED BY <2>2, <1>1, <1>2
<1>5. g[Len(s) - 1] = q
  BY <1>1, <1>2, <1>3
<1>6. ASSUME NEW i \in 1 .. Len(s) - 1 PROVE <<g[i - 1], Tail(s)[i], g[i]>> \in R
  <2>1. /\ i + 1 \in 1 .. Len(s) /\ i - 1 \in 0 .. Len(s) - 1 /\ i \in 0 .. Len(s) - 1
        /\ (i - 1) + 1 = i /\ (i + 1) - 1 = i
    BY <1>2
  <2>2. <<f[i], s[i + 1], f[i + 1]>> \in R
    BY <2>1, <1>1
  <2> QED BY <2>1, <2>2, <1>2, <1>3
<1>7. Leads(R, Tail(s), g[0], q)
  BY <1>2, <1>3, <1>5, <1>6 DEF Leads
<1> QED BY <1>4, <1>7

\* One queue after the other.
LEMMA LeadsConcat ==
  ASSUME NEW S, NEW s \in Seq(S), NEW t \in Seq(S), NEW R, NEW p, NEW x, NEW q,
         Leads(R, s, p, x), Leads(R, t, x, q)
  PROVE  Leads(R, s \o t, p, q)
<1>1. PICK f : /\ DOMAIN f = 0 .. Len(s) /\ f[0] = p /\ f[Len(s)] = x
               /\ \A i \in 1 .. Len(s) : <<f[i - 1], s[i], f[i]>> \in R
  BY DEF Leads
<1>2. PICK g : /\ DOMAIN g = 0 .. Len(t) /\ g[0] = x /\ g[Len(t)] = q
               /\ \A i \in 1 .. Len(t) : <<g[i - 1], t[i], g[i]>> \in R
  BY DEF Leads
<1> DEFINE n == Len(s)  k == Len(t)
           h == [i \in 0 .. n + k |-> IF i <= n THEN f[i] ELSE g[i - n]]
<1>3. /\ n \in Nat /\ k \in Nat /\ Len(s \o t) = n + k
      /\ \A i \in 1 .. n + k : (s \o t)[i] = IF i <= n THEN s[i] ELSE t[i - n]
  BY LenProperties, ConcatProperties
<1> HIDE DEF n, k
<1>4. /\ DOMAIN h = 0 .. n + k
      /\ \A i \in 0 .. n + k : h[i] = IF i <= n THEN f[i] ELSE g[i - n]
  OBVIOUS
<1>5. /\ f[0] = p /\ f[n] = x /\ \A i \in 1 .. n : <<f[i - 1], s[i], f[i]>> \in R
      /\ g[0] = x /\ g[k] = q /\ \A i \in 1 .. k : <<g[i - 1], t[i], g[i]>> \in R
  BY <1>1, <1>2 DEF n, k
<1> HIDE DEF h
<1>6. h[0] = p
  BY <1>3, <1>4, <1>5
<1>7. h[n + k] = q
  <2>1. CASE k = 0
    BY <2>1, <1>3, <1>4, <1>5
  <2>2. CASE k # 0
    <3>1. n + k \in 0 .. n + k /\ ~ (n + k <= n) /\ (n + k) - n = k
      BY <2>2, <1>3
    <3> QED BY <3>1, <1>4, <1>5
  <2> QED BY <2>1, <2>2
<1>8. ASSUME NEW i \in 1 .. n + k PROVE <<h[i - 1], (s \o t)[i], h[i]>> \in R
  <2>1. CASE i <= n
    <3>1. i \in 1 .. n /\ i - 1 <= n /\ i \in 0 .. n + k /\ i - 1 \in 0 .. n + k
      BY <2>1, <1>3
    <3> QED BY <2>1, <3>1, <1>3, <1>4, <1>5
  <2>2. CASE i = n + 1
    <3>1. /\ i - 1 = n /\ i - n = 1 /\ ~ (i <= n) /\ 1 \in 1 .. k /\ 1 - 1 = 0
          /\ i \in 0 .. n + k /\ n \in 0 .. n + k
      BY <2>2, <1>3
    <3>2. h[i - 1] = x /\ h[i] = g[1] /\ (s \o t)[i] = t[1]
      BY <3>1, <1>3, <1>4, <1>5
    <3>3. <<g[0], t[1], g[1]>> \in R
      BY <3>1, <1>5
    <3> QED BY <3>2, <3>3, <1>5
  <2>3. CASE i > n + 1
    <3>1. /\ ~ (i <= n) /\ ~ (i - 1 <= n) /\ i - n \in 1 .. k /\ (i - n) - 1 = (i - 1) - n
          /\ i \in 0 .. n + k /\ i - 1 \in 0 .. n + k
      BY <2>3, <1>3
    <3>2. h[i - 1] = g[(i - n) - 1] /\ h[i] = g[i - n] /\ (s \o t)[i] = t[i - n]
      BY <3>1, <1>3, <1>4
    <3> QED BY <3>1, <3>2, <1>5
  <2>4. i <= n \/ i = n + 1 \/ i > n + 1
    BY <1>3
  <2> QED BY <2>1, <2>2, <2>3, <2>4, Zenon
<1> QED BY <1>3, <1>4, <1>6, <1>7, <1>8 DEF Leads

\* What every message of the queue keeps is so where it leads.
LEMMA LeadsStays ==
  ASSUME NEW S, NEW s \in Seq(S), NEW R, NEW p, NEW q, Leads(R, s, p, q), NEW A, p \in A,
         \A i \in DOMAIN s : \A x, y : <<x, s[i], y>> \in R /\ x \in A => y \in A
  PROVE  q \in A
<1>1. PICK f : /\ DOMAIN f = 0 .. Len(s) /\ f[0] = p /\ f[Len(s)] = q
               /\ \A i \in 1 .. Len(s) : <<f[i - 1], s[i], f[i]>> \in R
  BY DEF Leads
<1>2. Len(s) \in Nat /\ DOMAIN s = 1 .. Len(s)
  BY LenProperties
<1>3. \A n \in 1 .. Len(s) : f[n - 1] \in A => f[n] \in A
  BY <1>1, <1>2
<1>4. \A n \in 0 .. Len(s) : f[n] \in A
  BY <1>1, <1>2, <1>3, LoopInvariant
<1> QED BY <1>1, <1>2, <1>4

\* T relates the places before a message to those after it, kept or not.
Carries(S, K, R, R2, T) ==
  \A m \in S : \A x, y, x2 : <<x, m, y>> \in R /\ <<x, x2>> \in T =>
      IF m \in K THEN \E y2 : <<x2, m, y2>> \in R2 /\ <<y, y2>> \in T
                 ELSE <<y, x2>> \in T

\* What is left of a queue leads on from p2 as the whole queue did from p.
LEMMA KeptLeads ==
  ASSUME NEW S, NEW s \in Seq(S), NEW K, NEW R, NEW R2, NEW T, NEW p, NEW q, NEW p2,
         Leads(R, s, p, q), <<p, p2>> \in T, Carries(S, K, R, R2, T)
  PROVE  \E q2 : Leads(R2, Kept(s, K), p2, q2) /\ <<q, q2>> \in T
<1>1. PICK f : /\ DOMAIN f = 0 .. Len(s) /\ f[0] = p /\ f[Len(s)] = q
               /\ \A i \in 1 .. Len(s) : <<f[i - 1], s[i], f[i]>> \in R
  BY DEF Leads
<1> PICK g : KeptWalk(S, s, K, g)
  BY KeptByPass
<1>2. /\ g \in [0 .. Len(s) -> Seq(S)]
      /\ g[0] = <<>> /\ Kept(s, K) = g[Len(s)]
      /\ \A i \in 1 .. Len(s) :
             g[i] = IF s[i] \in K THEN Append(g[i - 1], s[i]) ELSE g[i - 1]
  BY Zenon DEF KeptWalk
<1> DEFINE Led(n) == \E q2 : Leads(R2, g[n], p2, q2) /\ <<f[n], q2>> \in T
           U == {n \in Nat : n <= Len(s) => Led(n)}
<1>3. Len(s) \in Nat
  BY LenProperties
<1>4. 0 \in U
  <2>1. Leads(R2, g[0], p2, p2) /\ <<f[0], p2>> \in T
    BY <1>1, <1>2, LeadsEmpty
  <2> QED BY <2>1 DEF Led
<1> HIDE DEF Led
<1>5. ASSUME NEW n \in Nat, n \in U PROVE n + 1 \in U
  <2> SUFFICES ASSUME n + 1 <= Len(s) PROVE Led(n + 1)
    OBVIOUS
  <2> DEFINE i == n + 1
  <2>1. n <= Len(s) /\ i \in 1 .. Len(s) /\ i - 1 = n /\ n \in 0 .. Len(s)
    BY <1>3
  <2>2. PICK x2 : Leads(R2, g[n], p2, x2) /\ <<f[n], x2>> \in T
    BY <1>5, <2>1 DEF Led
  <2>3. s[i] \in S /\ g[n] \in Seq(S)
    BY <1>2, <2>1, ElementOfSeq
  <2> HIDE DEF i
  <2>4. /\ <<f[n], s[i], f[i]>> \in R
        /\ g[i] = IF s[i] \in K THEN Append(g[n], s[i]) ELSE g[n]
    BY <1>1, <1>2, <2>1
  <2>5. IF s[i] \in K THEN \E y2 : <<x2, s[i], y2>> \in R2 /\ <<f[i], y2>> \in T
                     ELSE <<f[i], x2>> \in T
    BY <2>2, <2>3, <2>4, Zenon DEF Carries
  <2>6. CASE s[i] \in K
    <3>1. PICK y2 : <<x2, s[i], y2>> \in R2 /\ <<f[i], y2>> \in T
      BY <2>6, <2>5
    <3>2. Leads(R2, <<s[i]>>, x2, y2)
      BY <3>1, LeadsOne
    <3>3. <<s[i]>> \in Seq(S) /\ g[n] \o <<s[i]>> = Append(g[n], s[i])
      BY <2>3, AppendOne
    <3>4. Leads(R2, g[n] \o <<s[i]>>, p2, y2)
      BY <2>2, <2>3, <3>2, <3>3, LeadsConcat
    <3>5. Led(i)
      BY <2>4, <2>6, <3>1, <3>3, <3>4 DEF Led
    <3> QED BY <3>5 DEF i
  <2>7. CASE s[i] \notin K
    <3>1. Leads(R2, g[i], p2, x2) /\ <<f[i], x2>> \in T
      BY <2>2, <2>4, <2>5, <2>7
    <3>2. Led(i)
      BY <3>1 DEF Led
    <3> QED BY <3>2 DEF i
  <2> QED BY <2>6, <2>7
<1> HIDE DEF U
<1>6. Nat \subseteq U
  BY <1>4, <1>5, SetInduction
<1>7. Led(Len(s))
  BY <1>3, <1>6 DEF U
<1> QED BY <1>1, <1>2, <1>7 DEF Led

-----------------------------------------------------------------------------
(* What Kept leaves of the parts of a list *)

\* Every entry that is kept is in K.
LEMMA KeptOnly ==
  ASSUME NEW S, NEW s \in Seq(S), NEW K
  PROVE  Kept(s, K) \in Seq(S \cap K)
<1> PICK f : KeptWalk(S, s, K, f)
  BY KeptByPass
<1>1. /\ f[0] = <<>> /\ Kept(s, K) = f[Len(s)]
      /\ \A i \in 1 .. Len(s) :
             f[i] = IF s[i] \in K THEN Append(f[i - 1], s[i]) ELSE f[i - 1]
  BY DEF KeptWalk
<1>2. Len(s) \in Nat /\ Len(s) \in 0 .. Len(s)
  BY LenProperties
<1>3. f[0] \in Seq(S \cap K)
  BY <1>1, EmptySeq
<1>4. ASSUME NEW i \in 1 .. Len(s), f[i - 1] \in Seq(S \cap K) PROVE f[i] \in Seq(S \cap K)
  <2>1. s[i] \in S
    BY ElementOfSeq
  <2>2. CASE s[i] \in K
    <3>1. s[i] \in S \cap K /\ f[i] = Append(f[i - 1], s[i])
      BY <1>1, <2>1, <2>2
    <3> QED BY <3>1, <1>4, AppendOne
  <2>3. CASE s[i] \notin K
    BY <1>1, <1>4, <2>3
  <2> QED BY <2>2, <2>3
<1>5. \A n \in 0 .. Len(s) : f[n] \in Seq(S \cap K)
  BY <1>2, <1>3, <1>4, LoopInvariant
<1> QED BY <1>1, <1>2, <1>5

\* Nothing is kept of a list with no entry in K.
LEMMA KeptNone ==
  ASSUME NEW S, NEW s \in Seq(S), NEW K, \A i \in 1 .. Len(s) : s[i] \notin K
  PROVE  Kept(s, K) = <<>>
<1> PICK f : KeptWalk(S, s, K, f)
  BY KeptByPass
<1>1. /\ f[0] = <<>> /\ Kept(s, K) = f[Len(s)]
      /\ \A i \in 1 .. Len(s) :
             f[i] = IF s[i] \in K THEN Append(f[i - 1], s[i]) ELSE f[i - 1]
  BY DEF KeptWalk
<1>2. Len(s) \in Nat /\ Len(s) \in 0 .. Len(s)
  BY LenProperties
<1> DEFINE E == {<<>>}
<1>3. f[0] \in E /\ \A i \in 1 .. Len(s) : f[i - 1] \in E => f[i] \in E
  BY <1>1
<1> HIDE DEF E
<1>4. \A n \in 0 .. Len(s) : f[n] \in E
  BY <1>2, <1>3, LoopInvariant
<1> QED BY <1>1, <1>2, <1>4 DEF E

\* What is kept of two lists one after the other.
KeptApart(a, b, K) == Kept(a \o b, K) = Kept(a, K) \o Kept(b, K)

LEMMA KeptConcat ==
  ASSUME NEW S, NEW a \in Seq(S), NEW b \in Seq(S), NEW K
  PROVE  KeptApart(a, b, K)
<1> DEFINE s == a \o b
<1>1. /\ s \in Seq(S) /\ Len(s) = Len(a) + Len(b) /\ Len(a) \in Nat /\ Len(b) \in Nat
      /\ \A i \in 1 .. Len(a) + Len(b) : s[i] = IF i <= Len(a) THEN a[i] ELSE b[i - Len(a)]
  BY ConcatProperties, LenProperties
<1> HIDE DEF s
<1> PICK f : KeptWalk(S, s, K, f)
  BY <1>1, KeptByPass
<1>2. /\ f \in [0 .. Len(s) -> Seq(S)]
      /\ f[0] = <<>> /\ Kept(s, K) = f[Len(s)]
      /\ \A i \in 1 .. Len(s) :
             f[i] = IF s[i] \in K THEN Append(f[i - 1], s[i]) ELSE f[i - 1]
  BY Zenon DEF KeptWalk
<1> PICK g : KeptWalk(S, a, K, g)
  BY KeptByPass
<1>3. /\ g \in [0 .. Len(a) -> Seq(S)]
      /\ g[0] = <<>> /\ Kept(a, K) = g[Len(a)]
      /\ \A i \in 1 .. Len(a) :
             g[i] = IF a[i] \in K THEN Append(g[i - 1], a[i]) ELSE g[i - 1]
  BY Zenon DEF KeptWalk
<1> PICK h : KeptWalk(S, b, K, h)
  BY KeptByPass
<1>4. /\ h \in [0 .. Len(b) -> Seq(S)]
      /\ h[0] = <<>> /\ Kept(b, K) = h[Len(b)]
      /\ \A i \in 1 .. Len(b) :
             h[i] = IF b[i] \in K THEN Append(h[i - 1], b[i]) ELSE h[i - 1]
  BY Zenon DEF KeptWalk
<1> DEFINE T == {n \in Nat : n <= Len(a) => f[n] = g[n]}
           Joined(n) == f[Len(a) + n] = g[Len(a)] \o h[n]
           U == {n \in Nat : n <= Len(b) => Joined(n)}
<1>5. 0 \in T
  BY <1>2, <1>3
<1>6. ASSUME NEW n \in Nat, n \in T PROVE n + 1 \in T
  <2> SUFFICES ASSUME n + 1 <= Len(a) PROVE f[n + 1] = g[n + 1]
    OBVIOUS
  <2>1. n <= Len(a) /\ n + 1 \in 1 .. Len(a) /\ n + 1 \in 1 .. Len(s) /\ (n + 1) - 1 = n
    BY <1>1
  <2>2. s[n + 1] = a[n + 1] /\ f[n] = g[n]
    BY <1>1, <1>6, <2>1
  <2> QED BY <1>2, <1>3, <2>1, <2>2
<1> HIDE DEF T
<1>7. Nat \subseteq T
  BY <1>5, <1>6, SetInduction
<1>8. f[Len(a)] = g[Len(a)] /\ g[Len(a)] \in Seq(S)
  BY <1>1, <1>3, <1>7 DEF T
<1>9. 0 \in U
  <2>1. g[Len(a)] \o <<>> = g[Len(a)] /\ Len(a) + 0 = Len(a)
    BY <1>1, <1>8, ConcatEmptySeq
  <2>2. Joined(0)
    BY <2>1, <1>4, <1>8
  <2> QED BY <2>2
<1> HIDE DEF Joined
<1>10. ASSUME NEW n \in Nat, n \in U PROVE n + 1 \in U
  <2> SUFFICES ASSUME n + 1 <= Len(b) PROVE Joined(n + 1)
    OBVIOUS
  <2> DEFINE p == Len(a) + (n + 1)
  <2>1. /\ n <= Len(b) /\ n + 1 \in 1 .. Len(b) /\ p \in 1 .. Len(s)
        /\ p - 1 = Len(a) + n /\ p - Len(a) = n + 1 /\ ~ (p <= Len(a)) /\ (n + 1) - 1 = n
        /\ n \in 0 .. Len(b)
    BY <1>1
  <2>2. s[p] = b[n + 1] /\ f[p - 1] = g[Len(a)] \o h[n]
    BY <1>1, <1>10, <2>1 DEF Joined
  <2>3. b[n + 1] \in S /\ h[n] \in Seq(S)
    BY <1>4, <2>1, ElementOfSeq
  <2> HIDE DEF p
  <2>4. f[p] = IF s[p] \in K THEN Append(f[p - 1], s[p]) ELSE f[p - 1]
    BY <1>2, <2>1
  <2>5. h[n + 1] = IF b[n + 1] \in K THEN Append(h[n], b[n + 1]) ELSE h[n]
    BY <1>4, <2>1
  <2>6. Append(g[Len(a)] \o h[n], b[n + 1]) = g[Len(a)] \o Append(h[n], b[n + 1])
    <3>1. g[Len(a)] \in Seq(S) /\ h[n] \in Seq(S) /\ b[n + 1] \in S
      BY <1>8, <2>3
    <3>2. AppendsToLast(g[Len(a)], h[n], b[n + 1])
      BY <3>1, ConcatAppend, Zenon
    <3> QED BY <3>2, Zenon DEF AppendsToLast
  <2>7. f[p] = g[Len(a)] \o h[n + 1]
    BY <2>2, <2>4, <2>5, <2>6
  <2> QED BY <2>7 DEF p, Joined
<1> HIDE DEF U
<1>11. Nat \subseteq U
  BY <1>9, <1>10, SetInduction
<1>12. Joined(Len(b))
  BY <1>1, <1>11 DEF U
<1>13. Kept(s, K) = Kept(a, K) \o Kept(b, K)
  BY <1>1, <1>2, <1>3, <1>4, <1>12 DEF Joined
<1> QED BY <1>13 DEF s, KeptApart

\* The first entry in K from place c on is the head of what is kept from there
\* on, and what is kept after it is the tail.
LEMMA KeptFirst ==
  ASSUME NEW S, NEW s \in Seq(S), NEW K, NEW c \in 1 .. Len(s), NEW m \in c .. Len(s),
         s[m] \in K, \A n \in c .. m - 1 : s[n] \notin K
  PROVE  Kept(SubSeq(s, c, Len(s)), K) = <<s[m]>> \o Kept(SubSeq(s, m + 1, Len(s)), K)
<1> DEFINE before == SubSeq(s, c, m - 1)
           after == SubSeq(s, m + 1, Len(s))
<1>1. /\ Len(s) \in Nat /\ c \in Int /\ m \in Int /\ c >= 1 /\ m >= c /\ m <= Len(s)
      /\ \A n \in 1 .. Len(s) : s[n] \in S
  BY LenProperties, ElementOfSeq
<1>2. /\ before \in Seq(S) /\ Len(before) = m - c
      /\ \A n \in 1 .. m - c : before[n] = s[c + n - 1]
  <2>1. \A n \in c .. m - 1 : s[n] \in S
    BY <1>1
  <2>2. /\ before \in Seq(S) /\ Len(before) = IF c <= m - 1 THEN (m - 1) - c + 1 ELSE 0
        /\ \A n \in 1 .. (m - 1) - c + 1 : before[n] = s[c + n - 1]
    BY <1>1, <2>1, SubSeqProperties
  <2>3. (m - 1) - c + 1 = m - c
    BY <1>1
  <2> HIDE DEF before
  <2> QED BY <1>1, <2>2, <2>3
<1>3. after \in Seq(S)
  <2>1. \A n \in m + 1 .. Len(s) : s[n] \in S
    BY <1>1
  <2> QED BY <1>1, <2>1, SubSeqProperties
<1>4. SubSeq(s, c, Len(s)) = before \o SubSeq(s, m, Len(s))
  <2>1. c \in 1 .. Len(s) + 1 /\ m - 1 \in c - 1 .. Len(s) /\ Len(s) \in m - 1 .. Len(s)
        /\ (m - 1) + 1 = m
    BY <1>1
  <2>2. SubSeq(s, c, m - 1) \o SubSeq(s, (m - 1) + 1, Len(s)) = SubSeq(s, c, Len(s))
    BY <2>1, ConcatAdjacentSubSeq
  <2> QED BY <2>1, <2>2
<1>5. SubSeq(s, m, Len(s)) = <<s[m]>> \o after
  <2>1. m \in 1 .. Len(s) /\ Len(s) \in m .. Len(s)
    BY <1>1
  <2> QED BY <2>1, SubSeqRecursiveFirst
<1>6. s[m] \in S /\ <<s[m]>> \in Seq(S)
  BY <1>1
<1>7. Kept(before, K) = <<>>
  <2>1. \A n \in 1 .. Len(before) : before[n] \notin K
    <3> SUFFICES ASSUME NEW n \in 1 .. m - c PROVE s[c + n - 1] \notin K
      BY <1>2
    <3> QED BY <1>1
  <2> HIDE DEF before
  <2> QED BY <1>2, <2>1, KeptNone
<1>8. Kept(<<s[m]>>, K) = <<s[m]>>
  <2> DEFINE one == <<s[m]>>
  <2>1. Len(one) = 1 /\ one[1] = s[m]
    OBVIOUS
  <2>2. one \in Seq(S)
    BY <1>6
  <2> HIDE DEF one
  <2> PICK f : KeptWalk(S, one, K, f)
    BY <2>2, KeptByPass
  <2>3. /\ f[0] = <<>> /\ Kept(one, K) = f[Len(one)]
        /\ \A i \in 1 .. Len(one) :
               f[i] = IF one[i] \in K THEN Append(f[i - 1], one[i]) ELSE f[i - 1]
    BY Zenon DEF KeptWalk
  <2>4. f[1] = Append(<<>>, s[m])
    <3>1. 1 \in 1 .. Len(one) /\ 1 - 1 = 0
      BY <2>1
    <3> QED BY <2>1, <2>3, <3>1
  <2>5. Append(<<>>, s[m]) = <<s[m]>>
    OBVIOUS
  <2>6. Kept(one, K) = <<s[m]>>
    BY <2>1, <2>3, <2>4, <2>5
  <2> QED BY <2>6 DEF one
<1> HIDE DEF before, after
<1> DEFINE one == <<s[m]>>
<1>9. one \in Seq(S) /\ Kept(one, K) = one
  BY <1>6, <1>8
<1>10. SubSeq(s, c, Len(s)) = before \o (one \o after)
  BY <1>4, <1>5
<1> HIDE DEF one
<1>11. one \o after \in Seq(S)
  BY <1>3, <1>9, ConcatProperties
<1>12. Kept(one \o after, K) = one \o Kept(after, K)
  <2>1. KeptApart(one, after, K)
    BY <1>3, <1>9, KeptConcat, Zenon
  <2> QED BY <1>9, <2>1 DEF KeptApart
<1>13. Kept(before \o (one \o after), K) = <<>> \o (one \o Kept(after, K))
  <2>1. KeptApart(before, one \o after, K)
    BY <1>2, <1>11, KeptConcat, Zenon
  <2> QED BY <1>7, <1>12, <2>1 DEF KeptApart
<1>14. Kept(after, K) \in Seq(S)
  BY <1>3, KeptType
<1>15. <<>> \o (one \o Kept(after, K)) = one \o Kept(after, K)
  BY <1>9, <1>14, ConcatProperties, ConcatEmptySeq
<1> QED BY <1>10, <1>13, <1>15 DEF after, one

\* Every entry of a list that is in K is kept.
LEMMA KeptAll ==
  ASSUME NEW S, NEW s \in Seq(S), NEW K, NEW i \in DOMAIN s, s[i] \in K
  PROVE  \E j \in DOMAIN Kept(s, K) : Kept(s, K)[j] = s[i]
<1> PICK f : KeptWalk(S, s, K, f)
  BY KeptByPass
<1>1. /\ Kept(s, K) = f[Len(s)] /\ f \in [0 .. Len(s) -> Seq(S)]
      /\ \A m \in 1 .. Len(s) :
             f[m] = IF s[m] \in K THEN Append(f[m - 1], s[m]) ELSE f[m - 1]
  BY DEF KeptWalk
<1>2. Len(s) \in Nat /\ DOMAIN s = 1 .. Len(s)
  BY LenProperties
<1> DEFINE Has(q) == \E j \in DOMAIN q : q[j] = s[i]
           T == {n \in Nat : i <= n /\ n <= Len(s) => Has(f[n])}
<1>3. 0 \in T
  BY <1>2
<1>4. ASSUME NEW n \in Nat, n \in T PROVE n + 1 \in T
  <2> SUFFICES ASSUME i <= n + 1, n + 1 <= Len(s) PROVE Has(f[n + 1])
    BY DEF T
  <2>1. n + 1 \in 1 .. Len(s) /\ (n + 1) - 1 = n /\ n \in 0 .. Len(s)
    BY <1>2
  <2>2. /\ f[n] \in Seq(S) /\ s[n + 1] \in S
        /\ f[n + 1] = IF s[n + 1] \in K THEN Append(f[n], s[n + 1]) ELSE f[n]
    BY <1>1, <1>2, <2>1, ElementOfSeq
  <2>3. CASE i = n + 1
    <3>1. f[n + 1] = Append(f[n], s[i])
      BY <2>2, <2>3
    <3> QED BY <2>2, <2>3, <3>1, AppendOne
  <2>4. CASE i # n + 1
    <3>1. Has(f[n])
      BY <1>2, <1>4, <2>1, <2>4 DEF T
    <3> QED BY <2>2, <3>1, AppendOne
  <2> QED BY <2>3, <2>4
<1> HIDE DEF T
<1>5. Nat \subseteq T
  BY <1>3, <1>4, SetInduction
<1>6. Has(f[Len(s)])
  BY <1>2, <1>5 DEF T
<1> QED BY <1>1, <1>6
=============================================================================
