----------------------------- MODULE Induction -----------------------------
(***************************************************************************)
(* Induction over the natural numbers, stated for a set instead of a       *)
(* predicate, so that the theorem can be cited without an operator for a   *)
(* parameter.                                                              *)
(***************************************************************************)
EXTENDS Integers, WellFoundedInduction, TLAPS

Less == {p \in Nat \X Nat : p[1] < p[2]}

LEMMA LessIsWellFounded == IsWellFoundedOn(Less, Nat)
<1>1. Less = OpToRel(<, Nat)
  BY Zenon DEF OpToRel, Less
<1> QED
  BY <1>1, NatLessThanWellFounded, Zenon

LEMMA Smallest ==
    ASSUME NEW T \in SUBSET Nat, T # {}
    PROVE  \E m \in T : \A k \in T : m <= k
<1>1. PICK m \in T : \A k \in T : <<k, m>> \notin Less
  BY LessIsWellFounded, WFMin, Zenon
<1>2. ASSUME NEW k \in T PROVE m <= k
  <2>1. k \in Nat /\ m \in Nat
    OBVIOUS
  <2>2. <<k, m>> \notin Less
    BY <1>1
  <2>3. ~(k < m)
    BY <2>1, <2>2 DEF Less
  <2> QED
    BY <2>1, <2>3
<1> QED
  BY <1>2

\* A set of numbers that holds nought and with each of its members below a
\* bound the next one holds all up to the bound.
THEOREM UpTo ==
    ASSUME NEW n \in Nat, NEW T, 0 \in T, \A k \in 0 .. n - 1 : k \in T => k + 1 \in T
    PROVE  \A k \in 0 .. n : k \in T
<1> SUFFICES ASSUME NEW b \in 0 .. n, b \notin T PROVE FALSE
  OBVIOUS
<1> DEFINE B == {k \in 0 .. n : k \notin T}
<1>1. B \in SUBSET Nat /\ b \in B
  OBVIOUS
<1>2. PICK m \in B : \A k \in B : m <= k
  BY <1>1, Smallest
<1>3. m \in 0 .. n /\ m \notin T /\ m # 0
  OBVIOUS
<1>4. m - 1 \in 0 .. n - 1 /\ m - 1 \notin B
  BY <1>2, <1>3
<1>5. m - 1 \in T
  BY <1>3, <1>4
<1> QED
  BY <1>3, <1>4, <1>5

\* The values a, F[1][a], F[2][F[1][a]] and so on, up to the n-th.
Chain(n, S, a, F) ==
    {f \in [0 .. n -> S] : f[0] = a /\ \A k \in 1 .. n : f[k] = F[k][f[k - 1]]}

\* What is defined by recursion over the numbers up to a bound exists.
THEOREM Recursion ==
    ASSUME NEW n \in Nat, NEW S, NEW a \in S, NEW F \in [1 .. n -> [S -> S]]
    PROVE  Chain(n, S, a, F) # {}
<1> DEFINE Begun(f, m) == f[0] = a /\ \A k \in 1 .. m : f[k] = F[k][f[k - 1]]
           T == {m \in 0 .. n : \E f \in [0 .. m -> S] : Begun(f, m)}
<1>1. 0 \in T
  <2> DEFINE g == [k \in 0 .. 0 |-> a]
  <2>1. g \in [0 .. 0 -> S] /\ Begun(g, 0)
    OBVIOUS
  <2> HIDE DEF g, Begun
  <2> QED
    BY <2>1
<1>2. ASSUME NEW m \in 0 .. n - 1, m \in T PROVE m + 1 \in T
  <2>1. PICK f \in [0 .. m -> S] : Begun(f, m)
    BY <1>2
  <2> DEFINE g == [k \in 0 .. m + 1 |-> IF k = m + 1 THEN F[m + 1][f[m]] ELSE f[k]]
  <2>2. F[m + 1] \in [S -> S] /\ f[m] \in S
    OBVIOUS
  <2>3. g \in [0 .. m + 1 -> S]
    BY <2>2
  <2>4. Begun(g, m + 1)
    BY <2>1
  <2>5. m + 1 \in 0 .. n
    OBVIOUS
  <2> HIDE DEF g, Begun
  <2> QED
    BY <2>3, <2>4, <2>5, Zenon
<1> HIDE DEF T
<1>3. \A m \in 0 .. n : m \in T
  BY <1>1, <1>2, UpTo
<1> HIDE DEF Begun
<1>4. \E f \in [0 .. n -> S] : Begun(f, n)
  <2>1. n \in T
    BY <1>3
  <2> QED
    BY <2>1 DEF T
<1> QED
  BY <1>4 DEF Begun, Chain
=============================================================================
