--------------------------- MODULE InductionLemmas --------------------------
(***************************************************************************)
(* Induction over the natural numbers, by a set of numbers, and functions   *)
(* defined by recursion over an interval: what the proofs about folds and   *)
(* chains go by.                                                           *)
(***************************************************************************)
EXTENDS Naturals, WellFoundedInduction, TLAPS

\* A set of natural numbers that is not empty has a least member.
LEMMA Least ==
  ASSUME NEW T, T \subseteq Nat, T # {}
  PROVE  \E m \in T : \A k \in T : m <= k
<1> DEFINE R == OpToRel(<, Nat)
<1>1. \A x, y \in Nat : <<y, x>> \in R <=> y < x
  BY DEF OpToRel
<1>2. IsWellFoundedOn(R, Nat)
  BY NatLessThanWellFounded
<1> HIDE DEF R
<1>3. PICK m \in T : \A k \in T : <<k, m>> \notin R
  BY <1>2, WFMin
<1>4. ASSUME NEW k \in T PROVE m <= k
  <2>1. m \in Nat /\ k \in Nat /\ ~(k < m)
    BY <1>1, <1>3
  <2> QED
    BY <2>1
<1> QED
  BY <1>3, <1>4

\* A set that holds zero and the successor of each natural number in it.
LEMMA Induction ==
  ASSUME NEW S, 0 \in S, \A n \in Nat : n \in S => n + 1 \in S
  PROVE  Nat \subseteq S
<1> SUFFICES ASSUME Nat \ S # {} PROVE FALSE
  OBVIOUS
<1>1. PICK m \in Nat \ S : \A k \in Nat \ S : m <= k
  BY Least
<1>2. m # 0 /\ m - 1 \in Nat /\ m - 1 \in S
  BY <1>1
<1> QED
  BY <1>2

\* The function over an interval that starts with a value and goes on by steps.
IsFold(f, n, V, first, step) ==
  /\ f \in [0..n -> V]
  /\ f[0] = first
  /\ \A i \in 1..n : f[i] = step[i][f[i - 1]]

\* There is such a function.
LEMMA FoldExists ==
  ASSUME NEW n \in Nat, NEW V, NEW first \in V, NEW step \in [1..n -> [V -> V]]
  PROVE  \E f : IsFold(f, n, V, first, step)
<1> DEFINE Upto(f, m) == /\ f \in [0..n -> V]
                         /\ f[0] = first
                         /\ \A i \in 1..n : i <= m => f[i] = step[i][f[i - 1]]
           S == {m \in Nat : \E f : Upto(f, m)}
<1>1. 0 \in S
  <2> DEFINE f == [i \in 0..n |-> first]
  <2>1. Upto(f, 0)
    OBVIOUS
  <2> QED  BY <2>1
<1>2. ASSUME NEW m \in Nat, NEW f, Upto(f, m) PROVE \E g : Upto(g, m + 1)
  <2> DEFINE g == [i \in 0..n |-> IF i <= m THEN f[i] ELSE step[i][f[i - 1]]]
  <2>1. ASSUME NEW i \in 0..n PROVE g[i] \in V
    <3>1. CASE i <= m
      BY <1>2, <3>1
    <3>2. CASE ~(i <= m)
      <4>1. i \in 1..n /\ i - 1 \in 0..n
        BY <3>2
      <4>2. step[i] \in [V -> V] /\ f[i - 1] \in V
        BY <1>2, <4>1
      <4> QED  BY <3>2, <4>2
    <3> QED  BY <3>1, <3>2
  <2>2. ASSUME NEW i \in 1..n, i <= m + 1 PROVE g[i] = step[i][g[i - 1]]
    <3>1. i - 1 \in 0..n /\ i - 1 <= m /\ i \in 0..n
      BY <2>2
    <3>2. g[i - 1] = f[i - 1]
      BY <3>1
    <3>3. g[i] = step[i][f[i - 1]]
      BY <1>2, <3>1
    <3> QED  BY <3>2, <3>3
  <2>3. g[0] = first
    BY <1>2
  <2>4. g \in [0..n -> V]
    BY <2>1
  <2> HIDE DEF g
  <2>5. Upto(g, m + 1)
    BY <2>2, <2>3, <2>4
  <2> QED  BY <2>5
<1>3. \A m \in Nat : m \in S => m + 1 \in S
  <2> HIDE DEF Upto
  <2> QED  BY <1>2
<1> HIDE DEF S
<1>4. n \in S
  BY <1>1, <1>3, Induction
<1>5. PICK f : Upto(f, n)
  BY <1>4 DEF S
<1>6. IsFold(f, n, V, first, step)
  BY <1>5 DEF IsFold
<1> QED  BY <1>6

\* What the first value is and what every step preserves holds of the last value.
LEMMA FoldPreserves ==
  ASSUME NEW n \in Nat, NEW V, NEW first, NEW step, NEW f, IsFold(f, n, V, first, step),
         NEW T, first \in T,
         \A i \in 1..n : \A v \in T : v \in V => step[i][v] \in T
  PROVE  \A i \in 0..n : f[i] \in T
<1> DEFINE S == {m \in Nat : m <= n => f[m] \in T}
<1>1. 0 \in S
  BY DEF IsFold
<1>2. ASSUME NEW m \in Nat, m \in S, m + 1 <= n PROVE f[m + 1] \in T
  <2>1. m + 1 \in 1..n /\ (m + 1) - 1 = m /\ m \in 0..n /\ f[m] \in T
    BY <1>2
  <2>2. f[m] \in V
    BY <2>1 DEF IsFold
  <2>3. f[m + 1] = step[m + 1][f[m]]
    BY <2>1 DEF IsFold
  <2> QED  BY <2>1, <2>2, <2>3
<1>3. \A m \in Nat : m \in S => m + 1 \in S
  BY <1>2
<1> HIDE DEF S
<1>4. \A m \in Nat : m \in S
  BY <1>1, <1>3, Induction
<1> QED  BY <1>4 DEF S
=============================================================================
