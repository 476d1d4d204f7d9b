------------------------------ MODULE Induction -----------------------------
(***************************************************************************)
(* Induction over the natural numbers, stated with sets: the provers do    *)
(* not instantiate the theorems of the library that take a predicate.      *)
(***************************************************************************)
EXTENDS Integers, WellFoundedInduction, TLAPS

(* A set of natural numbers has a least element.                           *)
LEMMA LeastNat ==
  ASSUME NEW T \in SUBSET Nat, T # {}
  PROVE  \E x \in T : \A y \in T : x <= y
<1> DEFINE R == {ss \in Nat \X Nat : ss[1] < ss[2]}
<1>1. R = OpToRel(<, Nat)
  BY Zenon DEF OpToRel
<1>2. \E x \in T : \A y \in T : ~ (<<y, x>> \in R)
  BY <1>1, NatLessThanWellFounded, WFMin, Zenon
<1>3. \A x, y \in Nat : y < x => <<y, x>> \in R
  OBVIOUS
<1> HIDE DEF R
<1>4. PICK x \in T : \A y \in T : ~ (<<y, x>> \in R)
  BY <1>2
<1>5. \A y \in T : ~ (y < x)
  BY <1>3, <1>4
<1> QED BY <1>5

(* So it has a greatest one when it has a bound.                           *)
LEMMA GreatestNat ==
  ASSUME NEW n \in Nat, NEW T \in SUBSET (0..n), T # {}
  PROVE  \E x \in T : \A y \in T : y <= x
<1> DEFINE D == {n - x : x \in T}
<1>1. D \in SUBSET Nat /\ D # {}
  <2>1. \A x \in T : n - x \in Nat
    OBVIOUS
  <2>2. PICK x \in T : TRUE
    OBVIOUS
  <2>3. n - x \in D
    OBVIOUS
  <2> QED BY <2>1, <2>3
<1> HIDE DEF D
<1>2. PICK d \in D : \A e \in D : d <= e
  BY <1>1, LeastNat
<1>3. PICK x \in T : d = n - x
  BY DEF D
<1>4. \A y \in T : n - x <= n - y
  BY <1>2, <1>3 DEF D
<1>5. \A y \in T : y <= x
  BY <1>4
<1> QED BY <1>5

(* The numbers up to n are in a set that has 0 and, with a number below n, *)
(* the next one.                                                           *)
LEMMA UpTo ==
  ASSUME NEW n \in Nat, NEW S, 0 \in S, \A k \in 0..n - 1 : k \in S => k + 1 \in S
  PROVE  \A k \in 0..n : k \in S
<1> SUFFICES ASSUME NEW m \in 0..n, m \notin S
             PROVE  FALSE
  OBVIOUS
<1> DEFINE T == {k \in 0..n : k \notin S}
<1>1. T \in SUBSET Nat /\ T # {}
  OBVIOUS
<1> HIDE DEF T
<1>2. PICK x \in T : \A y \in T : x <= y
  BY <1>1, LeastNat
<1>3. x \in 0..n /\ x \notin S
  BY DEF T
<1>4. x # 0 /\ x - 1 \in 0..n - 1
  BY <1>3
<1>5. x - 1 \in S
  <2>1. x - 1 \notin T
    BY <1>2, <1>3
  <2>2. x - 1 \in 0..n
    BY <1>4
  <2> QED BY <2>1, <2>2 DEF T
<1>6. (x - 1) + 1 \in S
  BY <1>4, <1>5
<1> QED BY <1>3, <1>6

(* All of them, when there is no bound.                                    *)
LEMMA AllNat ==
  ASSUME NEW S, 0 \in S, \A k \in Nat : k \in S => k + 1 \in S
  PROVE  Nat \subseteq S
<1> SUFFICES ASSUME NEW n \in Nat
             PROVE  n \in S
  OBVIOUS
<1>1. \A k \in 0..n - 1 : k \in S => k + 1 \in S
  OBVIOUS
<1>2. \A k \in 0..n : k \in S
  BY <1>1, UpTo
<1> QED BY <1>2
(* A function defined step by step, each value from the one before it.     *)
StepsTo(n, V, a, g, s) ==
  s \in [0..n -> V] /\ s[0] = a /\ \A k \in 1..n : s[k] = g[k][s[k - 1]]

LEMMA StepByStep ==
  ASSUME NEW n \in Nat, NEW V, NEW a \in V, NEW g,
         \A k \in 1..n, v \in V : g[k][v] \in V
  PROVE  \E s : StepsTo(n, V, a, g, s)
<1> DEFINE Upto(m, s) == s[0] = a /\ \A k \in 1..m : s[k] = g[k][s[k - 1]]
           S == {m \in 0..n : \E s \in [0..m -> V] : Upto(m, s)}
<1>1. 0 \in S
  <2>1. PICK s \in [0..0 -> V] : s = [k \in 0..0 |-> a]
    OBVIOUS
  <2>2. Upto(0, s)
    BY <2>1
  <2> HIDE DEF Upto
  <2> QED BY <2>2
<1>2. ASSUME NEW m \in 0..n - 1, m \in S
      PROVE  m + 1 \in S
  <2>1. PICK s \in [0..m -> V] : Upto(m, s)
    BY <1>2
  <2>2. g[m + 1][s[m]] \in V
    OBVIOUS
  <2> DEFINE v == g[m + 1][s[m]]
             t == [k \in 0..m + 1 |-> IF k = m + 1 THEN v ELSE s[k]]
  <2> HIDE DEF v
  <2>3. t \in [0..m + 1 -> V]
    BY <2>2 DEF v
  <2>4. t[m + 1] = v /\ \A k \in 0..m : t[k] = s[k]
    OBVIOUS
  <2> HIDE DEF t
  <2>5. ASSUME NEW k \in 1..m + 1
        PROVE  t[k] = g[k][t[k - 1]]
    <3>1. CASE k = m + 1
      <4>1. t[k - 1] = s[m]
        BY <2>4, <3>1
      <4> QED BY <2>4, <3>1, <4>1 DEF v
    <3>2. CASE k # m + 1
      <4>1. t[k] = s[k] /\ t[k - 1] = s[k - 1] /\ k \in 1..m
        BY <2>4, <3>2
      <4> QED BY <2>1, <4>1
    <3> QED BY <3>1, <3>2
  <2>6. t[0] = a
    BY <2>1, <2>4
  <2>7. Upto(m + 1, t)
    BY <2>5, <2>6
  <2> HIDE DEF Upto
  <2> QED BY <2>3, <2>7
<1>3. \A m \in 0..n - 1 : m \in S => m + 1 \in S
  BY <1>2
<1> HIDE DEF S
<1>4. \A m \in 0..n : m \in S
  BY <1>1, <1>3, UpTo
<1>5. n \in S
  BY <1>4
<1>6. PICK s \in [0..n -> V] : Upto(n, s)
  BY <1>5 DEF S
<1>7. StepsTo(n, V, a, g, s)
  BY <1>6 DEF StepsTo
<1> QED BY <1>7
=============================================================================
