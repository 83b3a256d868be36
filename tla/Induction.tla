------------------------------ MODULE Induction -----------------------------
(***************************************************************************)
(* Facts about numbers and sequences that the proofs of several components *)
(* rest on: induction over the naturals with a set in the place of a       *)
(* predicate, and the functions that a recursive definition defines.       *)
(***************************************************************************)
EXTENDS Integers, Sequences, WellFoundedInduction, NaturalsInduction, TLAPS

(* A set of numbers that has one has a least one.                          *)
LEMMA LeastExists ==
    ASSUME NEW S, S \subseteq Nat, S # {}
    PROVE  \E x \in S : \A y \in S : x <= y
<1>1. \E x \in S : \A y \in S : ~ (<<y, x>> \in OpToRel(<, Nat))
  BY NatLessThanWellFounded, WFMin
<1>2. PICK x \in S : \A y \in S : ~ (<<y, x>> \in OpToRel(<, Nat))
  BY <1>1
<1>3. ASSUME NEW y \in S PROVE x <= y
  <2>1. ~(y < x)
    <3>1. <<y, x>> \in Nat \X Nat /\ ~(<<y, x>> \in OpToRel(<, Nat))
      BY <1>2
    <3>2. <<y, x>>[1] = y /\ <<y, x>>[2] = x
      OBVIOUS
    <3> QED BY <3>1, <3>2, Zenon DEF OpToRel
  <2> QED BY <2>1
<1> QED BY <1>3

(* Induction up to n, for the numbers that have a property.                *)
LEMMA InductionUpTo ==
    ASSUME NEW n \in Nat, NEW S, 0 \in S, \A k \in 0..n : k \in S /\ k < n => k + 1 \in S
    PROVE  \A k \in 0..n : k \in S
<1> DEFINE Bad == {k \in 0..n : k \notin S}
<1>1. SUFFICES ASSUME Bad # {} PROVE FALSE
  OBVIOUS
<1>2. Bad \subseteq Nat
  OBVIOUS
<1> HIDE DEF Bad
<1>3. PICK k \in Bad : \A j \in Bad : k <= j
  BY <1>1, <1>2, LeastExists
<1>4. k \in 0..n /\ k \notin S
  BY DEF Bad
<1>5. k # 0
  BY <1>4
<1>6. k - 1 \in 0..n /\ k - 1 < n /\ ~(k <= k - 1) /\ (k - 1) + 1 = k
  BY <1>4, <1>5
<1>7. k - 1 \in S
  BY <1>3, <1>6 DEF Bad
<1> QED BY <1>4, <1>6, <1>7

(* f is what a recursion over 0..n computes, with step[i] its i-th step.   *)
Computes(f, n, V, base, step) ==
    /\ f \in [0..n -> V] /\ f[0] = base
    /\ \A i \in 1..n : f[i] = step[i][f[i - 1]]

(* A recursion over 0..n defines a function.                               *)
LEMMA RecursionDefines ==
    ASSUME NEW n \in Nat, NEW V, NEW base \in V, NEW step \in [1..n -> [V -> V]]
    PROVE  \E f : Computes(f, n, V, base, step)
<1> DEFINE Def(k, f) == f[0] = base /\ \A i \in 1..k : f[i] = step[i][f[i - 1]]
           Good == {k \in 0..n : \E f \in [0..k -> V] : Def(k, f)}
<1>1. 0 \in Good
  <2>1. [i \in 0..0 |-> base] \in [0..0 -> V] /\ Def(0, [i \in 0..0 |-> base])
    OBVIOUS
  <2>2. 0 \in 0..n
    OBVIOUS
  <2> HIDE DEF Def
  <2>3. \E f \in [0..0 -> V] : Def(0, f)
    BY <2>1
  <2> QED BY <2>2, <2>3
<1>2. ASSUME NEW k \in 0..n, k \in Good, k < n PROVE k + 1 \in Good
  <2>1. PICK f \in [0..k -> V] : Def(k, f)
    BY <1>2
  <2> DEFINE g == [i \in 0..(k + 1) |-> IF i <= k THEN f[i] ELSE step[k + 1][f[k]]]
  <2>2. step[k + 1][f[k]] \in V
    BY <1>2
  <2>3. g \in [0..(k + 1) -> V]
    BY <2>2
  <2>4. g[0] = base
    BY <2>1
  <2>5. ASSUME NEW i \in 1..(k + 1) PROVE g[i] = step[i][g[i - 1]]
    <3>1. CASE i <= k
      BY <2>1, <3>1
    <3>2. CASE i = k + 1
      BY <3>2
    <3> QED BY <3>1, <3>2
  <2>6. Def(k + 1, g)
    BY <2>4, <2>5
  <2>7. k + 1 \in 0..n
    BY <1>2
  <2> HIDE DEF g, Def
  <2> QED BY <2>3, <2>6, <2>7
<1> HIDE DEF Good
<1>3. n \in Good
  <2>1. \A k \in 0..n : k \in Good /\ k < n => k + 1 \in Good
    BY <1>2
  <2>2. \A k \in 0..n : k \in Good
    BY <1>1, <2>1, InductionUpTo
  <2> QED BY <2>2
<1>4. PICK f \in [0..n -> V] : Def(n, f)
  BY <1>3 DEF Good
<1> QED BY <1>4 DEF Computes
=============================================================================
