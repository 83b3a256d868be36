------------------------------ MODULE GcProofs ------------------------------
(***************************************************************************)
(* Proofs about Gc, for any number of objects, variables and weak maps,    *)
(* and whatever they hold: what the script reaches is alive at every       *)
(* moment of a collection, counts are exact between collections, and the   *)
(* assertions of the collector hold.                                       *)
(*                                                                         *)
(* The invariant says of every moment which holders the counts count       *)
(* (Counting): all live cells, those whose turn has not come when          *)
(* references are taken off, those whose turn is over when they are put    *)
(* back.  The rest says where on the lists a cell is, and what its count   *)
(* and its mark are there.                                                 *)
(***************************************************************************)
EXTENDS Gc, Induction, FiniteSetTheorems

In(s) == {s[i] : i \in 1..Len(s)}
Precedes(s, x, y) == \E i, j \in 1..Len(s) : i < j /\ s[i] = x /\ s[j] = y
Distinct(s) == \A x \in In(s) : ~Precedes(s, x, x)
(* The elements before x, all of them when there is no x.                  *)
Before(s, x) == IF x = Null THEN In(s) ELSE {y \in In(s) : Precedes(s, y, x)}

-----------------------------------------------------------------------------
(* Lists: what is on them, and in which order.                             *)

LEMMA InList ==
    ASSUME NEW V, NEW s \in Seq(V)
    PROVE  In(s) \subseteq V /\ ToSet(s) = In(s) /\ (In(s) = {} <=> s = <<>>)
<1>1. DOMAIN s = 1..Len(s) /\ \A i \in 1..Len(s) : s[i] \in V
  OBVIOUS
<1>2. ToSet(s) = In(s)
  BY <1>1 DEF ToSet, In
<1>3. ASSUME s # <<>> PROVE s[1] \in In(s)
  <2>1. 1 \in 1..Len(s)
    BY <1>3
  <2> QED BY <2>1 DEF In
<1>4. In(<<>>) = {}
  BY DEF In
<1> QED BY <1>1, <1>2, <1>3, <1>4 DEF In

LEMMA EmptyList == In(<<>>) = {} /\ Distinct(<<>>) /\ \A x, y : ~Precedes(<<>>, x, y)
BY DEF In, Distinct, Precedes

LEMMA JoinedLists ==
    ASSUME NEW V, NEW s \in Seq(V), NEW t \in Seq(V)
    PROVE  /\ s \o t \in Seq(V) /\ In(s \o t) = In(s) \cup In(t)
           /\ \A x, y : Precedes(s \o t, x, y)
                 <=> Precedes(s, x, y) \/ Precedes(t, x, y) \/ (x \in In(s) /\ y \in In(t))
<1>1. PICK m \in Nat : m = Len(s)
  OBVIOUS
<1>2. PICK n \in Nat : n = Len(t)
  OBVIOUS
<1>3. PICK u \in Seq(V) : u = s \o t
  <2>1. s \o t \in Seq(V)
    OBVIOUS
  <2> QED BY <2>1, Zenon
<1>4. Len(u) = m + n
  BY <1>1, <1>2, <1>3
<1>5. \A i \in 1..m : i \in 1..(m + n) /\ u[i] = s[i]
  BY <1>1, <1>2, <1>3
<1>6. \A i \in 1..n : m + i \in 1..(m + n) /\ u[m + i] = t[i]
  BY <1>1, <1>2, <1>3
<1>7. \A i \in 1..(m + n) : i \in 1..m \/ \E j \in 1..n : i = m + j
  <2>1. SUFFICES ASSUME NEW i \in 1..(m + n), i > m PROVE \E j \in 1..n : i = m + j
    OBVIOUS
  <2>2. i - m \in 1..n /\ i = m + (i - m)
    BY <2>1
  <2> QED BY <2>2
<1>8. In(u) = In(s) \cup In(t)
  <2>1. ASSUME NEW x \in In(u) PROVE x \in In(s) \cup In(t)
    <3>1. PICK i \in 1..(m + n) : u[i] = x
      BY <1>4 DEF In
    <3>2. CASE i \in 1..m
      BY <1>1, <1>5, <3>1, <3>2 DEF In
    <3>3. ASSUME NEW j \in 1..n, i = m + j PROVE x \in In(t)
      BY <1>2, <1>6, <3>1, <3>3 DEF In
    <3> QED BY <1>7, <3>2, <3>3
  <2>2. ASSUME NEW x \in In(s) PROVE x \in In(u)
    <3>1. PICK i \in 1..m : s[i] = x
      BY <1>1 DEF In
    <3> QED BY <1>4, <1>5, <3>1 DEF In
  <2>3. ASSUME NEW x \in In(t) PROVE x \in In(u)
    <3>1. PICK i \in 1..n : t[i] = x
      BY <1>2 DEF In
    <3> QED BY <1>4, <1>6, <3>1 DEF In
  <2> QED BY <2>1, <2>2, <2>3
<1>9. ASSUME NEW x, NEW y, Precedes(u, x, y)
      PROVE  Precedes(s, x, y) \/ Precedes(t, x, y) \/ (x \in In(s) /\ y \in In(t))
  <2>1. PICK i \in 1..(m + n), j \in 1..(m + n) : i < j /\ u[i] = x /\ u[j] = y
    BY <1>4, <1>9 DEF Precedes
  <2>2. CASE j \in 1..m
    <3>1. i \in 1..m
      BY <2>1, <2>2
    <3> QED BY <1>1, <1>5, <2>1, <2>2, <3>1 DEF Precedes
  <2>3. ASSUME NEW b \in 1..n, j = m + b, i \in 1..m PROVE x \in In(s) /\ y \in In(t)
    BY <1>1, <1>2, <1>5, <1>6, <2>1, <2>3 DEF In
  <2>4. ASSUME NEW a \in 1..n, NEW b \in 1..n, i = m + a, j = m + b PROVE Precedes(t, x, y)
    <3>1. a < b /\ t[a] = x /\ t[b] = y
      BY <1>6, <2>1, <2>4
    <3> QED BY <1>2, <3>1 DEF Precedes
  <2> QED BY <1>7, <2>1, <2>2, <2>3, <2>4
<1>10. ASSUME NEW x, NEW y, Precedes(s, x, y) PROVE Precedes(u, x, y)
  <2>1. PICK i \in 1..m, j \in 1..m : i < j /\ s[i] = x /\ s[j] = y
    BY <1>1, <1>10 DEF Precedes
  <2>2. i \in 1..(m + n) /\ j \in 1..(m + n) /\ u[i] = x /\ u[j] = y
    BY <1>5, <2>1
  <2> QED BY <1>4, <2>1, <2>2 DEF Precedes
<1>11. ASSUME NEW x, NEW y, Precedes(t, x, y) PROVE Precedes(u, x, y)
  <2>1. PICK i \in 1..n, j \in 1..n : i < j /\ t[i] = x /\ t[j] = y
    BY <1>2, <1>11 DEF Precedes
  <2>2. m + i < m + j
    BY <2>1
  <2>3. m + i \in 1..(m + n) /\ m + j \in 1..(m + n) /\ u[m + i] = x /\ u[m + j] = y
    BY <1>6, <2>1
  <2> QED BY <1>4, <2>2, <2>3 DEF Precedes
<1>12. ASSUME NEW x \in In(s), NEW y \in In(t) PROVE Precedes(u, x, y)
  <2>1. PICK i \in 1..m, j \in 1..n : s[i] = x /\ t[j] = y
    BY <1>1, <1>2 DEF In
  <2>2. i < m + j
    BY <2>1
  <2>3. i \in 1..(m + n) /\ m + j \in 1..(m + n) /\ u[i] = x /\ u[m + j] = y
    BY <1>5, <1>6, <2>1
  <2> QED BY <1>4, <2>2, <2>3 DEF Precedes
<1> QED BY <1>3, <1>8, <1>9, <1>10, <1>11, <1>12

LEMMA OneOnList ==
    ASSUME NEW V, NEW x \in V
    PROVE  <<x>> \in Seq(V) /\ In(<<x>>) = {x} /\ \A y, z : ~Precedes(<<x>>, y, z)
<1>1. Len(<<x>>) = 1 /\ <<x>>[1] = x /\ 1..1 = {1}
  OBVIOUS
<1>2. In(<<x>>) = {x}
  BY <1>1 DEF In
<1>3. \A y, z : ~Precedes(<<x>>, y, z)
  BY <1>1 DEF Precedes
<1> QED BY <1>2, <1>3

LEMMA AppendedList ==
    ASSUME NEW V, NEW s \in Seq(V), NEW x \in V
    PROVE  /\ Append(s, x) \in Seq(V) /\ In(Append(s, x)) = In(s) \cup {x}
           /\ \A y, z : Precedes(Append(s, x), y, z)
                 <=> Precedes(s, y, z) \/ (y \in In(s) /\ z = x)
<1>1. Append(s, x) = s \o <<x>>
  OBVIOUS
<1>2. PICK t \in Seq(V) : t = <<x>> /\ In(t) = {x} /\ \A y, z : ~Precedes(t, y, z)
  BY OneOnList
<1>3. /\ s \o t \in Seq(V) /\ In(s \o t) = In(s) \cup In(t)
      /\ \A y, z : Precedes(s \o t, y, z)
            <=> Precedes(s, y, z) \/ Precedes(t, y, z) \/ (y \in In(s) /\ z \in In(t))
  BY JoinedLists
<1>4. Append(s, x) = s \o t
  BY <1>1, <1>2
<1> QED BY <1>2, <1>3, <1>4

LEMMA DistinctJoined ==
    ASSUME NEW V, NEW s \in Seq(V), NEW t \in Seq(V), Distinct(s), Distinct(t),
           In(s) \cap In(t) = {}
    PROVE  Distinct(s \o t)
<1>1. SUFFICES ASSUME NEW x \in In(s \o t), Precedes(s \o t, x, x) PROVE FALSE
  BY DEF Distinct
<1>2. x \in In(s) \cup In(t)
  BY <1>1, JoinedLists
<1>3. Precedes(s, x, x) \/ Precedes(t, x, x)
  BY <1>1, JoinedLists
<1>4. \A u : Precedes(u, x, x) => x \in In(u)
  BY DEF Precedes, In
<1> QED BY <1>3, <1>4 DEF Distinct

(* The head of a list of distinct elements, and the rest.                  *)
LEMMA HeadOfList ==
    ASSUME NEW V, NEW s \in Seq(V), s # <<>>, Distinct(s)
    PROVE  /\ Head(s) \in V /\ Head(s) \in In(s) /\ Tail(s) \in Seq(V)
           /\ In(Tail(s)) = In(s) \ {Head(s)} /\ Distinct(Tail(s))
           /\ \A x : ~Precedes(s, x, Head(s))
<1>1. PICK h \in V, t \in Seq(V) : h = Head(s) /\ t = Tail(s)
  <2>1. Head(s) \in V /\ Tail(s) \in Seq(V)
    OBVIOUS
  <2> QED BY <2>1, Zenon
<1>2. s = <<h>> \o t
  BY <1>1
<1>3. In(s) = {h} \cup In(t)
  BY <1>2, OneOnList, JoinedLists
<1>4. \A x, y : Precedes(s, x, y) <=> Precedes(t, x, y) \/ (x = h /\ y \in In(t))
  <2>1. \A x, y : Precedes(<<h>> \o t, x, y)
           <=> Precedes(<<h>>, x, y) \/ Precedes(t, x, y) \/ (x \in In(<<h>>) /\ y \in In(t))
    BY OneOnList, JoinedLists
  <2>2. In(<<h>>) = {h} /\ \A x, y : ~Precedes(<<h>>, x, y)
    BY OneOnList
  <2> QED BY <1>2, <2>1, <2>2
<1>5. h \notin In(t)
  BY <1>3, <1>4 DEF Distinct
<1>6. \A x, y : Precedes(t, x, y) => y \in In(t)
  BY DEF Precedes, In
<1>7. Distinct(t)
  BY <1>3, <1>4 DEF Distinct
<1> QED BY <1>1, <1>3, <1>4, <1>5, <1>6, <1>7

(* at[i] is what Without has kept of the first i elements.                 *)
Sieves(at, V, list, S, n) ==
    /\ at \in [0..n -> Seq(V)] /\ Without(list, S) = at[n] /\ at[0] = <<>>
    /\ \A i \in 1..n :
           at[i] = IF list[i] \in S THEN at[i - 1] ELSE Append(at[i - 1], list[i])

LEMMA WithoutSteps ==
    ASSUME NEW V, NEW list \in Seq(V), NEW S, NEW n \in Nat, n = Len(list)
    PROVE  \E at : Sieves(at, V, list, S, n)
<1> DEFINE Go(t, i) == IF list[i] \in S THEN t ELSE Append(t, list[i])
           W == Seq(V)
           Def(e) == e = [i \in 0..Len(list) |-> IF i = 0 THEN <<>> ELSE Go(e[i - 1], i)]
           at == CHOOSE e : Def(e)
<1>1. Without(list, S) = at[Len(list)]
  BY DEF Without
<1>2. ASSUME NEW t \in W, NEW i \in 1..n PROVE Go(t, i) \in W
  <2>1. list[i] \in V
    OBVIOUS
  <2>2. Append(t, list[i]) \in W
    BY <2>1
  <2> QED BY <2>2
<1>3. <<>> \in W
  OBVIOUS
<1> HIDE DEF W, Go
<1>4. PICK f : /\ f \in [0..n -> W] /\ f[0] = <<>>
               /\ \A i \in 1..n : f[i] = Go(f[i - 1], i)
  <2> DEFINE step == [i \in 1..n |-> [t \in W |-> Go(t, i)]]
  <2>1. step \in [1..n -> [W -> W]]
    BY <1>2
  <2>2. \A i \in 1..n, t \in W : step[i][t] = Go(t, i)
    OBVIOUS
  <2> HIDE DEF step
  <2>3. PICK f : Computes(f, n, W, <<>>, step)
    BY <1>3, <2>1, RecursionDefines
  <2>4. ASSUME NEW i \in 1..n PROVE f[i] = Go(f[i - 1], i)
    <3>1. f[i] = step[i][f[i - 1]] /\ f[i - 1] \in W
      BY <2>3 DEF Computes
    <3> QED BY <2>2, <3>1
  <2> QED BY <2>3, <2>4 DEF Computes
<1>5. Def(f)
  <2>1. f = [i \in 0..n |-> f[i]]
    BY <1>4
  <2>2. \A i \in 0..n : f[i] = IF i = 0 THEN <<>> ELSE Go(f[i - 1], i)
    BY <1>4
  <2>3. f = [i \in 0..n |-> IF i = 0 THEN <<>> ELSE Go(f[i - 1], i)]
    BY <2>1, <2>2
  <2> QED BY <2>3
<1>6. Def(at)
  BY <1>5
<1> HIDE DEF at
<1>7. \A i \in 0..n : at[i] = IF i = 0 THEN <<>> ELSE Go(at[i - 1], i)
  BY <1>6
<1>8. \A i \in 0..n : at[i] = f[i]
  <2> DEFINE Good == {i \in 0..n : at[i] = f[i]}
  <2>1. 0 \in Good
    BY <1>4, <1>7
  <2>2. ASSUME NEW k \in 0..n, k \in Good, k < n PROVE k + 1 \in Good
    <3>1. k + 1 \in 1..n /\ k + 1 \in 0..n /\ k + 1 # 0 /\ (k + 1) - 1 = k
      BY <2>2
    <3>2. at[k + 1] = Go(at[k], k + 1) /\ f[k + 1] = Go(f[k], k + 1) /\ at[k] = f[k]
      BY <1>4, <1>7, <2>2, <3>1
    <3> QED BY <3>1, <3>2
  <2> HIDE DEF Good
  <2>3. \A k \in 0..n : k \in Good
    BY <2>1, <2>2, InductionUpTo
  <2> QED BY <2>3 DEF Good
<1>9. Without(list, S) = f[n]
  BY <1>1, <1>8
<1> QED BY <1>4, <1>9 DEF Go, W, Sieves

(* What is left is in the order it was in.                                 *)
LEMMA LeftOfList ==
    ASSUME NEW V, NEW list \in Seq(V), NEW S
    PROVE  /\ Without(list, S) \in Seq(V) /\ In(Without(list, S)) = In(list) \ S
           /\ \A x, y : Precedes(Without(list, S), x, y)
                 <=> Precedes(list, x, y) /\ x \notin S /\ y \notin S
           /\ Distinct(list) => Distinct(Without(list, S))
<1>1. PICK n \in Nat : n = Len(list)
  OBVIOUS
<1>2. PICK at \in [0..n -> Seq(V)] :
          /\ Without(list, S) = at[n] /\ at[0] = <<>>
          /\ \A i \in 1..n :
                 at[i] = IF list[i] \in S THEN at[i - 1] ELSE Append(at[i - 1], list[i])
  <2>1. PICK at : Sieves(at, V, list, S, n)
    BY <1>1, WithoutSteps
  <2> QED BY <2>1 DEF Sieves
<1> DEFINE Seen(i, x) == x \notin S /\ \E j \in 1..i : list[j] = x
           Order(i, x, y) == /\ x \notin S /\ y \notin S
                             /\ \E j, k \in 1..i : j < k /\ list[j] = x /\ list[k] = y
           GoodIn(i) == \A x : x \in In(at[i]) <=> Seen(i, x)
           GoodOrder(i) == \A x, y : Precedes(at[i], x, y) <=> Order(i, x, y)
           Good == {i \in 0..n : GoodIn(i) /\ GoodOrder(i)}
<1>3. 0 \in Good
  <2>1. GoodIn(0)
    BY <1>2, EmptyList
  <2>2. GoodOrder(0)
    BY <1>2, EmptyList
  <2> QED BY <2>1, <2>2
<1>4. ASSUME NEW k \in 0..n, k \in Good, k < n PROVE k + 1 \in Good
  <2>1. PICK m \in 1..n : m = k + 1
    BY <1>4
  <2>2. m \in 0..n /\ m - 1 = k
    BY <2>1
  <2>3. PICK e \in V : e = list[m]
    BY <1>1
  <2>4. at[k] \in Seq(V) /\ at[m] = IF e \in S THEN at[k] ELSE Append(at[k], e)
    BY <1>2, <2>2, <2>3
  <2>5. ASSUME NEW x PROVE Seen(m, x) <=> Seen(k, x) \/ (x = e /\ e \notin S)
    <3>1. \A j \in 1..m : j \in 1..k \/ j = m
      BY <2>1
    <3>2. \A j \in 1..k : j \in 1..m
      BY <2>1
    <3>3. m \in 1..m
      BY <2>1
    <3> QED BY <2>3, <3>1, <3>2, <3>3
  <2>6. ASSUME NEW x, NEW y
        PROVE  Order(m, x, y) <=> Order(k, x, y) \/ (Seen(k, x) /\ y = e /\ e \notin S)
    <3>1. \A j \in 1..m : j \in 1..k \/ j = m
      BY <2>1
    <3>2. \A j \in 1..k : j \in 1..m /\ j < m
      BY <2>1
    <3>3. \A j \in 1..m : ~(m < j)
      BY <2>1
    <3>4. m \in 1..m
      BY <2>1
    <3> QED BY <2>3, <3>1, <3>2, <3>3, <3>4
  <2>7. GoodIn(k) /\ GoodOrder(k)
    BY <1>4
  <2> HIDE DEF Seen, Order
  <2>8. CASE e \in S
    <3>1. at[m] = at[k]
      BY <2>4, <2>8
    <3> QED BY <2>1, <2>2, <2>5, <2>6, <2>7, <2>8, <3>1
  <2>9. CASE e \notin S
    <3>1. at[m] = Append(at[k], e)
      BY <2>4, <2>9
    <3>2. In(at[m]) = In(at[k]) \cup {e}
      BY <2>4, <3>1, AppendedList
    <3>3. \A x, y : Precedes(at[m], x, y) <=> Precedes(at[k], x, y) \/ (x \in In(at[k]) /\ y = e)
      BY <2>4, <3>1, AppendedList
    <3>4. GoodIn(m)
      BY <2>5, <2>7, <2>9, <3>2
    <3>5. GoodOrder(m)
      BY <2>6, <2>7, <2>9, <3>3
    <3> QED BY <2>1, <2>2, <3>4, <3>5
  <2> QED BY <2>8, <2>9
<1> HIDE DEF Good
<1>5. \A k \in 0..n : k \in Good
  BY <1>3, <1>4, InductionUpTo
<1>6. n \in Good
  BY <1>5
<1>7. In(Without(list, S)) = In(list) \ S
  <2>1. \A x : x \in In(at[n]) <=> Seen(n, x)
    BY <1>6 DEF Good
  <2>2. \A x : Seen(n, x) <=> x \in In(list) \ S
    BY <1>1 DEF In
  <2> QED BY <1>2, <2>1, <2>2
<1>8. \A x, y : Precedes(Without(list, S), x, y)
          <=> Precedes(list, x, y) /\ x \notin S /\ y \notin S
  <2>1. \A x, y : Precedes(at[n], x, y) <=> Order(n, x, y)
    BY <1>6 DEF Good
  <2>2. \A x, y : Order(n, x, y) <=> Precedes(list, x, y) /\ x \notin S /\ y \notin S
    BY <1>1 DEF Precedes
  <2> HIDE DEF Order
  <2> QED BY <1>2, <2>1, <2>2
<1>9. Without(list, S) \in Seq(V)
  BY <1>2
<1>10. Distinct(list) => Distinct(Without(list, S))
  BY <1>7, <1>8 DEF Distinct
<1> QED BY <1>7, <1>8, <1>9, <1>10

(* A finite set as a list.                                                 *)
LEMMA SetOnList ==
    ASSUME NEW V, NEW S \in SUBSET V, IsFiniteSet(S)
    PROVE  SetToSeq(S) \in Seq(V) /\ In(SetToSeq(S)) = S /\ Distinct(SetToSeq(S))
<1>1. PICK n \in Nat : n = Cardinality(S)
  BY FS_CardinalityType
<1>2. PICK b : b \in Bijection(1..n, S)
  BY <1>1, FS_CardinalityType DEF ExistsBijection
<1>3. b \in [1..n -> S] /\ IsInjective(b)
  BY <1>2 DEF Bijection, Injection
<1> DEFINE f == SetToSeq(S)
<1>4. f \in [1..n -> S] /\ IsInjective(f)
  BY <1>1, <1>3 DEF SetToSeq
<1> HIDE DEF f
<1>5. f \in Injection(1..n, S)
  BY <1>4 DEF Injection
<1>6. IsFiniteSet(1..n) /\ Cardinality(1..n) = n
  BY FS_Interval
<1>7. f \in Surjection(1..n, S)
  BY <1>1, <1>5, <1>6, FS_Injection
<1>8. \A x \in S : \E i \in 1..n : f[i] = x
  BY <1>7 DEF Surjection
<1>9. f \in Seq(V) /\ Len(f) = n
  BY <1>4
<1>10. In(f) = S
  BY <1>4, <1>8, <1>9 DEF In
<1>11. Distinct(f)
  <2>1. SUFFICES ASSUME NEW x, Precedes(f, x, x) PROVE FALSE
    BY DEF Distinct
  <2>2. PICK i \in 1..n, j \in 1..n : i < j /\ f[i] = x /\ f[j] = x
    BY <1>9, <2>1 DEF Precedes
  <2>3. DOMAIN f = 1..n
    BY <1>4
  <2>4. i = j
    BY <1>4, <2>2, <2>3 DEF IsInjective
  <2> QED BY <2>2, <2>4
<1> QED BY <1>9, <1>10, <1>11 DEF f

LEMMA FirstOfList ==
    ASSUME NEW V, NEW s \in Seq(V), Distinct(s), Null \notin V
    PROVE  First(s) \in In(s) \cup {Null} /\ (First(s) = Null <=> s = <<>>)
           /\ Before(s, First(s)) = {}
<1>1. CASE s = <<>>
  BY <1>1, EmptyList DEF First, Before
<1>2. CASE s # <<>>
  <2>1. First(s) = Head(s) /\ Head(s) \in In(s) /\ Head(s) \in V
    BY <1>2, HeadOfList DEF First
  <2>2. \A x : ~Precedes(s, x, Head(s))
    BY <1>2, HeadOfList
  <2> QED BY <1>2, <2>1, <2>2 DEF Before
<1> QED BY <1>1, <1>2

(* Before the element that follows is what was before, and the element.    *)
LEMMA NextOnList ==
    ASSUME NEW V, NEW s \in Seq(V), Distinct(s), Null \notin V, NEW x \in In(s),
           NEW y, y = Successor(s, x)
    PROVE  /\ y \in In(s) \cup {Null} /\ y # x
           /\ Before(s, y) = Before(s, x) \cup {x} /\ y \notin Before(s, y)
           /\ x \notin Before(s, x)
<1>1. PICK n \in Nat : n = Len(s)
  OBVIOUS
<1>2. PICK i : i = CHOOSE j \in 1..Len(s) : s[j] = x
  OBVIOUS
<1>3. \E j \in 1..Len(s) : s[j] = x
  BY DEF In
<1>4. i \in 1..n /\ s[i] = x
  BY <1>1, <1>2, <1>3
<1>5. y = IF i = n THEN Null ELSE s[i + 1]
  BY <1>1, <1>2 DEF Successor
<1>6. \A j, k \in 1..n : s[j] = s[k] => j = k
  <2>1. SUFFICES ASSUME NEW j \in 1..n, NEW k \in 1..n, s[j] = s[k], j # k PROVE FALSE
    OBVIOUS
  <2>2. s[j] \in In(s)
    BY <1>1 DEF In
  <2>3. j < k \/ k < j
    BY <2>1
  <2>4. Precedes(s, s[j], s[j])
    BY <1>1, <2>1, <2>3 DEF Precedes
  <2> QED BY <2>2, <2>4 DEF Distinct
<1>7. \A z \in In(s) : \E j \in 1..n : s[j] = z
  BY <1>1 DEF In
<1>8. \A j \in 1..n : s[j] \in In(s)
  BY <1>1 DEF In
<1>9. \A j, k \in 1..n : Precedes(s, s[j], s[k]) <=> j < k
  BY <1>1, <1>6 DEF Precedes
<1>10. In(s) \subseteq V /\ x # Null
  BY InList
<1>11. \A j \in 1..n : s[j] \in Before(s, x) <=> j < i
  BY <1>4, <1>8, <1>9, <1>10 DEF Before
<1>12. x \notin Before(s, x)
  BY <1>4, <1>11
<1>13. Before(s, x) \subseteq In(s) /\ Before(s, y) \subseteq In(s)
  BY DEF Before
<1>14. CASE i = n
  <2>1. y = Null /\ Before(s, y) = In(s)
    BY <1>5, <1>14 DEF Before
  <2>2. In(s) = Before(s, x) \cup {x}
    <3>1. \A j \in 1..n : j < i \/ j = i
      BY <1>14
    <3> QED BY <1>4, <1>7, <1>11, <1>13, <3>1
  <2> QED BY <1>10, <1>12, <2>1, <2>2
<1>15. CASE i # n
  <2>1. PICK k \in 1..n : k = i + 1
    BY <1>4, <1>15
  <2>2. y = s[k] /\ y \in In(s) /\ y # Null
    BY <1>5, <1>8, <1>10, <1>15, <2>1
  <2>3. \A j \in 1..n : s[j] \in Before(s, y) <=> j < k
    BY <1>8, <1>9, <2>2 DEF Before
  <2>4. \A j \in 1..n : j < k <=> j < i \/ j = i
    BY <1>4, <2>1
  <2>5. Before(s, y) = Before(s, x) \cup {x}
    <3>1. ASSUME NEW z \in In(s) PROVE z \in Before(s, y) <=> z \in Before(s, x) \/ z = x
      <4>1. PICK j \in 1..n : s[j] = z
        BY <1>7
      <4>2. j = i <=> z = x
        BY <1>4, <1>6, <4>1
      <4> QED BY <1>11, <2>3, <2>4, <4>1, <4>2
    <3>2. x \in In(s)
      BY <1>4, <1>8
    <3> QED BY <1>13, <3>1, <3>2
  <2>6. y # x
    BY <1>4, <1>6, <2>1, <2>2
  <2>7. y \notin Before(s, y)
    BY <2>2, <2>3
  <2> QED BY <1>12, <2>2, <2>5, <2>6, <2>7
<1> QED BY <1>14, <1>15

TypeOK ==
    /\ life \in [Cells -> {"free", "live", "zombie"}]
    /\ field \in [Objects \cup VarRefs -> Cells \cup {Null}]
    /\ \A v \in VarRefs : field[v] \in JSValues \cup {Null}
    /\ entries \in [WeakMaps -> [JSValues -> JSValues \cup {Null}]]
    /\ roots \subseteq Cells
    /\ ref_count \in [Cells -> Int] /\ mark \in [Cells -> {0, 1}]
    /\ gc_obj_list \in Seq(Cells) /\ tmp_obj_list \in Seq(Cells)
    /\ gc_zero_ref_count_list \in Seq(Cells)
    /\ phase \in {"none", "free_zero", "gc_decref", "gc_scan", "gc_free"}
    /\ el \in Cells \cup {Null}

(* Every cell that has memory is on one list, once.                        *)
Listed ==
    /\ Distinct(gc_obj_list) /\ Distinct(tmp_obj_list) /\ Distinct(gc_zero_ref_count_list)
    /\ In(gc_obj_list) \cap In(tmp_obj_list) = {}
    /\ In(gc_obj_list) \cap In(gc_zero_ref_count_list) = {}
    /\ In(tmp_obj_list) \cap In(gc_zero_ref_count_list) = {}
    /\ In(gc_obj_list) \cup In(tmp_obj_list) \cup In(gc_zero_ref_count_list)
          = {c \in Cells : life[c] # "free"}

(* A record of a weak map is gone with its map and with its key.           *)
RecordsAlive ==
    \A w \in WeakMaps, k \in JSValues : entries[w][k] # Null => w \in Live /\ k \in Live

Root(c) == IF c \in roots THEN 1 ELSE 0
Counting ==
    IF phase = "gc_decref" THEN {c \in Live : mark[c] = 0}
    ELSE IF phase = "gc_scan" THEN Before(gc_obj_list, el)
    ELSE Live
Counts == \A c \in Cells : ref_count[c] = Root(c) + Cardinality(References(Counting, c))

(* What is free is not held, and a variable that is not held is free.      *)
Unheld == \A c \in Cells : life[c] = "free" => c \notin roots /\ References(Live, c) = {}
VariablesHeld == \A v \in VarRefs \cap Live : v \in roots \/ References(Live, v) # {}

NoZombies == \A c \in Cells : life[c] # "zombie"
Resting ==
    /\ NoZombies /\ tmp_obj_list = <<>> /\ \A c \in Cells : mark[c] = 0
    /\ phase = "none" => gc_zero_ref_count_list = <<>>
    /\ phase = "free_zero" => gc_zero_ref_count_list # <<>>
    /\ \A c \in In(gc_zero_ref_count_list) : c \in JSValues /\ ref_count[c] = 0
Decreasing ==
    /\ NoZombies /\ gc_zero_ref_count_list = <<>> /\ el \in In(gc_obj_list)
    /\ \A c \in Cells : mark[c] = 1 <=> c \in Before(gc_obj_list, el) \cup In(tmp_obj_list)
    /\ \A c \in Before(gc_obj_list, el) : ref_count[c] > 0
    /\ \A c \in In(tmp_obj_list) : ref_count[c] = 0
Scanning ==
    /\ NoZombies /\ gc_zero_ref_count_list = <<>> /\ el \in In(gc_obj_list) \cup {Null}
    /\ \A c \in In(gc_obj_list) : ref_count[c] > 0
    /\ \A c \in In(tmp_obj_list) : ref_count[c] = 0
    /\ \A c \in Cells : mark[c] = 1 => c \in Live /\ c \notin Before(gc_obj_list, el)
(* Nothing outside the garbage holds any of it.                            *)
Freeing ==
    /\ \A c \in Cells : life[c] = "zombie" => c \in In(gc_zero_ref_count_list) \cap JSValues
    /\ \A c \in In(gc_zero_ref_count_list) : life[c] = "zombie" \/ c \in VarRefs
    /\ \A c \in In(gc_obj_list) : mark[c] = 0
    /\ roots \subseteq In(gc_obj_list)
    /\ \A c \in Cells : References(In(gc_obj_list), c) # {} => c \in In(gc_obj_list)

Phases ==
    /\ phase \in {"none", "free_zero"} => Resting
    /\ phase = "gc_decref" => Decreasing
    /\ phase = "gc_scan" => Scanning
    /\ phase = "gc_free" => Freeing

Inv == /\ TypeOK /\ Listed /\ RecordsAlive /\ Counts /\ Unheld /\ VariablesHeld /\ Phases

-----------------------------------------------------------------------------
(* A heap by itself: what each cell has under each key.                    *)
Keys == JSValues \cup {Null}
Heaps == [Cells -> [Keys -> Cells \cup {Null}]]
Heap == [h \in Cells |->
            [k \in Keys |-> IF h \in WeakMaps THEN IF k = Null THEN Null ELSE entries[h][k]
                            ELSE IF k = Null THEN field[h] ELSE Null]]
Edges(g, S, c) == {r \in S \X Keys : g[r[1]][r[2]] = c}
Number(g, S, c) == Cardinality(Edges(g, S, c))

(* The heap, and the references that are in it.                            *)
HeapShape ==
    /\ Heap \in Heaps
    /\ \A S \in SUBSET Cells, c \in Cells : References(S, c) = Edges(Heap, S, c)
    /\ \A v \in VarRefs, k \in Keys : Heap[v][k] \in JSValues \cup {Null}

LEMMA HeapOfState == TypeOK => HeapShape
<1> SUFFICES ASSUME TypeOK PROVE HeapShape
  OBVIOUS
<1>1. ASSUME NEW h \in Cells PROVE Heap[h] \in [Keys -> Cells \cup {Null}]
  <2>1. h \in WeakMaps \/ h \in Objects \cup VarRefs
    BY DEF Cells
  <2>2. h \in WeakMaps => \A k \in JSValues : entries[h][k] \in Cells \cup {Null}
    BY DEF TypeOK, JSValues, Cells
  <2>3. h \in Objects \cup VarRefs => field[h] \in Cells \cup {Null}
    BY DEF TypeOK
  <2> QED BY <2>1, <2>2, <2>3 DEF Heap, Keys
<1>2. Heap \in Heaps
  BY <1>1 DEF Heaps, Heap
<1>3. ASSUME NEW S \in SUBSET Cells, NEW c \in Cells PROVE References(S, c) = Edges(Heap, S, c)
  <2>1. c # Null
    BY CellsAssumption
  <2>2. ASSUME NEW h \in S, NEW k \in Keys PROVE HoldsAt(h, k, c) <=> Heap[h][k] = c
    BY <2>1, <2>2 DEF HoldsAt, Heap
  <2>3. ASSUME NEW r \in S \X Keys
        PROVE  HoldsAt(r[1], r[2], c) <=> Heap[r[1]][r[2]] = c
    <3>1. r[1] \in S /\ r[2] \in Keys
      OBVIOUS
    <3> QED BY <2>2, <3>1
  <2>4. References(S, c) = {r \in S \X Keys : HoldsAt(r[1], r[2], c)}
    BY DEF References, Keys
  <2> QED BY <2>3, <2>4 DEF Edges
<1>4. ASSUME NEW v \in VarRefs, NEW k \in Keys PROVE Heap[v][k] \in JSValues \cup {Null}
  <2>1. v \in Cells /\ v \notin WeakMaps
    BY CellsAssumption DEF Cells, JSValues
  <2>2. field[v] \in JSValues \cup {Null}
    BY DEF TypeOK
  <2> QED BY <2>1, <2>2 DEF Heap
<1> QED BY <1>2, <1>3, <1>4 DEF HeapShape

LEMMA HeapOfNextState == TypeOK' => HeapShape'
BY HeapOfState, PTL

LEMMA EdgesFinite ==
    ASSUME NEW g, NEW S \in SUBSET Cells, NEW c
    PROVE  IsFiniteSet(Edges(g, S, c)) /\ Number(g, S, c) \in Nat
           /\ (Number(g, S, c) = 0 <=> Edges(g, S, c) = {})
<1>1. IsFiniteSet(S)
  BY CellsAssumption, FS_Subset
<1>2. IsFiniteSet(JSValues)
  <2>1. JSValues \in SUBSET Cells
    BY DEF JSValues, Cells
  <2> QED BY <2>1, CellsAssumption, FS_Subset
<1>3. IsFiniteSet(Keys)
  BY <1>2, FS_AddElement DEF Keys
<1>4. IsFiniteSet(S \X Keys)
  BY <1>1, <1>3, FS_Product
<1>5. IsFiniteSet(Edges(g, S, c))
  <2>1. Edges(g, S, c) \in SUBSET (S \X Keys)
    BY DEF Edges
  <2> QED BY <1>4, <2>1, FS_Subset
<1> QED BY <1>5, FS_CardinalityType, FS_EmptySet DEF Number

(* The references that two sets of cells hold.                             *)
LEMMA EdgesSplit ==
    ASSUME NEW g, NEW S \in SUBSET Cells, NEW T \in SUBSET Cells, S \cap T = {}, NEW c
    PROVE  Number(g, S \cup T, c) = Number(g, S, c) + Number(g, T, c)
<1>1. Edges(g, S \cup T, c) = Edges(g, S, c) \cup Edges(g, T, c)
  BY DEF Edges
<1>2. Edges(g, S, c) \cap Edges(g, T, c) = {}
  BY DEF Edges
<1>3. IsFiniteSet(Edges(g, S, c)) /\ IsFiniteSet(Edges(g, T, c))
  BY EdgesFinite
<1>5. Cardinality(Edges(g, S, c) \cup Edges(g, T, c))
         = Cardinality(Edges(g, S, c)) + Cardinality(Edges(g, T, c)) - Cardinality({})
  BY <1>2, <1>3, FS_Union
<1>6. Cardinality({}) = 0
  BY FS_EmptySet
<1>7. Number(g, S \cup T, c) = Cardinality(Edges(g, S, c) \cup Edges(g, T, c))
  BY <1>1, Zenon DEF Number
<1>8. Number(g, S \cup T, c) = Number(g, S, c) + Number(g, T, c) - Cardinality({})
  BY <1>5, <1>7 DEF Number
<1>9. Number(g, S, c) \in Nat /\ Number(g, T, c) \in Nat
  BY EdgesFinite
<1> QED BY <1>6, <1>8, <1>9

LEMMA EdgesWithin ==
    ASSUME NEW g, NEW T \in SUBSET Cells, NEW S \in SUBSET T, NEW c
    PROVE  /\ Number(g, S, c) + Number(g, T \ S, c) = Number(g, T, c)
           /\ Number(g, S, c) <= Number(g, T, c)
<1>1. T = S \cup (T \ S) /\ S \cap (T \ S) = {}
  OBVIOUS
<1>2. S \in SUBSET Cells /\ T \ S \in SUBSET Cells
  OBVIOUS
<1>3. Number(g, S \cup (T \ S), c) = Number(g, S, c) + Number(g, T \ S, c)
  BY <1>1, <1>2, EdgesSplit
<1>4. Number(g, S, c) \in Nat /\ Number(g, T \ S, c) \in Nat
  BY <1>2, EdgesFinite
<1>5. Number(g, T, c) = Number(g, S, c) + Number(g, T \ S, c)
  BY <1>1, <1>3, Zenon
<1> QED BY <1>4, <1>5

LEMMA EdgesFound ==
    ASSUME NEW g, NEW S \in SUBSET Cells, NEW c
    PROVE  Number(g, S, c) > 0 <=> \E h \in S, k \in Keys : g[h][k] = c
<1>1. Number(g, S, c) \in Nat /\ (Number(g, S, c) = 0 <=> Edges(g, S, c) = {})
  BY EdgesFinite
<1>2. Edges(g, S, c) # {} <=> \E h \in S, k \in Keys : g[h][k] = c
  <2>1. ASSUME NEW r \in Edges(g, S, c) PROVE \E h \in S, k \in Keys : g[h][k] = c
    BY DEF Edges
  <2>2. ASSUME NEW h \in S, NEW k \in Keys, g[h][k] = c PROVE Edges(g, S, c) # {}
    <3>1. <<h, k>> \in Edges(g, S, c)
      BY <2>2 DEF Edges
    <3> QED BY <3>1
  <2> QED BY <2>1, <2>2
<1> QED BY <1>1, <1>2

LEMMA EdgesSame ==
    ASSUME NEW g, NEW h, NEW S, NEW c, \A x \in S, k \in Keys : g[x][k] = h[x][k]
    PROVE  Edges(g, S, c) = Edges(h, S, c) /\ Number(g, S, c) = Number(h, S, c)
<1>1. Edges(g, S, c) = Edges(h, S, c)
  BY DEF Edges
<1> QED BY <1>1 DEF Number

(* A heap in which h has v under k, and else what it had in g.             *)
Assigned(g, after, h, k, v) ==
    \A x \in Cells, y \in Keys : after[x][y] = IF x = h /\ y = k THEN v ELSE g[x][y]
(* A heap without what p holds, and without what is recorded for p.        *)
Cleared(g, after, p) ==
    \A x \in Cells, y \in Keys : after[x][y] = IF x = p \/ y = p THEN Null ELSE g[x][y]

One(P) == IF P THEN 1 ELSE 0

LEMMA EdgesAssigned ==
    ASSUME NEW g, NEW after, NEW h \in Cells, NEW k \in Keys, NEW v, Assigned(g, after, h, k, v),
           NEW S \in SUBSET Cells, NEW c
    PROVE  Number(after, S, c) = IF h \in S THEN Number(g, S, c) - One(g[h][k] = c) + One(v = c)
                                 ELSE Number(g, S, c)
<1>1. PICK E : E = Edges(g, S, c)
  OBVIOUS
<1>2. PICK F : F = Edges(after, S, c)
  OBVIOUS
<1>3. IsFiniteSet(E) /\ IsFiniteSet(F) /\ Cardinality(E) \in Nat /\ Cardinality(F) \in Nat
  BY <1>1, <1>2, EdgesFinite DEF Number
<1>4. Number(g, S, c) = Cardinality(E) /\ Number(after, S, c) = Cardinality(F)
  BY <1>1, <1>2 DEF Number
<1>5. after[h][k] = v
  BY DEF Assigned
<1>6. CASE h \notin S
  <2>1. \A x \in S, y \in Keys : g[x][y] = after[x][y]
    BY <1>6 DEF Assigned
  <2>2. Number(g, S, c) = Number(after, S, c)
    BY <2>1, EdgesSame
  <2> QED BY <1>6, <2>2
<1>7. CASE h \in S
  <2>1. <<h, k>> \in E <=> g[h][k] = c
    BY <1>1, <1>7 DEF Edges
  <2>2. <<h, k>> \in F <=> v = c
    BY <1>2, <1>5, <1>7 DEF Edges
  <2>3. ASSUME NEW x \in S, NEW y \in Keys, <<x, y>> # <<h, k>> PROVE g[x][y] = after[x][y]
    BY <2>3 DEF Assigned
  <2>4. E \ {<<h, k>>} = F \ {<<h, k>>}
    <3>1. ASSUME NEW r \in S \X Keys, r # <<h, k>> PROVE r \in E <=> r \in F
      <4>1. r = <<r[1], r[2]>> /\ r[1] \in S /\ r[2] \in Keys
        OBVIOUS
      <4>2. g[r[1]][r[2]] = after[r[1]][r[2]]
        BY <2>3, <3>1, <4>1
      <4> QED BY <1>1, <1>2, <4>2 DEF Edges
    <3>2. E \subseteq S \X Keys /\ F \subseteq S \X Keys
      BY <1>1, <1>2 DEF Edges
    <3> QED BY <3>1, <3>2
  <2>5. Cardinality(E \ {<<h, k>>}) = IF g[h][k] = c THEN Cardinality(E) - 1 ELSE Cardinality(E)
    BY <1>3, <2>1, FS_RemoveElement
  <2>6. Cardinality(F \ {<<h, k>>}) = IF v = c THEN Cardinality(F) - 1 ELSE Cardinality(F)
    BY <1>3, <2>2, FS_RemoveElement
  <2>7. Cardinality(E \ {<<h, k>>}) = Cardinality(F \ {<<h, k>>})
    BY <2>4
  <2> QED BY <1>3, <1>4, <1>7, <2>5, <2>6, <2>7 DEF One
<1> QED BY <1>6, <1>7

LEMMA EdgesCleared ==
    ASSUME NEW g, NEW after, NEW p \in JSValues, Cleared(g, after, p),
           NEW S \in SUBSET Cells, p \notin S, NEW c, c # Null,
           NEW M, M = {h \in S : g[h][p] = c}
    PROVE  Cardinality(M) \in Nat /\ Number(g, S, c) = Number(after, S, c) + Cardinality(M)
<1>1. PICK E : E = Edges(g, S, c)
  OBVIOUS
<1>2. PICK F : F = Edges(after, S, c)
  OBVIOUS
<1>3. M = {h \in S : g[h][p] = c}
  OBVIOUS
<1> DEFINE R == {r \in E : r[2] = p}
           f == [h \in M |-> <<h, p>>]
<1>4. p \in Keys
  BY DEF Keys
<1>5. IsFiniteSet(E) /\ IsFiniteSet(F) /\ Cardinality(E) \in Nat /\ Cardinality(F) \in Nat
  BY <1>1, <1>2, EdgesFinite DEF Number
<1>6. IsFiniteSet(M)
  <2>1. M \in SUBSET Cells
    BY <1>3
  <2> QED BY <2>1, CellsAssumption, FS_Subset
<1>7. f \in Bijection(M, R)
  <2>1. \A h \in M : <<h, p>> \in R
    BY <1>1, <1>3, <1>4 DEF Edges
  <2>2. \A r \in R : r[1] \in M /\ r = <<r[1], p>>
    BY <1>1, <1>3 DEF Edges
  <2> HIDE DEF R
  <2>3. f \in [M -> R]
    BY <2>1
  <2>4. f \in Injection(M, R)
    <3>1. \A a, b \in M : <<a, p>> = <<b, p>> => a = b
      OBVIOUS
    <3> QED BY <2>3, <3>1 DEF Injection, IsInjective
  <2>5. \A r \in R : \E h \in M : f[h] = r
    BY <2>2
  <2> QED BY <2>3, <2>4, <2>5 DEF Bijection, Surjection
<1>8. IsFiniteSet(R) /\ Cardinality(R) = Cardinality(M)
  <2>1. ExistsBijection(M, R)
    BY <1>7, Zenon DEF ExistsBijection
  <2> HIDE DEF R
  <2> QED BY <1>6, <2>1, FS_Bijection
<1>9. E = F \cup R /\ F \cap R = {}
  <2>1. ASSUME NEW r \in S \X Keys PROVE (r \in E <=> r \in F \/ r \in R) /\ ~(r \in F /\ r \in R)
    <3>1. r[1] \in S /\ r[1] \in Cells /\ r[2] \in Keys /\ r[1] # p
      OBVIOUS
    <3>2. after[r[1]][r[2]] = IF r[2] = p THEN Null ELSE g[r[1]][r[2]]
      BY <3>1 DEF Cleared
    <3> QED BY <1>1, <1>2, <3>2 DEF Edges
  <2>2. E \subseteq S \X Keys /\ F \subseteq S \X Keys /\ R \subseteq E
    BY <1>1, <1>2 DEF Edges
  <2> QED BY <2>1, <2>2
<1> HIDE DEF R
<1>10. Cardinality(F \cup R) = Cardinality(F) + Cardinality(R) - Cardinality(F \cap R)
  BY <1>5, <1>8, FS_Union
<1>11. Cardinality(E) = Cardinality(F \cup R)
  BY <1>9
<1>12. Cardinality(F \cap R) = 0
  BY <1>9, FS_EmptySet
<1>13. Cardinality(M) \in Nat
  BY <1>6, FS_CardinalityType
<1>14. Cardinality(E) = Cardinality(F) + Cardinality(M)
  BY <1>5, <1>8, <1>10, <1>11, <1>12, <1>13
<1> QED BY <1>1, <1>2, <1>3, <1>6, <1>13, <1>14 DEF Number

(* What Dropped computes, with g for the heap: the variables that go, what *)
(* is taken off every count, and the cells that go to the list.            *)
Going(rc, drops) == {v \in VarRefs : drops[v] > 0 /\ rc[v] = drops[v]}
Off(g, vdead, drops) == [c \in Cells |-> drops[c] + Number(g, vdead, c)]
ToZero(rc, off, gone) == {c \in JSValues \ gone : off[c] > 0 /\ rc[c] = off[c]}

(* References are dropped while the counts are those of the heap as it     *)
(* will be, where alive hold references, but for what is dropped and       *)
(* for a reference to c that is only added to its count afterwards.        *)
Dropping(rc, g, alive, root, drops, plus) ==
    /\ rc \in [Cells -> Int] /\ root \in [Cells -> {0, 1}] /\ plus \in [Cells -> {0, 1}]
    /\ drops \in [Cells -> Nat] /\ alive \subseteq Cells
    /\ \A v \in VarRefs, k \in Keys : g[v][k] \in JSValues \cup {Null}
    /\ \A c \in Cells : rc[c] + plus[c] = root[c] + Number(g, alive, c) + drops[c]
    /\ \A c \in Cells : plus[c] = 1 => root[c] = 1 /\ drops[c] = 0
    /\ \A c \in Cells : plus[c] = 1 => \E h \in alive, k \in Keys : root[h] = 1 /\ g[h][k] = c
    /\ \A v \in VarRefs \ alive : drops[v] = 0

(* What is then true of the counts.                                        *)
DropCounts(rc, g, alive, root, plus, vdead, off) ==
    /\ vdead \subseteq alive \cap VarRefs /\ off \in [Cells -> Nat]
    /\ \A c \in Cells : rc[c] - off[c] + plus[c] = root[c] + Number(g, alive \ vdead, c)
    /\ \A v \in vdead : root[v] = 0 /\ Number(g, alive \ vdead, v) = 0
    /\ \A v \in (VarRefs \cap alive) \ vdead :
          rc[v] + plus[v] > 0 => root[v] + Number(g, alive \ vdead, v) > 0
    /\ \A c \in Cells : rc[c] + plus[c] = 0 => off[c] = 0
    /\ \A c \in Cells : plus[c] = 1 => rc[c] # off[c]

LEMMA DroppedCounts ==
    ASSUME NEW rc, NEW g, NEW alive, NEW root, NEW drops, NEW plus,
           Dropping(rc, g, alive, root, drops, plus),
           NEW vdead, vdead = Going(rc, drops), NEW off, off = Off(g, vdead, drops)
    PROVE  DropCounts(rc, g, alive, root, plus, vdead, off)
<1>1. /\ rc \in [Cells -> Int] /\ root \in [Cells -> {0, 1}] /\ plus \in [Cells -> {0, 1}]
      /\ drops \in [Cells -> Nat] /\ alive \subseteq Cells
      /\ \A v \in VarRefs, k \in Keys : g[v][k] \in JSValues \cup {Null}
      /\ \A c \in Cells : rc[c] + plus[c] = root[c] + Number(g, alive, c) + drops[c]
      /\ \A c \in Cells : plus[c] = 1 => root[c] = 1 /\ drops[c] = 0
      /\ \A c \in Cells : plus[c] = 1 => \E h \in alive, k \in Keys : root[h] = 1 /\ g[h][k] = c
      /\ \A v \in VarRefs \ alive : drops[v] = 0
  BY DEF Dropping
<1>2. VarRefs \subseteq Cells
  BY DEF Cells
<1>3. vdead \subseteq VarRefs /\ \A v \in vdead : drops[v] > 0 /\ rc[v] = drops[v]
  BY DEF Going
<1>4. vdead \subseteq alive
  <2>1. SUFFICES ASSUME NEW v \in vdead, v \notin alive PROVE FALSE
    OBVIOUS
  <2>2. v \in VarRefs \ alive /\ drops[v] > 0
    BY <1>3, <2>1
  <2>3. drops[v] = 0
    BY <1>1, <2>2
  <2> QED BY <2>2, <2>3
<1>5. vdead \in SUBSET alive /\ alive \in SUBSET Cells /\ vdead \in SUBSET Cells
      /\ alive \ vdead \in SUBSET Cells
  BY <1>1, <1>4
<1>6. PICK D, L : /\ D = [c \in Cells |-> Number(g, vdead, c)]
                  /\ L = [c \in Cells |-> Number(g, alive \ vdead, c)]
  OBVIOUS
<1>7. \A c \in Cells : D[c] = Number(g, vdead, c) /\ L[c] = Number(g, alive \ vdead, c)
  BY <1>6
<1>8. D \in [Cells -> Nat] /\ L \in [Cells -> Nat]
  BY <1>5, <1>6, EdgesFinite
<1>9. \A c \in Cells : rc[c] + plus[c] = root[c] + (D[c] + L[c]) + drops[c]
  <2>1. \A c \in Cells : Number(g, vdead, c) + Number(g, alive \ vdead, c) = Number(g, alive, c)
    BY <1>5, EdgesWithin
  <2>2. \A c \in Cells : Number(g, alive, c) = D[c] + L[c]
    BY <1>7, <2>1
  <2> QED BY <1>1, <2>2
<1>10. off \in [Cells -> Nat] /\ \A c \in Cells : off[c] = drops[c] + D[c]
  <2>1. off = [c \in Cells |-> drops[c] + D[c]]
    BY <1>7 DEF Off
  <2> QED BY <1>1, <1>8, <2>1
<1>11. \A v \in VarRefs : D[v] = 0
  <2>1. SUFFICES ASSUME NEW v \in VarRefs PROVE D[v] = 0
    OBVIOUS
  <2>2. v \notin JSValues /\ v # Null /\ v \in Cells
    BY <1>2, CellsAssumption
  <2>3. ~ \E h \in vdead, k \in Keys : g[h][k] = v
    BY <1>1, <1>3, <2>2
  <2>4. ~(Number(g, vdead, v) > 0)
    BY <1>5, <2>3, EdgesFound
  <2> QED BY <1>7, <1>8, <2>2, <2>4
<1>12. \A c \in Cells : plus[c] \in {0, 1} /\ root[c] \in {0, 1} /\ rc[c] \in Int
          /\ drops[c] \in Nat /\ D[c] \in Nat /\ L[c] \in Nat /\ off[c] \in Nat
  BY <1>1, <1>8, <1>10
<1>13. \A c \in Cells : rc[c] - off[c] + plus[c] = root[c] + L[c]
  <2>1. SUFFICES ASSUME NEW c \in Cells PROVE rc[c] - off[c] + plus[c] = root[c] + L[c]
    OBVIOUS
  <2>2. PICK x \in {0, 1}, r \in {0, 1}, n \in Int, d \in Nat, e \in Nat, l \in Nat, o \in Nat :
            /\ x = plus[c] /\ r = root[c] /\ n = rc[c] /\ d = drops[c] /\ e = D[c] /\ l = L[c]
            /\ o = off[c]
    BY <1>12
  <2>3. n + x = r + (e + l) + d /\ o = d + e
    BY <1>9, <1>10, <2>2
  <2>4. n - o + x = r + l
    BY <2>3
  <2> QED BY <2>2, <2>4
<1>14. ASSUME NEW v \in vdead PROVE root[v] = 0 /\ L[v] = 0
  <2>1. v \in Cells /\ D[v] = 0 /\ drops[v] > 0 /\ rc[v] = drops[v]
    BY <1>2, <1>3, <1>11
  <2>2. plus[v] = 0
    BY <1>1, <1>12, <2>1
  <2> QED BY <1>9, <1>12, <2>1, <2>2
<1>15. ASSUME NEW v \in (VarRefs \cap alive) \ vdead, rc[v] + plus[v] > 0
       PROVE  root[v] + L[v] > 0
  <2>1. v \in Cells /\ v \in VarRefs /\ D[v] = 0
    BY <1>2, <1>11
  <2>2. drops[v] = 0 \/ rc[v] # drops[v]
    BY <1>12, <2>1 DEF Going
  <2>3. plus[v] = 1 => root[v] = 1
    BY <1>1, <2>1
  <2>4. rc[v] + plus[v] = root[v] + (D[v] + L[v]) + drops[v]
    BY <1>9, <2>1
  <2> QED BY <1>12, <1>15, <2>1, <2>2, <2>3, <2>4
<1>16. ASSUME NEW c \in Cells, rc[c] + plus[c] = 0 PROVE off[c] = 0
  <2>1. rc[c] + plus[c] = root[c] + (D[c] + L[c]) + drops[c] /\ off[c] = drops[c] + D[c]
    BY <1>9, <1>10
  <2> QED BY <1>12, <1>16, <2>1
<1>17. ASSUME NEW c \in Cells, plus[c] = 1 PROVE rc[c] # off[c]
  <2>1. PICK h \in alive, k \in Keys : root[h] = 1 /\ g[h][k] = c
    BY <1>1, <1>17
  <2>2. h \notin vdead
    BY <1>14, <2>1
  <2>3. h \in alive \ vdead
    BY <2>2
  <2>4. L[c] > 0
    BY <1>5, <1>7, <2>1, <2>3, EdgesFound
  <2>5. rc[c] - off[c] + plus[c] = root[c] + L[c] /\ root[c] = 1
    BY <1>1, <1>13, <1>17
  <2> QED BY <1>12, <1>17, <2>4, <2>5
<1>18. \A v \in vdead : Number(g, alive \ vdead, v) = 0 /\ root[v] = 0
  BY <1>2, <1>3, <1>7, <1>14
<1>19. \A v \in (VarRefs \cap alive) \ vdead :
          rc[v] + plus[v] > 0 => root[v] + Number(g, alive \ vdead, v) > 0
  BY <1>2, <1>7, <1>15
<1>20. \A c \in Cells : rc[c] - off[c] + plus[c] = root[c] + Number(g, alive \ vdead, c)
  BY <1>7, <1>13
<1> QED BY <1>3, <1>4, <1>10, <1>16, <1>17, <1>18, <1>19, <1>20 DEF DropCounts

-----------------------------------------------------------------------------
(* Where all live cells are counted, the invariants of counts in one.      *)
Exact ==
    /\ \A c \in Cells : ref_count[c] = Root(c) + Number(Heap, Live, c)
    /\ \A c \in Cells : life[c] = "free" => ref_count[c] = 0
    /\ \A v \in VarRefs \cap Live : ref_count[v] > 0
AllCounted == phase \notin {"gc_decref", "gc_scan"}

LEMMA LiveCells == Live \in SUBSET Cells
BY DEF Live

LEMMA ExactState ==
    TypeOK /\ AllCounted => (Exact <=> Counts /\ Unheld /\ VariablesHeld)
<1> SUFFICES ASSUME TypeOK, AllCounted PROVE Exact <=> Counts /\ Unheld /\ VariablesHeld
  OBVIOUS
<1>1. HeapShape
  BY HeapOfState
<1>2. \A c \in Cells : References(Live, c) = Edges(Heap, Live, c)
  BY <1>1, LiveCells DEF HeapShape
<1>3. \A c \in Cells : Cardinality(References(Live, c)) = Number(Heap, Live, c)
  BY <1>2 DEF Number
<1>4. \A c \in Cells : Number(Heap, Live, c) \in Nat
          /\ (Number(Heap, Live, c) = 0 <=> References(Live, c) = {})
  BY <1>2, LiveCells, EdgesFinite
<1>5. Counting = Live
  BY DEF Counting, AllCounted
<1>6. Counts <=> \A c \in Cells : ref_count[c] = Root(c) + Number(Heap, Live, c)
  BY <1>3, <1>5 DEF Counts
<1>7. \A c \in Cells : Root(c) \in {0, 1} /\ (Root(c) = 1 <=> c \in roots)
  BY DEF Root
<1>8. VarRefs \subseteq Cells
  BY DEF Cells
<1>9. ASSUME NEW c \in Cells, Counts
      PROVE  ref_count[c] >= 0 /\ (ref_count[c] = 0 <=> c \notin roots /\ References(Live, c) = {})
  <2>1. PICK n \in Nat, r \in {0, 1} : n = Number(Heap, Live, c) /\ r = Root(c)
    BY <1>4, <1>7
  <2>2. ref_count[c] = r + n
    BY <1>6, <1>9, <2>1
  <2>3. r + n >= 0 /\ (r + n = 0 <=> r = 0 /\ n = 0)
    BY <2>1
  <2>4. (n = 0 <=> References(Live, c) = {}) /\ (r = 0 <=> c \notin roots)
    BY <1>4, <1>7, <2>1
  <2> QED BY <2>2, <2>3, <2>4
<1>10. ASSUME Counts PROVE Unheld <=> \A c \in Cells : life[c] = "free" => ref_count[c] = 0
  BY <1>9, <1>10 DEF Unheld
<1>11. ASSUME Counts PROVE VariablesHeld <=> \A v \in VarRefs \cap Live : ref_count[v] > 0
  <2>1. \A v \in VarRefs : ref_count[v] \in Int
    BY <1>8 DEF TypeOK
  <2>2. ASSUME NEW v \in VarRefs
        PROVE  ref_count[v] > 0 <=> v \in roots \/ References(Live, v) # {}
    BY <1>8, <1>9, <1>11, <2>1
  <2> QED BY <2>2 DEF VariablesHeld
<1> QED BY <1>6, <1>10, <1>11 DEF Exact

LEMMA ExactNextState ==
    TypeOK' /\ AllCounted' => (Exact' <=> Counts' /\ Unheld' /\ VariablesHeld')
BY ExactState, PTL

(* What Dropped does, by its parts.                                        *)
DropParts(d, vdead, off, zero) ==
    /\ d.vdead = vdead /\ d.ref_count = [c \in Cells |-> ref_count[c] - off[c]]
    /\ d.gc_obj_list = Without(gc_obj_list, vdead \cup zero)
    /\ d.tmp_obj_list = Without(tmp_obj_list, vdead)
    /\ d.zero_list = SetToSeq(zero) \o Without(gc_zero_ref_count_list, vdead)

LEMMA DroppedParts ==
    ASSUME TypeOK, NEW drops \in [Cells -> Nat], NEW gone, NEW removing \in BOOLEAN,
           NEW vdead, vdead = Going(ref_count, drops),
           NEW off, off = Off(Heap, vdead, drops),
           NEW zero, zero = IF removing THEN {} ELSE ToZero(ref_count, off, gone),
           NEW d, d = Dropped(drops, gone, removing)
    PROVE  DropParts(d, vdead, off, zero)
<1>1. vdead \in SUBSET Cells
  BY DEF Going, Cells
<1>2. \A c \in Cells : References(vdead, c) = Edges(Heap, vdead, c)
  BY <1>1, HeapOfState DEF HeapShape
<1> DEFINE V == {v \in VarRefs : drops[v] > 0 /\ ref_count[v] = drops[v]}
           A == [c \in Cells |-> drops[c] + Cardinality(References(V, c))]
           Z == IF removing THEN {} ELSE {c \in JSValues \ gone : A[c] > 0 /\ ref_count[c] = A[c]}
<1>3. Dropped(drops, gone, removing)
         = [ref_count |-> [c \in Cells |-> ref_count[c] - A[c]],
            vdead |-> V,
            gc_obj_list |-> Without(gc_obj_list, V \cup Z),
            tmp_obj_list |-> Without(tmp_obj_list, V),
            zero_list |-> SetToSeq(Z) \o Without(gc_zero_ref_count_list, V)]
  BY Zenon DEF Dropped
<1>4. V = vdead
  BY DEF Going
<1> HIDE DEF V
<1>5. A = off
  BY <1>2, <1>4 DEF Off, Number
<1> HIDE DEF A
<1>6. Z = zero
  BY <1>5 DEF ToZero
<1> HIDE DEF Z
<1> QED BY <1>3, <1>4, <1>5, <1>6 DEF DropParts

(* What there is after references were dropped: alive are the cells that   *)
(* hold references then, but for the variables vdead, zero are the cells   *)
(* whose count dropped to zero, and total the counts with plus added.      *)
DropResult(d, after, alive, root, plus, gone, removing, vdead, zero, total) ==
    /\ vdead \subseteq alive \cap VarRefs
    /\ zero \subseteq (JSValues \cap In(gc_obj_list)) \ gone /\ (removing => zero = {})
    /\ d.vdead = vdead /\ total \in [Cells -> Int]
    /\ total = [c \in Cells |-> d.ref_count[c] + plus[c]]
    /\ \A c \in Cells : total[c] = root[c] + Number(after, alive \ vdead, c)
    /\ \A c \in vdead \cup zero : total[c] = 0
    /\ \A v \in VarRefs \cap (alive \ vdead) : total[v] > 0
    /\ \A c \in Cells : life[c] = "free" => total[c] = 0
    /\ \A c \in Cells : ref_count[c] + plus[c] = 0 => total[c] = 0
    /\ d.gc_obj_list \in Seq(Cells) /\ Distinct(d.gc_obj_list)
    /\ In(d.gc_obj_list) = In(gc_obj_list) \ (vdead \cup zero)
    /\ d.tmp_obj_list \in Seq(Cells) /\ Distinct(d.tmp_obj_list)
    /\ In(d.tmp_obj_list) = In(tmp_obj_list) \ vdead
    /\ d.zero_list \in Seq(Cells) /\ Distinct(d.zero_list)
    /\ In(d.zero_list) = zero \cup (In(gc_zero_ref_count_list) \ vdead)

LEMMA DropResults ==
    ASSUME TypeOK, Listed, Exact, NEW drops, NEW plus, NEW root, NEW after,
           NEW gone \in SUBSET JSValues, NEW removing \in BOOLEAN, NEW alive, alive = Live \ gone,
           Dropping(ref_count, after, alive, root, drops, plus),
           \A c \in Cells : plus[c] = 1 => c \in Live,
           \A v \in VarRefs : root[v] = 0 => \A k \in Keys : Heap[v][k] = after[v][k],
           ~removing => /\ In(tmp_obj_list) = {}
                        /\ \A c \in In(gc_zero_ref_count_list) : ref_count[c] = 0,
           NEW d, d = Dropped(drops, gone, removing)
    PROVE  \E vdead, zero, total :
              DropResult(d, after, alive, root, plus, gone, removing, vdead, zero, total)
<1>1. PICK vdead : vdead = Going(ref_count, drops)
  OBVIOUS
<1>2. PICK off : off = Off(after, vdead, drops)
  OBVIOUS
<1>3. /\ vdead \subseteq alive \cap VarRefs /\ off \in [Cells -> Nat]
      /\ \A c \in Cells :
             ref_count[c] - off[c] + plus[c] = root[c] + Number(after, alive \ vdead, c)
      /\ \A v \in vdead : root[v] = 0 /\ Number(after, alive \ vdead, v) = 0
      /\ \A v \in (VarRefs \cap alive) \ vdead :
            ref_count[v] + plus[v] > 0 => root[v] + Number(after, alive \ vdead, v) > 0
      /\ \A c \in Cells : ref_count[c] + plus[c] = 0 => off[c] = 0
      /\ \A c \in Cells : plus[c] = 1 => ref_count[c] # off[c]
  <2>1. DropCounts(ref_count, after, alive, root, plus, vdead, off)
    BY <1>1, <1>2, DroppedCounts
  <2> QED BY <2>1 DEF DropCounts
<1>4. /\ ref_count \in [Cells -> Int] /\ plus \in [Cells -> {0, 1}] /\ drops \in [Cells -> Nat]
      /\ \A c \in Cells : plus[c] = 1 => root[c] = 1
  BY DEF Dropping
<1>5. off = Off(Heap, vdead, drops)
  <2>1. \A v \in vdead, k \in Keys : after[v][k] = Heap[v][k]
    BY <1>3
  <2>2. \A c \in Cells : Number(after, vdead, c) = Number(Heap, vdead, c)
    BY <2>1, EdgesSame
  <2> QED BY <1>2, <2>2 DEF Off
<1>6. PICK zero : zero = IF removing THEN {} ELSE ToZero(ref_count, off, gone)
  OBVIOUS
<1>7. /\ d.vdead = vdead /\ d.ref_count = [c \in Cells |-> ref_count[c] - off[c]]
      /\ d.gc_obj_list = Without(gc_obj_list, vdead \cup zero)
      /\ d.tmp_obj_list = Without(tmp_obj_list, vdead)
      /\ d.zero_list = SetToSeq(zero) \o Without(gc_zero_ref_count_list, vdead)
  <2>1. DropParts(d, vdead, off, zero)
    BY <1>1, <1>4, <1>5, <1>6, DroppedParts
  <2> QED BY <2>1 DEF DropParts
<1>8. \A c \in Cells : ref_count[c] \in Int /\ off[c] \in Nat /\ plus[c] \in {0, 1}
  BY <1>3, <1>4
<1>9. PICK total \in [Cells -> Int] :
          /\ total = [c \in Cells |-> d.ref_count[c] + plus[c]]
          /\ \A c \in Cells : total[c] = ref_count[c] - off[c] + plus[c]
  <2>1. \A c \in Cells : d.ref_count[c] = ref_count[c] - off[c]
    BY <1>7
  <2>2. [c \in Cells |-> ref_count[c] - off[c] + plus[c]] \in [Cells -> Int]
    BY <1>8
  <2>3. [c \in Cells |-> ref_count[c] - off[c] + plus[c]]
           = [c \in Cells |-> d.ref_count[c] + plus[c]]
    BY <2>1
  <2> QED BY <2>2, <2>3
<1>10. JSValues \subseteq Cells /\ VarRefs \subseteq Cells
  BY DEF JSValues, Cells
<1>11. ASSUME NEW c \in Cells
       PROVE  total[c] = root[c] + Number(after, alive \ vdead, c)
  BY <1>3, <1>9
<1>12. ASSUME NEW c \in zero
       PROVE  /\ c \in (JSValues \cap In(gc_obj_list)) \ gone
              /\ total[c] = 0
  <2>1. ~removing /\ c \in JSValues \ gone /\ off[c] > 0 /\ ref_count[c] = off[c]
    BY <1>6, <1>12 DEF ToZero
  <2>2. c \in Cells /\ ref_count[c] # 0
    BY <1>8, <1>10, <2>1
  <2>3. plus[c] = 0
    BY <1>3, <1>8, <2>1, <2>2
  <2>4. life[c] # "free"
    BY <2>2 DEF Exact
  <2>5. c \in In(gc_obj_list)
    BY <2>1, <2>2, <2>4 DEF Listed
  <2> QED BY <1>8, <1>9, <2>1, <2>2, <2>3, <2>5
<1>13. ASSUME NEW v \in vdead PROVE total[v] = 0
  <2>1. v \in Cells /\ root[v] = 0 /\ Number(after, alive \ vdead, v) = 0
    BY <1>3, <1>10
  <2>2. total[v] = root[v] + Number(after, alive \ vdead, v)
    BY <1>11, <2>1
  <2> QED BY <2>1, <2>2
<1>14. ASSUME NEW v \in VarRefs \cap (alive \ vdead) PROVE total[v] > 0
  <2>1. v \in Cells /\ v \in (VarRefs \cap alive) \ vdead /\ v \in VarRefs \cap Live
    BY <1>10
  <2>2. ref_count[v] > 0
    BY <2>1 DEF Exact
  <2>3. ref_count[v] + plus[v] > 0
    BY <1>8, <2>1, <2>2
  <2>4. root[v] + Number(after, alive \ vdead, v) > 0
    BY <1>3, <2>1, <2>3
  <2> QED BY <1>11, <2>1, <2>4
<1>15. ASSUME NEW c \in Cells, ref_count[c] + plus[c] = 0 PROVE total[c] = 0
  <2>1. off[c] = 0
    BY <1>3, <1>15
  <2> QED BY <1>8, <1>9, <1>15, <2>1
<1>16. ASSUME NEW c \in Cells, life[c] = "free" PROVE total[c] = 0
  <2>1. ref_count[c] = 0 /\ c \notin Live
    BY <1>16 DEF Exact, Live
  <2>2. plus[c] = 0
    BY <1>8, <2>1
  <2> QED BY <1>8, <1>15, <2>1, <2>2
<1>17. /\ d.gc_obj_list \in Seq(Cells) /\ Distinct(d.gc_obj_list)
       /\ In(d.gc_obj_list) = In(gc_obj_list) \ (vdead \cup zero)
  BY <1>7, LeftOfList DEF TypeOK, Listed
<1>18. /\ d.tmp_obj_list \in Seq(Cells) /\ Distinct(d.tmp_obj_list)
       /\ In(d.tmp_obj_list) = In(tmp_obj_list) \ vdead
  BY <1>7, LeftOfList DEF TypeOK, Listed
<1>19. /\ d.zero_list \in Seq(Cells) /\ Distinct(d.zero_list)
       /\ In(d.zero_list) = zero \cup (In(gc_zero_ref_count_list) \ vdead)
  <2>1. zero \in SUBSET Cells
    BY <1>10, <1>12
  <2>2. IsFiniteSet(zero)
    BY <2>1, CellsAssumption, FS_Subset
  <2>3. PICK s \in Seq(Cells) : s = SetToSeq(zero) /\ In(s) = zero /\ Distinct(s)
    BY <2>1, <2>2, SetOnList
  <2>4. PICK t \in Seq(Cells) : /\ t = Without(gc_zero_ref_count_list, vdead)
                                /\ In(t) = In(gc_zero_ref_count_list) \ vdead /\ Distinct(t)
    BY LeftOfList DEF TypeOK, Listed
  <2>5. In(s) \cap In(t) = {}
    BY <1>12, <2>3, <2>4 DEF Listed
  <2>6. s \o t \in Seq(Cells) /\ In(s \o t) = In(s) \cup In(t) /\ Distinct(s \o t)
    BY <2>3, <2>4, <2>5, JoinedLists, DistinctJoined
  <2> QED BY <1>7, <2>3, <2>4, <2>6
<1>20. zero \subseteq (JSValues \cap In(gc_obj_list)) \ gone /\ (removing => zero = {})
  BY <1>6, <1>12
<1>21. \A c \in vdead \cup zero : total[c] = 0
  BY <1>12, <1>13
<1>22. DropResult(d, after, alive, root, plus, gone, removing, vdead, zero, total)
  BY <1>3, <1>7, <1>9, <1>11, <1>14, <1>15, <1>16, <1>17, <1>18, <1>19, <1>20, <1>21
     DEF DropResult
<1> QED BY <1>22

-----------------------------------------------------------------------------
(* The invariant at the start.                                             *)
LEMMA InitInv == GcInit => Inv
<1> SUFFICES ASSUME GcInit PROVE Inv
  OBVIOUS
<1>1. \A c \in Cells : life[c] = "free" /\ ref_count[c] = 0 /\ mark[c] = 0
  BY DEF GcInit
<1>2. Live = {} /\ roots = {}
  BY <1>1 DEF GcInit, Live
<1>3. gc_obj_list = <<>> /\ tmp_obj_list = <<>> /\ gc_zero_ref_count_list = <<>> /\ phase = "none"
  BY DEF GcInit
<1>4. TypeOK
  <2>1. Null \in Cells \cup {Null} /\ Null \in JSValues \cup {Null}
    OBVIOUS
  <2>2. <<>> \in Seq(Cells)
    OBVIOUS
  <2>3. field \in [Objects \cup VarRefs -> Cells \cup {Null}] /\ \A v \in VarRefs : field[v] = Null
    BY DEF GcInit
  <2>4. entries \in [WeakMaps -> [JSValues -> JSValues \cup {Null}]]
    BY DEF GcInit
  <2>5. life \in [Cells -> {"free", "live", "zombie"}]
    BY DEF GcInit
  <2>6. ref_count \in [Cells -> Int] /\ mark \in [Cells -> {0, 1}]
    BY DEF GcInit
  <2> QED BY <1>2, <1>3, <2>2, <2>3, <2>4, <2>5, <2>6 DEF GcInit, TypeOK
<1>5. Listed
  BY <1>1, <1>3, EmptyList DEF Listed
<1>6. RecordsAlive
  BY DEF GcInit, RecordsAlive
<1>7. Exact
  <2>1. \A c \in Cells : Root(c) = 0
    BY <1>2 DEF Root
  <2>2. ASSUME NEW c \in Cells PROVE Number(Heap, Live, c) = 0
    <3>1. Edges(Heap, Live, c) = {}
      BY <1>2 DEF Edges
    <3> QED BY <3>1, LiveCells, EdgesFinite
  <2> QED BY <1>1, <1>2, <2>1, <2>2 DEF Exact
<1>8. Counts /\ Unheld /\ VariablesHeld
  BY <1>3, <1>4, <1>7, ExactState DEF AllCounted
<1>9. Phases
  BY <1>1, <1>3, EmptyList DEF Phases, Resting, NoZombies
<1> QED BY <1>4, <1>5, <1>6, <1>8, <1>9 DEF Inv

-----------------------------------------------------------------------------
(* The script.                                                             *)
HeapTyped ==
    /\ field \in [Objects \cup VarRefs -> Cells \cup {Null}]
    /\ \A v \in VarRefs : field[v] \in JSValues \cup {Null}
    /\ entries \in [WeakMaps -> [JSValues -> JSValues \cup {Null}]]
    /\ roots \subseteq Cells

(* References are dropped by the script, with plus added to the counts.    *)
ScriptDrops(d, plus) ==
    /\ ref_count' = [c \in Cells |-> d.ref_count[c] + plus[c]]
    /\ life' = [c \in Cells |-> IF c \in d.vdead THEN "free" ELSE life[c]]
    /\ gc_obj_list' = d.gc_obj_list /\ gc_zero_ref_count_list' = d.zero_list
    /\ phase' = IF d.zero_list = <<>> THEN "none" ELSE "free_zero"
    /\ UNCHANGED <<el, mark, tmp_obj_list>>

LEMMA ScriptDropped ==
    ASSUME TypeOK, Listed, Exact, Phases, phase = "none", HeapTyped',
           NEW drops, NEW plus, NEW root, root = [c \in Cells |-> Root(c)'],
           Dropping(ref_count, Heap', Live, root, drops, plus),
           \A c \in Cells : plus[c] = 1 => c \in Live,
           \A v \in VarRefs : root[v] = 0 => \A k \in Keys : Heap[v][k] = Heap'[v][k],
           NEW d, d = Dropped(drops, {}, FALSE), ScriptDrops(d, plus)
    PROVE  /\ TypeOK' /\ Listed' /\ Counts' /\ Unheld' /\ VariablesHeld' /\ Phases'
           /\ Live \ VarRefs \subseteq Live'
<1>1. Resting
  BY DEF Phases
<1>2. /\ gc_zero_ref_count_list = <<>> /\ tmp_obj_list = <<>>
      /\ NoZombies /\ \A c \in Cells : mark[c] = 0
  BY <1>1 DEF Resting
<1>3. In(gc_zero_ref_count_list) = {} /\ In(tmp_obj_list) = {}
  BY <1>2, EmptyList
<1>4. PICK vdead, zero, total :
          DropResult(d, Heap', Live, root, plus, {}, FALSE, vdead, zero, total)
  <2>1. Live = Live \ {} /\ {} \in SUBSET JSValues /\ FALSE \in BOOLEAN
    OBVIOUS
  <2> QED BY <1>3, <2>1, DropResults
<1>5. /\ vdead \subseteq Live \cap VarRefs /\ zero \subseteq JSValues \cap In(gc_obj_list)
      /\ d.vdead = vdead /\ total \in [Cells -> Int]
      /\ total = [c \in Cells |-> d.ref_count[c] + plus[c]]
      /\ \A c \in Cells : total[c] = root[c] + Number(Heap', Live \ vdead, c)
      /\ \A c \in vdead \cup zero : total[c] = 0
      /\ \A v \in VarRefs \cap (Live \ vdead) : total[v] > 0
      /\ \A c \in Cells : life[c] = "free" => total[c] = 0
  BY <1>4 DEF DropResult
<1>6. /\ d.gc_obj_list \in Seq(Cells) /\ Distinct(d.gc_obj_list)
      /\ In(d.gc_obj_list) = In(gc_obj_list) \ (vdead \cup zero)
      /\ d.zero_list \in Seq(Cells) /\ Distinct(d.zero_list) /\ In(d.zero_list) = zero
  BY <1>3, <1>4 DEF DropResult
<1>7. life' = [c \in Cells |-> IF c \in vdead THEN "free" ELSE life[c]]
  BY <1>5 DEF ScriptDrops
<1>8. /\ ref_count' = total /\ gc_obj_list' = d.gc_obj_list
      /\ gc_zero_ref_count_list' = d.zero_list
      /\ phase' = (IF d.zero_list = <<>> THEN "none" ELSE "free_zero")
      /\ el' = el /\ mark' = mark /\ tmp_obj_list' = tmp_obj_list
  BY <1>5 DEF ScriptDrops
<1>9. VarRefs \subseteq Cells /\ JSValues \subseteq Cells
  BY DEF Cells, JSValues
<1>11. TypeOK'
  <2>1. ref_count' \in [Cells -> Int]
    BY <1>5, <1>8
  <2>2. life' \in [Cells -> {"free", "live", "zombie"}]
    BY <1>7 DEF TypeOK
  <2> QED BY <1>6, <1>8, <2>1, <2>2 DEF TypeOK, HeapTyped
<1>12. Live' = Live \ vdead
  BY <1>7 DEF Live
<1>13. (Listed)'
  <2>1. In(gc_obj_list) = {c \in Cells : life[c] # "free"}
    BY <1>3 DEF Listed
  <2>2. In(gc_obj_list)' = In(gc_obj_list) \ (vdead \cup zero)
    BY <1>6, <1>8
  <2>3. In(gc_zero_ref_count_list)' = zero
    BY <1>6, <1>8
  <2>4. In(tmp_obj_list)' = {} /\ Distinct(tmp_obj_list)' /\ Distinct(gc_obj_list)'
          /\ Distinct(gc_zero_ref_count_list)'
    BY <1>2, <1>6, <1>8, EmptyList
  <2>5. zero \cap vdead = {}
    BY <1>5, CellsAssumption
  <2>6. {c \in Cells : life'[c] # "free"} = {c \in Cells : life[c] # "free"} \ vdead
    BY <1>7
  <2>7. In(gc_obj_list)' \cup In(tmp_obj_list)' \cup In(gc_zero_ref_count_list)'
           = {c \in Cells : life'[c] # "free"}
    BY <1>5, <2>1, <2>2, <2>3, <2>4, <2>5, <2>6
  <2> QED BY <2>2, <2>3, <2>4, <2>7 DEF Listed
<1>14. Exact'
  <2>1. ASSUME NEW c \in Cells PROVE ref_count'[c] = Root(c)' + Number(Heap', Live', c)
    BY <1>5, <1>8, <1>12
  <2>2. ASSUME NEW c \in Cells, life'[c] = "free" PROVE ref_count'[c] = 0
    <3>1. c \in vdead \/ life[c] = "free"
      BY <1>7, <2>2
    <3> QED BY <1>5, <1>8, <3>1
  <2>3. ASSUME NEW v \in VarRefs \cap Live' PROVE ref_count'[v] > 0
    BY <1>5, <1>8, <1>12
  <2> QED BY <2>1, <2>2, <2>3 DEF Exact
<1>15. AllCounted'
  BY <1>8 DEF AllCounted
<1>16. Counts' /\ Unheld' /\ VariablesHeld'
  BY <1>11, <1>14, <1>15, ExactNextState
<1>17. Phases'
  <2>1. NoZombies'
    BY <1>2, <1>7 DEF NoZombies
  <2>2. ASSUME NEW c \in In(gc_zero_ref_count_list)' PROVE c \in JSValues /\ ref_count'[c] = 0
    <3>1. c \in zero
      BY <1>6, <1>8
    <3> QED BY <1>5, <1>8, <3>1
  <2>3. Resting'
    BY <1>2, <1>8, <2>1, <2>2 DEF Resting
  <2> QED BY <1>8, <2>3 DEF Phases
<1>18. Live \ VarRefs \subseteq Live'
  BY <1>5, <1>12
<1> QED BY <1>11, <1>13, <1>16, <1>17, <1>18

(* Between collections what the script holds, and what is held, is live.   *)
LEMMA BetweenCollections ==
    ASSUME Inv, phase = "none"
    PROVE  /\ TypeOK /\ Listed /\ Exact /\ Phases /\ HeapTyped /\ HeapShape
           /\ roots \subseteq Live
           /\ \A h \in Live, k \in Keys, c \in Cells : Heap[h][k] = c => c \in Live
           /\ \A c \in Cells : life[c] \in {"free", "live"}
           /\ gc_zero_ref_count_list = <<>> /\ tmp_obj_list = <<>> /\ \A c \in Cells : mark[c] = 0
<1>1. TypeOK /\ Listed /\ Phases /\ Counts /\ Unheld /\ VariablesHeld
  BY DEF Inv
<1>2. Exact
  BY <1>1, ExactState DEF AllCounted
<1>3. Resting
  BY <1>1 DEF Phases
<1>4. \A c \in Cells : life[c] \in {"free", "live"}
  BY <1>1, <1>3 DEF Resting, NoZombies, TypeOK
<1>5. roots \subseteq Live
  BY <1>1, <1>4 DEF TypeOK, Unheld, Live
<1>6. HeapShape
  BY <1>1, HeapOfState
<1>7. ASSUME NEW h \in Live, NEW k \in Keys, NEW c \in Cells, Heap[h][k] = c PROVE c \in Live
  <2>1. <<h, k>> \in Edges(Heap, Live, c)
    BY <1>7 DEF Edges
  <2>2. References(Live, c) # {}
    BY <1>6, <2>1, LiveCells DEF HeapShape
  <2> QED BY <1>1, <1>4, <2>2 DEF Unheld, Live
<1> QED BY <1>1, <1>2, <1>3, <1>4, <1>5, <1>6, <1>7 DEF TypeOK, HeapTyped, Resting

LEMMA HeapUnchanged == UNCHANGED <<field, entries>> => Heap' = Heap
BY DEF Heap

LEMMA HeldOne ==
    ASSUME HeapShape, NEW h \in Cells, NEW c \in Cells
    PROVE  Holds(h, c) = Number(Heap, {h}, c) /\ Holds(h, c) \in Nat
           /\ (Holds(h, c) > 0 <=> \E k \in Keys : Heap[h][k] = c)
<1>1. {h} \in SUBSET Cells
  OBVIOUS
<1>2. References({h}, c) = Edges(Heap, {h}, c)
  BY <1>1 DEF HeapShape
<1>3. Holds(h, c) = Number(Heap, {h}, c)
  BY <1>2 DEF Holds, Number
<1>4. Number(Heap, {h}, c) \in Nat
  BY <1>1, EdgesFinite
<1>5. Number(Heap, {h}, c) > 0 <=> \E x \in {h}, k \in Keys : Heap[x][k] = c
  <2>1. PICK S \in SUBSET Cells : S = {h}
    BY <1>1
  <2>2. Number(Heap, S, c) > 0 <=> \E x \in S, k \in Keys : Heap[x][k] = c
    BY EdgesFound
  <2> QED BY <2>1, <2>2
<1> QED BY <1>3, <1>4, <1>5

(* A reference more, and nothing dropped.                                  *)
LEMMA ScriptAdded ==
    ASSUME Inv, phase = "none", HeapTyped',
           life' = life, gc_obj_list' = gc_obj_list, tmp_obj_list' = tmp_obj_list,
           gc_zero_ref_count_list' = gc_zero_ref_count_list, phase' = phase, el' = el, mark' = mark,
           NEW c \in Live, ref_count' = [ref_count EXCEPT ![c] = @ + 1],
           \A x \in Cells : Root(x)' + Number(Heap', Live, x)
                               = Root(x) + Number(Heap, Live, x) + One(x = c)
    PROVE  TypeOK' /\ Listed' /\ Counts' /\ Unheld' /\ VariablesHeld' /\ Phases'
<1>1. /\ TypeOK /\ Listed /\ Exact /\ Phases
      /\ gc_zero_ref_count_list = <<>> /\ tmp_obj_list = <<>> /\ \A x \in Cells : mark[x] = 0
  BY BetweenCollections
<1>2. c \in Cells /\ c \in Live /\ life[c] = "live"
  BY DEF Live
<1>3. ref_count \in [Cells -> Int] /\ ref_count' \in [Cells -> Int]
  BY <1>1, <1>2 DEF TypeOK
<1>4. TypeOK'
  BY <1>1, <1>3 DEF TypeOK, HeapTyped
<1>5. Live' = Live
  BY DEF Live
<1>6. Listed'
  BY <1>1 DEF Listed
<1>7. \A x \in Cells : ref_count'[x] = ref_count[x] + One(x = c)
  BY <1>3 DEF One
<1>8. Exact'
  <2>1. ASSUME NEW x \in Cells PROVE ref_count'[x] = Root(x)' + Number(Heap', Live', x)
    <3>1. ref_count[x] = Root(x) + Number(Heap, Live, x)
      BY <1>1 DEF Exact
    <3> QED BY <1>5, <1>7, <3>1
  <2>2. ASSUME NEW x \in Cells, life'[x] = "free" PROVE ref_count'[x] = 0
    <3>1. x # c /\ ref_count[x] = 0
      BY <1>1, <1>2, <2>2 DEF Exact
    <3> QED BY <1>3, <3>1
  <2>3. ASSUME NEW v \in VarRefs \cap Live' PROVE ref_count'[v] > 0
    <3>1. v \in Cells /\ ref_count[v] > 0
      BY <1>1, <1>5 DEF Exact, Live
    <3> QED BY <1>3, <1>7, <3>1 DEF One
  <2> QED BY <2>1, <2>2, <2>3 DEF Exact
<1>9. AllCounted'
  BY DEF AllCounted
<1>10. Counts' /\ Unheld' /\ VariablesHeld'
  BY <1>4, <1>8, <1>9, ExactNextState
<1>11. Resting'
  <2>1. NoZombies'
    BY <1>1 DEF Phases, Resting, NoZombies
  <2>2. In(gc_zero_ref_count_list)' = {}
    BY <1>1, EmptyList
  <2> QED BY <1>1, <2>1, <2>2 DEF Resting
<1> QED BY <1>4, <1>6, <1>10, <1>11 DEF Phases

LEMMA GetStep ==
    ASSUME Inv, NEW h \in Cells, Get(h) PROVE Inv'
<1>1. PICK c \in Cells \ roots : /\ Holds(h, c) > 0
                                 /\ roots' = roots \cup {c}
                                 /\ ref_count' = [ref_count EXCEPT ![c] = @ + 1]
  BY DEF Get
<1>2. phase = "none" /\ h \in roots
  BY DEF Get, Script
<1>3. /\ life' = life /\ field' = field /\ entries' = entries
      /\ gc_obj_list' = gc_obj_list /\ tmp_obj_list' = tmp_obj_list
      /\ gc_zero_ref_count_list' = gc_zero_ref_count_list /\ phase' = phase /\ el' = el
      /\ mark' = mark
  BY DEF Get, Script, heap
<1>4. /\ HeapShape /\ HeapTyped /\ roots \subseteq Live
      /\ \A x \in Live, k \in Keys, y \in Cells : Heap[x][k] = y => y \in Live
  BY <1>2, BetweenCollections
<1>5. c \in Live
  BY <1>1, <1>2, <1>4, HeldOne
<1>6. Heap' = Heap
  BY <1>3, HeapUnchanged
<1>7. HeapTyped'
  BY <1>1, <1>3, <1>4 DEF HeapTyped
<1>8. ASSUME NEW x \in Cells
      PROVE  Root(x)' + Number(Heap', Live, x) = Root(x) + Number(Heap, Live, x) + One(x = c)
  <2>1. Root(x)' = Root(x) + One(x = c) /\ Root(x) \in Nat /\ One(x = c) \in Nat
    BY <1>1 DEF Root, One
  <2>2. Number(Heap, Live, x) \in Nat
    BY LiveCells, EdgesFinite
  <2> QED BY <1>6, <2>1, <2>2
<1>9. TypeOK' /\ Listed' /\ Counts' /\ Unheld' /\ VariablesHeld' /\ Phases'
  BY <1>1, <1>2, <1>3, <1>5, <1>7, <1>8, ScriptAdded
<1>10. RecordsAlive'
  BY <1>3 DEF Inv, RecordsAlive, Live
<1> QED BY <1>9, <1>10 DEF Inv

LEMMA NewStep ==
    ASSUME Inv, NEW c \in Cells, New(c) PROVE Inv'
<1>1. /\ phase = "none" /\ life[c] = "free" /\ life' = [life EXCEPT ![c] = "live"]
      /\ ref_count' = [ref_count EXCEPT ![c] = 1] /\ roots' = roots \cup {c}
      /\ gc_obj_list' = Append(gc_obj_list, c)
      /\ field' = [x \in DOMAIN field |-> IF x = c THEN Null ELSE field[x]]
      /\ entries' = entries /\ gc_zero_ref_count_list' = gc_zero_ref_count_list /\ phase' = phase
      /\ el' = el /\ mark' = mark /\ tmp_obj_list' = tmp_obj_list
  BY DEF New, Script
<1>2. /\ TypeOK /\ Listed /\ Exact /\ Phases /\ HeapTyped /\ HeapShape
      /\ \A h \in Live, k \in Keys, x \in Cells : Heap[h][k] = x => x \in Live
      /\ gc_zero_ref_count_list = <<>> /\ tmp_obj_list = <<>> /\ \A x \in Cells : mark[x] = 0
  BY <1>1, BetweenCollections
<1>3. Live' = Live \cup {c} /\ c \notin Live
  BY <1>1, <1>2 DEF Live, TypeOK
<1>4. HeapTyped'
  BY <1>1, <1>2 DEF HeapTyped
<1>5. gc_obj_list' \in Seq(Cells) /\ In(gc_obj_list)' = In(gc_obj_list) \cup {c}
        /\ \A x, y : Precedes(gc_obj_list', x, y)
              <=> Precedes(gc_obj_list, x, y) \/ (x \in In(gc_obj_list) /\ y = c)
  BY <1>1, <1>2, AppendedList DEF TypeOK
<1>6. TypeOK'
  <2>1. ref_count' \in [Cells -> Int] /\ life' \in [Cells -> {"free", "live", "zombie"}]
    BY <1>1, <1>2 DEF TypeOK
  <2> QED BY <1>1, <1>2, <1>4, <1>5, <2>1 DEF TypeOK, HeapTyped
<1>7. In(gc_obj_list) = {x \in Cells : life[x] # "free"}
  BY <1>2, EmptyList DEF Listed
<1>8. Listed'
  <2>1. c \notin In(gc_obj_list)
    BY <1>1, <1>7
  <2>2. Distinct(gc_obj_list)'
    <3>1. \A x \in In(gc_obj_list)' : ~Precedes(gc_obj_list', x, x)
      <4>1. \A x, y : Precedes(gc_obj_list, x, y) => x \in In(gc_obj_list)
        BY DEF Precedes, In
      <4>2. \A x \in In(gc_obj_list) : ~Precedes(gc_obj_list, x, x)
        BY <1>2 DEF Listed, Distinct
      <4> QED BY <1>5, <2>1, <4>1, <4>2
    <3> QED BY <3>1 DEF Distinct
  <2>3. {x \in Cells : life'[x] # "free"} = {x \in Cells : life[x] # "free"} \cup {c}
    BY <1>1, <1>2 DEF TypeOK
  <2>4. In(gc_zero_ref_count_list)' = {} /\ In(tmp_obj_list)' = {}
          /\ Distinct(gc_zero_ref_count_list)' /\ Distinct(tmp_obj_list)'
    BY <1>1, <1>2, EmptyList
  <2> QED BY <1>5, <1>7, <2>2, <2>3, <2>4 DEF Listed
<1>9. ASSUME NEW h \in Cells, NEW k \in Keys
      PROVE  Heap'[h][k] = IF h = c THEN Null ELSE Heap[h][k]
  <2>1. Heap[h][k] = IF h \in WeakMaps THEN IF k = Null THEN Null ELSE entries[h][k]
                     ELSE IF k = Null THEN field[h] ELSE Null
    BY DEF Heap
  <2>2. Heap'[h][k] = IF h \in WeakMaps THEN IF k = Null THEN Null ELSE entries[h][k]
                      ELSE IF k = Null THEN field'[h] ELSE Null
    BY <1>1 DEF Heap
  <2>3. h \in WeakMaps \/ (h \in Objects \cup VarRefs /\ DOMAIN field = Objects \cup VarRefs)
    BY <1>2 DEF Cells, HeapTyped
  <2>4. h = c /\ h \in WeakMaps /\ k # Null => entries[h][k] = Null
    BY <1>3 DEF Inv, RecordsAlive, Keys
  <2> QED BY <1>1, <2>1, <2>2, <2>3, <2>4
<1>10. ASSUME NEW x \in Cells PROVE Number(Heap', Live', x) = Number(Heap, Live, x)
  <2>1. Live \in SUBSET Cells /\ {c} \in SUBSET Cells /\ Live \cap {c} = {}
    BY <1>3, LiveCells
  <2>2. Number(Heap', Live \cup {c}, x) = Number(Heap', Live, x) + Number(Heap', {c}, x)
    BY <2>1, EdgesSplit
  <2>3. Number(Heap', Live, x) = Number(Heap, Live, x)
    <3>1. \A h \in Live, k \in Keys : Heap'[h][k] = Heap[h][k]
      BY <1>3, <1>9, <2>1
    <3> QED BY <3>1, EdgesSame
  <2>4. Number(Heap', {c}, x) = 0
    <3>1. Edges(Heap', {c}, x) = {}
      BY <1>9, CellsAssumption DEF Edges
    <3> QED BY <2>1, <3>1, EdgesFinite
  <2>5. Number(Heap, Live, x) \in Nat
    BY <2>1, EdgesFinite
  <2> QED BY <1>3, <2>2, <2>3, <2>4, <2>5
<1>11. \A x \in Cells : ref_count'[x] = IF x = c THEN 1 ELSE ref_count[x]
  BY <1>1, <1>2 DEF TypeOK
<1>12. Exact'
  <2>1. ASSUME NEW x \in Cells PROVE ref_count'[x] = Root(x)' + Number(Heap', Live', x)
    <3>1. ref_count[x] = Root(x) + Number(Heap, Live, x) /\ Number(Heap, Live, x) \in Nat
      BY <1>2, LiveCells, EdgesFinite DEF Exact
    <3>2. CASE x = c
      <4>1. ref_count[x] = 0 /\ Root(x) \in Nat
        BY <1>1, <1>2, <3>2 DEF Exact, Root
      <4>2. Number(Heap, Live, x) = 0
        BY <3>1, <4>1
      <4>3. Root(x)' = 1 /\ ref_count'[x] = 1
        BY <1>1, <1>11, <3>2 DEF Root
      <4> QED BY <1>10, <4>2, <4>3
    <3>3. CASE x # c
      <4>1. Root(x)' = Root(x) /\ ref_count'[x] = ref_count[x]
        BY <1>1, <1>11, <3>3 DEF Root
      <4> QED BY <1>10, <3>1, <4>1
    <3> QED BY <3>2, <3>3
  <2>2. ASSUME NEW x \in Cells, life'[x] = "free" PROVE ref_count'[x] = 0
    BY <1>1, <1>2, <1>11, <2>2 DEF Exact, TypeOK
  <2>3. ASSUME NEW v \in VarRefs \cap Live' PROVE ref_count'[v] > 0
    <3>1. v \in Cells
      BY DEF Cells
    <3> QED BY <1>2, <1>3, <1>11, <3>1 DEF Exact
  <2> QED BY <2>1, <2>2, <2>3 DEF Exact
<1>13. AllCounted'
  BY <1>1 DEF AllCounted
<1>14. Counts' /\ Unheld' /\ VariablesHeld'
  BY <1>6, <1>12, <1>13, ExactNextState
<1>15. Resting'
  <2>1. NoZombies'
    BY <1>1, <1>2 DEF Phases, Resting, NoZombies, TypeOK
  <2>2. In(gc_zero_ref_count_list)' = {}
    BY <1>1, <1>2, EmptyList
  <2> QED BY <1>1, <1>2, <2>1, <2>2 DEF Resting
<1>16. RecordsAlive'
  BY <1>1, <1>3 DEF Inv, RecordsAlive
<1>17. Phases'
  BY <1>1, <1>15 DEF Phases
<1> QED BY <1>6, <1>8, <1>14, <1>16, <1>17 DEF Inv

LEMMA WeakSetStep ==
    ASSUME Inv, NEW w \in WeakMaps, NEW k \in JSValues, NEW c \in JSValues, WeakSet(w, k, c)
    PROVE  Inv'
<1>1. /\ phase = "none" /\ {w, k, c} \subseteq roots /\ entries[w][k] = Null
      /\ entries' = [entries EXCEPT ![w][k] = c] /\ ref_count' = [ref_count EXCEPT ![c] = @ + 1]
      /\ life' = life /\ field' = field /\ roots' = roots /\ gc_obj_list' = gc_obj_list
      /\ gc_zero_ref_count_list' = gc_zero_ref_count_list /\ phase' = phase
      /\ el' = el /\ mark' = mark /\ tmp_obj_list' = tmp_obj_list
  BY DEF WeakSet, Script
<1>2. TypeOK /\ HeapTyped /\ roots \subseteq Live
  BY <1>1, BetweenCollections
<1>3. c \in Live /\ w \in Live /\ k \in Live
  BY <1>1, <1>2
<1>4. HeapTyped'
  BY <1>1, <1>2 DEF HeapTyped
<1>5. w \in Cells /\ k \in Keys /\ k # Null
  BY CellsAssumption DEF Cells, Keys, JSValues
<1>6. \A x \in WeakMaps, y \in JSValues :
          entries'[x][y] = IF x = w /\ y = k THEN c ELSE entries[x][y]
  BY <1>1, <1>2 DEF HeapTyped
<1>7. Assigned(Heap, Heap', w, k, c) /\ Heap[w][k] = Null
  <2>1. ASSUME NEW x \in Cells, NEW y \in Keys
        PROVE  Heap'[x][y] = IF x = w /\ y = k THEN c ELSE Heap[x][y]
    BY <1>1, <1>5, <1>6 DEF Heap, Keys
  <2>2. Heap[w][k] = Null
    BY <1>1, <1>5 DEF Heap
  <2> QED BY <2>1, <2>2 DEF Assigned
<1>8. ASSUME NEW x \in Cells
      PROVE  Root(x)' + Number(Heap', Live, x) = Root(x) + Number(Heap, Live, x) + One(x = c)
  <2>1. Number(Heap', Live, x) = Number(Heap, Live, x) - One(Heap[w][k] = x) + One(c = x)
    BY <1>3, <1>5, <1>7, LiveCells, EdgesAssigned
  <2>2. One(Heap[w][k] = x) = 0 /\ One(c = x) = One(x = c) /\ One(x = c) \in Nat
    BY <1>7, CellsAssumption DEF One
  <2>3. Root(x)' = Root(x) /\ Root(x) \in Nat /\ Number(Heap, Live, x) \in Nat
    BY <1>1, LiveCells, EdgesFinite DEF Root
  <2> QED BY <2>1, <2>2, <2>3
<1>9. TypeOK' /\ Listed' /\ Counts' /\ Unheld' /\ VariablesHeld' /\ Phases'
  BY <1>1, <1>3, <1>4, <1>8, ScriptAdded
<1>10. RecordsAlive'
  <2>1. Live' = Live
    BY <1>1 DEF Live
  <2> QED BY <1>3, <1>6, <2>1 DEF Inv, RecordsAlive
<1> QED BY <1>9, <1>10 DEF Inv

LEMMA DroppedTyped ==
    ASSUME TypeOK, NEW drops \in [Cells -> Nat], NEW gone, NEW removing \in BOOLEAN
    PROVE  /\ Dropped(drops, gone, removing).ref_count \in [Cells -> Int]
           /\ Dropped(drops, gone, removing).vdead = Going(ref_count, drops)
<1>1. PICK vdead : vdead = Going(ref_count, drops)
  OBVIOUS
<1>2. PICK off : off = Off(Heap, vdead, drops)
  OBVIOUS
<1>3. PICK zero : zero = IF removing THEN {} ELSE ToZero(ref_count, off, gone)
  OBVIOUS
<1>4. PICK d : d = Dropped(drops, gone, removing)
  OBVIOUS
<1>5. DropParts(d, vdead, off, zero)
  BY <1>1, <1>2, <1>3, <1>4, DroppedParts
<1>6. off \in [Cells -> Nat]
  <2>1. vdead \in SUBSET Cells
    BY <1>1 DEF Going, Cells
  <2>2. \A c \in Cells : drops[c] + Number(Heap, vdead, c) \in Nat
    BY <2>1, EdgesFinite
  <2> QED BY <1>2, <2>2 DEF Off
<1>7. d.ref_count = [c \in Cells |-> ref_count[c] - off[c]] /\ d.vdead = vdead
  BY <1>5 DEF DropParts
<1>8. d.ref_count \in [Cells -> Int]
  BY <1>6, <1>7 DEF TypeOK
<1> QED BY <1>1, <1>4, <1>7, <1>8

LEMMA RecordsKept ==
    ASSUME RecordsAlive, Live \ VarRefs \subseteq Live',
           \A w \in WeakMaps, k \in JSValues : entries'[w][k] \in {Null, entries[w][k]}
    PROVE  RecordsAlive'
<1>1. ASSUME NEW w \in WeakMaps, NEW k \in JSValues, entries'[w][k] # Null
      PROVE  w \in Live' /\ k \in Live'
  <2>1. entries[w][k] # Null
    BY <1>1
  <2>2. w \in Live /\ k \in Live
    BY <2>1 DEF RecordsAlive
  <2> QED BY <2>2, CellsAssumption DEF JSValues
<1> QED BY <1>1 DEF RecordsAlive

LEMMA LetStep ==
    ASSUME Inv, NEW c \in Cells, Let(c) PROVE Inv'
<1>1. PICK drops : drops = [x \in Cells |-> IF x = c THEN 1 ELSE 0]
  OBVIOUS
<1>2. PICK d : d = Dropped(drops, {}, FALSE)
  OBVIOUS
<1>3. /\ phase = "none" /\ c \in roots /\ roots' = roots \ {c}
      /\ ref_count' = d.ref_count
      /\ life' = [x \in Cells |-> IF x \in d.vdead THEN "free" ELSE life[x]]
      /\ gc_obj_list' = d.gc_obj_list /\ gc_zero_ref_count_list' = d.zero_list
      /\ phase' = (IF d.zero_list = <<>> THEN "none" ELSE "free_zero")
      /\ field' = field /\ entries' = entries
      /\ el' = el /\ mark' = mark /\ tmp_obj_list' = tmp_obj_list
  BY <1>1, <1>2, Zenon DEF Let, Script
<1>4. TypeOK /\ Listed /\ Exact /\ Phases /\ HeapTyped /\ HeapShape /\ roots \subseteq Live
  BY <1>3, BetweenCollections
<1>5. HeapTyped' /\ Heap' = Heap
  BY <1>3, <1>4, HeapUnchanged DEF HeapTyped
<1>6. PICK plus : plus = [x \in Cells |-> 0]
  OBVIOUS
<1>7. PICK root : root = [x \in Cells |-> Root(x)']
  OBVIOUS
<1>8. drops \in [Cells -> Nat] /\ plus \in [Cells -> {0, 1}] /\ root \in [Cells -> {0, 1}]
  BY <1>1, <1>6, <1>7 DEF Root
<1>9. d.ref_count \in [Cells -> Int]
  BY <1>2, <1>4, <1>8, DroppedTyped
<1>10. ScriptDrops(d, plus)
  <2>1. ref_count' = [x \in Cells |-> d.ref_count[x] + plus[x]]
    BY <1>3, <1>6, <1>9
  <2> QED BY <1>3, <2>1 DEF ScriptDrops
<1>11. Dropping(ref_count, Heap', Live, root, drops, plus)
  <2>1. ASSUME NEW x \in Cells
        PROVE  ref_count[x] + plus[x] = root[x] + Number(Heap', Live, x) + drops[x]
    <3>1. ref_count[x] = Root(x) + Number(Heap, Live, x) /\ Number(Heap, Live, x) \in Nat
      BY <1>4, LiveCells, EdgesFinite DEF Exact
    <3>2. Root(x) = root[x] + drops[x] /\ root[x] \in Nat /\ drops[x] \in Nat /\ plus[x] = 0
      BY <1>1, <1>3, <1>6, <1>7 DEF Root
    <3> QED BY <1>5, <3>1, <3>2
  <2>2. \A v \in VarRefs \ Live : drops[v] = 0
    BY <1>1, <1>3, <1>4 DEF Cells
  <2>3. \A x \in Cells : plus[x] # 1
    BY <1>6
  <2> QED BY <1>4, <1>5, <1>8, <2>1, <2>2, <2>3, LiveCells DEF Dropping, TypeOK, HeapShape
<1>12. /\ TypeOK' /\ Listed' /\ Counts' /\ Unheld' /\ VariablesHeld' /\ Phases'
       /\ Live \ VarRefs \subseteq Live'
  <2>1. \A x \in Cells : plus[x] = 1 => x \in Live
    BY <1>6
  <2>2. \A v \in VarRefs : root[v] = 0 => \A k \in Keys : Heap[v][k] = Heap'[v][k]
    BY <1>5
  <2> QED BY <1>2, <1>3, <1>4, <1>5, <1>7, <1>10, <1>11, <2>1, <2>2, ScriptDropped
<1>13. RecordsAlive'
  BY <1>3, <1>12, RecordsKept DEF Inv
<1> QED BY <1>12, <1>13 DEF Inv

LEMMA WeakDeleteStep ==
    ASSUME Inv, NEW w \in WeakMaps, NEW k \in JSValues, WeakDelete(w, k) PROVE Inv'
<1>1. PICK o : o = entries[w][k]
  OBVIOUS
<1>2. PICK drops : drops = [x \in Cells |-> IF x = o THEN 1 ELSE 0]
  OBVIOUS
<1>3. PICK d : d = Dropped(drops, {}, FALSE)
  OBVIOUS
<1>4. /\ phase = "none" /\ {w, k} \subseteq roots /\ o # Null
      /\ entries' = [entries EXCEPT ![w][k] = Null]
      /\ ref_count' = d.ref_count /\ life' = life
      /\ gc_obj_list' = d.gc_obj_list /\ gc_zero_ref_count_list' = d.zero_list
      /\ phase' = (IF d.zero_list = <<>> THEN "none" ELSE "free_zero")
      /\ field' = field /\ roots' = roots
      /\ el' = el /\ mark' = mark /\ tmp_obj_list' = tmp_obj_list
  <2>1. entries[w][k] \notin {Null}
    BY DEF WeakDelete
  <2> QED BY <1>1, <1>2, <1>3, <2>1, Zenon DEF WeakDelete, Script
<1>5. TypeOK /\ Listed /\ Exact /\ Phases /\ HeapTyped /\ HeapShape /\ roots \subseteq Live
  BY <1>4, BetweenCollections
<1>6. w \in Cells /\ w \in Live /\ k \in Keys /\ k # Null
  BY <1>4, <1>5, CellsAssumption DEF Cells, Keys, JSValues
<1>7. o \in JSValues /\ o \in Cells
  BY <1>1, <1>4, <1>5 DEF HeapTyped, JSValues, Cells
<1>8. \A x \in WeakMaps, y \in JSValues :
          entries'[x][y] = IF x = w /\ y = k THEN Null ELSE entries[x][y]
  BY <1>4, <1>5 DEF HeapTyped
<1>9. HeapTyped'
  BY <1>4, <1>5 DEF HeapTyped
<1>10. Assigned(Heap, Heap', w, k, Null) /\ Heap[w][k] = o
  <2>1. ASSUME NEW x \in Cells, NEW y \in Keys
        PROVE  Heap'[x][y] = IF x = w /\ y = k THEN Null ELSE Heap[x][y]
    BY <1>4, <1>6, <1>8 DEF Heap, Keys
  <2>2. Heap[w][k] = o
    BY <1>1, <1>6 DEF Heap
  <2> QED BY <2>1, <2>2 DEF Assigned
<1>11. PICK plus : plus = [x \in Cells |-> 0]
  OBVIOUS
<1>12. PICK root : root = [x \in Cells |-> Root(x)']
  OBVIOUS
<1>13. drops \in [Cells -> Nat] /\ plus \in [Cells -> {0, 1}] /\ root \in [Cells -> {0, 1}]
  BY <1>2, <1>11, <1>12 DEF Root
<1>14. d.ref_count \in [Cells -> Int] /\ d.vdead = {}
  <2>1. d.ref_count \in [Cells -> Int] /\ d.vdead = Going(ref_count, drops)
    BY <1>3, <1>5, <1>13, DroppedTyped
  <2>2. \A v \in VarRefs : drops[v] = 0
    BY <1>2, <1>7, CellsAssumption DEF Cells
  <2> QED BY <2>1, <2>2 DEF Going
<1>15. ScriptDrops(d, plus)
  <2>1. ref_count' = [x \in Cells |-> d.ref_count[x] + plus[x]]
    BY <1>4, <1>11, <1>14
  <2>2. life' = [x \in Cells |-> IF x \in d.vdead THEN "free" ELSE life[x]]
    BY <1>4, <1>5, <1>14 DEF TypeOK
  <2> QED BY <1>4, <2>1, <2>2 DEF ScriptDrops
<1>16. Dropping(ref_count, Heap', Live, root, drops, plus)
  <2>1. ASSUME NEW x \in Cells
        PROVE  ref_count[x] + plus[x] = root[x] + Number(Heap', Live, x) + drops[x]
    <3>1. ref_count[x] = Root(x) + Number(Heap, Live, x) /\ Number(Heap, Live, x) \in Nat
      BY <1>5, LiveCells, EdgesFinite DEF Exact
    <3>2. Number(Heap', Live, x) = Number(Heap, Live, x) - One(Heap[w][k] = x) + One(Null = x)
      BY <1>6, <1>10, LiveCells, EdgesAssigned
    <3>3. One(Heap[w][k] = x) = drops[x] /\ One(Null = x) = 0 /\ drops[x] \in Nat
      BY <1>2, <1>10, CellsAssumption DEF One
    <3>4. Root(x) = root[x] /\ root[x] \in Nat /\ plus[x] = 0
      BY <1>4, <1>11, <1>12 DEF Root
    <3> QED BY <3>1, <3>2, <3>3, <3>4
  <2>2. \A v \in VarRefs \ Live : drops[v] = 0
    BY <1>2, <1>7, CellsAssumption DEF Cells
  <2>3. \A x \in Cells : plus[x] # 1
    BY <1>11
  <2>4. \A v \in VarRefs, y \in Keys : Heap'[v][y] \in JSValues \cup {Null}
    BY <1>5, <1>10 DEF Assigned, HeapShape, Cells
  <2> QED BY <1>5, <1>13, <2>1, <2>2, <2>3, <2>4, LiveCells DEF Dropping, TypeOK
<1>17. /\ TypeOK' /\ Listed' /\ Counts' /\ Unheld' /\ VariablesHeld' /\ Phases'
       /\ Live \ VarRefs \subseteq Live'
  <2>1. \A x \in Cells : plus[x] = 1 => x \in Live
    BY <1>11
  <2>2. \A v \in VarRefs : root[v] = 0 => \A y \in Keys : Heap[v][y] = Heap'[v][y]
    <3>1. \A v \in VarRefs : v \in Cells /\ v # w
      BY CellsAssumption DEF Cells, JSValues
    <3> QED BY <1>10, <3>1 DEF Assigned
  <2> QED BY <1>3, <1>4, <1>5, <1>9, <1>12, <1>15, <1>16, <2>1, <2>2, ScriptDropped
<1>18. RecordsAlive'
  BY <1>8, <1>17, RecordsKept DEF Inv
<1> QED BY <1>17, <1>18 DEF Inv

LEMMA PutStep ==
    ASSUME Inv, NEW h \in Cells, NEW c \in Cells, Put(h, c) PROVE Inv'
<1>1. PICK o : o = field[h]
  OBVIOUS
<1>2. /\ phase = "none" /\ h \in roots /\ h \notin WeakMaps /\ c \in roots /\ o # c
      /\ (h \in VarRefs => c \in JSValues)
      /\ field' = [field EXCEPT ![h] = c] /\ entries' = entries /\ roots' = roots
      /\ el' = el /\ mark' = mark /\ tmp_obj_list' = tmp_obj_list
  BY <1>1 DEF Put, Script
<1>3. /\ TypeOK /\ Listed /\ Exact /\ Phases /\ HeapTyped /\ HeapShape /\ roots \subseteq Live
      /\ \A x \in Live, k \in Keys, y \in Cells : Heap[x][k] = y => y \in Live
  BY <1>2, BetweenCollections
<1>4. h \in Objects \cup VarRefs /\ h \in Live /\ c \in Live /\ Null \in Keys
  BY <1>2, <1>3 DEF Cells, Keys
<1>5. \A x \in Objects \cup VarRefs : field'[x] = IF x = h THEN c ELSE field[x]
  BY <1>2, <1>3, <1>4 DEF HeapTyped
<1>6. HeapTyped'
  BY <1>2, <1>3, <1>4, <1>5 DEF HeapTyped
<1>7. Assigned(Heap, Heap', h, Null, c) /\ Heap[h][Null] = o /\ Heap'[h][Null] = c
  <2>1. ASSUME NEW x \in Cells, NEW y \in Keys
        PROVE  Heap'[x][y] = IF x = h /\ y = Null THEN c ELSE Heap[x][y]
    <3>1. x \in WeakMaps \/ x \in Objects \cup VarRefs
      BY DEF Cells
    <3> QED BY <1>2, <1>5, <3>1 DEF Heap
  <2>2. Heap[h][Null] = o
    BY <1>1, <1>2, <1>4 DEF Heap
  <2> QED BY <1>4, <2>1, <2>2 DEF Assigned
<1>8. ASSUME NEW x \in Cells
      PROVE  /\ Number(Heap', Live, x) = Number(Heap, Live, x) - One(o = x) + One(x = c)
             /\ Number(Heap, Live, x) \in Nat /\ Root(x)' = Root(x) /\ Root(x) \in {0, 1}
             /\ ref_count[x] = Root(x) + Number(Heap, Live, x)
  <2>1. Number(Heap', Live, x) = Number(Heap, Live, x) - One(Heap[h][Null] = x) + One(c = x)
    BY <1>4, <1>7, LiveCells, EdgesAssigned
  <2>2. One(Heap[h][Null] = x) = One(o = x) /\ One(c = x) = One(x = c)
    BY <1>7 DEF One
  <2>3. Root(x)' = Root(x) /\ Root(x) \in {0, 1} /\ Number(Heap, Live, x) \in Nat
    BY <1>2, LiveCells, EdgesFinite DEF Root
  <2> QED BY <1>3, <2>1, <2>2, <2>3 DEF Exact
<1>9. CASE o = Null
  <2>1. /\ life' = life /\ gc_obj_list' = gc_obj_list
        /\ gc_zero_ref_count_list' = gc_zero_ref_count_list /\ phase' = phase
        /\ ref_count' = [ref_count EXCEPT ![c] = @ + 1]
    BY <1>1, <1>9 DEF Put
  <2>2. ASSUME NEW x \in Cells
        PROVE  Root(x)' + Number(Heap', Live, x) = Root(x) + Number(Heap, Live, x) + One(x = c)
    <3>1. One(o = x) = 0 /\ One(x = c) \in Nat
      BY <1>9, CellsAssumption DEF One
    <3> QED BY <1>8, <3>1
  <2>3. TypeOK' /\ Listed' /\ Counts' /\ Unheld' /\ VariablesHeld' /\ Phases'
    BY <1>2, <1>4, <1>6, <2>1, <2>2, ScriptAdded
  <2>4. RecordsAlive'
    BY <1>2, <2>1 DEF Inv, RecordsAlive, Live
  <2> QED BY <2>3, <2>4 DEF Inv
<1>10. CASE o # Null
  <2>1. PICK drops : drops = [x \in Cells |-> IF x = o THEN 1 ELSE 0]
    OBVIOUS
  <2>2. PICK d : d = Dropped(drops, {}, FALSE)
    OBVIOUS
  <2>3. JS_FreeValue(c, o)
    BY <1>1, <1>10 DEF Put
  <2>4. /\ ref_count' = [d.ref_count EXCEPT ![c] = @ + 1]
        /\ life' = [x \in Cells |-> IF x \in d.vdead THEN "free" ELSE life[x]]
        /\ gc_obj_list' = d.gc_obj_list /\ gc_zero_ref_count_list' = d.zero_list
        /\ phase' = (IF d.zero_list = <<>> THEN "none" ELSE "free_zero")
    BY <2>1, <2>2, <2>3, Zenon DEF JS_FreeValue
  <2>5. o \in Cells /\ o \in Live
    <3>1. o \in Cells
      BY <1>1, <1>3, <1>4, <1>10 DEF HeapTyped
    <3> QED BY <1>3, <1>4, <1>7, <3>1
  <2>6. PICK plus : plus = [x \in Cells |-> One(x = c)]
    OBVIOUS
  <2>7. PICK root : root = [x \in Cells |-> Root(x)']
    OBVIOUS
  <2>8. drops \in [Cells -> Nat] /\ plus \in [Cells -> {0, 1}] /\ root \in [Cells -> {0, 1}]
    BY <2>1, <2>6, <2>7 DEF Root, One
  <2>9. d.ref_count \in [Cells -> Int]
    BY <1>3, <2>2, <2>8, DroppedTyped
  <2>10. ScriptDrops(d, plus)
    <3>1. ref_count' = [x \in Cells |-> d.ref_count[x] + plus[x]]
      <4>1. PICK rc \in [Cells -> Int] : rc = d.ref_count
        BY <2>9
      <4>2. [rc EXCEPT ![c] = @ + 1] = [x \in Cells |-> rc[x] + One(x = c)]
        <5>1. [rc EXCEPT ![c] = @ + 1] = [x \in Cells |-> IF x = c THEN rc[c] + 1 ELSE rc[x]]
          OBVIOUS
        <5>2. \A x \in Cells : rc[x] + One(x = c) = IF x = c THEN rc[c] + 1 ELSE rc[x]
          BY DEF One
        <5> QED BY <5>1, <5>2
      <4> QED BY <2>4, <2>6, <4>1, <4>2
    <3> QED BY <1>2, <2>4, <3>1 DEF ScriptDrops
  <2>11. \A x \in Cells : plus[x] = 1 => x = c
    BY <2>6 DEF One
  <2>12. root[h] = 1 /\ root[c] = 1 /\ drops[c] = 0
    BY <1>2, <2>1, <2>7 DEF Root
  <2>13. Dropping(ref_count, Heap', Live, root, drops, plus)
    <3>1. ASSUME NEW x \in Cells
          PROVE  ref_count[x] + plus[x] = root[x] + Number(Heap', Live, x) + drops[x]
      <4>1. plus[x] = One(x = c) /\ drops[x] = One(o = x) /\ root[x] = Root(x)
        BY <1>8, <2>1, <2>6, <2>7 DEF One
      <4>2. One(x = c) \in Nat /\ One(o = x) \in Nat
        BY DEF One
      <4> QED BY <1>8, <4>1, <4>2
    <3>2. \A v \in VarRefs \ Live : drops[v] = 0
      BY <2>1, <2>5 DEF Cells
    <3>3. \A x \in Cells : plus[x] = 1 => root[x] = 1 /\ drops[x] = 0
      BY <2>11, <2>12
    <3>4. \A x \in Cells : plus[x] = 1 => \E y \in Live, k \in Keys : root[y] = 1 /\ Heap'[y][k] = x
      BY <1>4, <1>7, <2>11, <2>12
    <3>5. \A v \in VarRefs, y \in Keys : Heap'[v][y] \in JSValues \cup {Null}
      <4>1. ASSUME NEW v \in VarRefs, NEW y \in Keys PROVE Heap'[v][y] \in JSValues \cup {Null}
        <5>1. v \in Cells /\ Heap[v][y] \in JSValues \cup {Null}
          BY <1>3 DEF HeapShape, Cells
        <5>2. Heap'[v][y] = IF v = h /\ y = Null THEN c ELSE Heap[v][y]
          BY <1>7, <5>1 DEF Assigned
        <5> QED BY <1>2, <5>1, <5>2
      <4> QED BY <4>1
    <3> QED BY <1>3, <2>8, <3>1, <3>2, <3>3, <3>4, <3>5, LiveCells DEF Dropping, TypeOK
  <2>14. /\ TypeOK' /\ Listed' /\ Counts' /\ Unheld' /\ VariablesHeld' /\ Phases'
         /\ Live \ VarRefs \subseteq Live'
    <3>1. \A x \in Cells : plus[x] = 1 => x \in Live
      BY <1>4, <2>11
    <3>2. \A v \in VarRefs : root[v] = 0 => \A y \in Keys : Heap[v][y] = Heap'[v][y]
      <4>1. \A v \in VarRefs : root[v] = 0 => v \in Cells /\ v # h
        BY <2>12 DEF Cells
      <4> QED BY <1>7, <4>1 DEF Assigned
    <3> QED BY <1>2, <1>3, <1>6, <2>2, <2>7, <2>10, <2>13, <3>1, <3>2, ScriptDropped
  <2>15. RecordsAlive'
    BY <1>2, <2>14, RecordsKept DEF Inv
  <2> QED BY <2>14, <2>15 DEF Inv
<1> QED BY <1>9, <1>10

-----------------------------------------------------------------------------
(* The collector, while it looks for garbage: only counts, marks and lists *)
(* change.                                                                 *)
HeapKept == UNCHANGED <<life, field, entries, roots>>

LEMMA KeptHeap ==
    ASSUME Inv, HeapKept
    PROVE  RecordsAlive' /\ Unheld' /\ VariablesHeld' /\ HeapTyped' /\ Live' = Live /\ Heap' = Heap
<1>1. life' = life /\ field' = field /\ entries' = entries /\ roots' = roots
  BY DEF HeapKept
<1>2. Live' = Live /\ Heap' = Heap
  BY <1>1, HeapUnchanged DEF Live
<1>3. \A S, c : References(S, c)' = References(S, c)
  BY <1>1 DEF References, HoldsAt
<1>4. RecordsAlive'
  BY <1>1, <1>2 DEF Inv, RecordsAlive
<1>5. Unheld' /\ VariablesHeld'
  <2>1. \A c : References(Live, c)' = References(Live, c)
    BY <1>1 DEF References, HoldsAt, Live
  <2> QED BY <1>1, <1>2, <2>1 DEF Inv, Unheld, VariablesHeld
<1>6. HeapTyped'
  BY <1>1 DEF Inv, TypeOK, HeapTyped
<1> QED BY <1>2, <1>4, <1>5, <1>6

(* The counts, where holders is the set of cells that are counted.         *)
CountsOf(rc, holders) == \A c \in Cells : rc[c] = Root(c) + Number(Heap, holders, c)

Counted == Counting \in SUBSET Cells /\ (Counts <=> CountsOf(ref_count, Counting))

LEMMA CountedState == TypeOK => Counted
<1> SUFFICES ASSUME TypeOK PROVE Counted
  OBVIOUS
<1>1. Counting \in SUBSET Cells
  <2>1. In(gc_obj_list) \subseteq Cells
    BY InList DEF TypeOK
  <2> QED BY <2>1, LiveCells DEF Counting, Before
<1>2. \A c \in Cells : References(Counting, c) = Edges(Heap, Counting, c)
  BY <1>1, HeapOfState DEF HeapShape
<1>3. \A c \in Cells : Cardinality(References(Counting, c)) = Number(Heap, Counting, c)
  BY <1>2 DEF Number
<1> QED BY <1>1, <1>3 DEF Counts, CountsOf, Counted

LEMMA CountedNextState == TypeOK' => Counted'
BY CountedState, PTL

LEMMA RunGCStep ==
    ASSUME Inv, JS_RunGC PROVE Inv'
<1>1. /\ phase = "none" /\ gc_obj_list # <<>> /\ phase' = "gc_decref" /\ el' = First(gc_obj_list)
      /\ HeapKept /\ ref_count' = ref_count /\ mark' = mark /\ gc_obj_list' = gc_obj_list
      /\ tmp_obj_list' = tmp_obj_list /\ gc_zero_ref_count_list' = gc_zero_ref_count_list
  BY DEF JS_RunGC, heap, lists, HeapKept
<1>2. /\ TypeOK /\ Listed /\ Phases
      /\ gc_zero_ref_count_list = <<>> /\ tmp_obj_list = <<>> /\ \A c \in Cells : mark[c] = 0
  BY <1>1, BetweenCollections
<1>3. RecordsAlive' /\ Unheld' /\ VariablesHeld' /\ HeapTyped' /\ Live' = Live /\ Heap' = Heap
  BY <1>1, KeptHeap
<1>4. el' \in In(gc_obj_list) /\ Before(gc_obj_list, el') = {} /\ In(gc_obj_list) \subseteq Cells
  BY <1>1, <1>2, FirstOfList, InList, CellsAssumption DEF TypeOK, Listed
<1>5. TypeOK'
  BY <1>1, <1>2, <1>3, <1>4 DEF TypeOK, HeapTyped, HeapKept
<1>6. Listed'
  BY <1>1, <1>2 DEF Listed, HeapKept
<1>7. Counts'
  <2>1. Counting = Live
    BY <1>1 DEF Counting
  <2>2. Counting' = {c \in Live : mark[c] = 0}
    BY <1>1, <1>3 DEF Counting
  <2>3. Counting' = Counting
    BY <1>2, <2>1, <2>2, LiveCells
  <2>4. CountsOf(ref_count, Counting)
    BY <1>2, CountedState DEF Inv, Counted
  <2>5. CountsOf(ref_count, Counting)'
    BY <1>1, <1>3, <2>3, <2>4 DEF CountsOf, Root, HeapKept
  <2> QED BY <1>5, <2>5, CountedNextState DEF Counted
<1>8. Phases'
  <2>1. Before(gc_obj_list, el)' = {} /\ In(tmp_obj_list)' = {}
    BY <1>1, <1>2, <1>4, EmptyList
  <2>2. NoZombies'
    BY <1>1, <1>2 DEF Phases, Resting, NoZombies, HeapKept
  <2>3. Decreasing'
    BY <1>1, <1>2, <1>4, <2>1, <2>2 DEF Decreasing
  <2> QED BY <1>1, <2>3 DEF Phases
<1> QED BY <1>3, <1>5, <1>6, <1>7, <1>8 DEF Inv

LEMMA DecrefStep ==
    ASSUME Inv, gc_decref PROVE Inv'
<1>1. TypeOK /\ Listed /\ Decreasing /\ Counts /\ phase = "gc_decref"
  BY DEF gc_decref, Inv, Phases
<1>2. PICK rc : rc = [c \in Cells |-> ref_count[c] - Holds(el, c)]
  OBVIOUS
<1>3. PICK moved : moved = {c \in Cells : Holds(el, c) > 0 /\ rc[c] = 0 /\ Visited(c)}
  OBVIOUS
<1>4. PICK self : self = IF rc[el] = 0 /\ el \notin moved THEN <<el>> ELSE <<>>
  OBVIOUS
<1>5. PICK next : next = Successor(gc_obj_list, el)
  OBVIOUS
<1>6. /\ ref_count' = rc /\ mark' = [mark EXCEPT ![el] = 1]
      /\ gc_obj_list' = Without(gc_obj_list, moved \cup ToSet(self))
      /\ tmp_obj_list' = tmp_obj_list \o SetToSeq(moved) \o self
      /\ IF next # Null THEN el' = next /\ phase' = "gc_decref"
         ELSE el' = First(gc_obj_list') /\ phase' = "gc_scan"
      /\ HeapKept /\ gc_zero_ref_count_list' = gc_zero_ref_count_list
  BY <1>2, <1>3, <1>4, <1>5, Zenon DEF gc_decref, heap, HeapKept
<1>7. RecordsAlive' /\ Unheld' /\ VariablesHeld' /\ HeapTyped' /\ Live' = Live /\ Heap' = Heap
  BY <1>6, KeptHeap
<1> DEFINE B == Before(gc_obj_list, el)
           Rest == Counting \ {el}
           R == moved \cup ToSet(self)
<1>8. /\ In(gc_obj_list) \subseteq Cells /\ In(tmp_obj_list) \subseteq Cells
      /\ B \subseteq In(gc_obj_list)
  BY <1>1, InList DEF TypeOK, Before
<1>9. /\ el \in In(gc_obj_list) /\ el \in Cells /\ gc_zero_ref_count_list = <<>> /\ NoZombies
      /\ \A c \in Cells : mark[c] = 1 <=> c \in B \cup In(tmp_obj_list)
      /\ \A c \in B : ref_count[c] > 0
      /\ \A c \in In(tmp_obj_list) : ref_count[c] = 0
  BY <1>1, <1>8 DEF Decreasing
<1>10. /\ next \in In(gc_obj_list) \cup {Null} /\ next # el /\ el \notin B
       /\ Before(gc_obj_list, next) = B \cup {el} /\ next \notin Before(gc_obj_list, next)
  BY <1>1, <1>5, <1>9, NextOnList, CellsAssumption DEF TypeOK, Listed
<1> HIDE DEF B
<1>11. Live = In(gc_obj_list) \cup In(tmp_obj_list) /\ In(gc_obj_list) \cap In(tmp_obj_list) = {}
  <2>1. In(gc_zero_ref_count_list) = {}
    BY <1>9, EmptyList
  <2>2. Live = {c \in Cells : life[c] # "free"}
    BY <1>1, <1>9 DEF Live, NoZombies, TypeOK
  <2> QED BY <1>1, <2>1, <2>2 DEF Listed
<1>12. mark \in [Cells -> {0, 1}] /\ ref_count \in [Cells -> Int]
  BY <1>1 DEF TypeOK
<1>13. Counting = In(gc_obj_list) \ B
  <2>1. Counting = {c \in Live : mark[c] = 0}
    BY <1>1 DEF Counting
  <2>2. \A c \in Live : mark[c] = 0 <=> c \notin B /\ c \notin In(tmp_obj_list)
    BY <1>9, <1>12, LiveCells
  <2> QED BY <1>11, <2>1, <2>2
<1>14. HeapShape
  BY <1>1, HeapOfState
<1>15. ASSUME NEW c \in Cells
       PROVE  /\ ref_count[c] \in Int /\ Holds(el, c) \in Nat /\ rc[c] = ref_count[c] - Holds(el, c)
              /\ rc[c] = Root(c) + Number(Heap, Rest, c) /\ rc[c] >= 0
  <2>1. Counting \in SUBSET Cells /\ CountsOf(ref_count, Counting)
    BY <1>1, CountedState DEF Counted
  <2>2. PICK S \in SUBSET Counting : S = {el}
    BY <1>9, <1>10, <1>13
  <2>3. Number(Heap, S, c) + Number(Heap, Counting \ S, c) = Number(Heap, Counting, c)
    BY <2>1, EdgesWithin
  <2>4. Holds(el, c) = Number(Heap, S, c) /\ Holds(el, c) \in Nat
    BY <1>9, <1>14, <2>2, HeldOne
  <2>5. Number(Heap, Counting \ S, c) = Number(Heap, Rest, c)
    BY <2>2
  <2>6. Number(Heap, Rest, c) \in Nat
    BY <2>1, EdgesFinite
  <2>7. ref_count[c] = Root(c) + Number(Heap, Counting, c) /\ Root(c) \in Nat
    BY <2>1 DEF CountsOf, Root
  <2>8. rc[c] = ref_count[c] - Holds(el, c) /\ ref_count[c] \in Int
    BY <1>2, <1>12
  <2> HIDE DEF Rest
  <2> QED BY <2>3, <2>4, <2>5, <2>6, <2>7, <2>8
<1>16. moved \subseteq B
  <2>1. SUFFICES ASSUME NEW c \in moved PROVE c \in B
    OBVIOUS
  <2>2. c \in Cells /\ Holds(el, c) > 0 /\ rc[c] = 0 /\ mark[c] = 1
    BY <1>3 DEF Visited
  <2>3. ref_count[c] # 0
    BY <1>15, <2>2
  <2> QED BY <1>9, <2>2, <2>3
<1>17. ToSet(self) = IF rc[el] = 0 THEN {el} ELSE {}
  <2>1. el \notin moved
    BY <1>10, <1>16
  <2>2. PICK s \in Seq(Cells) : s = <<el>> /\ In(s) = {el}
    BY <1>9, OneOnList
  <2>3. ToSet(s) = {el}
    BY <2>2, InList
  <2>4. PICK t \in Seq(Cells) : t = <<>> /\ In(t) = {}
    <3>1. <<>> \in Seq(Cells) /\ In(<<>>) = {}
      BY EmptyList
    <3> QED BY <3>1
  <2>5. ToSet(t) = {}
    BY <2>4, InList
  <2> QED BY <1>4, <2>1, <2>2, <2>3, <2>4, <2>5
<1>18. self \in Seq(Cells) /\ Distinct(self) /\ In(self) = ToSet(self)
  <2>1. <<el>> \in Seq(Cells) /\ Distinct(<<el>>)
    BY <1>9, OneOnList DEF Distinct
  <2>2. <<>> \in Seq(Cells) /\ Distinct(<<>>)
    BY EmptyList
  <2> QED BY <1>4, <2>1, <2>2, InList
<1>19. R \subseteq B \cup {el} /\ el \notin moved
  BY <1>10, <1>16, <1>17
<1>20. /\ gc_obj_list' \in Seq(Cells) /\ In(gc_obj_list)' = In(gc_obj_list) \ R
       /\ Distinct(gc_obj_list)'
       /\ \A x, y : Precedes(gc_obj_list', x, y)
             <=> Precedes(gc_obj_list, x, y) /\ x \notin R /\ y \notin R
  <2>1. gc_obj_list \in Seq(Cells) /\ Distinct(gc_obj_list)
    BY <1>1 DEF TypeOK, Listed
  <2>2. gc_obj_list' = Without(gc_obj_list, R)
    BY <1>6
  <2> HIDE DEF R
  <2>3. PICK l : l = Without(gc_obj_list, R)
    OBVIOUS
  <2>4. /\ l \in Seq(Cells) /\ In(l) = In(gc_obj_list) \ R /\ Distinct(l)
        /\ \A x, y : Precedes(l, x, y) <=> Precedes(gc_obj_list, x, y) /\ x \notin R /\ y \notin R
    BY <2>1, <2>3, LeftOfList
  <2> QED BY <2>2, <2>3, <2>4
<1>21. /\ tmp_obj_list' \in Seq(Cells) /\ In(tmp_obj_list)' = In(tmp_obj_list) \cup R
       /\ Distinct(tmp_obj_list)'
  <2>1. moved \in SUBSET Cells /\ IsFiniteSet(moved)
    <3>1. moved \in SUBSET Cells
      BY <1>3
    <3> QED BY <3>1, CellsAssumption, FS_Subset
  <2>2. PICK s \in Seq(Cells) : s = SetToSeq(moved) /\ In(s) = moved /\ Distinct(s)
    BY <2>1, SetOnList
  <2>3. In(tmp_obj_list) \cap In(s) = {}
    BY <1>8, <1>11, <1>16, <2>2
  <2>4. PICK t \in Seq(Cells) : /\ t = tmp_obj_list \o s /\ In(t) = In(tmp_obj_list) \cup moved
                                /\ Distinct(t)
    <3>1. tmp_obj_list \in Seq(Cells) /\ Distinct(tmp_obj_list)
      BY <1>1 DEF TypeOK, Listed
    <3>2. tmp_obj_list \o s \in Seq(Cells) /\ In(tmp_obj_list \o s) = In(tmp_obj_list) \cup In(s)
      BY <3>1, JoinedLists
    <3>3. Distinct(tmp_obj_list \o s)
      BY <2>2, <2>3, <3>1, DistinctJoined
    <3> QED BY <2>2, <3>2, <3>3
  <2>5. In(t) \cap In(self) = {}
    BY <1>9, <1>11, <1>17, <1>18, <1>19, <2>4
  <2>6. t \o self \in Seq(Cells) /\ In(t \o self) = In(t) \cup In(self) /\ Distinct(t \o self)
    BY <1>18, <2>4, <2>5, JoinedLists, DistinctJoined
  <2> QED BY <1>6, <1>18, <2>2, <2>4, <2>6
<1> HIDE DEF R, Rest
<1>22. Listed'
  <2>1. R \subseteq In(gc_obj_list)
    BY <1>8, <1>9, <1>19
  <2>2. In(gc_obj_list)' \cup In(tmp_obj_list)' = In(gc_obj_list) \cup In(tmp_obj_list)
    BY <1>20, <1>21, <2>1
  <2>3. In(gc_obj_list)' \cap In(tmp_obj_list)' = {}
    BY <1>11, <1>20, <1>21, <2>1
  <2>4. In(gc_zero_ref_count_list)' = In(gc_zero_ref_count_list)
          /\ In(gc_zero_ref_count_list) = {} /\ Distinct(gc_zero_ref_count_list)'
    BY <1>6, <1>9, EmptyList
  <2>5. {c \in Cells : life'[c] # "free"} = In(gc_obj_list) \cup In(tmp_obj_list)
    BY <1>1, <1>6, <2>4 DEF Listed, HeapKept
  <2> QED BY <1>20, <1>21, <2>2, <2>3, <2>4, <2>5 DEF Listed
<1>23. rc \in [Cells -> Int]
  BY <1>2, <1>15
<1>24. \A c \in Cells : mark'[c] = 1 <=> c \in B \cup {el} \cup In(tmp_obj_list)
  BY <1>6, <1>9, <1>12
<1>25. ASSUME NEW c \in (B \cup {el}) \ R PROVE rc[c] > 0
  <2>1. c \in Cells /\ (c \in B => ref_count[c] > 0 /\ mark[c] = 1)
    BY <1>8, <1>9
  <2>2. c = el => rc[c] # 0
    BY <1>17, <1>25 DEF R
  <2>3. c \in B => rc[c] = ref_count[c] \/ rc[c] # 0
    <3>1. c \notin moved
      BY <1>25 DEF R
    <3>2. Holds(el, c) \in Nat
      BY <1>15, <2>1
    <3> QED BY <1>3, <1>15, <2>1, <3>1, <3>2 DEF Visited
  <2>4. rc[c] >= 0 /\ rc[c] \in Int
    BY <1>15, <1>23, <2>1
  <2> QED BY <1>25, <2>1, <2>2, <2>3, <2>4
<1>26. ASSUME NEW c \in In(tmp_obj_list)' PROVE rc[c] = 0
  <2>1. c \in In(tmp_obj_list) => rc[c] = 0
    BY <1>8, <1>9, <1>15
  <2>2. c \in moved => rc[c] = 0
    BY <1>3
  <2>3. c \in ToSet(self) => rc[c] = 0
    BY <1>17
  <2> QED BY <1>21, <1>26, <2>1, <2>2, <2>3 DEF R
<1>27. el' \in Cells \cup {Null}
  <2>1. CASE next # Null
    BY <1>6, <1>8, <1>10, <2>1
  <2>2. CASE next = Null
    <3>1. First(gc_obj_list') \in In(gc_obj_list') \cup {Null}
      BY <1>20, FirstOfList, CellsAssumption
    <3> QED BY <1>6, <1>8, <1>20, <2>2, <3>1
  <2> QED BY <2>1, <2>2
<1>28. TypeOK'
  <2>1. mark' \in [Cells -> {0, 1}]
    BY <1>6, <1>12
  <2> QED BY <1>1, <1>6, <1>7, <1>20, <1>21, <1>23, <1>27, <2>1 DEF TypeOK, HeapTyped, HeapKept
<1>29. NoZombies'
  BY <1>6, <1>9 DEF NoZombies, HeapKept
<1>30. Rest = {c \in Live : mark'[c] = 0}
  <2>1. \A c \in Live : mark'[c] = 0 <=> c \notin B \cup {el} \cup In(tmp_obj_list)
    <3>1. mark' \in [Cells -> {0, 1}]
      BY <1>28 DEF TypeOK
    <3> QED BY <1>24, <3>1, LiveCells
  <2> QED BY <1>11, <1>13, <2>1 DEF Rest
<1>31. ASSUME Counting' = Rest PROVE Counts'
  <2>1. CountsOf(ref_count, Counting)'
    BY <1>6, <1>7, <1>15, <1>31 DEF CountsOf, Root, HeapKept
  <2> QED BY <1>28, <2>1, CountedNextState DEF Counted
<1>32. CASE next # Null
  <2>1. el' = next /\ phase' = "gc_decref" /\ next \in In(gc_obj_list)
    BY <1>6, <1>10, <1>32
  <2>2. Counts'
    <3>1. Counting' = Rest
      BY <1>7, <1>30, <2>1 DEF Counting
    <3> QED BY <1>31, <3>1
  <2>3. next \in In(gc_obj_list)' /\ next \notin R
    BY <1>10, <1>19, <1>20, <2>1
  <2>4. Before(gc_obj_list', next) = (B \cup {el}) \ R
    <3>1. Before(gc_obj_list', next) = {y \in In(gc_obj_list') : Precedes(gc_obj_list', y, next)}
      BY <1>32 DEF Before
    <3>2. B \cup {el} = {y \in In(gc_obj_list) : Precedes(gc_obj_list, y, next)}
      BY <1>10, <1>32 DEF Before
    <3> QED BY <1>20, <2>3, <3>1, <3>2
  <2>5. Decreasing'
    <3>1. \A c \in Cells : mark'[c] = 1 <=> c \in Before(gc_obj_list', next) \cup In(tmp_obj_list)'
      BY <1>19, <1>21, <1>24, <2>4
    <3>2. \A c \in Before(gc_obj_list', next) : ref_count'[c] > 0
      BY <1>6, <1>25, <2>4
    <3>3. \A c \in In(tmp_obj_list)' : ref_count'[c] = 0
      BY <1>6, <1>26
    <3> QED BY <1>6, <1>9, <1>29, <2>1, <2>3, <3>1, <3>2, <3>3 DEF Decreasing
  <2>6. Phases'
    BY <2>1, <2>5 DEF Phases
  <2> QED BY <1>7, <1>22, <1>28, <2>2, <2>6 DEF Inv
<1>33. CASE next = Null
  <2>1. el' = First(gc_obj_list') /\ phase' = "gc_scan"
    BY <1>6, <1>33
  <2>2. In(gc_obj_list) = B \cup {el}
    BY <1>10, <1>33 DEF Before
  <2>3. el' \in In(gc_obj_list)' \cup {Null} /\ Before(gc_obj_list', el') = {}
    BY <1>20, <2>1, FirstOfList, CellsAssumption
  <2>4. Counts'
    <3>1. Counting' = {}
      BY <2>1, <2>3 DEF Counting
    <3>2. Rest = {}
      BY <1>13, <2>2 DEF Rest
    <3> QED BY <1>31, <3>1, <3>2
  <2>5. Scanning'
    <3>1. \A c \in In(gc_obj_list)' : ref_count'[c] > 0
      BY <1>6, <1>20, <1>25, <2>2
    <3>2. \A c \in In(tmp_obj_list)' : ref_count'[c] = 0
      BY <1>6, <1>26
    <3>3. \A c \in Cells : mark'[c] = 1 => c \in Live' /\ c \notin Before(gc_obj_list', el')
      BY <1>7, <1>11, <1>24, <2>2, <2>3
    <3> QED BY <1>6, <1>9, <1>29, <2>3, <3>1, <3>2, <3>3 DEF Scanning
  <2>6. Phases'
    BY <2>1, <2>5 DEF Phases
  <2> QED BY <1>7, <1>22, <1>28, <2>4, <2>6 DEF Inv
<1> QED BY <1>32, <1>33

LEMMA ScanStep ==
    ASSUME Inv, gc_scan PROVE Inv'
<1>1. TypeOK /\ Listed /\ Scanning /\ Counts /\ phase = "gc_scan" /\ el # Null
  BY DEF gc_scan, Inv, Phases
<1>2. PICK rc : rc = [c \in Cells |-> ref_count[c] + Holds(el, c)]
  OBVIOUS
<1>3. PICK back : back = {c \in Cells : Holds(el, c) > 0 /\ ref_count[c] = 0}
  OBVIOUS
<1>4. /\ ref_count' = rc
      /\ mark' = [c \in Cells |-> IF c \in back \cup {el} THEN 0 ELSE mark[c]]
      /\ gc_obj_list' = gc_obj_list \o SetToSeq(back)
      /\ tmp_obj_list' = Without(tmp_obj_list, back)
      /\ el' = Successor(gc_obj_list', el)
      /\ HeapKept /\ gc_zero_ref_count_list' = gc_zero_ref_count_list /\ phase' = phase
  BY <1>2, <1>3, Zenon DEF gc_scan, Rescued, heap, HeapKept
<1>5. RecordsAlive' /\ Unheld' /\ VariablesHeld' /\ HeapTyped' /\ Live' = Live /\ Heap' = Heap
  BY <1>4, KeptHeap
<1>6. /\ gc_obj_list \in Seq(Cells) /\ Distinct(gc_obj_list)
      /\ tmp_obj_list \in Seq(Cells) /\ Distinct(tmp_obj_list)
      /\ mark \in [Cells -> {0, 1}] /\ ref_count \in [Cells -> Int]
  BY <1>1 DEF TypeOK, Listed
<1>7. In(gc_obj_list) \subseteq Cells /\ In(tmp_obj_list) \subseteq Cells
  BY <1>6, InList
<1>8. /\ el \in In(gc_obj_list) /\ el \in Cells /\ gc_zero_ref_count_list = <<>> /\ NoZombies
      /\ \A c \in In(gc_obj_list) : ref_count[c] > 0
      /\ \A c \in In(tmp_obj_list) : ref_count[c] = 0
      /\ \A c \in Cells : mark[c] = 1 => c \in Live /\ c \notin Before(gc_obj_list, el)
  BY <1>1, <1>7 DEF Scanning
<1>9. PICK B : B = Before(gc_obj_list, el)
  OBVIOUS
<1>10. B \subseteq In(gc_obj_list) /\ el \notin B
  BY <1>6, <1>8, <1>9, NextOnList, CellsAssumption DEF Before
<1>11. Live = In(gc_obj_list) \cup In(tmp_obj_list) /\ In(gc_obj_list) \cap In(tmp_obj_list) = {}
  <2>1. In(gc_zero_ref_count_list) = {}
    BY <1>8, EmptyList
  <2>2. Live = {c \in Cells : life[c] # "free"}
    BY <1>1, <1>8 DEF Live, NoZombies, TypeOK
  <2> QED BY <1>1, <2>1, <2>2 DEF Listed
<1>12. HeapShape /\ Counting = B
  BY <1>1, <1>9, HeapOfState DEF Counting
<1>13. ASSUME NEW c \in Cells
       PROVE  /\ ref_count[c] \in Int /\ Holds(el, c) \in Nat /\ rc[c] = ref_count[c] + Holds(el, c)
              /\ rc[c] = Root(c) + Number(Heap, B \cup {el}, c)
  <2>1. B \in SUBSET Cells /\ CountsOf(ref_count, B)
    BY <1>1, <1>12, CountedState DEF Counted
  <2>2. PICK S \in SUBSET Cells : S = {el}
    BY <1>8
  <2>3. Number(Heap, B \cup S, c) = Number(Heap, B, c) + Number(Heap, S, c)
    BY <1>10, <2>1, <2>2, EdgesSplit
  <2>4. Holds(el, c) = Number(Heap, S, c) /\ Holds(el, c) \in Nat
    BY <1>8, <1>12, <2>2, HeldOne
  <2>5. Number(Heap, B, c) \in Nat
    BY <2>1, EdgesFinite
  <2>6. ref_count[c] = Root(c) + Number(Heap, B, c) /\ Root(c) \in Nat
    BY <2>1 DEF CountsOf, Root
  <2>7. rc[c] = ref_count[c] + Holds(el, c) /\ ref_count[c] \in Int
    BY <1>2, <1>6
  <2>8. Number(Heap, B \cup {el}, c) = Number(Heap, B, c) + Holds(el, c)
    BY <2>2, <2>3, <2>4
  <2> QED BY <2>4, <2>5, <2>6, <2>7, <2>8
<1>14. back \subseteq In(tmp_obj_list)
  <2>1. SUFFICES ASSUME NEW c \in back PROVE c \in In(tmp_obj_list)
    OBVIOUS
  <2>2. c \in Cells /\ Holds(el, c) > 0 /\ ref_count[c] = 0
    BY <1>3
  <2>3. PICK k \in Keys : Heap[el][k] = c
    BY <1>8, <1>12, <2>2, HeldOne
  <2>4. <<el, k>> \in Edges(Heap, Live, c)
    BY <1>8, <1>11, <2>3 DEF Edges
  <2>5. References(Live, c) # {}
    BY <1>12, <2>2, <2>4, LiveCells DEF HeapShape
  <2>6. life[c] # "free"
    BY <2>2, <2>5 DEF Inv, Unheld
  <2>7. c \in Live
    BY <1>1, <1>8, <2>2, <2>6 DEF Live, NoZombies, TypeOK
  <2>8. c \notin In(gc_obj_list)
    <3>1. ~(ref_count[c] > 0)
      BY <2>2
    <3> QED BY <1>8, <3>1
  <2> QED BY <1>11, <2>7, <2>8
<1>15. PICK s \in Seq(Cells) : s = SetToSeq(back) /\ In(s) = back /\ Distinct(s)
  <2>1. back \in SUBSET Cells
    BY <1>3
  <2>2. IsFiniteSet(back)
    BY <2>1, CellsAssumption, FS_Subset
  <2> QED BY <2>1, <2>2, SetOnList
<1>16. PICK list \in Seq(Cells) :
           /\ list = gc_obj_list \o s /\ In(list) = In(gc_obj_list) \cup back
           /\ \A x, y : Precedes(list, x, y)
                 <=> Precedes(gc_obj_list, x, y) \/ Precedes(s, x, y)
                     \/ (x \in In(gc_obj_list) /\ y \in back)
  <2>1. /\ gc_obj_list \o s \in Seq(Cells)
        /\ In(gc_obj_list \o s) = In(gc_obj_list) \cup In(s)
        /\ \A x, y : Precedes(gc_obj_list \o s, x, y)
              <=> Precedes(gc_obj_list, x, y) \/ Precedes(s, x, y)
                  \/ (x \in In(gc_obj_list) /\ y \in In(s))
    BY <1>6, <1>15, JoinedLists
  <2> QED BY <1>15, <2>1
<1>17. gc_obj_list' = list /\ Distinct(list)
  <2>1. In(gc_obj_list) \cap In(s) = {}
    BY <1>11, <1>14, <1>15
  <2> QED BY <1>4, <1>6, <1>15, <1>16, <2>1, DistinctJoined
<1>18. Before(list, el) = B
  <2>1. \A y : Precedes(list, y, el) <=> Precedes(gc_obj_list, y, el)
    <3>1. el \notin back /\ \A y : ~Precedes(s, y, el)
      <4>1. el \notin In(s)
        BY <1>8, <1>11, <1>14, <1>15
      <4>2. \A y : Precedes(s, y, el) => el \in In(s)
        BY DEF Precedes, In
      <4> QED BY <1>15, <4>1, <4>2
    <3> QED BY <1>16, <3>1
  <2>2. \A y : Precedes(gc_obj_list, y, el) => y \in In(gc_obj_list)
    BY DEF Precedes, In
  <2> QED BY <1>1, <1>9, <1>16, <2>1, <2>2 DEF Before
<1>19. /\ el' \in In(list) \cup {Null} /\ Before(list, el') = B \cup {el}
  <2>1. el \in In(list)
    BY <1>8, <1>16
  <2>2. el' = Successor(list, el)
    BY <1>4, <1>17
  <2> QED BY <1>17, <1>18, <2>1, <2>2, NextOnList, CellsAssumption
<1>20. /\ tmp_obj_list' \in Seq(Cells) /\ In(tmp_obj_list)' = In(tmp_obj_list) \ back
       /\ Distinct(tmp_obj_list)'
  BY <1>4, <1>6, LeftOfList
<1>21. Listed'
  <2>1. In(gc_obj_list)' = In(gc_obj_list) \cup back
    BY <1>16, <1>17
  <2>2. In(gc_zero_ref_count_list)' = In(gc_zero_ref_count_list)
          /\ In(gc_zero_ref_count_list) = {} /\ Distinct(gc_zero_ref_count_list)'
    BY <1>4, <1>8, EmptyList
  <2>3. {c \in Cells : life'[c] # "free"} = In(gc_obj_list) \cup In(tmp_obj_list)
    BY <1>1, <1>4, <2>2 DEF Listed, HeapKept
  <2>4. Distinct(gc_obj_list)'
    BY <1>17
  <2> QED BY <1>11, <1>14, <1>20, <2>1, <2>2, <2>3, <2>4 DEF Listed
<1>22. TypeOK'
  <2>1. ref_count' \in [Cells -> Int]
    <3>1. \A c \in Cells : ref_count[c] + Holds(el, c) \in Int
      BY <1>13
    <3> QED BY <1>2, <1>4, <3>1
  <2>2. mark' \in [Cells -> {0, 1}]
    BY <1>4, <1>6
  <2>3. el' \in Cells \cup {Null}
    BY <1>19, InList
  <2> QED BY <1>1, <1>4, <1>5, <1>16, <1>17, <1>20, <2>1, <2>2, <2>3 DEF TypeOK, HeapTyped, HeapKept
<1>23. Counts'
  <2>1. Counting' = B \cup {el}
    BY <1>1, <1>4, <1>17, <1>19 DEF Counting
  <2>2. CountsOf(ref_count, Counting)'
    BY <1>4, <1>5, <1>13, <2>1 DEF CountsOf, Root, HeapKept
  <2> QED BY <1>22, <2>2, CountedNextState DEF Counted
<1>24. Scanning'
  <2>1. NoZombies'
    BY <1>4, <1>8 DEF NoZombies, HeapKept
  <2>2. ASSUME NEW c \in In(gc_obj_list)' PROVE ref_count'[c] > 0
    <3>1. c \in Cells /\ (c \in In(gc_obj_list) \/ c \in back)
      BY <1>7, <1>14, <1>16, <1>17
    <3>2. CASE c \in In(gc_obj_list)
      <4>1. ref_count[c] > 0 /\ ref_count[c] \in Int /\ Holds(el, c) \in Nat
        BY <1>8, <1>13, <3>1, <3>2
      <4>2. rc[c] = ref_count[c] + Holds(el, c)
        BY <1>13, <3>1
      <4>3. PICK m \in Int, n \in Nat : m = ref_count[c] /\ n = Holds(el, c)
        BY <4>1
      <4>4. rc[c] > 0
        BY <4>1, <4>2, <4>3
      <4> QED BY <1>4, <4>4
    <3>3. CASE c \in back
      <4>1. Holds(el, c) > 0 /\ ref_count[c] = 0
        BY <1>3, <3>3
      <4> QED BY <1>4, <1>13, <3>1, <4>1
    <3> QED BY <3>1, <3>2, <3>3
  <2>3. ASSUME NEW c \in In(tmp_obj_list)' PROVE ref_count'[c] = 0
    <3>1. c \in Cells /\ c \in In(tmp_obj_list) /\ c \notin back
      BY <1>7, <1>20
    <3>2. ref_count[c] = 0
      BY <1>8, <3>1
    <3>3. ~(Holds(el, c) > 0) /\ Holds(el, c) \in Nat
      BY <1>3, <1>13, <3>1, <3>2
    <3> QED BY <1>4, <1>13, <3>1, <3>2, <3>3
  <2>4. ASSUME NEW c \in Cells, mark'[c] = 1 PROVE c \in Live' /\ c \notin B \cup {el}
    BY <1>4, <1>5, <1>8, <1>9, <2>4
  <2> QED BY <1>4, <1>8, <1>17, <1>19, <2>1, <2>2, <2>3, <2>4 DEF Scanning
<1>25. Phases'
  BY <1>1, <1>4, <1>24 DEF Phases
<1> QED BY <1>5, <1>21, <1>22, <1>23, <1>25 DEF Inv

LEMMA ScanRestoreStep ==
    ASSUME Inv, gc_scan_restore PROVE Inv'
<1>1. /\ TypeOK /\ Listed /\ Scanning /\ Counts /\ Unheld /\ phase = "gc_scan" /\ el = Null
      /\ phase' = "gc_free"
  BY DEF gc_scan_restore, Inv, Phases
<1>2. /\ ref_count' = [c \in Cells |->
                          ref_count[c] + Cardinality(References(ToSet(tmp_obj_list), c))]
      /\ HeapKept /\ mark' = mark /\ gc_obj_list' = gc_obj_list /\ tmp_obj_list' = tmp_obj_list
      /\ gc_zero_ref_count_list' = gc_zero_ref_count_list /\ el' = el
  BY DEF gc_scan_restore, heap, lists, HeapKept
<1>3. RecordsAlive' /\ Unheld' /\ VariablesHeld' /\ HeapTyped' /\ Live' = Live /\ Heap' = Heap
  BY <1>2, KeptHeap
<1>4. /\ In(gc_obj_list) \in SUBSET Cells /\ In(tmp_obj_list) \in SUBSET Cells
      /\ ToSet(tmp_obj_list) = In(tmp_obj_list)
  BY <1>1, InList DEF TypeOK
<1>5. /\ gc_zero_ref_count_list = <<>> /\ NoZombies
      /\ \A c \in In(tmp_obj_list) : ref_count[c] = 0
      /\ \A c \in Cells : mark[c] = 1 => c \in Live /\ c \notin Before(gc_obj_list, el)
  BY <1>1 DEF Scanning
<1>6. Live = In(gc_obj_list) \cup In(tmp_obj_list) /\ In(gc_obj_list) \cap In(tmp_obj_list) = {}
  <2>1. In(gc_zero_ref_count_list) = {}
    BY <1>5, EmptyList
  <2>2. Live = {c \in Cells : life[c] # "free"}
    BY <1>1, <1>5 DEF Live, NoZombies, TypeOK
  <2> QED BY <1>1, <2>1, <2>2 DEF Listed
<1>7. HeapShape /\ Counting = In(gc_obj_list)
  BY <1>1, HeapOfState DEF Counting, Before
<1>8. CountsOf(ref_count, In(gc_obj_list))
  BY <1>1, <1>7, CountedState DEF Counted
<1>9. ASSUME NEW c \in Cells
      PROVE  /\ ref_count'[c] = Root(c) + Number(Heap, Live, c) /\ ref_count'[c] \in Int
             /\ ref_count[c] = Root(c) + Number(Heap, In(gc_obj_list), c)
             /\ Number(Heap, In(gc_obj_list), c) \in Nat
  <2>1. References(In(tmp_obj_list), c) = Edges(Heap, In(tmp_obj_list), c)
    BY <1>4, <1>7 DEF HeapShape
  <2>2. ref_count'[c] = ref_count[c] + Number(Heap, In(tmp_obj_list), c)
    BY <1>2, <1>4, <2>1 DEF Number
  <2>3. Number(Heap, In(gc_obj_list) \cup In(tmp_obj_list), c)
           = Number(Heap, In(gc_obj_list), c) + Number(Heap, In(tmp_obj_list), c)
    BY <1>4, <1>6, EdgesSplit
  <2>4. Number(Heap, In(gc_obj_list), c) \in Nat /\ Number(Heap, In(tmp_obj_list), c) \in Nat
    BY <1>4, EdgesFinite
  <2>5. ref_count[c] = Root(c) + Number(Heap, In(gc_obj_list), c) /\ Root(c) \in Nat
    BY <1>8 DEF CountsOf, Root
  <2>6. Number(Heap, Live, c) = Number(Heap, In(gc_obj_list), c) + Number(Heap, In(tmp_obj_list), c)
    BY <1>6, <2>3
  <2> QED BY <2>2, <2>4, <2>5, <2>6
<1>10. TypeOK'
  <2>1. ref_count' \in [Cells -> Int]
    BY <1>2, <1>9
  <2> QED BY <1>1, <1>2, <1>3, <2>1 DEF TypeOK, HeapTyped, HeapKept
<1>11. Listed'
  BY <1>1, <1>2 DEF Listed, HeapKept
<1>12. Counts'
  <2>1. Counting' = Live
    BY <1>1, <1>3 DEF Counting
  <2>2. CountsOf(ref_count, Counting)'
    BY <1>2, <1>3, <1>9, <2>1 DEF CountsOf, Root, HeapKept
  <2> QED BY <1>10, <2>2, CountedNextState DEF Counted
<1>13. Freeing'
  <2>1. \A c \in Cells : life'[c] # "zombie"
    BY <1>2, <1>5 DEF NoZombies, HeapKept
  <2>2. In(gc_zero_ref_count_list)' = {}
    BY <1>2, <1>5, EmptyList
  <2>3. ASSUME NEW c \in In(gc_obj_list) PROVE mark[c] = 0
    BY <1>1, <1>4, <1>5 DEF Before, TypeOK
  <2>4. ASSUME NEW c \in Cells, ref_count[c] # 0, life[c] # "free" PROVE c \in In(gc_obj_list)
    BY <1>1, <1>5, <1>6, <2>4 DEF Live, NoZombies, TypeOK
  <2>5. ASSUME NEW c \in roots PROVE c \in In(gc_obj_list)
    <3>1. c \in Cells /\ life[c] # "free" /\ Root(c) = 1
      BY <1>1 DEF TypeOK, Unheld, Root
    <3>2. ref_count[c] # 0
      BY <1>9, <3>1
    <3> QED BY <2>4, <3>1, <3>2
  <2>6. ASSUME NEW c \in Cells, References(In(gc_obj_list), c) # {} PROVE c \in In(gc_obj_list)
    <3>1. References(In(gc_obj_list), c) = Edges(Heap, In(gc_obj_list), c)
      BY <1>4, <1>7 DEF HeapShape
    <3>2. Number(Heap, In(gc_obj_list), c) > 0
      BY <1>4, <2>6, <3>1, EdgesFinite
    <3>3. ref_count[c] # 0
      <4>1. Root(c) \in Nat
        BY DEF Root
      <4> QED BY <1>9, <3>2, <4>1
    <3>4. References(Live, c) # {}
      BY <1>6, <2>6 DEF References
    <3>5. life[c] # "free"
      BY <1>1, <3>4 DEF Unheld
    <3> QED BY <2>4, <3>3, <3>5
  <2>7. \A c : References(In(gc_obj_list), c)' = References(In(gc_obj_list), c)
    BY <1>2 DEF References, HoldsAt, HeapKept
  <2> QED BY <1>2, <2>1, <2>2, <2>3, <2>5, <2>6, <2>7 DEF Freeing, HeapKept
<1>14. Phases'
  BY <1>1, <1>13 DEF Phases
<1> QED BY <1>3, <1>10, <1>11, <1>12, <1>14 DEF Inv

-----------------------------------------------------------------------------
(* free_object: what is left when p is freed, with the variables vdead,    *)
(* and the cells of zero on the list of those to be freed next.            *)
Freed(p, removing, vdead, zero) ==
    /\ vdead \subseteq (Live \ {p}) \cap VarRefs
    /\ zero \subseteq (JSValues \cap In(gc_obj_list)) \ {p} /\ (removing => zero = {})
    /\ TypeOK' /\ Listed' /\ RecordsAlive' /\ Exact'
    /\ Live' = Live \ ({p} \cup vdead)
    /\ \A c \in Cells : life'[c] = IF c = p THEN (IF removing /\ ref_count'[p] # 0
                                                   THEN "zombie" ELSE "free")
                                    ELSE IF c \in vdead THEN "free" ELSE life[c]
    /\ \A c \in vdead \cup zero : ref_count'[c] = 0
    /\ \A c \in Cells : ref_count[c] = 0 => ref_count'[c] = 0
    /\ Cleared(Heap, Heap', p)
    /\ In(gc_obj_list)' = In(gc_obj_list) \ (vdead \cup zero \cup {p})
    /\ In(tmp_obj_list)' = In(tmp_obj_list) \ (vdead \cup {p})
    /\ In(gc_zero_ref_count_list)'
          = ((zero \cup (In(gc_zero_ref_count_list) \ vdead)) \ {p})
            \cup (IF removing /\ ref_count'[p] # 0 THEN {p} ELSE {})

(* The heap without p.                                                     *)
ClearedHeap(p) ==
    /\ field' = [c \in DOMAIN field |-> IF c = p THEN Null ELSE field[c]]
    /\ entries' = [w \in WeakMaps |->
                      [k \in JSValues |-> IF w = p \/ (k = p /\ w \in WeakMapsWith(p)) THEN Null
                                        ELSE entries[w][k]]]

LEMMA HeapCleared ==
    ASSUME TypeOK, NEW p \in JSValues, ClearedHeap(p), roots' = roots
    PROVE  HeapTyped' /\ Cleared(Heap, Heap', p)
<1>1. /\ \A w \in WeakMaps, k \in JSValues :
            entries'[w][k] = IF w = p \/ (k = p /\ w \in WeakMapsWith(p)) THEN Null
                             ELSE entries[w][k]
      /\ \A w \in WeakMaps, k \in JSValues : entries[w][k] \in JSValues \cup {Null}
  BY DEF ClearedHeap, TypeOK
<1>2. \A c \in Objects \cup VarRefs : field'[c] = IF c = p THEN Null ELSE field[c]
  BY DEF ClearedHeap, TypeOK
<1>3. HeapTyped'
  <2>1. field' \in [Objects \cup VarRefs -> Cells \cup {Null}]
    BY DEF ClearedHeap, TypeOK
  <2>2. entries' \in [WeakMaps -> [JSValues -> JSValues \cup {Null}]]
    BY <1>1 DEF ClearedHeap
  <2>3. \A v \in VarRefs : field'[v] \in JSValues \cup {Null}
    BY <1>2 DEF TypeOK
  <2> QED BY <2>1, <2>2, <2>3 DEF HeapTyped, TypeOK
<1>4. \A w \in WeakMaps : entries'[w][p] = Null
  BY <1>1 DEF WeakMapsWith
<1>5. p # Null
  BY CellsAssumption DEF JSValues, Cells
<1>6. ASSUME NEW x \in Cells, NEW y \in Keys
      PROVE  Heap'[x][y] = IF x = p \/ y = p THEN Null ELSE Heap[x][y]
  <2>1. CASE x \in WeakMaps
    <3>1. y # Null => y \in JSValues
      BY DEF Keys
    <3>2. Heap'[x][y] = IF y = Null THEN Null ELSE entries'[x][y]
      BY <2>1 DEF Heap
    <3>3. Heap[x][y] = IF y = Null THEN Null ELSE entries[x][y]
      BY <2>1 DEF Heap
    <3> QED BY <1>1, <1>4, <2>1, <3>1, <3>2, <3>3
  <2>2. CASE x \notin WeakMaps
    <3>1. x \in Objects \cup VarRefs
      BY <2>2 DEF Cells
    <3>2. Heap'[x][y] = IF y = Null THEN field'[x] ELSE Null
      BY <2>2 DEF Heap
    <3>3. Heap[x][y] = IF y = Null THEN field[x] ELSE Null
      BY <2>2 DEF Heap
    <3> QED BY <1>2, <1>5, <3>1, <3>2, <3>3
  <2> QED BY <2>1, <2>2
<1> QED BY <1>3, <1>6 DEF Cleared

(* The references that go with p.                                          *)
DropsOf(p) ==
    [c \in Cells |-> Holds(p, c)
                     + Cardinality({w \in WeakMapsWith(p) \ {p} : entries[w][p] = c})]

LEMMA FreedDrops ==
    ASSUME TypeOK, RecordsAlive, Exact, NEW p \in JSValues, p \in Live,
           \A v \in VarRefs : life[v] # "zombie", Cleared(Heap, Heap', p),
           NEW drops, drops = DropsOf(p),
           NEW plus, plus = [c \in Cells |-> 0], NEW root, root = [c \in Cells |-> Root(c)]
    PROVE  Dropping(ref_count, Heap', Live \ {p}, root, drops, plus)
<1>1. p \in Cells /\ p \in Keys /\ p # Null /\ p \notin VarRefs
  BY CellsAssumption DEF JSValues, Cells, Keys
<1>2. PICK others \in SUBSET Cells : others = Live \ {p}
  BY LiveCells
<1>3. PICK S \in SUBSET Live : S = {p}
  OBVIOUS
<1>4. HeapShape
  BY HeapOfState
<1>5. ASSUME NEW c \in Cells
      PROVE  /\ drops[c] \in Nat
             /\ ref_count[c] = Root(c) + Number(Heap', others, c) + drops[c]
             /\ Number(Heap', others, c) \in Nat
  <2>1. c # Null
    BY CellsAssumption
  <2>2. PICK M : M = {w \in WeakMapsWith(p) \ {p} : entries[w][p] = c}
    OBVIOUS
  <2>3. M = {h \in others : Heap[h][p] = c}
    <3>1. ASSUME NEW w \in M PROVE w \in others /\ Heap[w][p] = c
      <4>1. w \in WeakMaps /\ w # p /\ entries[w][p] = c /\ w \in Cells
        BY <2>2 DEF WeakMapsWith, Cells
      <4>2. w \in Live
        BY <2>1, <4>1 DEF RecordsAlive
      <4>3. Heap[w][p] = c
        BY <1>1, <4>1 DEF Heap
      <4> QED BY <1>2, <4>1, <4>2, <4>3
    <3>2. ASSUME NEW h \in others, Heap[h][p] = c PROVE h \in M
      <4>1. h \in Cells /\ h # p
        BY <1>2
      <4>2. h \in WeakMaps /\ entries[h][p] = c
        BY <1>1, <2>1, <3>2, <4>1 DEF Heap
      <4> QED BY <2>1, <2>2, <4>1, <4>2 DEF WeakMapsWith
    <3> QED BY <3>1, <3>2
  <2>4. /\ Cardinality(M) \in Nat
        /\ Number(Heap, others, c) = Number(Heap', others, c) + Cardinality(M)
    <3>1. p \notin others
      BY <1>2
    <3> QED BY <2>1, <2>3, <3>1, EdgesCleared
  <2>5. Holds(p, c) = Number(Heap, S, c) /\ Holds(p, c) \in Nat
    BY <1>1, <1>3, <1>4, HeldOne
  <2>6. Number(Heap, S, c) + Number(Heap, Live \ S, c) = Number(Heap, Live, c)
    BY LiveCells, EdgesWithin
  <2>7. Live \ S = others
    BY <1>2, <1>3
  <2>8. Number(Heap, others, c) \in Nat /\ Number(Heap', others, c) \in Nat
    BY EdgesFinite
  <2>9. drops[c] = Holds(p, c) + Cardinality(M)
    BY <2>2 DEF DropsOf
  <2>10. ref_count[c] = Root(c) + Number(Heap, Live, c) /\ Root(c) \in Nat
    BY DEF Exact, Root
  <2>11. Number(Heap, S, c) + Number(Heap, others, c) = Number(Heap, Live, c)
    BY <2>6, <2>7
  <2>12. PICK a \in Nat, b \in Nat, m \in Nat, n \in Nat :
             /\ a = Number(Heap, S, c) /\ b = Number(Heap, others, c)
             /\ m = Cardinality(M) /\ n = Number(Heap', others, c)
    BY <2>4, <2>5, <2>8
  <2>13. b = n + m /\ Number(Heap, Live, c) = a + b /\ drops[c] = a + m
    BY <2>4, <2>5, <2>9, <2>11, <2>12
  <2>14. ref_count[c] = Root(c) + (a + (n + m)) /\ Root(c) \in Nat
    BY <2>10, <2>13
  <2> QED BY <2>12, <2>13, <2>14
<1>6. drops \in [Cells -> Nat]
  <2>1. drops = [c \in Cells |-> drops[c]]
    BY DEF DropsOf
  <2> QED BY <1>5, <2>1
<1>7. root \in [Cells -> {0, 1}] /\ plus \in [Cells -> {0, 1}] /\ ref_count \in [Cells -> Int]
  BY DEF Root, TypeOK
<1>8. \A v \in VarRefs, k \in Keys : Heap'[v][k] \in JSValues \cup {Null}
  <2>1. \A v \in VarRefs : v \in Cells
    BY DEF Cells
  <2> QED BY <1>4, <2>1 DEF HeapShape, Cleared
<1>9. ASSUME NEW c \in Cells
      PROVE  ref_count[c] + plus[c] = root[c] + Number(Heap', others, c) + drops[c]
  <2>1. plus[c] = 0 /\ root[c] = Root(c) /\ ref_count[c] \in Int
    BY <1>7
  <2> QED BY <1>5, <2>1
<1>10. \A c \in Cells : plus[c] # 1
  OBVIOUS
<1>11. ASSUME NEW v \in VarRefs \ others PROVE drops[v] = 0
  <2>1. v \in Cells /\ v # p /\ v \notin Live
    BY <1>1, <1>2 DEF Cells
  <2>2. life[v] = "free"
    BY <2>1 DEF TypeOK, Live
  <2>3. ref_count[v] = 0
    BY <2>1, <2>2 DEF Exact
  <2>4. Root(v) \in Nat
    BY DEF Root
  <2> QED BY <1>5, <2>1, <2>3, <2>4
<1> QED BY <1>2, <1>6, <1>7, <1>8, <1>9, <1>10, <1>11 DEF Dropping

LEMMA FreedObject ==
    ASSUME TypeOK, Listed, RecordsAlive, Exact, NEW p \in JSValues, p \in Live,
           NEW removing \in BOOLEAN, \A v \in VarRefs : life[v] # "zombie",
           ~removing => /\ In(tmp_obj_list) = {} /\ p \in In(gc_zero_ref_count_list)
                        /\ \A c \in In(gc_zero_ref_count_list) : ref_count[c] = 0,
           free_object(p, removing), roots' = roots, mark' = mark, el' = el,
           phase' \in {"none", "free_zero", "gc_free"}
    PROVE  \E vdead, zero : Freed(p, removing, vdead, zero)
<1>1. PICK drops : drops = DropsOf(p)
  OBVIOUS
<1>2. PICK d : d = Dropped(drops, {p}, removing)
  OBVIOUS
<1>3. PICK keep \in BOOLEAN : keep = (removing /\ d.ref_count[p] # 0)
  OBVIOUS
<1>4. /\ ref_count' = d.ref_count
      /\ life' = [c \in Cells |-> IF c = p THEN (IF keep THEN "zombie" ELSE "free")
                                   ELSE IF c \in d.vdead THEN "free" ELSE life[c]]
      /\ ClearedHeap(p)
      /\ gc_obj_list' = Without(d.gc_obj_list, {p})
      /\ tmp_obj_list' = Without(d.tmp_obj_list, {p})
      /\ gc_zero_ref_count_list' = Without(d.zero_list, {p}) \o (IF keep THEN <<p>> ELSE <<>>)
  BY <1>1, <1>2, <1>3, Zenon DEF free_object, DropsOf, ClearedHeap
<1>5. HeapTyped' /\ Cleared(Heap, Heap', p)
  BY <1>4, HeapCleared
<1>6. p \in Cells /\ p \notin VarRefs /\ p # Null
  BY CellsAssumption DEF JSValues, Cells
<1>7. PICK plus : plus = [c \in Cells |-> 0]
  OBVIOUS
<1>8. PICK root : root = [c \in Cells |-> Root(c)]
  OBVIOUS
<1>9. Dropping(ref_count, Heap', Live \ {p}, root, drops, plus)
  BY <1>1, <1>5, <1>7, <1>8, FreedDrops
<1>10. PICK vdead, zero, total :
           DropResult(d, Heap', Live \ {p}, root, plus, {p}, removing, vdead, zero, total)
  <2>1. PICK gone \in SUBSET JSValues : gone = {p}
    OBVIOUS
  <2>2. PICK alive : alive = Live \ gone
    OBVIOUS
  <2>3. PICK after : after = Heap'
    OBVIOUS
  <2>4. Dropping(ref_count, after, alive, root, drops, plus)
    BY <1>9, <2>1, <2>2, <2>3
  <2>5. \A c \in Cells : plus[c] = 1 => c \in Live
    BY <1>7
  <2>6. \A v \in VarRefs : root[v] = 0 => \A k \in Keys : Heap[v][k] = after[v][k]
    <3>1. ASSUME NEW v \in VarRefs, NEW k \in Keys PROVE Heap[v][k] = after[v][k]
      <4>1. v \in Cells /\ v # p /\ v \notin WeakMaps
        BY <1>6, CellsAssumption DEF Cells, JSValues
      <4>2. Heap[v][p] = Null
        BY <1>6, <4>1 DEF Heap, Keys
      <4> QED BY <1>5, <2>3, <4>1, <4>2 DEF Cleared
    <3> QED BY <3>1
  <2>7. d = Dropped(drops, gone, removing)
    BY <1>2, <2>1
  <2>8. \E vdead, zero, total :
            DropResult(d, after, alive, root, plus, gone, removing, vdead, zero, total)
    BY <2>2, <2>4, <2>5, <2>6, <2>7, DropResults
  <2> QED BY <2>1, <2>2, <2>3, <2>8
<1>11. /\ vdead \subseteq (Live \ {p}) \cap VarRefs
       /\ zero \subseteq (JSValues \cap In(gc_obj_list)) \ {p} /\ (removing => zero = {})
       /\ d.vdead = vdead /\ total \in [Cells -> Int]
       /\ total = [c \in Cells |-> d.ref_count[c] + plus[c]]
       /\ \A c \in Cells : total[c] = root[c] + Number(Heap', (Live \ {p}) \ vdead, c)
       /\ \A c \in vdead \cup zero : total[c] = 0
       /\ \A v \in VarRefs \cap ((Live \ {p}) \ vdead) : total[v] > 0
       /\ \A c \in Cells : life[c] = "free" => total[c] = 0
       /\ \A c \in Cells : ref_count[c] + plus[c] = 0 => total[c] = 0
  BY <1>10 DEF DropResult
<1>12. /\ d.gc_obj_list \in Seq(Cells) /\ Distinct(d.gc_obj_list)
       /\ In(d.gc_obj_list) = In(gc_obj_list) \ (vdead \cup zero)
       /\ d.tmp_obj_list \in Seq(Cells) /\ Distinct(d.tmp_obj_list)
       /\ In(d.tmp_obj_list) = In(tmp_obj_list) \ vdead
       /\ d.zero_list \in Seq(Cells) /\ Distinct(d.zero_list)
       /\ In(d.zero_list) = zero \cup (In(gc_zero_ref_count_list) \ vdead)
  BY <1>10 DEF DropResult
<1>13. ref_count' = total
  <2>1. drops \in [Cells -> Nat]
    BY <1>9 DEF Dropping
  <2>2. PICK rc \in [Cells -> Int] : rc = d.ref_count
    BY <1>2, <2>1, DroppedTyped
  <2>3. total = [c \in Cells |-> rc[c] + 0]
    BY <1>7, <1>11, <2>2
  <2>4. total = rc
    BY <2>3
  <2> QED BY <1>4, <2>2, <2>4
<1>14. /\ keep = (removing /\ ref_count'[p] # 0)
       /\ \A c \in Cells : life'[c] = IF c = p THEN (IF keep THEN "zombie" ELSE "free")
                                       ELSE IF c \in vdead THEN "free" ELSE life[c]
  BY <1>3, <1>4, <1>11
<1>15. \A c \in Cells : ref_count[c] = 0 => ref_count'[c] = 0
  BY <1>7, <1>11, <1>13 DEF TypeOK
<1>16. Live' = Live \ ({p} \cup vdead)
  BY <1>6, <1>14 DEF Live
<1>17. /\ gc_obj_list' \in Seq(Cells) /\ Distinct(gc_obj_list)'
       /\ In(gc_obj_list)' = In(gc_obj_list) \ (vdead \cup zero \cup {p})
  <2>1. PICK l : l = Without(d.gc_obj_list, {p})
    OBVIOUS
  <2>2. l \in Seq(Cells) /\ Distinct(l) /\ In(l) = In(d.gc_obj_list) \ {p}
    BY <1>12, <2>1, LeftOfList
  <2> QED BY <1>4, <1>12, <2>1, <2>2
<1>18. /\ tmp_obj_list' \in Seq(Cells) /\ Distinct(tmp_obj_list)'
       /\ In(tmp_obj_list)' = In(tmp_obj_list) \ (vdead \cup {p})
  <2>1. PICK l : l = Without(d.tmp_obj_list, {p})
    OBVIOUS
  <2>2. l \in Seq(Cells) /\ Distinct(l) /\ In(l) = In(d.tmp_obj_list) \ {p}
    BY <1>12, <2>1, LeftOfList
  <2> QED BY <1>4, <1>12, <2>1, <2>2
<1>19. /\ gc_zero_ref_count_list' \in Seq(Cells) /\ Distinct(gc_zero_ref_count_list)'
       /\ In(gc_zero_ref_count_list)'
             = ((zero \cup (In(gc_zero_ref_count_list) \ vdead)) \ {p})
               \cup (IF keep THEN {p} ELSE {})
  <2>1. PICK l \in Seq(Cells) : /\ l = Without(d.zero_list, {p}) /\ Distinct(l)
                                /\ In(l) = In(d.zero_list) \ {p}
    BY <1>12, LeftOfList
  <2>2. PICK t \in Seq(Cells) : /\ t = (IF keep THEN <<p>> ELSE <<>>) /\ Distinct(t)
                                /\ In(t) = (IF keep THEN {p} ELSE {})
    <3>1. <<p>> \in Seq(Cells) /\ Distinct(<<p>>) /\ In(<<p>>) = {p}
      BY <1>6, OneOnList DEF Distinct
    <3>2. <<>> \in Seq(Cells) /\ Distinct(<<>>) /\ In(<<>>) = {}
      BY EmptyList
    <3> QED BY <3>1, <3>2
  <2>3. In(l) \cap In(t) = {}
    BY <2>1, <2>2
  <2>4. l \o t \in Seq(Cells) /\ Distinct(l \o t) /\ In(l \o t) = In(l) \cup In(t)
    BY <2>1, <2>2, <2>3, JoinedLists, DistinctJoined
  <2> QED BY <1>4, <1>12, <2>1, <2>2, <2>4
<1>20. TypeOK'
  <2>1. life' \in [Cells -> {"free", "live", "zombie"}]
    BY <1>4 DEF TypeOK
  <2> QED BY <1>5, <1>11, <1>13, <1>17, <1>18, <1>19, <2>1 DEF TypeOK, HeapTyped
<1>21. Listed'
  <2>1. PICK A, B, C : /\ A = In(gc_obj_list) /\ B = In(tmp_obj_list)
                       /\ C = In(gc_zero_ref_count_list)
    OBVIOUS
  <2>2. PICK Z : Z = {c \in Cells : life[c] # "free"}
    OBVIOUS
  <2>3. A \cap B = {} /\ A \cap C = {} /\ B \cap C = {} /\ A \cup B \cup C = Z
    BY <2>1, <2>2 DEF Listed
  <2>4. p \in Z /\ vdead \subseteq Z /\ zero \subseteq A /\ p \notin vdead /\ zero \cap vdead = {}
    BY <1>6, <1>11, <2>1, <2>2, CellsAssumption DEF Live
  <2>5. {c \in Cells : life'[c] # "free"} = (Z \ ({p} \cup vdead)) \cup (IF keep THEN {p} ELSE {})
    BY <1>6, <1>11, <1>14, <2>2
  <2>6. /\ In(gc_obj_list)' = A \ (vdead \cup zero \cup {p})
        /\ In(tmp_obj_list)' = B \ (vdead \cup {p})
        /\ In(gc_zero_ref_count_list)' = ((zero \cup (C \ vdead)) \ {p})
                                         \cup (IF keep THEN {p} ELSE {})
    BY <1>17, <1>18, <1>19, <2>1
  <2>7. /\ In(gc_obj_list)' \cap In(tmp_obj_list)' = {}
        /\ In(gc_obj_list)' \cap In(gc_zero_ref_count_list)' = {}
        /\ In(tmp_obj_list)' \cap In(gc_zero_ref_count_list)' = {}
    BY <2>3, <2>4, <2>6
  <2>8. In(gc_obj_list)' \cup In(tmp_obj_list)' \cup In(gc_zero_ref_count_list)'
           = {c \in Cells : life'[c] # "free"}
    BY <2>3, <2>4, <2>5, <2>6
  <2> QED BY <1>17, <1>18, <1>19, <2>7, <2>8 DEF Listed
<1>22. RecordsAlive'
  <2>1. ASSUME NEW w \in WeakMaps, NEW k \in JSValues, entries'[w][k] # Null
        PROVE  w \in Live' /\ k \in Live'
    <3>1. w # p /\ entries'[w][k] = entries[w][k]
      BY <1>4, <2>1 DEF ClearedHeap
    <3>2. k # p
      BY <1>4, <2>1, <3>1 DEF ClearedHeap, WeakMapsWith
    <3>3. w \in Live /\ k \in Live
      BY <2>1, <3>1 DEF RecordsAlive
    <3>4. w \notin vdead /\ k \notin vdead
      BY <1>11, CellsAssumption DEF JSValues
    <3> QED BY <1>16, <3>1, <3>2, <3>3, <3>4
  <2> QED BY <2>1 DEF RecordsAlive
<1>23. Exact'
  <2>1. Live' = (Live \ {p}) \ vdead
    BY <1>16
  <2>2. ASSUME NEW c \in Cells PROVE ref_count'[c] = Root(c)' + Number(Heap', Live', c)
    <3>1. total[c] = root[c] + Number(Heap', (Live \ {p}) \ vdead, c)
      BY <1>11
    <3>2. root[c] = Root(c)'
      BY <1>8 DEF Root
    <3> QED BY <1>13, <2>1, <3>1, <3>2
  <2>3. ASSUME NEW c \in Cells, life'[c] = "free" PROVE ref_count'[c] = 0
    <3>1. CASE c = p
      <4>1. ~keep
        BY <1>14, <2>3, <3>1
      <4>2. CASE removing
        BY <1>14, <3>1, <4>1, <4>2
      <4>3. CASE ~removing
        BY <1>15, <3>1, <4>3
      <4> QED BY <4>2, <4>3
    <3>2. CASE c # p
      <4>1. c \in vdead \/ life[c] = "free"
        BY <1>14, <2>3, <3>2
      <4> QED BY <1>11, <1>13, <4>1
    <3> QED BY <3>1, <3>2
  <2>4. \A v \in VarRefs \cap Live' : ref_count'[v] > 0
    BY <1>11, <1>13, <2>1
  <2> QED BY <2>2, <2>3, <2>4 DEF Exact
<1>24. Freed(p, removing, vdead, zero)
  BY <1>5, <1>11, <1>13, <1>14, <1>15, <1>16, <1>17, <1>18, <1>19, <1>20, <1>21, <1>22, <1>23
     DEF Freed
<1> QED BY <1>24

(* Where references are not counted apart, what is freed is exact.         *)
LEMMA FreedExact ==
    ASSUME TypeOK', Listed', RecordsAlive', Exact', AllCounted', Phases'
    PROVE  Inv'
BY ExactNextState DEF Inv

LEMMA FreeZeroStep ==
    ASSUME Inv, free_zero_refcount PROVE Inv'
<1>1. PICK p : p = Head(gc_zero_ref_count_list)
  OBVIOUS
<1>2. /\ phase = "free_zero" /\ free_object(p, FALSE)
      /\ phase' = (IF gc_zero_ref_count_list' = <<>> THEN "none" ELSE "free_zero")
      /\ roots' = roots /\ mark' = mark /\ el' = el
  BY <1>1, Zenon DEF free_zero_refcount
<1>3. TypeOK /\ Listed /\ RecordsAlive /\ Counts /\ Unheld /\ VariablesHeld /\ Resting
  BY <1>2 DEF Inv, Phases
<1>4. Exact
  BY <1>2, <1>3, ExactState DEF AllCounted
<1>5. /\ NoZombies /\ In(tmp_obj_list) = {} /\ gc_zero_ref_count_list # <<>>
      /\ tmp_obj_list = <<>> /\ \A c \in Cells : mark[c] = 0
      /\ \A c \in In(gc_zero_ref_count_list) : c \in JSValues /\ ref_count[c] = 0
  BY <1>2, <1>3, EmptyList DEF Resting
<1>6. p \in In(gc_zero_ref_count_list) /\ p \in JSValues /\ p \in Cells
  BY <1>1, <1>3, <1>5, HeadOfList DEF TypeOK, Listed
<1>7. p \in Live
  BY <1>3, <1>5, <1>6 DEF Listed, Live, NoZombies, TypeOK
<1>8. PICK vdead, zero : Freed(p, FALSE, vdead, zero)
  <2>1. \A v \in VarRefs : life[v] # "zombie"
    BY <1>5 DEF NoZombies, Cells
  <2>2. phase' \in {"none", "free_zero", "gc_free"}
    BY <1>2
  <2> QED BY <1>2, <1>3, <1>4, <1>5, <1>6, <1>7, <2>1, <2>2, FreedObject
<1>9. /\ TypeOK' /\ Listed' /\ RecordsAlive' /\ Exact'
      /\ zero \subseteq JSValues
      /\ \A c \in Cells : life'[c] = IF c = p THEN "free"
                                      ELSE IF c \in vdead THEN "free" ELSE life[c]
      /\ \A c \in zero : ref_count'[c] = 0
      /\ \A c \in Cells : ref_count[c] = 0 => ref_count'[c] = 0
      /\ In(tmp_obj_list)' = {}
      /\ In(gc_zero_ref_count_list)' \subseteq zero \cup In(gc_zero_ref_count_list)
  BY <1>5, <1>8 DEF Freed
<1>10. Resting'
  <2>1. NoZombies'
    BY <1>5, <1>9 DEF NoZombies
  <2>2. tmp_obj_list' = <<>>
    BY <1>9, InList DEF TypeOK
  <2>3. ASSUME NEW c \in In(gc_zero_ref_count_list)' PROVE c \in JSValues /\ ref_count'[c] = 0
    BY <1>5, <1>9 DEF JSValues, Cells
  <2> QED BY <1>2, <1>5, <2>1, <2>2, <2>3 DEF Resting
<1>11. Phases'
  BY <1>2, <1>10 DEF Phases
<1>12. AllCounted'
  BY <1>2 DEF AllCounted
<1> QED BY <1>9, <1>11, <1>12, FreedExact

(* What the garbage holds does not matter to the rest.                     *)
LEMMA FreeingEdges ==
    ASSUME TypeOK
    PROVE  (\A c \in Cells : References(In(gc_obj_list), c) # {} => c \in In(gc_obj_list))
              <=> \A h \in In(gc_obj_list), k \in Keys, c \in Cells :
                     Heap[h][k] = c => c \in In(gc_obj_list)
<1>1. In(gc_obj_list) \in SUBSET Cells
  BY InList DEF TypeOK
<1>2. \A c \in Cells : References(In(gc_obj_list), c) = Edges(Heap, In(gc_obj_list), c)
  BY <1>1, HeapOfState DEF HeapShape
<1>3. ASSUME NEW c \in Cells
      PROVE  References(In(gc_obj_list), c) # {}
                <=> \E h \in In(gc_obj_list), k \in Keys : Heap[h][k] = c
  <2>1. PICK S \in SUBSET Cells : S = In(gc_obj_list)
    BY <1>1
  <2>2. Number(Heap, S, c) > 0 <=> \E h \in S, k \in Keys : Heap[h][k] = c
    BY EdgesFound
  <2>3. Number(Heap, S, c) \in Nat /\ (Number(Heap, S, c) = 0 <=> Edges(Heap, S, c) = {})
    BY EdgesFinite
  <2> QED BY <1>2, <2>1, <2>2, <2>3
<1> QED BY <1>3

(* The cells the collector leaves hold each other only.                    *)
Closed == \A h \in In(gc_obj_list), k \in Keys, c \in Cells :
             Heap[h][k] = c => c \in In(gc_obj_list)

LEMMA ClosedState ==
    TypeOK => (Closed <=> \A c \in Cells : References(In(gc_obj_list), c) # {}
                                             => c \in In(gc_obj_list))
BY FreeingEdges DEF Closed

LEMMA ClosedNextState ==
    TypeOK' => (Closed' <=> (\A c \in Cells : References(In(gc_obj_list), c) # {}
                                                => c \in In(gc_obj_list))')
BY ClosedState, PTL

LEMMA FreeCyclesVariable ==
    ASSUME Inv, gc_free_cycles, Head(tmp_obj_list) \in VarRefs PROVE Inv'
<1>1. PICK p : p = Head(tmp_obj_list)
  OBVIOUS
<1>2. /\ phase = "gc_free" /\ tmp_obj_list # <<>> /\ p \in VarRefs
      /\ tmp_obj_list' = Tail(tmp_obj_list)
      /\ gc_zero_ref_count_list' = Append(gc_zero_ref_count_list, p)
      /\ HeapKept /\ ref_count' = ref_count /\ gc_obj_list' = gc_obj_list
      /\ mark' = mark /\ phase' = phase /\ el' = el
  BY <1>1, Zenon DEF gc_free_cycles, heap, HeapKept
<1>3. TypeOK /\ Listed /\ Counts /\ Freeing
  BY <1>2 DEF Inv, Phases
<1>4. RecordsAlive' /\ Unheld' /\ VariablesHeld' /\ HeapTyped' /\ Live' = Live /\ Heap' = Heap
  BY <1>2, KeptHeap
<1>5. /\ p \in Cells /\ p \in In(tmp_obj_list) /\ tmp_obj_list' \in Seq(Cells)
      /\ In(tmp_obj_list)' = In(tmp_obj_list) \ {p} /\ Distinct(tmp_obj_list)'
  BY <1>1, <1>2, <1>3, HeadOfList DEF TypeOK, Listed
<1>6. /\ gc_zero_ref_count_list' \in Seq(Cells)
      /\ In(gc_zero_ref_count_list)' = In(gc_zero_ref_count_list) \cup {p}
      /\ Distinct(gc_zero_ref_count_list)'
  <2>1. PICK l \in Seq(Cells) : l = gc_zero_ref_count_list /\ Distinct(l) /\ p \notin In(l)
    BY <1>3, <1>5 DEF TypeOK, Listed
  <2>2. /\ Append(l, p) \in Seq(Cells) /\ In(Append(l, p)) = In(l) \cup {p}
        /\ \A y, z : Precedes(Append(l, p), y, z) <=> Precedes(l, y, z) \/ (y \in In(l) /\ z = p)
    BY <1>5, AppendedList
  <2>3. \A y, z : Precedes(l, y, z) => y \in In(l) /\ z \in In(l)
    BY DEF Precedes, In
  <2>4. Distinct(Append(l, p))
    BY <2>1, <2>2, <2>3 DEF Distinct
  <2> QED BY <1>2, <2>1, <2>2, <2>4
<1>7. TypeOK'
  BY <1>2, <1>3, <1>4, <1>5, <1>6 DEF TypeOK, HeapTyped, HeapKept
<1>8. Listed'
  <2>1. {c \in Cells : life'[c] # "free"} = {c \in Cells : life[c] # "free"}
    BY <1>2 DEF HeapKept
  <2> QED BY <1>2, <1>3, <1>5, <1>6, <2>1 DEF Listed
<1>9. Counts'
  <2>1. Counting = Live /\ Counting' = Live
    BY <1>2, <1>4 DEF Counting
  <2>2. CountsOf(ref_count, Counting)
    BY <1>3, CountedState DEF Counted
  <2>3. CountsOf(ref_count, Counting)'
    BY <1>2, <1>4, <2>1, <2>2 DEF CountsOf, Root, HeapKept
  <2> QED BY <1>7, <2>3, CountedNextState DEF Counted
<1>10. Freeing'
  <2>1. Closed'
    BY <1>2, <1>3, <1>4, ClosedState DEF Freeing, Closed
  <2>2. \A c \in Cells : References(In(gc_obj_list), c)' # {} => c \in In(gc_obj_list)'
    BY <1>7, <2>1, ClosedNextState
  <2>3. /\ \A c \in Cells : life'[c] = "zombie" => c \in In(gc_zero_ref_count_list)' \cap JSValues
        /\ \A c \in In(gc_zero_ref_count_list)' : life'[c] = "zombie" \/ c \in VarRefs
    BY <1>2, <1>3, <1>6 DEF Freeing, HeapKept
  <2> QED BY <1>2, <1>3, <2>2, <2>3 DEF Freeing, HeapKept
<1>11. Phases'
  BY <1>2, <1>10 DEF Phases
<1> QED BY <1>4, <1>7, <1>8, <1>9, <1>11 DEF Inv

LEMMA FreeCyclesObject ==
    ASSUME Inv, gc_free_cycles, Head(tmp_obj_list) \notin VarRefs PROVE Inv'
<1>1. PICK p : p = Head(tmp_obj_list)
  OBVIOUS
<1>2. /\ phase = "gc_free" /\ tmp_obj_list # <<>> /\ p \notin VarRefs
      /\ free_object(p, TRUE)
      /\ roots' = roots /\ mark' = mark /\ phase' = phase /\ el' = el
  BY <1>1, Zenon DEF gc_free_cycles
<1>3. TypeOK /\ Listed /\ RecordsAlive /\ Counts /\ Unheld /\ VariablesHeld /\ Freeing
  BY <1>2 DEF Inv, Phases
<1>4. Exact
  BY <1>2, <1>3, ExactState DEF AllCounted
<1>5. /\ \A c \in Cells : life[c] = "zombie" => c \in In(gc_zero_ref_count_list) \cap JSValues
      /\ \A c \in In(gc_zero_ref_count_list) : life[c] = "zombie" \/ c \in VarRefs
      /\ \A c \in In(gc_obj_list) : mark[c] = 0
      /\ roots \subseteq In(gc_obj_list) /\ Closed
  BY <1>3, ClosedState DEF Freeing
<1>6. p \in In(tmp_obj_list) /\ p \in Cells /\ p \in JSValues
  BY <1>1, <1>2, <1>3, HeadOfList DEF TypeOK, Listed, JSValues, Cells
<1>7. p \in Live /\ p \notin In(gc_obj_list)
  BY <1>3, <1>5, <1>6 DEF Listed, Live, TypeOK
<1>8. PICK vdead, zero : Freed(p, TRUE, vdead, zero)
  <2>1. \A v \in VarRefs : life[v] # "zombie"
    BY <1>5, CellsAssumption DEF Cells
  <2>2. phase' \in {"none", "free_zero", "gc_free"}
    BY <1>2
  <2> QED BY <1>2, <1>3, <1>4, <1>6, <1>7, <2>1, <2>2, FreedObject
<1>9. /\ vdead \subseteq Live \cap VarRefs /\ zero = {}
      /\ TypeOK' /\ Listed' /\ RecordsAlive' /\ Exact'
      /\ Live' = Live \ ({p} \cup vdead)
      /\ \A c \in Cells : life'[c] = IF c = p THEN (IF ref_count'[p] # 0 THEN "zombie" ELSE "free")
                                      ELSE IF c \in vdead THEN "free" ELSE life[c]
      /\ \A c \in vdead : ref_count'[c] = 0
      /\ Cleared(Heap, Heap', p)
      /\ In(gc_obj_list)' = In(gc_obj_list) \ vdead
      /\ In(gc_zero_ref_count_list)'
            = ((In(gc_zero_ref_count_list) \ vdead) \ {p})
              \cup (IF ref_count'[p] # 0 THEN {p} ELSE {})
  BY <1>7, <1>8 DEF Freed
<1>10. In(gc_obj_list)' \subseteq Live'
  <2>1. ASSUME NEW c \in In(gc_obj_list)' PROVE c \in Live'
    <3>1. c \in In(gc_obj_list) /\ c \notin vdead /\ c # p /\ c \in Cells
      BY <1>3, <1>7, <1>9, InList DEF TypeOK
    <3>2. c \in Live
      BY <1>3, <1>5, <3>1 DEF Listed, Live, TypeOK
    <3> QED BY <1>9, <3>1, <3>2
  <2> QED BY <2>1
<1>11. ASSUME NEW v \in vdead
       PROVE  v \notin roots /\ \A h \in Live', k \in Keys : Heap'[h][k] # v
  <2>1. v \in Cells /\ ref_count'[v] = 0
    BY <1>9 DEF Cells
  <2>2. ref_count'[v] = Root(v)' + Number(Heap', Live', v)
    BY <1>9, <2>1 DEF Exact
  <2>3. PICK S \in SUBSET Cells : S = Live'
    BY LiveCells, <1>9
  <2>10. PICK after : after = Heap'
    OBVIOUS
  <2>4. /\ Number(after, S, v) \in Nat
        /\ Number(after, S, v) = 0 => \A h \in S, k \in Keys : after[h][k] # v
    <3>1. Number(after, S, v) \in Nat
      BY EdgesFinite
    <3>2. ASSUME NEW h \in S, NEW k \in Keys, after[h][k] = v PROVE Number(after, S, v) # 0
      <4>1. <<h, k>> \in Edges(after, S, v)
        BY <3>2 DEF Edges
      <4>2. Edges(after, S, v) # {}
        BY <4>1
      <4> QED BY <4>2, EdgesFinite
    <3> QED BY <3>1, <3>2
  <2>5. Root(v)' \in {0, 1} /\ (Root(v)' = 1 <=> v \in roots)
    BY <1>2 DEF Root
  <2>6. PICK n \in Nat : n = Number(after, S, v)
    BY <2>4
  <2>7. n = Number(Heap', Live', v)
    BY <2>3, <2>6, <2>10, Zenon
  <2>8. n = 0 /\ Root(v)' = 0
    BY <2>1, <2>2, <2>5, <2>7
  <2>9. \A h \in S, k \in Keys : after[h][k] # v
    BY <2>4, <2>6, <2>8
  <2> QED BY <2>3, <2>5, <2>8, <2>9, <2>10
<1>12. Closed'
  <2>1. ASSUME NEW h \in In(gc_obj_list)', NEW k \in Keys, NEW c \in Cells, Heap'[h][k] = c
        PROVE  c \in In(gc_obj_list)'
    <3>1. h \in In(gc_obj_list) /\ h \in Cells /\ h \in Live'
      BY <1>3, <1>9, <1>10, <2>1, InList DEF TypeOK
    <3>2. Heap[h][k] = c
      BY <1>9, <2>1, <3>1, CellsAssumption DEF Cleared
    <3>3. c \in In(gc_obj_list)
      BY <1>5, <3>1, <3>2 DEF Closed
    <3>4. c \notin vdead
      BY <1>11, <2>1, <3>1
    <3> QED BY <1>9, <3>3, <3>4
  <2> QED BY <2>1 DEF Closed
<1>13. Freeing'
  <2>1. \A c \in Cells : References(In(gc_obj_list), c)' # {} => c \in In(gc_obj_list)'
    BY <1>9, <1>12, ClosedNextState
  <2>2. roots' \subseteq In(gc_obj_list)'
    BY <1>2, <1>5, <1>9, <1>11
  <2>3. \A c \in In(gc_obj_list)' : mark'[c] = 0
    BY <1>2, <1>5, <1>9
  <2>4. ASSUME NEW c \in Cells, life'[c] = "zombie"
        PROVE  c \in In(gc_zero_ref_count_list)' \cap JSValues
    <3>1. CASE c = p
      BY <1>6, <1>9, <2>4, <3>1
    <3>2. CASE c # p
      BY <1>5, <1>9, <2>4, <3>2
    <3> QED BY <3>1, <3>2
  <2>5. ASSUME NEW c \in In(gc_zero_ref_count_list)'
        PROVE  life'[c] = "zombie" \/ c \in VarRefs
    <3>1. CASE c = p
      BY <1>6, <1>9, <2>5, <3>1
    <3>2. CASE c # p
      <4>1. c \in In(gc_zero_ref_count_list) /\ c \notin vdead /\ c \in Cells
        BY <1>3, <1>9, <2>5, <3>2, InList DEF TypeOK
      <4> QED BY <1>5, <1>9, <3>2, <4>1
    <3> QED BY <3>1, <3>2
  <2> QED BY <2>1, <2>2, <2>3, <2>4, <2>5 DEF Freeing
<1>14. Phases' /\ AllCounted'
  BY <1>2, <1>13 DEF Phases, AllCounted
<1> QED BY <1>9, <1>14, FreedExact

(* When the garbage is gone no variable is left on the list of what kept   *)
(* its memory: what holds a variable is not itself one.                    *)
LEMMA NoVariablesLeft ==
    ASSUME Inv, phase = "gc_free", tmp_obj_list = <<>>
    PROVE  /\ In(gc_zero_ref_count_list) \cap VarRefs = {} /\ Live = In(gc_obj_list)
           /\ \A c \in In(gc_zero_ref_count_list) : life[c] = "zombie"
<1>1. TypeOK /\ Listed /\ VariablesHeld /\ Freeing
  BY DEF Inv, Phases
<1>2. In(gc_obj_list) \subseteq Cells /\ In(gc_zero_ref_count_list) \subseteq Cells
  BY <1>1, InList DEF TypeOK
<1>3. /\ \A c \in Cells : life[c] = "zombie" => c \in In(gc_zero_ref_count_list) \cap JSValues
      /\ \A c \in In(gc_zero_ref_count_list) : life[c] = "zombie" \/ c \in VarRefs
      /\ roots \subseteq In(gc_obj_list) /\ Closed
  BY <1>1, ClosedState DEF Freeing
<1>4. /\ In(gc_obj_list) \cap In(gc_zero_ref_count_list) = {}
      /\ In(gc_obj_list) \cup In(gc_zero_ref_count_list) = {c \in Cells : life[c] # "free"}
  BY <1>1, EmptyList DEF Listed
<1>5. ASSUME NEW v \in In(gc_zero_ref_count_list), v \in VarRefs PROVE FALSE
  <2>1. v \in Cells /\ v \notin JSValues /\ v # Null
    BY <1>2, <1>5, CellsAssumption
  <2>2. v \in Live
    BY <1>1, <1>3, <1>4, <2>1 DEF Live, TypeOK
  <2>3. v \notin roots
    BY <1>3, <1>4
  <2>4. References(Live, v) # {}
    BY <1>1, <1>5, <2>2, <2>3 DEF VariablesHeld
  <2>5. HeapShape
    BY <1>1, HeapOfState
  <2>6. Edges(Heap, Live, v) # {}
    BY <2>1, <2>4, <2>5, LiveCells DEF HeapShape
  <2>7. PICK r \in Live \X Keys : Heap[r[1]][r[2]] = v
    BY <2>6 DEF Edges
  <2>8. PICK h \in Live, k \in Keys : Heap[h][k] = v
    BY <2>7
  <2>9. CASE h \in In(gc_obj_list)
    BY <1>3, <1>4, <2>1, <2>8, <2>9 DEF Closed
  <2>10. CASE h \notin In(gc_obj_list)
    <3>1. h \in Cells /\ life[h] = "live"
      BY DEF Live
    <3>2. h \in In(gc_zero_ref_count_list)
      BY <1>4, <2>10, <3>1
    <3>3. h \in VarRefs
      BY <1>3, <3>1, <3>2
    <3> QED BY <2>1, <2>5, <2>8, <3>3 DEF HeapShape
  <2> QED BY <2>9, <2>10
<1>6. \A c \in In(gc_zero_ref_count_list) : life[c] = "zombie"
  BY <1>3, <1>5
<1>7. Live = In(gc_obj_list)
  <2>1. ASSUME NEW c \in Live PROVE c \in In(gc_obj_list)
    BY <1>4, <1>6 DEF Live
  <2>2. ASSUME NEW c \in In(gc_obj_list) PROVE c \in Live
    BY <1>1, <1>2, <1>3, <1>4 DEF Live, TypeOK
  <2> QED BY <2>1, <2>2
<1> QED BY <1>5, <1>6, <1>7

LEMMA FreeCyclesEndStep ==
    ASSUME Inv, gc_free_cycles_end PROVE Inv'
<1>1. /\ phase = "gc_free" /\ tmp_obj_list = <<>>
      /\ life' = [c \in Cells |-> IF c \in ToSet(gc_zero_ref_count_list) THEN "free" ELSE life[c]]
      /\ mark' = [c \in Cells |-> IF life'[c] = "free" THEN 0 ELSE mark[c]]
      /\ gc_zero_ref_count_list' = <<>> /\ phase' = "none"
      /\ field' = field /\ entries' = entries /\ roots' = roots /\ ref_count' = ref_count
      /\ gc_obj_list' = gc_obj_list /\ tmp_obj_list' = tmp_obj_list /\ el' = el
  BY DEF gc_free_cycles_end
<1>2. TypeOK /\ Listed /\ RecordsAlive /\ Counts /\ Unheld /\ VariablesHeld /\ Freeing
  BY <1>1 DEF Inv, Phases
<1>3. /\ ToSet(gc_zero_ref_count_list) = In(gc_zero_ref_count_list)
      /\ In(gc_obj_list) \subseteq Cells
  BY <1>2, InList DEF TypeOK
<1>4. /\ Live = In(gc_obj_list)
      /\ \A c \in In(gc_zero_ref_count_list) : life[c] = "zombie"
  BY <1>1, NoVariablesLeft
<1>5. /\ \A c \in Cells : life[c] = "zombie" => c \in In(gc_zero_ref_count_list)
      /\ \A c \in In(gc_obj_list) : mark[c] = 0
      /\ roots \subseteq In(gc_obj_list)
      /\ \A c \in Cells : References(In(gc_obj_list), c) # {} => c \in In(gc_obj_list)
  BY <1>2 DEF Freeing
<1>6. \A c \in Cells : life'[c] = IF c \in In(gc_zero_ref_count_list) THEN "free" ELSE life[c]
  BY <1>1, <1>3
<1>7. Live' = Live /\ NoZombies'
  BY <1>4, <1>5, <1>6 DEF Live, NoZombies
<1>8. In(gc_obj_list) \cap In(gc_zero_ref_count_list) = {}
  BY <1>2 DEF Listed
<1>9. \A c \in Cells : life'[c] # "free" <=> c \in In(gc_obj_list)
  <2>1. In(gc_obj_list) \cup In(gc_zero_ref_count_list) = {c \in Cells : life[c] # "free"}
    BY <1>1, <1>2, EmptyList DEF Listed
  <2> QED BY <1>6, <1>8, <2>1
<1>10. \A c \in Cells : mark'[c] = 0
  BY <1>1, <1>5, <1>9
<1>11. TypeOK'
  <2>1. life' \in [Cells -> {"free", "live", "zombie"}]
    BY <1>1, <1>2 DEF TypeOK
  <2>2. mark' \in [Cells -> {0, 1}]
    BY <1>1, <1>10
  <2>3. <<>> \in Seq(Cells)
    OBVIOUS
  <2> QED BY <1>1, <1>2, <2>1, <2>2, <2>3 DEF TypeOK
<1>12. Listed'
  <2>1. {c \in Cells : life'[c] # "free"} = In(gc_obj_list)
    BY <1>3, <1>9
  <2> QED BY <1>1, <1>2, <2>1, EmptyList DEF Listed
<1>13. RecordsAlive'
  BY <1>1, <1>2, <1>7 DEF RecordsAlive
<1>14. \A c : References(Live, c)' = References(Live, c)
  BY <1>1, <1>7 DEF References, HoldsAt
<1>15. Unheld'
  <2>1. ASSUME NEW c \in Cells, life'[c] = "free"
        PROVE  c \notin roots /\ References(Live, c) = {}
    BY <1>4, <1>5, <1>9, <2>1
  <2> QED BY <1>1, <1>14, <2>1 DEF Unheld
<1>16. VariablesHeld'
  BY <1>1, <1>2, <1>7, <1>14 DEF VariablesHeld
<1>17. Counts'
  <2>1. Counting = Live /\ Counting' = Live
    BY <1>1, <1>7 DEF Counting
  <2>2. \A c \in Cells : ref_count[c] = Root(c) + Cardinality(References(Live, c))
    BY <1>2, <2>1 DEF Counts
  <2>3. \A c : References(Counting, c)' = References(Live, c)
    BY <1>1, <2>1 DEF References, HoldsAt
  <2> QED BY <1>1, <2>2, <2>3 DEF Counts, Root
<1>18. Resting'
  BY <1>1, <1>7, <1>10, EmptyList DEF Resting
<1>19. Phases'
  BY <1>1, <1>18 DEF Phases
<1> QED BY <1>11, <1>12, <1>13, <1>15, <1>16, <1>17, <1>19 DEF Inv

LEMMA IdleStep == Inv /\ UNCHANGED gcVars => Inv'
<1> SUFFICES ASSUME Inv, UNCHANGED gcVars PROVE Inv'
  OBVIOUS
<1>1. /\ life' = life /\ field' = field /\ entries' = entries /\ roots' = roots
      /\ ref_count' = ref_count /\ mark' = mark
      /\ gc_obj_list' = gc_obj_list /\ tmp_obj_list' = tmp_obj_list
      /\ gc_zero_ref_count_list' = gc_zero_ref_count_list /\ phase' = phase /\ el' = el
  BY DEF gcVars, heap, lists
<1>2. TypeOK' /\ Listed'
  BY <1>1 DEF Inv, TypeOK, Listed
<1>3. RecordsAlive' /\ Unheld' /\ VariablesHeld'
  BY <1>1, KeptHeap DEF HeapKept
<1>4. Counting' = Counting
  BY <1>1 DEF Counting, Live
<1>5. Counts'
  BY <1>1, <1>4 DEF Inv, Counts, Root, References, HoldsAt
<1>6. Phases'
  <2>1. Resting' = Resting /\ Decreasing' = Decreasing /\ Scanning' = Scanning
    BY <1>1 DEF Resting, Decreasing, Scanning, NoZombies, Live
  <2>2. Freeing' = Freeing
    BY <1>1 DEF Freeing, References, HoldsAt
  <2> QED BY <1>1, <2>1, <2>2 DEF Inv, Phases
<1> QED BY <1>2, <1>3, <1>5, <1>6 DEF Inv

LEMMA StepInv == Inv /\ [GcNext]_gcVars => Inv'
<1> SUFFICES ASSUME Inv, [GcNext]_gcVars PROVE Inv'
  OBVIOUS
<1>1. ASSUME NEW c \in Cells, New(c) PROVE Inv'
  BY <1>1, NewStep
<1>2. ASSUME NEW c \in Cells, Get(c) PROVE Inv'
  BY <1>2, GetStep
<1>3. ASSUME NEW c \in Cells, Let(c) PROVE Inv'
  BY <1>3, LetStep
<1>4. ASSUME NEW x \in Cells, NEW c \in Cells, Put(x, c) PROVE Inv'
  BY <1>4, PutStep
<1>5. ASSUME NEW w \in WeakMaps, NEW k \in JSValues, WeakDelete(w, k) PROVE Inv'
  BY <1>5, WeakDeleteStep
<1>6. ASSUME NEW w \in WeakMaps, NEW k \in JSValues, NEW c \in JSValues, WeakSet(w, k, c) PROVE Inv'
  BY <1>6, WeakSetStep
<1>7. CASE free_zero_refcount
  BY <1>7, FreeZeroStep
<1>8. CASE JS_RunGC
  BY <1>8, RunGCStep
<1>9. CASE gc_decref
  BY <1>9, DecrefStep
<1>10. CASE gc_scan
  BY <1>10, ScanStep
<1>11. CASE gc_scan_restore
  BY <1>11, ScanRestoreStep
<1>12. CASE gc_free_cycles
  BY <1>12, FreeCyclesVariable, FreeCyclesObject
<1>13. CASE gc_free_cycles_end
  BY <1>13, FreeCyclesEndStep
<1>14. CASE UNCHANGED gcVars
  BY <1>14, IdleStep
<1> QED BY <1>1, <1>2, <1>3, <1>4, <1>5, <1>6, <1>7, <1>8, <1>9, <1>10, <1>11, <1>12, <1>13,
           <1>14 DEF GcNext

(* Every cell that has memory is on one list, once, and its count counts   *)
(* those that hold it, at every moment of a collection (gc_decref, gc_scan *)
(* and gc_free_cycles move cells between gc_obj_list, tmp_obj_list and     *)
(* gc_zero_ref_count_list, and take references off and put them back).     *)
THEOREM CountsAreOfHolders == GcSpec => []Inv
BY InitInv, StepInv, PTL DEF GcSpec

-----------------------------------------------------------------------------
(* What is reached from S stays within a set that holds nothing else.      *)
LEMMA ReachWithin ==
    ASSUME NEW C \in SUBSET Cells, NEW S \in SUBSET C,
           \A c \in Cells : References(C, c) # {} => c \in C
    PROVE  Reach(S) \subseteq C
<1> DEFINE more(T) == T \cup {c \in Cells : References(T, c) # {}}
           V == SUBSET C
           Def(e) == e = [i \in 0..Cardinality(Cells) |-> IF i = 0 THEN S ELSE more(e[i - 1])]
           at == CHOOSE e : Def(e)
<1>1. Reach(S) = at[Cardinality(Cells)]
  BY DEF Reach
<1>2. PICK n \in Nat : n = Cardinality(Cells)
  BY CellsAssumption, FS_CardinalityType
<1>3. ASSUME NEW T \in V PROVE more(T) \in V
  <2>1. ASSUME NEW c \in Cells, References(T, c) # {} PROVE c \in C
    <3>1. References(T, c) \subseteq References(C, c)
      BY DEF References
    <3> QED BY <2>1, <3>1
  <2> QED BY <2>1
<1>4. S \in V
  OBVIOUS
<1> HIDE DEF V, more
<1>5. PICK f : f \in [0..n -> V] /\ f[0] = S /\ \A i \in 1..n : f[i] = more(f[i - 1])
  <2> DEFINE step == [i \in 1..n |-> [T \in V |-> more(T)]]
  <2>1. step \in [1..n -> [V -> V]]
    BY <1>3
  <2>2. \A i \in 1..n, T \in V : step[i][T] = more(T)
    OBVIOUS
  <2> HIDE DEF step
  <2>3. PICK f : Computes(f, n, V, S, step)
    BY <1>4, <2>1, RecursionDefines
  <2>4. ASSUME NEW i \in 1..n PROVE f[i] = more(f[i - 1])
    <3>1. f[i] = step[i][f[i - 1]] /\ f[i - 1] \in V
      BY <2>3 DEF Computes
    <3> QED BY <2>2, <3>1
  <2> QED BY <2>3, <2>4 DEF Computes
<1>6. Def(f)
  <2>1. f = [i \in 0..n |-> f[i]]
    BY <1>5
  <2>2. \A i \in 0..n : f[i] = IF i = 0 THEN S ELSE more(f[i - 1])
    BY <1>5
  <2>3. f = [i \in 0..n |-> IF i = 0 THEN S ELSE more(f[i - 1])]
    BY <2>1, <2>2
  <2> QED BY <1>2, <2>3
<1>7. Def(at)
  BY <1>6
<1> HIDE DEF at
<1>8. \A i \in 0..n : at[i] = IF i = 0 THEN S ELSE more(at[i - 1])
  BY <1>2, <1>7
<1>9. \A i \in 0..n : at[i] = f[i]
  <2> DEFINE Good == {i \in 0..n : at[i] = f[i]}
  <2>1. 0 \in Good
    BY <1>5, <1>8
  <2>2. ASSUME NEW k \in 0..n, k \in Good, k < n PROVE k + 1 \in Good
    <3>1. k + 1 \in 1..n /\ k + 1 \in 0..n /\ k + 1 # 0 /\ (k + 1) - 1 = k
      BY <2>2
    <3>2. at[k + 1] = more(at[k]) /\ f[k + 1] = more(f[k]) /\ at[k] = f[k]
      BY <1>5, <1>8, <2>2, <3>1
    <3> QED BY <3>1, <3>2
  <2> HIDE DEF Good
  <2>3. \A k \in 0..n : k \in Good
    BY <2>1, <2>2, InductionUpTo
  <2> QED BY <2>3 DEF Good
<1>10. Reach(S) = f[n]
  BY <1>1, <1>2, <1>9
<1>11. f[n] \in V
  BY <1>5
<1> QED BY <1>10, <1>11 DEF V

LEMMA InvReachable == Inv => ReachableAlive
<1> SUFFICES ASSUME Inv PROVE ReachableAlive
  OBVIOUS
<1>1. TypeOK /\ Listed /\ Unheld /\ Phases
  BY DEF Inv
<1>2. CASE phase = "gc_free"
  <2>1. Freeing
    BY <1>1, <1>2 DEF Phases
  <2>2. PICK C \in SUBSET Cells : C = In(gc_obj_list)
    BY <1>1, InList DEF TypeOK
  <2>3. roots \in SUBSET C /\ \A c \in Cells : References(C, c) # {} => c \in C
    BY <2>1, <2>2 DEF Freeing
  <2>4. Reach(roots) \subseteq C
    BY <2>3, ReachWithin
  <2>5. C \subseteq Live
    BY <1>1, <2>1, <2>2 DEF Freeing, Listed, Live, TypeOK
  <2> QED BY <2>4, <2>5 DEF ReachableAlive
<1>3. CASE phase # "gc_free"
  <2>1. NoZombies
    BY <1>1, <1>3 DEF Phases, TypeOK, Resting, Decreasing, Scanning
  <2>2. \A c \in Cells : life[c] # "free" => c \in Live
    BY <1>1, <2>1 DEF NoZombies, TypeOK, Live
  <2>3. roots \in SUBSET Live /\ \A c \in Cells : References(Live, c) # {} => c \in Live
    BY <1>1, <2>2 DEF Unheld, TypeOK
  <2>4. Reach(roots) \subseteq Live
    BY <2>3, LiveCells, ReachWithin
  <2> QED BY <2>4 DEF ReachableAlive
<1> QED BY <1>2, <1>3

LEMMA InvCountsExact == Inv => CountsExact
<1> SUFFICES ASSUME Inv, phase = "none" PROVE CountsExact
  BY DEF CountsExact
<1>1. TypeOK /\ Listed /\ RecordsAlive /\ Counts /\ Resting
  BY DEF Inv, Phases
<1>2. Counting = Live
  BY DEF Counting
<1>3. \A c \in Live : ref_count[c] = (IF c \in roots THEN 1 ELSE 0)
                                    + Cardinality(References(Live, c))
  BY <1>1, <1>2, LiveCells DEF Counts, Root
<1>4. \A w \in WeakMaps \cap Live, k \in JSValues : entries[w][k] # Null => k \in Live
  BY <1>1 DEF RecordsAlive
<1>5. ToSet(gc_obj_list) = Live
  <2>1. gc_zero_ref_count_list = <<>> /\ tmp_obj_list = <<>>
    BY <1>1 DEF Resting
  <2>2. In(gc_obj_list) = {c \in Cells : life[c] # "free"}
    BY <1>1, <2>1, EmptyList DEF Listed
  <2>3. Live = {c \in Cells : life[c] # "free"}
    BY <1>1 DEF Live, Resting, NoZombies, TypeOK
  <2>4. ToSet(gc_obj_list) = In(gc_obj_list)
    BY <1>1, InList DEF TypeOK
  <2> QED BY <2>2, <2>3, <2>4
<1>6. \A c \in Live : mark[c] = 0
  BY <1>1, LiveCells DEF Resting
<1> QED BY <1>3, <1>4, <1>5, <1>6 DEF CountsExact

LEMMA InvAssertions == Inv => AssertionsHold
<1> SUFFICES ASSUME Inv PROVE AssertionsHold
  OBVIOUS
<1>1. TypeOK /\ Listed /\ Counts /\ Phases
  BY DEF Inv
<1>2. ASSUME phase = "free_zero" PROVE ref_count[Head(gc_zero_ref_count_list)] = 0
  <2>1. Resting
    BY <1>1, <1>2 DEF Phases
  <2>2. Head(gc_zero_ref_count_list) \in In(gc_zero_ref_count_list)
    BY <1>1, <1>2, <2>1, HeadOfList DEF TypeOK, Listed, Resting
  <2> QED BY <2>1, <2>2 DEF Resting
<1>3. ASSUME phase = "gc_decref"
      PROVE  mark[el] = 0 /\ \A c \in Cells : ref_count[c] >= Holds(el, c)
  <2>1. Decreasing
    BY <1>1, <1>3 DEF Phases
  <2>2. el \in In(gc_obj_list) /\ el \in Cells /\ NoZombies
    BY <1>1, <2>1, InList DEF Decreasing, TypeOK
  <2>3. el \notin Before(gc_obj_list, el) /\ el \notin In(tmp_obj_list)
    <3>1. PICK y : y = Successor(gc_obj_list, el)
      OBVIOUS
    <3>2. gc_obj_list \in Seq(Cells) /\ Distinct(gc_obj_list) /\ Null \notin Cells
      BY <1>1, CellsAssumption DEF TypeOK, Listed
    <3>3. el \notin Before(gc_obj_list, el)
      BY <2>2, <3>1, <3>2, NextOnList
    <3> QED BY <1>1, <2>2, <3>3 DEF Listed
  <2>4. mark[el] = 0
    BY <1>1, <2>1, <2>2, <2>3 DEF Decreasing, TypeOK
  <2>5. el \in Live
    BY <1>1, <2>2 DEF Listed, NoZombies, TypeOK, Live
  <2>6. el \in Counting
    BY <1>3, <2>4, <2>5 DEF Counting
  <2>7. Counting \in SUBSET Cells /\ CountsOf(ref_count, Counting)
    BY <1>1, CountedState DEF Counted
  <2>8. ASSUME NEW c \in Cells PROVE ref_count[c] >= Holds(el, c)
    <3>1. PICK S \in SUBSET Counting : S = {el}
      BY <2>6
    <3>2. Number(Heap, S, c) <= Number(Heap, Counting, c)
      BY <2>7, EdgesWithin
    <3>3. Number(Heap, S, c) \in Nat /\ Number(Heap, Counting, c) \in Nat
      BY <2>7, EdgesFinite
    <3>4. Holds(el, c) = Number(Heap, S, c)
      BY <1>1, <2>2, <3>1, HeapOfState, HeldOne
    <3>5. ref_count[c] = Root(c) + Number(Heap, Counting, c) /\ Root(c) \in Nat
      BY <2>7 DEF CountsOf, Root
    <3> QED BY <3>2, <3>3, <3>4, <3>5
  <2> QED BY <2>4, <2>8
<1>4. ASSUME phase = "gc_scan", el # Null PROVE ref_count[el] > 0
  BY <1>1, <1>4 DEF Phases, Scanning
<1>5. ASSUME phase = "gc_free", tmp_obj_list = <<>>
      PROVE  ToSet(gc_zero_ref_count_list) \cap VarRefs = {}
  <2>1. In(gc_zero_ref_count_list) \cap VarRefs = {}
    BY <1>5, NoVariablesLeft
  <2>2. ToSet(gc_zero_ref_count_list) = In(gc_zero_ref_count_list)
    BY <1>1, InList DEF TypeOK
  <2> QED BY <2>1, <2>2
<1> QED BY <1>2, <1>3, <1>4, <1>5 DEF AssertionsHold

(* What the script can reach is alive at every moment of a collection,     *)
(* between collections every reference count is exact and no weak map has  *)
(* a record of a key that is gone, and the collector's assertions hold: a  *)
(* count that is taken off is there, a cell is on the list its count says, *)
(* and nothing but objects is left at the end (free_object, gc_decref,     *)
(* gc_scan, gc_free_cycles, reset_weak_ref).                               *)
THEOREM MemoryIsSafe == GcSpec => []MemorySafe
<1>1. Inv => MemorySafe
  BY InvReachable, InvCountsExact, InvAssertions DEF MemorySafe
<1> QED BY <1>1, CountsAreOfHolders, PTL

=============================================================================
