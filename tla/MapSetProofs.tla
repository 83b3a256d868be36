---------------------------- MODULE MapSetProofs ----------------------------
(***************************************************************************)
(* Proofs about MapSet, for any keys, values and iterators, and any number *)
(* of records and nested loops: what a script sees is the ordered map,     *)
(* records are held exactly as long as they are used, and lookups through  *)
(* the chains find them.                                                   *)
(*                                                                         *)
(* The inductive invariant says, beside RecordsHeldExactly, that iterators *)
(* and loops are at records (Positions), that each chain has the records   *)
(* with its hashes, rising (Chained), that record_count counts the records *)
(* that are not empty (Counted), and that no two of them have equal keys   *)
(* (Distinct).  Only the last needs that equal keys have equal hashes.     *)
(***************************************************************************)
EXTENDS MapSet, Induction, FiniteSetTheorems

Live == {r \in 1..Len(recs) : ~recs[r].empty}
Held == {r \in 1..Len(recs) : recs[r].ref_count > 0}
Records == [key : Keys, value : Values \cup {Undefined}, empty : BOOLEAN, ref_count : Int]

Typed == recs \in Seq(Records)
Positions ==
    /\ cur_record \in [Iterators -> (1..Len(recs)) \cup {Ended, Gone, 0}]
    /\ locked \in Seq(1..Len(recs))
Counts ==
    \A r \in 1..Len(recs) :
        recs[r].ref_count = (IF recs[r].empty THEN 0 ELSE 1) + Users(r, cur_record, locked)
Listed == Lists(records, Held)
InChain(b, size) == {r \in Live : Hash(recs[r].key) % size = b}
ChainedBy(size) ==
    /\ DOMAIN hash_table = 0..(size - 1)
    /\ \A b \in 0..(size - 1) : Lists(hash_table[b], InChain(b, size))
Chained == \E size \in Nat \ {0} : ChainedBy(size)
Counted == record_count = Cardinality(Live)
Distinct == \A r, q \in Live : SameValueZero(recs[r].key, recs[q].key) => r = q

Inv == Typed /\ Positions /\ Counts /\ Listed /\ Chained /\ Counted

-----------------------------------------------------------------------------
(* Lists.                                                                  *)

LEMMA ListsAppend ==
    ASSUME NEW S \in SUBSET Nat, NEW list, Lists(list, S), NEW r \in Nat, \A q \in S : q < r
    PROVE  Lists(Append(list, r), S \cup {r})
<1> DEFINE n == Len(list)
           new == Append(list, r)
<1>1. list \in Seq(S) /\ n \in Nat
  BY DEF Lists
<1>2. new \in Seq(S \cup {r}) /\ Len(new) = n + 1 /\ new[n + 1] = r
  BY <1>1
<1>3. \A i \in 1..n : new[i] = list[i] /\ list[i] \in S
  BY <1>1
<1>4. \A q \in S : \E i \in 1..n : list[i] = q
  BY DEF Lists
<1>5. \A i, j \in 1..n : i < j => list[i] < list[j]
  BY DEF Lists
<1>6. \A i \in 1..(n + 1) : i \in 1..n \/ i = n + 1
  BY <1>1
<1> HIDE DEF new, n
<1>7. ASSUME NEW q \in S \cup {r} PROVE \E i \in 1..Len(new) : new[i] = q
  <2>1. CASE q \in S
    <3>1. PICK i \in 1..n : list[i] = q
      BY <1>4, <2>1
    <3>2. i \in 1..Len(new) /\ new[i] = q
      BY <1>1, <1>2, <1>3, <3>1
    <3> QED BY <3>2
  <2>2. CASE q = r
    BY <1>1, <1>2, <2>2
  <2> QED BY <2>1, <2>2
<1>8. ASSUME NEW i \in 1..Len(new), NEW j \in 1..Len(new), i < j PROVE new[i] < new[j]
  <2>1. i \in 1..n
    BY <1>1, <1>2, <1>8
  <2>2. CASE j \in 1..n
    BY <1>3, <1>5, <1>8, <2>1, <2>2
  <2>3. CASE j = n + 1
    BY <1>2, <1>3, <2>1, <2>3
  <2> QED BY <1>2, <1>6, <2>2, <2>3
<1>9. QED BY <1>2, <1>7, <1>8 DEF Lists, new

LEMMA ListsEmpty == Lists(<<>>, {})
BY DEF Lists

(* Kept keeps what is in both sets.                                        *)
LEMMA KeptLists ==
    ASSUME NEW S \in SUBSET Nat, NEW list, Lists(list, S), NEW T
    PROVE  Lists(Kept(list, T), S \cap T)
<1> DEFINE n == Len(list)
           Def(e) == e = [i \in 0..n |-> IF i = 0 THEN <<>>
                             ELSE IF list[i] \in T THEN Append(e[i - 1], list[i]) ELSE e[i - 1]]
           kept == CHOOSE e : Def(e)
<1>1. list \in Seq(S) /\ n \in Nat /\ \A i \in 1..n : list[i] \in S
  BY DEF Lists
<1>2. \E e : Def(e)
  <2> DEFINE step == [i \in 1..n |-> [l \in Seq(S) |-> IF list[i] \in T THEN Append(l, list[i]) ELSE l]]
  <2>1. step \in [1..n -> [Seq(S) -> Seq(S)]]
    BY <1>1
  <2>2. \A i \in 1..n, l \in Seq(S) : step[i][l] = IF list[i] \in T THEN Append(l, list[i]) ELSE l
    OBVIOUS
  <2>3. <<>> \in Seq(S)
    OBVIOUS
  <2> HIDE DEF step
  <2>4. PICK e : Computes(e, n, Seq(S), <<>>, step)
    BY <1>1, <2>1, <2>3, RecursionDefines
  <2>5. ASSUME NEW i \in 0..n
        PROVE  e[i] = IF i = 0 THEN <<>>
                      ELSE IF list[i] \in T THEN Append(e[i - 1], list[i]) ELSE e[i - 1]
    <3>1. i = 0 => e[i] = <<>>
      BY <2>4 DEF Computes
    <3>2. i # 0 => i \in 1..n /\ i - 1 \in 0..n
      BY <1>1
    <3>3. i # 0 => e[i] = step[i][e[i - 1]] /\ e[i - 1] \in Seq(S)
      BY <2>4, <3>2 DEF Computes
    <3> QED BY <2>2, <3>1, <3>2, <3>3
  <2>6. Def(e)
    <3>1. e = [i \in 0..n |-> e[i]]
      BY <2>4 DEF Computes
    <3>2. [i \in 0..n |-> e[i]] = [i \in 0..n |-> IF i = 0 THEN <<>>
                             ELSE IF list[i] \in T THEN Append(e[i - 1], list[i]) ELSE e[i - 1]]
      BY <2>5
    <3> QED BY <3>1, <3>2
  <2> QED BY <2>6
<1>3. Def(kept)
  BY <1>2
<1>4. Kept(list, T) = kept[n]
  BY DEF Kept
<1> HIDE DEF kept
<1>5. /\ kept[0] = <<>>
      /\ \A i \in 1..n : kept[i] = IF list[i] \in T THEN Append(kept[i - 1], list[i]) ELSE kept[i - 1]
  <2>1. 0 \in 0..n /\ \A i \in 1..n : i \in 0..n /\ i # 0
    BY <1>1
  <2>2. \A i \in 0..n : kept[i] = IF i = 0 THEN <<>>
                             ELSE IF list[i] \in T THEN Append(kept[i - 1], list[i]) ELSE kept[i - 1]
    BY <1>3
  <2> QED BY <2>1, <2>2
<1> DEFINE First(i) == {q \in S \cap T : \E j \in 1..i : list[j] = q}
           Good == {i \in 0..n : Lists(kept[i], First(i))}
<1> HIDE DEF Def
<1>6. 0 \in Good
  <2>1. First(0) = {}
    OBVIOUS
  <2>2. 0 \in 0..n
    BY <1>1
  <2> QED BY <1>5, <2>1, <2>2, ListsEmpty
<1>7. ASSUME NEW i \in 0..n, i \in Good, i < n PROVE i + 1 \in Good
  <2>1. i + 1 \in 1..n /\ i + 1 \in 0..n /\ (i + 1) - 1 = i /\ list[i + 1] \in S /\ i \in Nat
    <3>1. i + 1 \in 1..n /\ i + 1 \in 0..n /\ (i + 1) - 1 = i /\ i \in Nat
      BY <1>1, <1>7
    <3> QED BY <1>1, <3>1
  <2>2. Lists(kept[i], First(i)) /\ First(i) \in SUBSET Nat
    BY <1>7
  <2>3. kept[i + 1] = IF list[i + 1] \in T THEN Append(kept[i], list[i + 1]) ELSE kept[i]
    BY <1>5, <2>1
  <2>4. \A j \in 1..(i + 1) : j \in 1..i \/ j = i + 1
    BY <2>1
  <2>5. CASE list[i + 1] \notin T
    <3>1. First(i + 1) = First(i)
      BY <2>1, <2>4, <2>5
    <3> QED BY <2>1, <2>2, <2>3, <2>5, <3>1
  <2>6. CASE list[i + 1] \in T
    <3>1. First(i + 1) = First(i) \cup {list[i + 1]}
      BY <2>1, <2>4, <2>6
    <3>2. \A q \in First(i) : q < list[i + 1]
      <4>1. \A j \in 1..i : j \in 1..n /\ j < i + 1
        BY <1>1, <2>1
      <4>2. \A j \in 1..i : list[j] < list[i + 1]
        BY <2>1, <4>1 DEF Lists
      <4> QED BY <4>2
    <3>3. list[i + 1] \in Nat
      BY <2>1
    <3> HIDE DEF First
    <3>4. Lists(Append(kept[i], list[i + 1]), First(i) \cup {list[i + 1]})
      BY <2>2, <3>2, <3>3, ListsAppend
    <3> QED BY <2>1, <2>3, <2>6, <3>1, <3>4
  <2> QED BY <2>5, <2>6
<1>8. n \in Good
  <2> HIDE DEF Good
  <2>1. \A i \in 0..n : i \in Good /\ i < n => i + 1 \in Good
    BY <1>7
  <2>2. \A i \in 0..n : i \in Good
    BY <1>1, <1>6, <2>1, InductionUpTo
  <2> QED BY <1>1, <2>2
<1>9. First(n) = S \cap T
  BY DEF Lists
<1> QED BY <1>4, <1>8, <1>9

LeastAfter(S, r) == {q \in S : r < q /\ \A p \in S : r < p => q <= p}

(* FirstFrom finds the least of the elements after place i that is in T.   *)
LEMMA FirstFound ==
    ASSUME NEW S \in SUBSET Nat, NEW list, Lists(list, S), NEW T, NEW r \in Nat, NEW i \in Nat,
           \A j \in 1..Len(list) : r < list[j] <=> i < j
    PROVE  FirstFrom(list, i, T) = LeastAfter(S \cap T, r)
<1> DEFINE n == Len(list)
           Least == LeastAfter(S \cap T, r)
<1>1. n \in Nat /\ \A j \in 1..n : list[j] \in S
  BY DEF Lists
<1>2. \A q \in S : \E j \in 1..n : list[j] = q
  BY DEF Lists
<1>3. \A j, h \in 1..n : j < h => list[j] < list[h]
  BY DEF Lists
<1>4. \A j \in (i + 1)..n : j \in 1..n /\ i < j
  BY <1>1
<1> HIDE DEF n
<1>5. ASSUME NEW j \in (i + 1)..n, list[j] \in T, \A h \in (i + 1)..(j - 1) : list[h] \notin T
      PROVE  list[j] \in Least
  <2>1. j \in 1..n /\ i < j
    BY <1>4
  <2>2. list[j] \in S \cap T /\ r < list[j]
    BY <1>1, <1>5, <2>1 DEF n
  <2>3. ASSUME NEW p \in S \cap T, r < p PROVE list[j] <= p
    <3>1. PICK h \in 1..n : list[h] = p
      BY <1>2
    <3>2. i < h
      BY <2>3, <3>1 DEF n
    <3>3. ~(h < j)
      <4>1. h < j => h \in (i + 1)..(j - 1)
        BY <1>1, <3>2, <2>1
      <4> QED BY <1>5, <2>3, <3>1, <4>1
    <3>4. h = j \/ j < h
      BY <1>1, <2>1, <3>3
    <3>5. j < h => list[j] < p
      BY <1>3, <2>1, <3>1
    <3>6. list[j] \in Nat /\ p \in Nat
      BY <2>2
    <3> QED BY <3>1, <3>4, <3>5, <3>6
  <2> QED BY <2>2, <2>3 DEF LeastAfter
<1>6. ASSUME NEW q \in Least
      PROVE  \E j \in (i + 1)..n : /\ list[j] = q /\ list[j] \in T
                                   /\ \A h \in (i + 1)..(j - 1) : list[h] \notin T
  <2>1. q \in S /\ q \in T /\ r < q /\ \A p \in S \cap T : r < p => q <= p
    BY DEF LeastAfter
  <2>2. PICK j \in 1..n : list[j] = q
    BY <1>2, <2>1
  <2>3. i < j
    BY <2>1, <2>2 DEF n
  <2>4. j \in (i + 1)..n
    BY <1>1, <2>3
  <2>5. ASSUME NEW h \in (i + 1)..(j - 1), list[h] \in T PROVE FALSE
    <3>1. h \in 1..n /\ i < h /\ h < j
      BY <1>1
    <3>2. list[h] \in S /\ list[h] < q
      BY <1>1, <1>3, <2>2, <3>1
    <3>3. r < list[h]
      BY <3>1 DEF n
    <3>4. q <= list[h]
      BY <2>1, <2>5, <3>2, <3>3
    <3>5. q \in Nat /\ list[h] \in Nat
      BY <2>1, <3>2
    <3> QED BY <3>2, <3>4, <3>5
  <2> QED BY <2>1, <2>2, <2>4, <2>5
<1> HIDE DEF Least
<1>7. FirstFrom(list, i, T) \subseteq Least
  BY <1>5 DEF FirstFrom, n
<1>8. Least \subseteq FirstFrom(list, i, T)
  BY <1>6 DEF FirstFrom, n
<1> QED BY <1>7, <1>8 DEF Least

-----------------------------------------------------------------------------
(* Users.                                                                  *)

LEMMA UsersType ==
    ASSUME NEW r, NEW cur, NEW W, NEW loops \in Seq(W)
    PROVE  /\ IsFiniteSet({i \in Iterators : cur[i] = r})
           /\ IsFiniteSet({j \in 1..Len(loops) : loops[j] = r})
           /\ Cardinality({i \in Iterators : cur[i] = r}) \in Nat
           /\ Cardinality({j \in 1..Len(loops) : loops[j] = r}) \in Nat
           /\ Users(r, cur, loops) \in Nat
<1>1. IsFiniteSet({i \in Iterators : cur[i] = r})
  <2>1. {i \in Iterators : cur[i] = r} \in SUBSET Iterators
    OBVIOUS
  <2> QED BY <2>1, MapAssumption, FS_Subset
<1>2. IsFiniteSet({j \in 1..Len(loops) : loops[j] = r})
  <2>1. {j \in 1..Len(loops) : loops[j] = r} \in SUBSET (1..Len(loops))
    OBVIOUS
  <2>2. Len(loops) \in Int /\ 1 \in Int
    OBVIOUS
  <2>3. IsFiniteSet(1..Len(loops))
    BY <2>2, FS_Interval
  <2> QED BY <2>1, <2>3, FS_Subset
<1>3. /\ Cardinality({i \in Iterators : cur[i] = r}) \in Nat
      /\ Cardinality({j \in 1..Len(loops) : loops[j] = r}) \in Nat
  BY <1>1, <1>2, FS_CardinalityType
<1> QED BY <1>1, <1>2, <1>3 DEF Users

(* An iterator goes to x.                                                  *)
Goes(cur, new, i, x) == \A h \in Iterators : new[h] = IF h = i THEN x ELSE cur[h]

LEMMA UsersIterator ==
    ASSUME NEW cur, NEW W, NEW loops \in Seq(W), NEW i \in Iterators, NEW x, NEW r,
           NEW new, Goes(cur, new, i, x)
    PROVE  Users(r, new, loops) =
               Users(r, cur, loops) - (IF cur[i] = r THEN 1 ELSE 0) + (IF x = r THEN 1 ELSE 0)
<1> DEFINE A == {h \in Iterators : cur[h] = r}
           B == {h \in Iterators : new[h] = r}
           L == {j \in 1..Len(loops) : loops[j] = r}
<1>1. IsFiniteSet(A) /\ Cardinality(A) \in Nat /\ Cardinality(L) \in Nat
  BY UsersType
<1>2. B = IF x = r THEN (A \ {i}) \cup {i} ELSE A \ {i}
  BY DEF Goes
<1>3. i \in A <=> cur[i] = r
  OBVIOUS
<1>4. Users(r, cur, loops) = Cardinality(A) + Cardinality(L)
  BY DEF Users
<1>5. Users(r, new, loops) = Cardinality(B) + Cardinality(L)
  BY DEF Users
<1> HIDE DEF A, B, L
<1>6. /\ IsFiniteSet(A \ {i})
      /\ Cardinality(A \ {i}) = IF i \in A THEN Cardinality(A) - 1 ELSE Cardinality(A)
  BY <1>1, FS_RemoveElement
<1>7. Cardinality((A \ {i}) \cup {i}) = Cardinality(A \ {i}) + 1
  <2>1. i \notin A \ {i}
    OBVIOUS
  <2> QED BY <1>6, <2>1, FS_AddElement
<1> QED BY <1>1, <1>2, <1>3, <1>4, <1>5, <1>6, <1>7

(* A loop gets to x.                                                       *)
LEMMA UsersCalled ==
    ASSUME NEW cur, NEW W, NEW loops \in Seq(W), NEW x \in W, NEW r
    PROVE  Users(r, cur, Append(loops, x)) = Users(r, cur, loops) + (IF x = r THEN 1 ELSE 0)
<1> DEFINE n == Len(loops)
           A == {i \in Iterators : cur[i] = r}
           L == {j \in 1..n : loops[j] = r}
           M == {j \in 1..Len(Append(loops, x)) : Append(loops, x)[j] = r}
<1>1. IsFiniteSet(L) /\ Cardinality(A) \in Nat /\ Cardinality(L) \in Nat
  BY UsersType
<1>2. M = IF x = r THEN L \cup {n + 1} ELSE L
  <2>1. Len(Append(loops, x)) = n + 1 /\ Append(loops, x)[n + 1] = x /\ n \in Nat
    OBVIOUS
  <2>2. \A j \in 1..n : Append(loops, x)[j] = loops[j]
    OBVIOUS
  <2>3. 1..(n + 1) = (1..n) \cup {n + 1}
    BY <2>1
  <2> QED BY <2>1, <2>2, <2>3
<1>3. n + 1 \notin L
  OBVIOUS
<1>4. Users(r, cur, loops) = Cardinality(A) + Cardinality(L)
  BY DEF Users
<1>5. Users(r, cur, Append(loops, x)) = Cardinality(A) + Cardinality(M)
  BY DEF Users
<1> HIDE DEF A, L, M, n
<1>6. Cardinality(L \cup {n + 1}) = Cardinality(L) + 1
  BY <1>1, <1>3, FS_AddElement
<1> QED BY <1>1, <1>2, <1>4, <1>5, <1>6

(* The innermost loop ends.                                                *)
LEMMA UsersOuter ==
    ASSUME NEW cur, NEW W, NEW loops \in Seq(W), loops # <<>>, NEW r
    PROVE  Users(r, cur, SubSeq(loops, 1, Len(loops) - 1)) =
               Users(r, cur, loops) - (IF loops[Len(loops)] = r THEN 1 ELSE 0)
<1> DEFINE outer == SubSeq(loops, 1, Len(loops) - 1)
           last == loops[Len(loops)]
<1>1. outer \in Seq(W) /\ last \in W
  OBVIOUS
<1>2. Append(outer, last) = loops
  OBVIOUS
<1> HIDE DEF outer, last
<1>3. Users(r, cur, Append(outer, last)) = Users(r, cur, outer) + (IF last = r THEN 1 ELSE 0)
  BY <1>1, UsersCalled
<1>4. Users(r, cur, outer) \in Nat
  BY <1>1, UsersType
<1>5. Users(r, cur, outer) = Users(r, cur, loops) - (IF last = r THEN 1 ELSE 0)
  BY <1>2, <1>3, <1>4
<1> QED BY <1>5 DEF outer, last

(* What an iterator or a loop is at has a user.                            *)
LEMMA UsersAt ==
    ASSUME NEW r, NEW cur, NEW W, NEW loops \in Seq(W)
    PROVE  /\ \A i \in Iterators : cur[i] = r => Users(r, cur, loops) >= 1
           /\ \A j \in 1..Len(loops) : loops[j] = r => Users(r, cur, loops) >= 1
<1> DEFINE A == {i \in Iterators : cur[i] = r}
           L == {j \in 1..Len(loops) : loops[j] = r}
<1>1. /\ IsFiniteSet(A) /\ IsFiniteSet(L)
      /\ Cardinality(A) \in Nat /\ Cardinality(L) \in Nat
  BY UsersType
<1>2. Users(r, cur, loops) = Cardinality(A) + Cardinality(L)
  BY DEF Users
<1>3. \A i \in Iterators : cur[i] = r => A # {}
  OBVIOUS
<1>4. \A j \in 1..Len(loops) : loops[j] = r => L # {}
  OBVIOUS
<1> HIDE DEF A, L
<1>5. A # {} => Cardinality(A) >= 1
  BY <1>1, FS_EmptySet
<1>6. L # {} => Cardinality(L) >= 1
  BY <1>1, FS_EmptySet
<1>7. A # {} => Users(r, cur, loops) >= 1
  BY <1>1, <1>2, <1>5
<1>8. L # {} => Users(r, cur, loops) >= 1
  BY <1>1, <1>2, <1>6
<1> QED BY <1>3, <1>4, <1>7, <1>8 DEF L

-----------------------------------------------------------------------------
(* What the invariant says of the records.                                 *)

LEMMA LiveHeld ==
    ASSUME Inv
    PROVE  /\ Len(recs) \in Nat /\ Held \in SUBSET Nat /\ Live \in SUBSET Held
           /\ Live \in SUBSET (1..Len(recs)) /\ Held \in SUBSET (1..Len(recs))
           /\ IsFiniteSet(Live) /\ \A r \in 1..Len(recs) : recs[r] \in Records
<1>1. recs \in Seq(Records) /\ locked \in Seq(1..Len(recs))
  BY DEF Inv, Typed, Positions
<1>2. Len(recs) \in Nat /\ \A r \in 1..Len(recs) : recs[r] \in Records
  BY <1>1
<1>3. Held \in SUBSET (1..Len(recs)) /\ Live \in SUBSET (1..Len(recs))
  BY DEF Held, Live
<1>4. ASSUME NEW r \in Live PROVE r \in Held
  <2>1. r \in 1..Len(recs) /\ ~recs[r].empty
    BY DEF Live
  <2>2. recs[r].ref_count = 1 + Users(r, cur_record, locked)
    BY <2>1 DEF Inv, Counts
  <2>3. Users(r, cur_record, locked) \in Nat
    BY <1>1, UsersType
  <2>4. recs[r].ref_count > 0
    BY <2>2, <2>3
  <2> QED BY <2>1, <2>4 DEF Held
<1>5. IsFiniteSet(1..Len(recs))
  BY <1>2, FS_Interval
<1>6. IsFiniteSet(Live)
  BY <1>3, <1>5, FS_Subset
<1>7. 1..Len(recs) \in SUBSET Nat
  BY <1>2
<1> QED BY <1>2, <1>3, <1>4, <1>6, <1>7

(* A record that is used is held.                                          *)
LEMMA UsedHeld ==
    ASSUME Inv, NEW r \in 1..Len(recs), Users(r, cur_record, locked) >= 1
    PROVE  r \in Held
<1>1. recs[r].ref_count = (IF recs[r].empty THEN 0 ELSE 1) + Users(r, cur_record, locked)
  BY DEF Inv, Counts
<1>2. locked \in Seq(1..Len(recs))
  BY DEF Inv, Positions
<1>3. Users(r, cur_record, locked) \in Nat
  BY <1>2, UsersType
<1>4. recs[r].ref_count > 0
  BY <1>1, <1>3
<1> QED BY <1>4 DEF Held

(* Iterators and loops are at records that are in the list.                *)
LEMMA PositionsHeld ==
    ASSUME Inv
    PROVE  /\ \A i \in Iterators : cur_record[i] \notin {Gone, Ended, 0} =>
                  cur_record[i] \in Held /\ Users(cur_record[i], cur_record, locked) >= 1
           /\ locked # <<>> =>
                  locked[Len(locked)] \in Held /\ Users(locked[Len(locked)], cur_record, locked) >= 1
<1>1. locked \in Seq(1..Len(recs)) /\ cur_record \in [Iterators -> (1..Len(recs)) \cup {Ended, Gone, 0}]
  BY DEF Inv, Positions
<1>2. ASSUME NEW i \in Iterators, cur_record[i] \notin {Gone, Ended, 0}
      PROVE  cur_record[i] \in Held /\ Users(cur_record[i], cur_record, locked) >= 1
  <2>1. cur_record[i] \in 1..Len(recs)
    BY <1>1, <1>2
  <2>2. Users(cur_record[i], cur_record, locked) >= 1
    BY <1>1, UsersAt
  <2> QED BY <2>1, <2>2, UsedHeld
<1>3. ASSUME locked # <<>>
      PROVE  locked[Len(locked)] \in Held /\ Users(locked[Len(locked)], cur_record, locked) >= 1
  <2>1. Len(locked) \in 1..Len(locked) /\ locked[Len(locked)] \in 1..Len(recs)
    BY <1>1, <1>3
  <2>2. Users(locked[Len(locked)], cur_record, locked) >= 1
    BY <1>1, <2>1, UsersAt
  <2> QED BY <2>1, <2>2, UsedHeld
<1> QED BY <1>2, <1>3

(* The next record is the least one that is not empty.                     *)
LEMMA NextFound ==
    ASSUME Inv, NEW pos \in Held \cup {0}
    PROVE  NextRecord(pos) = LeastAfter(Live, pos)
<1> DEFINE T == {q \in 1..Len(recs) : ~recs[q].empty}
           n == Len(records)
<1>1. /\ Held \in SUBSET Nat /\ Live \in SUBSET Held /\ Len(recs) \in Nat
      /\ Held \in SUBSET (1..Len(recs)) /\ \A r \in Held : r \in Nat /\ 0 < r
  <2>1. /\ Held \in SUBSET Nat /\ Live \in SUBSET Held /\ Len(recs) \in Nat
        /\ Held \in SUBSET (1..Len(recs))
    BY LiveHeld
  <2>2. \A r \in 1..Len(recs) : r \in Nat /\ 0 < r
    BY <2>1
  <2> QED BY <2>1, <2>2
<1>2. Lists(records, Held)
  BY DEF Inv, Listed
<1>3. n \in Nat /\ \A j \in 1..n : records[j] \in Held /\ j \in Nat /\ 0 < j
  BY <1>2 DEF Lists
<1>7. \A j \in 1..n : records[j] \in Nat /\ 0 < records[j]
  BY ONLY <1>1, <1>3, Zenon
<1>4. Held \cap T = Live /\ pos \in Nat
  BY <1>1 DEF Live
<1>5. Place(pos) \in Nat /\ \A j \in 1..n : pos < records[j] <=> Place(pos) < j
  <2>1. CASE pos = 0
    <3>1. Place(pos) = 0
      BY <2>1 DEF Place
    <3>2. \A j \in 1..n : 0 < records[j] /\ 0 < j
      BY <1>3, <1>7
    <3> QED BY <2>1, <3>1, <3>2
  <2>2. CASE pos # 0
    <3>1. \E i \in 1..n : records[i] = pos
      BY <1>2, <2>2 DEF Lists
    <3> DEFINE i == CHOOSE i \in 1..n : records[i] = pos
    <3>2. Place(pos) = i
      BY <2>2 DEF Place
    <3>3. i \in 1..n /\ records[i] = pos
      BY <3>1
    <3> HIDE DEF i
    <3>4. ASSUME NEW j \in 1..n PROVE pos < records[j] <=> i < j
      <4>1. i < j => pos < records[j]
        BY <1>2, <3>3 DEF Lists
      <4>2. j < i => records[j] < pos
        BY <1>2, <3>3 DEF Lists
      <4>3. i \in Nat /\ j \in Nat /\ records[j] \in Nat
        BY <1>3, <1>7, <3>3, Zenon
      <4>4. i = j => records[j] = pos
        BY <3>3
      <4>5. i < j \/ j < i \/ i = j
        BY <4>3
      <4> QED BY <1>4, <4>1, <4>2, <4>3, <4>4, <4>5
    <3>5. i \in Nat
      BY <1>3, <3>3
    <3> QED BY <3>2, <3>4, <3>5
  <2> QED BY <2>1, <2>2
<1> HIDE DEF T, n
<1>6. FirstFrom(records, Place(pos), T) = LeastAfter(Held \cap T, pos)
  BY <1>1, <1>2, <1>4, <1>5, FirstFound DEF n
<1> QED BY <1>4, <1>6 DEF NextRecord, T

SameKey(key) == {r \in Live : SameValueZero(recs[r].key, key)}

(* A lookup finds the least record of its chain that has the key.          *)
LEMMA FoundInChain ==
    ASSUME Inv, NEW key \in Keys
    PROVE  \E size \in Nat \ {0} :
               /\ ChainedBy(size) /\ Bucket(key, hash_table) = Hash(key) % size
               /\ Hash(key) % size \in 0..(size - 1)
               /\ map_find_record(key) = LeastAfter(InChain(Hash(key) % size, size) \cap SameKey(key), 0)
<1> DEFINE T == {r \in 1..Len(recs) : SameValueZero(recs[r].key, key)}
<1>1. PICK size \in Nat \ {0} : ChainedBy(size)
  BY DEF Inv, Chained
<1> DEFINE b == Hash(key) % size
<1>2. Cardinality(DOMAIN hash_table) = size
  <2>1. Cardinality(0..(size - 1)) = IF 0 > size - 1 THEN 0 ELSE size - 1 - 0 + 1
    <3>1. 0 \in Int /\ size - 1 \in Int
      OBVIOUS
    <3> QED BY <3>1, FS_Interval
  <2> QED BY <1>1, <2>1 DEF ChainedBy
<1>3. Bucket(key, hash_table) = b
  BY <1>2 DEF Bucket
<1>4. b \in 0..(size - 1)
  BY MapAssumption
<1>5. /\ Held \in SUBSET Nat /\ Live \in SUBSET Held /\ Len(recs) \in Nat
      /\ Live \in SUBSET (1..Len(recs))
  BY LiveHeld
<1> DEFINE S == InChain(b, size)
<1>6. Lists(hash_table[b], S)
  BY <1>1, <1>4 DEF ChainedBy
<1>7. S \in SUBSET (1..Len(recs))
  BY <1>5 DEF InChain
<1>8. S \in SUBSET Nat /\ \A r \in S : 0 < r
  BY <1>5, <1>7
<1>9. S \cap T = S \cap SameKey(key)
  BY <1>7 DEF InChain, SameKey
<1> HIDE DEF S, T, b
<1>10. \A j \in 1..Len(hash_table[b]) : 0 < hash_table[b][j] <=> 0 < j
  <2>1. \A j \in 1..Len(hash_table[b]) : hash_table[b][j] \in S /\ 0 < j
    BY <1>6 DEF Lists
  <2> QED BY <1>8, <2>1, Zenon
<1>11. FirstFrom(hash_table[b], 0, T) = LeastAfter(S \cap T, 0)
  BY <1>6, <1>8, <1>10, FirstFound
<1>12. map_find_record(key) = LeastAfter(S \cap SameKey(key), 0)
  BY <1>3, <1>9, <1>11 DEF map_find_record, T
<1> QED BY <1>1, <1>3, <1>4, <1>12 DEF b, S

LEMMA FoundLive ==
    ASSUME Inv, NEW key \in Keys
    PROVE  map_find_record(key) \in SUBSET SameKey(key) /\ map_find_record(key) \in SUBSET Live
<1>1. PICK size \in Nat \ {0} :
          map_find_record(key) = LeastAfter(InChain(Hash(key) % size, size) \cap SameKey(key), 0)
  BY FoundInChain
<1>2. SameKey(key) \in SUBSET Live
  BY DEF SameKey
<1>3. LeastAfter(InChain(Hash(key) % size, size) \cap SameKey(key), 0) \in SUBSET SameKey(key)
  BY DEF LeastAfter
<1> QED BY <1>1, <1>2, <1>3

(* No two records have the key, and its chain has the one that has it.     *)
LEMMA FoundExact ==
    ASSUME Inv, Distinct, HashesAgree, NEW key \in Keys
    PROVE  map_find_record(key) = SameKey(key)
<1>1. PICK size \in Nat \ {0} :
          map_find_record(key) = LeastAfter(InChain(Hash(key) % size, size) \cap SameKey(key), 0)
  BY FoundInChain
<1> DEFINE S == InChain(Hash(key) % size, size)
<1>2. /\ Live \in SUBSET (1..Len(recs)) /\ Len(recs) \in Nat
      /\ \A r \in 1..Len(recs) : recs[r] \in Records
  BY LiveHeld
<1>3. \A r \in Live : recs[r].key \in Keys /\ r \in Nat /\ 0 < r
  BY <1>2 DEF Records
<1>4. SameKey(key) \in SUBSET S
  <2>1. ASSUME NEW r \in SameKey(key) PROVE r \in S
    <3>1. r \in Live /\ SameValueZero(recs[r].key, key)
      BY DEF SameKey
    <3>2. Hash(recs[r].key) = Hash(key)
      BY <1>3, <3>1 DEF HashesAgree
    <3> QED BY <3>1, <3>2 DEF InChain
  <2> QED BY <2>1
<1>5. \A r, q \in SameKey(key) : r = q
  BY DEF Distinct, SameKey, SameValueZero
<1>6. \A r \in SameKey(key) : r \in Nat /\ 0 < r
  BY <1>3 DEF SameKey
<1> HIDE DEF S
<1>7. S \cap SameKey(key) = SameKey(key)
  BY <1>4
<1>8. LeastAfter(SameKey(key), 0) = SameKey(key)
  BY <1>5, <1>6 DEF LeastAfter
<1> QED BY <1>1, <1>7, <1>8 DEF S

-----------------------------------------------------------------------------
(* Steps that keep the records' keys.                                      *)

LEMMA ContentsKept ==
    ASSUME Inv, Len(recs') = Len(recs), UNCHANGED <<hash_table, record_count>>,
           \A r \in 1..Len(recs) : recs'[r].empty = recs[r].empty /\ recs'[r].key = recs[r].key
    PROVE  /\ Live' = Live /\ Chained' /\ Counted'
           /\ \A r \in Live : recs'[r].key = recs[r].key
<1>1. Live' = Live /\ \A r \in Live : recs'[r].key = recs[r].key
  BY DEF Live
<1>2. PICK size \in Nat \ {0} : ChainedBy(size)
  BY DEF Inv, Chained
<1>3. \A b : {r \in Live' : Hash(recs'[r].key) % size = b} = InChain(b, size)
  BY <1>1 DEF InChain
<1>4. ASSUME NEW b \in 0..(size - 1)
      PROVE  Lists(hash_table'[b], {r \in Live' : Hash(recs'[r].key) % size = b})
  <2>1. Lists(hash_table[b], InChain(b, size))
    BY <1>2 DEF ChainedBy
  <2> QED BY <1>3, <2>1
<1>5. ChainedBy(size)'
  BY <1>2, <1>4 DEF ChainedBy, InChain, Lists
<1>6. Counted'
  BY <1>1 DEF Inv, Counted
<1> QED BY <1>1, <1>5, <1>6 DEF Chained

(* One reference less of the record left, one more of the one moved to.    *)
Moved(from, to) ==
    /\ recs' \in Seq(Records) /\ Len(recs') = Len(recs)
    /\ \A r \in 1..Len(recs) :
           /\ recs'[r].empty = recs[r].empty /\ recs'[r].key = recs[r].key
           /\ recs'[r].value = recs[r].value
           /\ recs'[r].ref_count = recs[r].ref_count
                  - (IF r = from THEN 1 ELSE 0) + (IF r \in to THEN 1 ELSE 0)
    /\ records' = Kept(records, {r \in 1..Len(recs) :
                         recs[r].ref_count - (IF r = from THEN 1 ELSE 0) > 0})
    /\ UNCHANGED <<hash_table, record_count>>

LEMMA MoveRecords ==
    ASSUME Inv, NEW from \in Held \cup {0}, NEW to \in SUBSET Live, Move(from, to)
    PROVE  Moved(from, to)
<1> DEFINE left == IF from = 0 THEN recs ELSE Decremented(from, recs)
<1>1. /\ Len(recs) \in Nat /\ \A r \in 1..Len(recs) : recs[r] \in Records /\ r # 0
      /\ Held \in SUBSET (1..Len(recs))
  BY LiveHeld
<1>2. ASSUME NEW r \in 1..Len(recs)
      PROVE  /\ left[r] \in Records
             /\ left[r].empty = recs[r].empty /\ left[r].key = recs[r].key
             /\ left[r].value = recs[r].value
             /\ left[r].ref_count = recs[r].ref_count - (IF r = from THEN 1 ELSE 0)
  <2>1. recs[r] \in Records /\ r # 0
    BY <1>1
  <2>2. CASE from = 0
    BY <2>1, <2>2 DEF Records
  <2>3. CASE from # 0 /\ from # r
    <3>1. left[r] = recs[r]
      BY <2>3 DEF Decremented, Inv, Typed
    <3> QED BY <2>1, <2>3, <3>1 DEF Records
  <2>4. CASE from = r
    <3>1. left[r] = [recs[r] EXCEPT !.ref_count = recs[r].ref_count - 1]
      BY <2>1, <2>4 DEF Decremented, Inv, Typed
    <3> QED BY <2>1, <2>4, <3>1 DEF Records
  <2> QED BY <2>2, <2>3, <2>4
<1>3. /\ recs' = [r \in 1..Len(recs) |->
                     IF r \in to THEN [left[r] EXCEPT !.ref_count = left[r].ref_count + 1] ELSE left[r]]
      /\ records' = Kept(records, {r \in 1..Len(recs) : left[r].ref_count > 0})
      /\ UNCHANGED <<hash_table, record_count>>
  BY DEF Move
<1> HIDE DEF left
<1>4. ASSUME NEW r \in 1..Len(recs)
      PROVE  /\ recs'[r] \in Records
             /\ recs'[r].empty = recs[r].empty /\ recs'[r].key = recs[r].key
             /\ recs'[r].value = recs[r].value
             /\ recs'[r].ref_count = recs[r].ref_count
                    - (IF r = from THEN 1 ELSE 0) + (IF r \in to THEN 1 ELSE 0)
  <2>1. recs[r] \in Records
    BY <1>1
  <2>2. CASE r \in to
    <3>1. recs'[r] = [left[r] EXCEPT !.ref_count = left[r].ref_count + 1]
      BY <1>3, <2>2
    <3> QED BY <1>2, <2>1, <2>2, <3>1 DEF Records
  <2>3. CASE r \notin to
    <3>1. recs'[r] = left[r]
      BY <1>3, <2>3
    <3> QED BY <1>2, <2>1, <2>3, <3>1 DEF Records
  <2> QED BY <2>2, <2>3
<1>5. recs' \in Seq(Records) /\ Len(recs') = Len(recs)
  <2>1. recs' \in [1..Len(recs) -> Records]
    <3>1. DOMAIN recs' = 1..Len(recs) /\ recs' = [r \in DOMAIN recs' |-> recs'[r]]
      BY <1>3
    <3> QED BY <1>4, <3>1
  <2>2. \A n \in Nat : \A f \in [1..n -> Records] : f \in Seq(Records) /\ Len(f) = n
    OBVIOUS
  <2> QED BY <1>1, <2>1, <2>2
<1>6. {r \in 1..Len(recs) : left[r].ref_count > 0} =
          {r \in 1..Len(recs) : recs[r].ref_count - (IF r = from THEN 1 ELSE 0) > 0}
  BY <1>2
<1> QED BY <1>3, <1>4, <1>5, <1>6 DEF Moved

LEMMA MoveKeeps ==
    ASSUME Inv, NEW from \in Held \cup {0}, NEW to \in SUBSET Live, Move(from, to),
           cur_record' \in [Iterators -> (1..Len(recs)) \cup {Ended, Gone, 0}],
           locked' \in Seq(1..Len(recs)),
           from # 0 => Users(from, cur_record, locked) >= 1,
           \A r \in 1..Len(recs) : Users(r, cur_record', locked') =
               Users(r, cur_record, locked) - (IF r = from THEN 1 ELSE 0) + (IF r \in to THEN 1 ELSE 0)
    PROVE  Inv'
<1> DEFINE T == {r \in 1..Len(recs) : recs[r].ref_count - (IF r = from THEN 1 ELSE 0) > 0}
<1>1. /\ recs' \in Seq(Records) /\ Len(recs') = Len(recs)
      /\ \A r \in 1..Len(recs) :
             /\ recs'[r].empty = recs[r].empty /\ recs'[r].key = recs[r].key
             /\ recs'[r].ref_count = recs[r].ref_count
                    - (IF r = from THEN 1 ELSE 0) + (IF r \in to THEN 1 ELSE 0)
      /\ records' = Kept(records, T)
      /\ UNCHANGED <<hash_table, record_count>>
  <2>1. Moved(from, to)
    BY MoveRecords
  <2> QED BY <2>1 DEF Moved
<1>2. /\ Len(recs) \in Nat /\ Held \in SUBSET Nat /\ Live \in SUBSET Held
      /\ Held \in SUBSET (1..Len(recs)) /\ Live \in SUBSET (1..Len(recs))
  BY LiveHeld
<1>3. Typed' /\ Positions'
  BY <1>1 DEF Typed, Positions
<1>4. Live' = Live /\ Chained' /\ Counted'
  <2>1. \A r \in 1..Len(recs) : recs'[r].empty = recs[r].empty /\ recs'[r].key = recs[r].key
    BY <1>1
  <2> QED BY <1>1, <2>1, ContentsKept
<1>5. ASSUME NEW r \in 1..Len(recs)
      PROVE  /\ recs[r].ref_count = (IF recs[r].empty THEN 0 ELSE 1) + Users(r, cur_record, locked)
             /\ Users(r, cur_record, locked) \in Nat /\ Users(r, cur_record', locked') \in Nat
  <2>1. recs[r].ref_count = (IF recs[r].empty THEN 0 ELSE 1) + Users(r, cur_record, locked)
    BY DEF Inv, Counts
  <2>2. Users(r, cur_record, locked) \in Nat
    BY UsersType DEF Inv, Positions
  <2>3. Users(r, cur_record', locked') \in Nat
    BY UsersType
  <2> QED BY <2>1, <2>2, <2>3
<1>6. \A r \in 1..Len(recs) :
          recs'[r].ref_count = (IF recs'[r].empty THEN 0 ELSE 1) + Users(r, cur_record', locked')
  <2>1. TAKE r \in 1..Len(recs)
  <2> DEFINE e == IF recs[r].empty THEN 0 ELSE 1
             f == IF r = from THEN 1 ELSE 0
             g == IF r \in to THEN 1 ELSE 0
  <2>2. e \in Nat /\ f \in Nat /\ g \in Nat
    OBVIOUS
  <2>3. recs'[r].ref_count = recs[r].ref_count - f + g
    BY <1>1
  <2>4. Users(r, cur_record', locked') = Users(r, cur_record, locked) - f + g
    OBVIOUS
  <2>5. recs[r].ref_count = e + Users(r, cur_record, locked) /\ Users(r, cur_record, locked) \in Nat
    BY <1>5
  <2>6. (IF recs'[r].empty THEN 0 ELSE 1) = e
    BY <1>1
  <2> HIDE DEF e, f, g
  <2> QED BY <2>2, <2>3, <2>4, <2>5, <2>6
<1>7. Counts'
  BY <1>1, <1>6 DEF Counts, Users
<1>8. Held' = Held \cap T
  <2>1. ASSUME NEW r \in 1..Len(recs) PROVE recs'[r].ref_count > 0 <=> r \in Held /\ r \in T
    <3>1. /\ recs'[r].ref_count = recs[r].ref_count
                - (IF r = from THEN 1 ELSE 0) + (IF r \in to THEN 1 ELSE 0)
          /\ recs[r].ref_count \in Nat
      <4>1. recs[r].ref_count \in Nat
        <5>1. (IF recs[r].empty THEN 0 ELSE 1) \in Nat
          OBVIOUS
        <5>2. \A x, y \in Nat : x + y \in Nat
          OBVIOUS
        <5> QED BY <1>5, <5>1, <5>2
      <4> QED BY <1>1, <4>1
    <3>2. CASE r \notin to
      BY <3>1, <3>2 DEF Held
    <3>3. CASE r \in to
      <4>1. recs[r].ref_count = 1 + Users(r, cur_record, locked) /\ Users(r, cur_record, locked) \in Nat
        BY <1>5, <3>3 DEF Live
      <4>2. r = from => Users(r, cur_record, locked) >= 1
        BY <1>2
      <4>3. recs[r].ref_count - (IF r = from THEN 1 ELSE 0) > 0
        BY <4>1, <4>2
      <4>4. r \in T /\ r \in Held
        BY <3>1, <4>3 DEF Held
      <4>5. recs'[r].ref_count > 0
        BY <3>1, <3>3, <4>3
      <4> QED BY <4>4, <4>5
    <3> QED BY <3>2, <3>3
  <2> HIDE DEF T
  <2>2. Held' = {r \in 1..Len(recs) : recs'[r].ref_count > 0}
    BY <1>1 DEF Held
  <2> QED BY <1>2, <2>1, <2>2
<1>9. Listed'
  <2>1. Lists(records, Held)
    BY DEF Inv, Listed
  <2> HIDE DEF T
  <2>2. Lists(Kept(records, T), Held \cap T)
    BY <1>2, <2>1, KeptLists
  <2>3. Lists(records', Held')
    BY <1>1, <1>8, <2>2
  <2> QED BY <2>3 DEF Listed, Lists
<1> QED BY <1>3, <1>4, <1>7, <1>9 DEF Inv

(* A value is replaced, or nothing but the result changes.                 *)
LEMMA ValueKeeps ==
    ASSUME Inv, recs' \in Seq(Records), Len(recs') = Len(recs),
           \A r \in 1..Len(recs) : /\ recs'[r].empty = recs[r].empty /\ recs'[r].key = recs[r].key
                                   /\ recs'[r].ref_count = recs[r].ref_count,
           UNCHANGED <<records, hash_table, record_count, cur_record, locked>>
    PROVE  Inv' /\ Live' = Live
<1>1. Live' = Live /\ Chained' /\ Counted'
  BY ContentsKept
<1>2. Held' = Held
  BY DEF Held
<1>3. Typed' /\ Positions'
  BY DEF Inv, Typed, Positions
<1>4. Listed'
  <2>1. Lists(records, Held)
    BY DEF Inv, Listed
  <2>2. Lists(records', Held')
    BY <1>2, <2>1
  <2> QED BY <2>2 DEF Listed, Lists
<1>5. Counts'
  BY DEF Inv, Counts, Users
<1> QED BY <1>1, <1>3, <1>4, <1>5 DEF Inv

-----------------------------------------------------------------------------
(* Steps that add and delete records.                                      *)

New(key, value) == [key |-> key, value |-> value, empty |-> FALSE, ref_count |-> 1]
Added(key, value) ==
    /\ Len(recs') = Len(recs) + 1 /\ recs'[Len(recs) + 1] = New(key, value)
    /\ \A r \in 1..Len(recs) : recs'[r] = recs[r]
    /\ Live' = Live \cup {Len(recs) + 1}

LEMMA AddKeeps ==
    ASSUME Inv, NEW key \in Keys, NEW value \in Values, map_add_record(key, value),
           UNCHANGED <<cur_record, locked>>
    PROVE  Inv' /\ Added(key, value)
<1> DEFINE n == Len(recs)
           new == New(key, value)
           full == record_count + 1 >= record_count_threshold
<1>1. /\ n \in Nat /\ Held \in SUBSET Nat /\ Live \in SUBSET Held
      /\ Live \in SUBSET (1..n) /\ Held \in SUBSET (1..n)
      /\ IsFiniteSet(Live) /\ \A r \in 1..n : recs[r] \in Records
  BY LiveHeld
<1>2. PICK size \in Nat \ {0} :
          /\ ChainedBy(size) /\ Bucket(key, hash_table) = Hash(key) % size
          /\ Hash(key) % size \in 0..(size - 1)
  BY FoundInChain
<1> DEFINE b == Hash(key) % size
           chained == [hash_table EXCEPT ![b] = Append(hash_table[b], n + 1)]
<1>3. /\ recs' = Append(recs, new) /\ records' = Append(records, n + 1)
      /\ record_count' = record_count + 1
      /\ hash_table' = IF full THEN Resized(recs', records', chained) ELSE chained
  BY <1>2 DEF map_add_record, New
<1>4. /\ recs' \in Seq(Records) /\ Len(recs') = n + 1 /\ recs'[n + 1] = new
      /\ \A r \in 1..n : recs'[r] = recs[r]
  <2>1. new \in Records
    BY DEF New, Records
  <2>2. recs \in Seq(Records)
    BY DEF Inv, Typed
  <2> HIDE DEF new
  <2> QED BY <1>3, <2>1, <2>2
<1>5. ~new.empty /\ new.key = key /\ new.ref_count = 1
  BY DEF New
<1> HIDE DEF new, full, chained, b
<1>6. /\ 1..(n + 1) = (1..n) \cup {n + 1} /\ n + 1 \notin 1..n /\ n + 1 \in Nat
      /\ \A q \in 1..n : q < n + 1
  BY <1>1
<1> HIDE DEF n
<1>7. Live' = Live \cup {n + 1}
  <2>1. Live' = {r \in 1..(n + 1) : ~recs'[r].empty}
    BY <1>4 DEF Live
  <2> QED BY <1>4, <1>5, <1>6, <2>1 DEF Live, n
<1>8. Held' = Held \cup {n + 1}
  <2>1. Held' = {r \in 1..(n + 1) : recs'[r].ref_count > 0}
    BY <1>4 DEF Held
  <2>2. recs'[n + 1].ref_count > 0
    BY <1>4, <1>5
  <2> QED BY <1>4, <1>6, <2>1, <2>2 DEF Held, n
<1>9. Typed'
  BY <1>4 DEF Typed
<1>10. Positions'
  <2>1. /\ cur_record' \in [Iterators -> (1..n) \cup {Ended, Gone, 0}] /\ locked' \in Seq(1..n)
    BY DEF Inv, Positions, n
  <2>2. cur_record' \in [Iterators -> (1..(n + 1)) \cup {Ended, Gone, 0}]
    BY <1>6, <2>1
  <2>3. \A S, T : S \subseteq T => \A l \in Seq(S) : l \in Seq(T)
    OBVIOUS
  <2>4. locked' \in Seq(1..(n + 1))
    BY <1>6, <2>1, <2>3
  <2> QED BY <1>4, <2>2, <2>4 DEF Positions
<1>11. ASSUME NEW r \in 1..(n + 1)
       PROVE  recs'[r].ref_count = (IF recs'[r].empty THEN 0 ELSE 1) + Users(r, cur_record, locked)
  <2>1. CASE r \in 1..n
    <3>1. recs'[r] = recs[r]
      BY <1>4, <2>1
    <3> QED BY <2>1, <3>1 DEF Inv, Counts, n
  <2>2. CASE r = n + 1
    <3>1. {i \in Iterators : cur_record[i] = r} = {}
      <4>1. \A i \in Iterators : cur_record[i] \in (1..n) \cup {Ended, Gone, 0}
        BY DEF Inv, Positions, n
      <4>2. r \notin (1..n) \cup {Ended, Gone, 0}
        BY <1>1, <2>2 DEF Ended, Gone, n
      <4> QED BY <4>1, <4>2
    <3>2. {j \in 1..Len(locked) : locked[j] = r} = {}
      <4>1. \A j \in 1..Len(locked) : locked[j] \in 1..n
        BY DEF Inv, Positions, n
      <4> QED BY <1>6, <2>2, <4>1
    <3>3. Users(r, cur_record, locked) = 0
      <4>1. Cardinality({}) = 0
        BY FS_EmptySet
      <4>2. Users(r, cur_record, locked) = 0 + 0
        BY <3>1, <3>2, <4>1 DEF Users
      <4> QED BY <4>2
    <3> QED BY <1>4, <1>5, <2>2, <3>3
  <2> QED BY <1>6, <2>1, <2>2
<1>12. Counts'
  BY <1>4, <1>11 DEF Counts, Users
<1>13. Lists(records', Held')
  <2>1. Lists(records, Held)
    BY DEF Inv, Listed
  <2>2. \A q \in Held : q < n + 1
    BY <1>1, <1>6 DEF n
  <2> QED BY <1>1, <1>3, <1>6, <1>8, <2>1, <2>2, ListsAppend
<1>14. Counted'
  <2>1. n + 1 \notin Live
    BY <1>1, <1>6 DEF n
  <2>2. Cardinality(Live \cup {n + 1}) = Cardinality(Live) + 1
    BY <1>1, <2>1, FS_AddElement
  <2> QED BY <1>3, <1>7, <2>2 DEF Inv, Counted
<1> DEFINE Chain(c, s) == {r \in Live' : Hash(recs'[r].key) % s = c}
<1>15. ASSUME NEW c \in 0..(size - 1) PROVE Lists(chained[c], Chain(c, size))
  <2>1. Lists(hash_table[c], InChain(c, size)) /\ DOMAIN hash_table = 0..(size - 1)
    BY <1>2 DEF ChainedBy
  <2>2. \A r \in Live : recs'[r].key = recs[r].key
    BY <1>1, <1>4 DEF n
  <2>3. recs'[n + 1].key = key
    BY <1>4, <1>5
  <2>4. CASE c = b
    <3>1. Chain(c, size) = InChain(c, size) \cup {n + 1}
      BY <1>7, <2>2, <2>3, <2>4 DEF InChain, b
    <3>2. chained[c] = Append(hash_table[c], n + 1)
      BY <2>1, <2>4 DEF chained
    <3>3. InChain(c, size) \in SUBSET Nat /\ \A q \in InChain(c, size) : q < n + 1
      BY <1>1, <1>6 DEF InChain, n
    <3> HIDE DEF Chain
    <3> QED BY <1>6, <2>1, <3>1, <3>2, <3>3, ListsAppend
  <2>5. CASE c # b
    <3>1. Chain(c, size) = InChain(c, size)
      BY <1>7, <2>2, <2>3, <2>5 DEF InChain, b
    <3>2. chained[c] = hash_table[c]
      BY <2>1, <2>5 DEF chained
    <3> QED BY <2>1, <3>1, <3>2
  <2> QED BY <2>4, <2>5
<1>16. DOMAIN chained = 0..(size - 1)
  BY <1>2 DEF ChainedBy, chained
<1>17. \E s \in Nat \ {0} : /\ DOMAIN hash_table' = 0..(s - 1)
                            /\ \A c \in 0..(s - 1) : Lists(hash_table'[c], Chain(c, s))
  <2>1. CASE ~full
    <3>1. hash_table' = chained
      BY <1>3, <2>1
    <3> HIDE DEF Chain
    <3> QED BY <1>15, <1>16, <3>1
  <2>2. CASE full
    <3> DEFINE s == IF size = 1 THEN 4 ELSE 2 * size
    <3>1. s \in Nat \ {0}
      OBVIOUS
    <3>2. Cardinality(DOMAIN chained) = size
      <4>1. Cardinality(0..(size - 1)) = IF 0 > size - 1 THEN 0 ELSE size - 1 - 0 + 1
        <5>1. 0 \in Int /\ size - 1 \in Int
          OBVIOUS
        <5> QED BY <5>1, FS_Interval
      <4> QED BY <1>16, <4>1
    <3>3. hash_table' = Rehashed(recs', records', s)
      BY <1>3, <2>2, <3>2 DEF Resized
    <3> HIDE DEF s
    <3> DEFINE T(c) == {r \in 1..Len(recs') : ~recs'[r].empty /\ Hash(recs'[r].key) % s = c}
    <3>4. hash_table' = [c \in 0..(s - 1) |-> Kept(records', T(c))]
      BY <3>3 DEF Rehashed
    <3>5. ASSUME NEW c \in 0..(s - 1) PROVE Lists(hash_table'[c], Chain(c, s))
      <4>1. Held' \in SUBSET Nat
        BY <1>1, <1>6, <1>8
      <4>2. Held' \cap T(c) = Chain(c, s)
        <5>1. Live' \in SUBSET Held'
          BY <1>1, <1>7, <1>8
        <5>2. T(c) = {r \in Live' : Hash(recs'[r].key) % s = c}
          BY DEF Live
        <5> QED BY <5>1, <5>2
      <4> HIDE DEF T, Chain
      <4>3. Lists(Kept(records', T(c)), Held' \cap T(c))
        BY <1>13, <4>1, KeptLists
      <4> QED BY <3>4, <4>2, <4>3
    <3> HIDE DEF Chain, T
    <3> QED BY <3>1, <3>4, <3>5
  <2> QED BY <2>1, <2>2
<1>18. Chained'
  BY <1>17 DEF Chained, ChainedBy, InChain, Lists
<1>19. Listed'
  BY <1>13 DEF Listed, Lists
<1>20. Inv'
  BY <1>9, <1>10, <1>12, <1>14, <1>18, <1>19 DEF Inv
<1> QED BY <1>4, <1>7, <1>20 DEF Added, new, n

Deleted(dead) ==
    /\ Len(recs') = Len(recs) /\ Live' = Live \ dead
    /\ \A r \in 1..Len(recs) : IF r \in dead THEN recs'[r].empty ELSE recs'[r] = recs[r]

LEMMA DeleteKeeps ==
    ASSUME Inv, NEW dead \in SUBSET Live, map_delete_record(dead), UNCHANGED <<cur_record, locked>>
    PROVE  Inv' /\ Deleted(dead)
<1> DEFINE n == Len(recs)
<1>1. /\ n \in Nat /\ Held \in SUBSET Nat /\ Live \in SUBSET Held
      /\ Live \in SUBSET (1..n) /\ Held \in SUBSET (1..n)
      /\ IsFiniteSet(Live) /\ \A r \in 1..n : recs[r] \in Records
  BY LiveHeld
<1>2. /\ recs' = [r \in 1..n |->
                     IF r \notin dead THEN recs[r]
                     ELSE [Decremented(r, recs)[r] EXCEPT !.empty = TRUE, !.value = Undefined]]
      /\ records' = Kept(records, {r \in 1..n : recs'[r].ref_count > 0})
      /\ hash_table' = [b \in DOMAIN hash_table |-> Kept(hash_table[b], (1..n) \ dead)]
      /\ record_count' = record_count - Cardinality(dead)
  BY DEF map_delete_record
<1> HIDE DEF n
<1>3. ASSUME NEW r \in 1..n
      PROVE  /\ recs'[r] \in Records
             /\ r \notin dead => recs'[r] = recs[r]
             /\ r \in dead => /\ recs'[r].empty /\ recs'[r].key = recs[r].key
                              /\ recs'[r].ref_count = recs[r].ref_count - 1
  <2>1. recs[r] \in Records
    BY <1>1
  <2>2. CASE r \notin dead
    BY <1>2, <2>1, <2>2
  <2>3. CASE r \in dead
    <3>1. Decremented(r, recs)[r] = [recs[r] EXCEPT !.ref_count = recs[r].ref_count - 1]
      BY DEF Decremented, Inv, Typed, n
    <3>2. recs'[r] = [Decremented(r, recs)[r] EXCEPT !.empty = TRUE, !.value = Undefined]
      BY <1>2, <2>3
    <3> DEFINE d == Decremented(r, recs)[r]
    <3>3. d \in Records /\ d.key = recs[r].key /\ d.ref_count = recs[r].ref_count - 1
      BY <2>1, <3>1 DEF Records
    <3> HIDE DEF d
    <3>4. recs'[r] \in Records /\ recs'[r].empty = TRUE
      BY <3>2, <3>3 DEF Records, d
    <3>5. recs'[r].key = d.key /\ recs'[r].ref_count = d.ref_count
      BY <3>2, <3>3 DEF Records, d
    <3> QED BY <2>3, <3>3, <3>4, <3>5
  <2> QED BY <2>2, <2>3
<1>4. recs' \in Seq(Records) /\ Len(recs') = n
  <2>1. recs' \in [1..n -> Records]
    <3>1. DOMAIN recs' = 1..n /\ recs' = [r \in DOMAIN recs' |-> recs'[r]]
      BY <1>2
    <3> QED BY <1>3, <3>1
  <2>2. \A f \in [1..n -> Records] : f \in Seq(Records) /\ Len(f) = n
    BY <1>1
  <2> QED BY <2>1, <2>2
<1>5. Live' = Live \ dead
  <2>1. Live' = {r \in 1..n : ~recs'[r].empty}
    BY <1>4 DEF Live
  <2> QED BY <1>3, <2>1 DEF Live, n
<1>6. Typed' /\ Positions'
  BY <1>4 DEF Typed, Inv, Positions, n
<1>7. ASSUME NEW r \in 1..n
      PROVE  /\ recs'[r].ref_count = (IF recs'[r].empty THEN 0 ELSE 1) + Users(r, cur_record, locked)
             /\ recs'[r].ref_count > 0 => recs[r].ref_count > 0
  <2>1. recs[r].ref_count = (IF recs[r].empty THEN 0 ELSE 1) + Users(r, cur_record, locked)
    BY DEF Inv, Counts, n
  <2>2. Users(r, cur_record, locked) \in Nat
    BY UsersType DEF Inv, Positions
  <2>3. CASE r \notin dead
    BY <1>3, <2>1, <2>3
  <2>4. CASE r \in dead
    <3>1. recs[r].ref_count = 1 + Users(r, cur_record, locked)
      BY <2>1, <2>4 DEF Live
    <3> QED BY <1>3, <2>2, <2>4, <3>1
  <2> QED BY <2>3, <2>4
<1>8. Counts'
  BY <1>4, <1>7 DEF Counts, Users
<1>9. Listed'
  <2> DEFINE T == {r \in 1..n : recs'[r].ref_count > 0}
  <2>1. Held' = T
    BY <1>4 DEF Held
  <2>2. T \in SUBSET Held
    BY <1>7 DEF Held, n
  <2>3. Lists(records, Held)
    BY DEF Inv, Listed
  <2>4. records' = Kept(records, T)
    BY <1>2
  <2> HIDE DEF T
  <2>5. Lists(Kept(records, T), Held \cap T)
    BY <1>1, <2>3, KeptLists
  <2>6. Held \cap T = Held'
    BY <2>1, <2>2
  <2>7. Lists(records', Held')
    BY <2>4, <2>5, <2>6
  <2> QED BY <2>7 DEF Listed, Lists
<1>10. Chained'
  <2>1. PICK size \in Nat \ {0} : ChainedBy(size)
    BY DEF Inv, Chained
  <2> DEFINE Chain(c) == {r \in Live' : Hash(recs'[r].key) % size = c}
  <2>2. DOMAIN hash_table' = 0..(size - 1)
    BY <1>2, <2>1 DEF ChainedBy
  <2>3. ASSUME NEW c \in 0..(size - 1) PROVE Lists(hash_table'[c], Chain(c))
    <3>1. Lists(hash_table[c], InChain(c, size)) /\ c \in DOMAIN hash_table
      BY <2>1 DEF ChainedBy
    <3>2. InChain(c, size) \in SUBSET Nat
      BY <1>1 DEF InChain
    <3>3. Lists(Kept(hash_table[c], (1..n) \ dead), InChain(c, size) \cap ((1..n) \ dead))
      BY <3>1, <3>2, KeptLists
    <3>4. InChain(c, size) \cap ((1..n) \ dead) = Chain(c)
      BY <1>1, <1>3, <1>5 DEF InChain
    <3> HIDE DEF Chain
    <3> QED BY <1>2, <3>1, <3>3, <3>4
  <2>4. ChainedBy(size)'
    BY <2>2, <2>3 DEF ChainedBy, InChain, Lists
  <2> QED BY <2>4 DEF Chained
<1>11. Counted'
  <2>1. Cardinality(Live \ dead) = Cardinality(Live) - Cardinality(Live \cap dead)
    BY <1>1, FS_Difference
  <2>2. Live \cap dead = dead
    OBVIOUS
  <2> QED BY <1>2, <1>5, <2>1, <2>2 DEF Inv, Counted
<1>12. Inv'
  BY <1>6, <1>8, <1>9, <1>10, <1>11 DEF Inv
<1> QED BY <1>3, <1>4, <1>5, <1>12 DEF Deleted, n

(* The value of the record that has the key is replaced.                   *)
LEMMA ReplaceKeeps ==
    ASSUME Inv, NEW r \in Live, NEW value \in Values, recs' = [recs EXCEPT ![r].value = value],
           UNCHANGED <<records, hash_table, record_count, cur_record, locked>>
    PROVE  /\ Inv' /\ Live' = Live /\ Len(recs') = Len(recs)
           /\ \A q \in 1..Len(recs) : recs'[q] = IF q = r THEN [recs[r] EXCEPT !.value = value] ELSE recs[q]
           /\ \A q \in Live : recs'[q].key = recs[q].key
<1>1. /\ Len(recs) \in Nat /\ Live \in SUBSET (1..Len(recs))
      /\ \A q \in 1..Len(recs) : recs[q] \in Records
  BY LiveHeld
<1>2. recs \in Seq(Records)
  BY DEF Inv, Typed
<1>3. Len(recs') = Len(recs) /\ DOMAIN recs' = 1..Len(recs)
  BY <1>2
<1>4. ASSUME NEW q \in 1..Len(recs)
      PROVE  /\ recs'[q] = IF q = r THEN [recs[r] EXCEPT !.value = value] ELSE recs[q]
             /\ recs'[q] \in Records
             /\ recs'[q].empty = recs[q].empty /\ recs'[q].key = recs[q].key
             /\ recs'[q].ref_count = recs[q].ref_count
  <2>1. recs[q] \in Records
    BY <1>1
  <2>2. recs'[q] = IF q = r THEN [recs[r] EXCEPT !.value = value] ELSE recs[q]
    BY <1>2
  <2>3. CASE q = r
    BY <2>1, <2>2, <2>3 DEF Records
  <2>4. CASE q # r
    BY <2>1, <2>2, <2>4
  <2> QED BY <2>2, <2>3, <2>4
<1>5. recs' \in Seq(Records)
  <2>1. recs' \in [1..Len(recs) -> Records]
    <3>1. recs' = [q \in DOMAIN recs' |-> recs'[q]]
      BY <1>2
    <3> QED BY <1>3, <1>4, <3>1
  <2>2. \A k \in Nat : \A f \in [1..k -> Records] : f \in Seq(Records)
    OBVIOUS
  <2> QED BY <1>1, <2>1, <2>2
<1>6. Inv' /\ Live' = Live
  BY <1>3, <1>4, <1>5, ValueKeeps
<1> QED BY <1>1, <1>3, <1>4, <1>6

-----------------------------------------------------------------------------
(* Steps that move iterators and loops.                                    *)

ContentsSame ==
    /\ Len(recs') = Len(recs) /\ Live' = Live
    /\ \A r \in 1..Len(recs) : /\ recs'[r].empty = recs[r].empty /\ recs'[r].key = recs[r].key
                              /\ recs'[r].value = recs[r].value

(* Nothing moves, or an iterator is made.                                  *)
LEMMA RestKeeps ==
    ASSUME Inv, UNCHANGED <<recs, records, hash_table, record_count, locked>>,
           cur_record' \in [Iterators -> (1..Len(recs)) \cup {Ended, Gone, 0}],
           \A r \in 1..Len(recs) : Users(r, cur_record', locked) = Users(r, cur_record, locked)
    PROVE  Inv' /\ ContentsSame
<1>1. Live' = Live /\ Held' = Held
  BY DEF Live, Held
<1>2. Typed' /\ Positions' /\ Counted'
  BY <1>1 DEF Inv, Typed, Positions, Counted
<1>3. \A r \in 1..Len(recs') :
          recs'[r].ref_count = (IF recs'[r].empty THEN 0 ELSE 1) + Users(r, cur_record', locked')
  BY DEF Inv, Counts
<1>4. Counts'
  BY <1>3 DEF Counts, Users
<1>5. Chained'
  BY ContentsKept
<1>6. Listed'
  <2>1. Lists(records, Held)
    BY DEF Inv, Listed
  <2>2. Lists(records', Held')
    BY <1>1, <2>1
  <2> QED BY <2>2 DEF Listed, Lists
<1> QED BY <1>1, <1>2, <1>4, <1>5, <1>6 DEF Inv, ContentsSame

LEMMA MovedSame ==
    ASSUME Inv, NEW from \in Held \cup {0}, NEW to \in SUBSET Live, Move(from, to)
    PROVE  ContentsSame
<1>1. Moved(from, to)
  BY MoveRecords
<1>2. Len(recs') = Len(recs) /\ UNCHANGED <<hash_table, record_count>>
  BY <1>1 DEF Moved
<1>3. \A r \in 1..Len(recs) : /\ recs'[r].empty = recs[r].empty /\ recs'[r].key = recs[r].key
                              /\ recs'[r].value = recs[r].value
  BY <1>1 DEF Moved
<1>4. Live' = Live
  BY <1>2, <1>3 DEF Live
<1> QED BY <1>2, <1>3, <1>4 DEF ContentsSame

(* An iterator leaves its record and goes to x.                            *)
LEMMA IteratorMoves ==
    ASSUME Inv, NEW i \in Iterators, cur_record[i] # Gone, NEW x, NEW to,
           (to = {} /\ x \in {Ended, Gone}) \/ (x \in Live /\ to = {x}),
           Move(IF cur_record[i] = Ended THEN 0 ELSE cur_record[i], to),
           cur_record' = [cur_record EXCEPT ![i] = x], UNCHANGED locked
    PROVE  Inv' /\ ContentsSame
<1> DEFINE from == IF cur_record[i] = Ended THEN 0 ELSE cur_record[i]
           V == (1..Len(recs)) \cup {Ended, Gone, 0}
<1>1. cur_record \in [Iterators -> V] /\ locked \in Seq(1..Len(recs))
  BY DEF Inv, Positions
<1>2. to \in SUBSET Live /\ x \in V
  BY LiveHeld
<1>3. from \in Held \cup {0} /\ (from # 0 => Users(from, cur_record, locked) >= 1)
  BY PositionsHeld
<1>4. cur_record' \in [Iterators -> V]
  BY <1>1, <1>2
<1>5. ASSUME NEW r \in 1..Len(recs)
      PROVE  Users(r, cur_record', locked') =
               Users(r, cur_record, locked) - (IF r = from THEN 1 ELSE 0) + (IF r \in to THEN 1 ELSE 0)
  <2>1. Users(r, cur_record', locked') =
            Users(r, cur_record, locked) - (IF cur_record[i] = r THEN 1 ELSE 0) + (IF x = r THEN 1 ELSE 0)
    <3>1. Goes(cur_record, cur_record', i, x)
      BY <1>1 DEF Goes
    <3>2. Users(r, cur_record', locked) =
            Users(r, cur_record, locked) - (IF cur_record[i] = r THEN 1 ELSE 0) + (IF x = r THEN 1 ELSE 0)
      BY <1>1, <3>1, UsersIterator
    <3> QED BY <3>2
  <2>2. r # 0 /\ r # Ended /\ r # Gone
    BY LiveHeld DEF Ended, Gone
  <2>3. cur_record[i] = r <=> r = from
    BY <2>2
  <2>4. x = r <=> r \in to
    BY <2>2
  <2> HIDE DEF from
  <2> QED BY <2>1, <2>3, <2>4
<1>6. Move(from, to) /\ locked' \in Seq(1..Len(recs))
  BY <1>1
<1> HIDE DEF from
<1>7. Inv'
  BY <1>2, <1>3, <1>4, <1>5, <1>6, MoveKeeps DEF V
<1> QED BY <1>2, <1>3, <1>6, <1>7, MovedSame

(* A loop leaves its record, or enters the list, and gets to x or ends.    *)
LEMMA LoopMoves ==
    ASSUME Inv, NEW from, NEW outer, NEW to, Move(from, to), UNCHANGED cur_record,
           (from = 0 /\ outer = locked) \/ (locked # <<>> /\ from = locked[Len(locked)] /\ outer = Outer),
           (to = {} /\ locked' = outer) \/ (\E x \in Live : to = {x} /\ locked' = Append(outer, x))
    PROVE  Inv' /\ ContentsSame
<1> DEFINE R == 1..Len(recs)
<1>1. cur_record \in [Iterators -> R \cup {Ended, Gone, 0}] /\ locked \in Seq(R)
  BY DEF Inv, Positions
<1>2. Live \in SUBSET R /\ \A r \in R : r # 0
  BY LiveHeld
<1> HIDE DEF R
<1>3. from \in Held \cup {0} /\ (from # 0 => Users(from, cur_record, locked) >= 1)
  BY PositionsHeld
<1>4. /\ outer \in Seq(R)
      /\ \A r \in R : Users(r, cur_record, outer) =
              Users(r, cur_record, locked) - (IF r = from THEN 1 ELSE 0)
  <2>1. CASE from = 0 /\ outer = locked
    <3>1. \A r \in R : Users(r, cur_record, locked) \in Nat
      BY <1>1, UsersType
    <3> QED BY <1>1, <1>2, <2>1, <3>1
  <2>2. CASE locked # <<>> /\ from = locked[Len(locked)] /\ outer = Outer
    <3>1. \A r \in R : Users(r, cur_record, SubSeq(locked, 1, Len(locked) - 1)) =
                           Users(r, cur_record, locked) - (IF locked[Len(locked)] = r THEN 1 ELSE 0)
      BY <1>1, <2>2, UsersOuter
    <3>2. SubSeq(locked, 1, Len(locked) - 1) \in Seq(R)
      BY <1>1
    <3> QED BY <2>2, <3>1, <3>2 DEF Outer
  <2> QED BY <2>1, <2>2
<1>5. to \in SUBSET Live
  OBVIOUS
<1>6. ASSUME NEW r \in R
      PROVE  /\ Users(r, cur_record', locked') =
                   Users(r, cur_record, locked) - (IF r = from THEN 1 ELSE 0) + (IF r \in to THEN 1 ELSE 0)
             /\ locked' \in Seq(R)
  <2>1. Users(r, cur_record, outer) \in Nat
    BY <1>4, UsersType
  <2>2. CASE to = {} /\ locked' = outer
    BY <1>4, <2>1, <2>2
  <2>3. CASE \E x \in Live : to = {x} /\ locked' = Append(outer, x)
    <3>1. PICK x \in Live : to = {x} /\ locked' = Append(outer, x)
      BY <2>3
    <3>2. x \in R
      BY <1>2
    <3>3. Users(r, cur_record, Append(outer, x)) = Users(r, cur_record, outer) + (IF x = r THEN 1 ELSE 0)
      BY <1>4, <3>2, UsersCalled
    <3>4. Append(outer, x) \in Seq(R)
      BY <1>4, <3>2
    <3>5. r \in to <=> x = r
      BY <3>1
    <3> QED BY <1>4, <3>1, <3>3, <3>4, <3>5
  <2> QED BY <2>2, <2>3
<1>7. locked' \in Seq(R)
  BY <1>2, <1>4
<1>8. Inv'
  BY <1>1, <1>3, <1>5, <1>6, <1>7, MoveKeeps DEF R
<1> QED BY <1>3, <1>5, <1>8, MovedSame

-----------------------------------------------------------------------------
(* The invariant holds at first and is kept by every step.                 *)

LEMMA InitInv == Init => Inv
<1> SUFFICES ASSUME Init PROVE Inv
  OBVIOUS
<1>1. recs = <<>> /\ Len(recs) = 0 /\ Live = {} /\ Held = {}
  BY DEF Init, Live, Held
<1>2. Typed /\ Positions /\ Counts
  BY <1>1 DEF Init, Typed, Positions, Counts
<1>3. Listed
  BY <1>1, ListsEmpty DEF Init, Listed
<1>4. ChainedBy(1)
  <2>1. \A b : InChain(b, 1) = {}
    BY <1>1 DEF InChain
  <2>2. DOMAIN hash_table = 0..(1 - 1) /\ \A b \in 0..(1 - 1) : hash_table[b] = <<>>
    BY DEF Init
  <2> QED BY <2>1, <2>2, ListsEmpty DEF ChainedBy
<1>5. Counted
  BY <1>1, FS_EmptySet DEF Init, Counted
<1>6. Chained
  BY <1>4 DEF Chained
<1> QED BY <1>2, <1>3, <1>5, <1>6 DEF Inv

(* What a step makes of the records that are not empty.                    *)
Effects ==
    \/ ContentsSame
    \/ \E key \in Keys, value \in Values : map_find_record(key) = {} /\ Added(key, value)
    \/ \E dead \in SUBSET Live : Deleted(dead)
    \/ Live' = Live /\ \A q \in Live : recs'[q].key = recs[q].key

LEMMA SetKeeps ==
    ASSUME Inv, NEW key \in Keys, NEW value \in Values, js_map_set(key, value)
    PROVE  Inv' /\ Effects
<1>1. UNCHANGED <<cur_record, locked>>
  BY DEF js_map_set
<1>2. CASE map_find_record(key) = {} /\ map_add_record(key, value)
  <2>1. Inv' /\ Added(key, value)
    BY <1>1, <1>2, AddKeeps
  <2> QED BY <1>2, <2>1 DEF Effects
<1>3. CASE \E r \in map_find_record(key) :
             /\ recs' = [recs EXCEPT ![r].value = value]
             /\ UNCHANGED <<records, hash_table, record_count, record_count_threshold>>
  <2>1. PICK r \in map_find_record(key) :
             /\ recs' = [recs EXCEPT ![r].value = value]
             /\ UNCHANGED <<records, hash_table, record_count, record_count_threshold>>
    BY <1>3
  <2>2. r \in Live
    BY FoundLive
  <2>3. Inv' /\ Live' = Live /\ \A q \in Live : recs'[q].key = recs[q].key
    BY <1>1, <2>1, <2>2, ReplaceKeeps
  <2> QED BY <2>3 DEF Effects
<1> QED BY <1>2, <1>3 DEF js_map_set

LEMMA DeleteAllKeeps ==
    ASSUME Inv, js_map_clear \/ \E key \in Keys : js_map_delete(key)
    PROVE  Inv' /\ Effects
<1>1. \E dead \in SUBSET Live : map_delete_record(dead)
  <2>1. CASE js_map_clear
    BY <2>1 DEF js_map_clear, Live
  <2>2. CASE \E key \in Keys : js_map_delete(key)
    <3>1. PICK key \in Keys : js_map_delete(key)
      BY <2>2
    <3>2. map_find_record(key) \in SUBSET Live
      BY FoundLive
    <3> QED BY <3>1, <3>2 DEF js_map_delete
  <2> QED BY <2>1, <2>2
<1>2. UNCHANGED <<cur_record, locked>>
  BY DEF js_map_clear, js_map_delete
<1>3. PICK dead \in SUBSET Live : map_delete_record(dead)
  BY <1>1
<1>4. Inv' /\ Deleted(dead)
  BY <1>2, <1>3, DeleteKeeps
<1> QED BY <1>4 DEF Effects

(* Steps that change no record and no chain.                               *)
LEMMA QuietKeeps ==
    ASSUME Inv,
           \/ UNCHANGED <<recs, records, hash_table, record_count, cur_record, locked>>
           \/ \E i \in Iterators : js_create_map_iterator(i)
    PROVE  Inv' /\ ContentsSame
<1>1. /\ cur_record \in [Iterators -> (1..Len(recs)) \cup {Ended, Gone, 0}]
      /\ locked \in Seq(1..Len(recs)) /\ Len(recs) \in Nat
  BY LiveHeld DEF Inv, Positions
<1>2. CASE UNCHANGED <<recs, records, hash_table, record_count, cur_record, locked>>
  BY <1>1, <1>2, RestKeeps
<1>3. CASE \E i \in Iterators : js_create_map_iterator(i)
  <2>1. PICK i \in Iterators : js_create_map_iterator(i)
    BY <1>3
  <2>2. /\ cur_record[i] = Gone /\ cur_record' = [cur_record EXCEPT ![i] = 0]
        /\ UNCHANGED <<recs, records, hash_table, record_count, locked>>
    BY <2>1 DEF js_create_map_iterator
  <2>3. cur_record' \in [Iterators -> (1..Len(recs)) \cup {Ended, Gone, 0}]
    BY <1>1, <2>2
  <2>4. Goes(cur_record, cur_record', i, 0)
    BY <1>1, <2>2 DEF Goes
  <2>5. ASSUME NEW r \in 1..Len(recs)
        PROVE  Users(r, cur_record', locked) = Users(r, cur_record, locked)
    <3>1. Users(r, cur_record', locked) = Users(r, cur_record, locked)
              - (IF cur_record[i] = r THEN 1 ELSE 0) + (IF 0 = r THEN 1 ELSE 0)
      BY <1>1, <2>4, UsersIterator
    <3>2. cur_record[i] # r /\ 0 # r
      BY <1>1, <2>2 DEF Gone
    <3>3. Users(r, cur_record, locked) \in Nat
      BY <1>1, UsersType
    <3> QED BY <3>1, <3>2, <3>3
  <2> QED BY <2>2, <2>3, <2>5, RestKeeps
<1> QED BY <1>2, <1>3

LEMMA NextLive ==
    ASSUME Inv
    PROVE  /\ \A i \in Iterators : cur_record[i] \notin {Ended, Gone} =>
                  NextRecord(cur_record[i]) \in SUBSET Live
           /\ NextRecord(0) \in SUBSET Live
           /\ locked # <<>> => NextRecord(locked[Len(locked)]) \in SUBSET Live
<1>1. \A pos \in Held \cup {0} : NextRecord(pos) \in SUBSET Live
  BY NextFound DEF LeastAfter
<1> QED BY <1>1, PositionsHeld

LEMMA IteratorKeeps ==
    ASSUME Inv, NEW i \in Iterators, js_map_iterator_finalizer(i) \/ js_map_iterator_next(i)
    PROVE  Inv' /\ ContentsSame
<1>1. CASE js_map_iterator_finalizer(i)
  <2>1. /\ cur_record[i] # Gone /\ UNCHANGED locked
        /\ Move(IF cur_record[i] = Ended THEN 0 ELSE cur_record[i], {})
        /\ cur_record' = [cur_record EXCEPT ![i] = Gone]
    BY <1>1 DEF js_map_iterator_finalizer
  <2> QED BY <2>1, IteratorMoves
<1>2. CASE js_map_iterator_next(i)
  <2>1. cur_record[i] # Gone /\ UNCHANGED locked
    BY <1>2 DEF js_map_iterator_next
  <2>2. CASE UNCHANGED <<recs, records, hash_table, record_count, record_count_threshold, cur_record>>
    BY <2>1, <2>2, QuietKeeps
  <2>3. CASE /\ cur_record[i] # Ended /\ Move(cur_record[i], {})
             /\ cur_record' = [cur_record EXCEPT ![i] = Ended]
    BY <2>1, <2>3, IteratorMoves
  <2>4. CASE /\ cur_record[i] # Ended
             /\ \E r \in NextRecord(cur_record[i]) :
                    Move(cur_record[i], {r}) /\ cur_record' = [cur_record EXCEPT ![i] = r]
    <3>1. PICK r \in NextRecord(cur_record[i]) :
              Move(cur_record[i], {r}) /\ cur_record' = [cur_record EXCEPT ![i] = r]
      BY <2>4
    <3>2. r \in Live
      BY <2>1, <2>4, NextLive
    <3> QED BY <2>1, <2>4, <3>1, <3>2, IteratorMoves
  <2> QED BY <1>2, <2>2, <2>3, <2>4 DEF js_map_iterator_next
<1> QED BY <1>1, <1>2

LEMMA LoopKeeps ==
    ASSUME Inv, js_map_forEach \/ CallbackReturns \/ CallbackThrows
    PROVE  Inv' /\ ContentsSame
<1>1. ASSUME NEW outer, NEW from, Call(outer, from), UNCHANGED cur_record,
             (from = 0 /\ outer = locked) \/ (locked # <<>> /\ from = locked[Len(locked)] /\ outer = Outer)
      PROVE  Inv' /\ ContentsSame
  <2>1. NextRecord(from) \in SUBSET Live
    BY <1>1, NextLive
  <2>2. CASE \E r \in NextRecord(from) : Move(from, {r}) /\ locked' = Append(outer, r)
    <3>1. PICK r \in NextRecord(from) : Move(from, {r}) /\ locked' = Append(outer, r)
      BY <2>2
    <3>2. \E x \in Live : {r} = {x} /\ locked' = Append(outer, x)
      BY <2>1, <3>1
    <3> QED BY <1>1, <3>1, <3>2, LoopMoves
  <2>3. CASE Move(from, {}) /\ locked' = outer
    BY <1>1, <2>3, LoopMoves
  <2> QED BY <1>1, <2>2, <2>3 DEF Call
<1>2. CASE js_map_forEach
  BY <1>1, <1>2 DEF js_map_forEach
<1>3. CASE CallbackReturns
  BY <1>1, <1>3 DEF CallbackReturns
<1>4. CASE CallbackThrows
  <2>1. locked # <<>> /\ Move(locked[Len(locked)], {}) /\ locked' = Outer /\ UNCHANGED cur_record
    BY <1>4 DEF CallbackThrows
  <2> QED BY <2>1, LoopMoves
<1> QED BY <1>2, <1>3, <1>4

LEMMA NextInv == Inv /\ [Next]_vars => Inv' /\ Effects
<1> SUFFICES ASSUME Inv, [Next]_vars PROVE Inv' /\ Effects
  OBVIOUS
<1>1. ASSUME NEW k \in Keys, js_map_get(k) PROVE Inv' /\ Effects
  BY <1>1, QuietKeeps DEF js_map_get, Effects
<1>2. ASSUME NEW k \in Keys, js_map_delete(k) PROVE Inv' /\ Effects
  BY <1>2, DeleteAllKeeps
<1>3. ASSUME NEW k \in Keys, NEW v \in Values, js_map_set(k, v) PROVE Inv' /\ Effects
  BY <1>3, SetKeeps
<1>4. CASE js_map_get_size
  BY <1>4, QuietKeeps DEF js_map_get_size, Effects
<1>5. CASE js_map_clear
  BY <1>5, DeleteAllKeeps
<1>6. CASE js_map_forEach \/ CallbackReturns \/ CallbackThrows
  BY <1>6, LoopKeeps DEF Effects
<1>7. ASSUME NEW i \in Iterators, js_create_map_iterator(i) PROVE Inv' /\ Effects
  BY <1>7, QuietKeeps DEF Effects
<1>8. ASSUME NEW i \in Iterators, js_map_iterator_finalizer(i) \/ js_map_iterator_next(i)
      PROVE  Inv' /\ Effects
  BY <1>8, IteratorKeeps DEF Effects
<1>9. CASE UNCHANGED vars
  BY <1>9, QuietKeeps DEF vars, Effects
<1> QED BY <1>1, <1>2, <1>3, <1>4, <1>5, <1>6, <1>7, <1>8, <1>9 DEF Next

LEMMA NextDistinct == HashesAgree /\ Inv /\ Distinct /\ [Next]_vars => Distinct'
<1> SUFFICES ASSUME HashesAgree, Inv, Distinct, [Next]_vars PROVE Distinct'
  OBVIOUS
<1>1. Inv' /\ Effects
  BY NextInv
<1>2. Live \in SUBSET (1..Len(recs)) /\ Len(recs) \in Nat
  BY LiveHeld
<1>3. CASE \E dead \in SUBSET Live : Deleted(dead)
  <2>1. PICK dead \in SUBSET Live : Deleted(dead)
    BY <1>3
  <2>2. \A r \in Live' : r \in Live /\ recs'[r] = recs[r]
    BY <1>2, <2>1 DEF Deleted
  <2> QED BY <2>2 DEF Distinct, SameValueZero
<1>4. CASE ContentsSame \/ (Live' = Live /\ \A q \in Live : recs'[q].key = recs[q].key)
  <2>1. \A r \in Live' : r \in Live /\ recs'[r].key = recs[r].key
    BY <1>2, <1>4 DEF ContentsSame
  <2> QED BY <2>1 DEF Distinct, SameValueZero
<1>5. CASE \E key \in Keys, value \in Values : map_find_record(key) = {} /\ Added(key, value)
  <2>1. PICK key \in Keys, value \in Values : map_find_record(key) = {} /\ Added(key, value)
    BY <1>5
  <2>2. SameKey(key) = {}
    BY <2>1, FoundExact
  <2>3. \A r \in Live : recs'[r].key = recs[r].key /\ recs[r].key.num # key.num
    BY <1>2, <2>1, <2>2 DEF SameKey, SameValueZero, Added
  <2>4. Live' = Live \cup {Len(recs) + 1} /\ recs'[Len(recs) + 1].key = key
    BY <2>1 DEF Added, New
  <2> QED BY <2>3, <2>4 DEF Distinct, SameValueZero
<1> QED BY <1>1, <1>3, <1>4, <1>5 DEF Effects

-----------------------------------------------------------------------------
(* A record has one reference for the map and one for every iterator and   *)
(* loop at it, and is in the list exactly while it has one                 *)
(* (map_delete_record, map_decref_record).                                 *)
THEOREM RecordsAreHeld == Spec => []RecordsHeldExactly
<1>1. Inv /\ [Next]_vars => Inv'
  BY NextInv
<1>2. Inv => RecordsHeldExactly
  BY DEF Inv, RecordsHeldExactly, Counts, Listed, Held
<1> QED BY InitInv, <1>1, <1>2, PTL DEF Spec

(* A key that was set and not deleted is found at the one record that has  *)
(* it, whatever was added, deleted and resized before, provided that keys  *)
(* that are equal have equal hashes (map_find_record, map_hash_resize).    *)
THEOREM KeysAreFound == HashesAgree => (Spec => []EqualKeysFound)
<1> SUFFICES ASSUME HashesAgree PROVE Spec => []EqualKeysFound
  OBVIOUS
<1>1. Init => Inv /\ Distinct
  BY InitInv DEF Init, Distinct, Live
<1>2. Inv /\ Distinct /\ [Next]_vars => Inv' /\ Distinct'
  BY NextInv, NextDistinct
<1>3. Inv /\ Distinct => EqualKeysFound
  <2> SUFFICES ASSUME Inv, Distinct, NEW r \in 1..Len(recs), NEW key \in Keys,
                      ~recs[r].empty, SameValueZero(recs[r].key, key)
               PROVE  map_find_record(key) = {r}
    BY DEF EqualKeysFound
  <2>1. map_find_record(key) = SameKey(key)
    BY FoundExact
  <2>2. r \in SameKey(key)
    BY DEF SameKey, Live
  <2>3. \A q \in SameKey(key) : q = r
    BY <2>2 DEF Distinct, SameKey, SameValueZero
  <2> QED BY <2>1, <2>2, <2>3
<1> QED BY <1>1, <1>2, <1>3, PTL DEF Spec

-----------------------------------------------------------------------------
(* The ordered map: what a script sees of the records.                     *)

Entry(r) == IF recs[r].empty THEN [key |-> "hole"] ELSE [key |-> recs[r].key, value |-> recs[r].value]
Entries == [r \in 1..Len(recs) |-> Entry(r)]

LEMMA EntriesFacts ==
    ASSUME Inv
    PROVE  /\ Len(Entries) = Len(recs) /\ DOMAIN Entries = 1..Len(recs)
           /\ \A r \in Live : Entries[r] = [key |-> recs[r].key, value |-> recs[r].value]
           /\ \A r \in (1..Len(recs)) \ Live : Entries[r] = Abstract!Hole
           /\ Abstract!Alive = Live
<1>1. Len(recs) \in Nat
  BY LiveHeld
<1>2. Len(Entries) = Len(recs) /\ DOMAIN Entries = 1..Len(recs)
  BY <1>1 DEF Entries
<1>3. \A r \in Live : Entries[r] = [key |-> recs[r].key, value |-> recs[r].value]
  BY DEF Entries, Entry, Live
<1>4. \A r \in (1..Len(recs)) \ Live : Entries[r] = Abstract!Hole
  BY DEF Entries, Entry, Live, Abstract!Hole
<1>5. Abstract!Alive = {n \in 1..Len(Entries) : Entries[n] # Abstract!Hole}
  BY DEF Abstract!Alive, Entries, Entry
<1>6. \A r \in Live : Entries[r] # Abstract!Hole
  <2>1. \A k, v : [key |-> k, value |-> v] # Abstract!Hole
    BY DEF Abstract!Hole
  <2> QED BY <1>3, <2>1
<1>7. Live \in SUBSET (1..Len(recs))
  BY LiveHeld
<1>8. Abstract!Alive = Live
  <2>1. ASSUME NEW n PROVE n \in Abstract!Alive <=> n \in Live
    <3>1. n \in Abstract!Alive <=> n \in 1..Len(recs) /\ Entries[n] # Abstract!Hole
      BY <1>2, <1>5, Zenon
    <3>2. n \in Live => n \in 1..Len(recs)
      BY <1>7
    <3> QED BY <1>4, <1>6, <3>1, <3>2, Zenon
  <2> QED BY <2>1
<1> QED BY <1>2, <1>3, <1>4, <1>8

LEMMA AbstractFinds ==
    ASSUME Inv
    PROVE  /\ \A key \in Keys : Abstract!AllAt(key) = SameKey(key)
           /\ \A pos \in Held \cup {0} : Abstract!After(pos) = NextRecord(pos)
<1>1. /\ Abstract!Alive = Live
      /\ \A r \in Live : Entries[r] = [key |-> recs[r].key, value |-> recs[r].value]
  BY EntriesFacts
<1>2. ASSUME NEW key \in Keys PROVE Abstract!AllAt(key) = SameKey(key)
  <2>1. Abstract!AllAt(key) = {n \in Live : Entries[n].key.num = key.num}
    BY <1>1 DEF Abstract!AllAt, Entries, Entry
  <2>2. ASSUME NEW n \in Live PROVE Entries[n].key = recs[n].key
    <3>1. Entries[n] = [key |-> recs[n].key, value |-> recs[n].value]
      BY <1>1
    <3> QED BY <3>1
  <2> QED BY <2>1, <2>2 DEF SameKey, SameValueZero
<1>3. ASSUME NEW pos \in Held \cup {0} PROVE Abstract!After(pos) = NextRecord(pos)
  <2>1. NextRecord(pos) = LeastAfter(Live, pos)
    BY NextFound
  <2> QED BY <1>1, <2>1 DEF Abstract!After, LeastAfter
<1> QED BY <1>2, <1>3

(* The entries after a step that changes no record that a script sees.     *)
LEMMA EntriesSame ==
    ASSUME Inv, ContentsSame
    PROVE  Entries' = Entries
<1>1. Len(recs') = Len(recs)
  BY DEF ContentsSame
<1>2. \A r \in 1..Len(recs) : Entry(r)' = Entry(r)
  BY DEF ContentsSame, Entry
<1> QED BY <1>1, <1>2 DEF Entries

LEMMA GivesSame ==
    ASSUME Inv
    PROVE  \A r \in Live : Gave(r) = Abstract!Gave(Entries[r])
<1>1. ASSUME NEW r \in Live PROVE Gave(r) = Abstract!Gave(Entries[r])
  <2>1. Entries[r] = [key |-> recs[r].key, value |-> recs[r].value]
    BY EntriesFacts
  <2>2. Entries[r].key = recs[r].key /\ Entries[r].value = recs[r].value
    BY <2>1
  <2> QED BY <2>2 DEF Gave, Abstract!Gave
<1> QED BY <1>1

LEMMA EntriesDeleted ==
    ASSUME Inv, NEW dead \in SUBSET Live, Deleted(dead)
    PROVE  Entries' = [n \in 1..Len(Entries) |-> IF n \in dead THEN Abstract!Hole ELSE Entries[n]]
<1>1. Len(recs') = Len(recs) /\ Len(Entries) = Len(recs)
  BY EntriesFacts DEF Deleted
<1>2. ASSUME NEW n \in 1..Len(recs)
      PROVE  Entry(n)' = IF n \in dead THEN Abstract!Hole ELSE Entries[n]
  <2>1. CASE n \in dead
    <3>1. recs'[n].empty
      BY <2>1 DEF Deleted
    <3> QED BY <2>1, <3>1 DEF Entry, Abstract!Hole
  <2>2. CASE n \notin dead
    <3>1. recs'[n] = recs[n]
      BY <2>2 DEF Deleted
    <3> QED BY <2>2, <3>1 DEF Entry, Entries
  <2> QED BY <2>1, <2>2
<1> QED BY <1>1, <1>2 DEF Entries

LEMMA SetMaps ==
    ASSUME HashesAgree, Inv, Distinct, NEW key \in Keys, NEW value \in Values, js_map_set(key, value)
    PROVE  Abstract!Set(key, value)
<1>1. Abstract!AllAt(key) = SameKey(key) /\ map_find_record(key) = SameKey(key)
  BY AbstractFinds, FoundExact
<1>2. UNCHANGED <<cur_record, locked>> /\ out' = Abstract!Undefined
  BY DEF js_map_set, Undefined, Abstract!Undefined
<1>3. Len(Entries) = Len(recs) /\ Len(recs) \in Nat
  BY EntriesFacts, LiveHeld
<1>4. CASE map_find_record(key) = {} /\ map_add_record(key, value)
  <2>1. Added(key, value)
    BY <1>2, <1>4, AddKeeps
  <2>2. Len(Entries) < MaxEntries
    <3>1. Len(recs) + 1 <= MaxEntries
      BY <1>4 DEF map_add_record
    <3> QED BY <1>3, <3>1, MapAssumption
  <2>3. Entries' = Append(Entries, [key |-> key, value |-> value])
    <3> DEFINE e == [key |-> key, value |-> value]
    <3>0. PICK m \in Nat : m = Len(recs)
      BY <1>3
    <3>1. \A r \in 1..m : Entry(r)' = Entry(r)
      BY <2>1, <3>0 DEF Added, Entry
    <3>2. Entry(m + 1)' = e
      BY <2>1, <3>0 DEF Added, Entry, New
    <3>3. Entries' = [r \in 1..(m + 1) |-> Entry(r)']
      BY <2>1, <3>0 DEF Added, Entries
    <3>4. Append(Entries, e) = [r \in 1..(m + 1) |-> IF r <= m THEN Entry(r) ELSE e]
      <4>1. Append(Entries, e) = [r \in 1..(m + 1) |-> IF r <= m THEN Entries[r] ELSE e]
        BY <1>3, <3>0 DEF Entries
      <4>2. \A r \in 1..m : Entries[r] = Entry(r)
        BY <3>0 DEF Entries
      <4>3. \A r \in 1..(m + 1) : r <= m => r \in 1..m
        OBVIOUS
      <4> QED BY <4>1, <4>2, <4>3
    <3> HIDE DEF e
    <3>5. \A r \in 1..(m + 1) : Entry(r)' = IF r <= m THEN Entry(r) ELSE e
      <4>1. TAKE r \in 1..(m + 1)
      <4>2. CASE r <= m
        BY <3>1, <4>2
      <4>3. CASE ~(r <= m)
        <5>1. r = m + 1
          BY <4>3
        <5> QED BY <3>2, <4>3, <5>1
      <4> QED BY <4>2, <4>3
    <3>6. Entries' = Append(Entries, e)
      BY <3>3, <3>4, <3>5
    <3> QED BY <3>6 DEF e
  <2> QED BY <1>1, <1>2, <1>4, <2>2, <2>3 DEF Abstract!Set, Entries, Entry
<1>5. CASE \E r \in map_find_record(key) :
             /\ recs' = [recs EXCEPT ![r].value = value]
             /\ UNCHANGED <<records, hash_table, record_count, record_count_threshold>>
  <2>1. PICK r \in map_find_record(key) :
             /\ recs' = [recs EXCEPT ![r].value = value]
             /\ UNCHANGED <<records, hash_table, record_count, record_count_threshold>>
    BY <1>5
  <2>2. r \in Live /\ SameKey(key) = {r}
    BY <1>1 DEF SameKey, Distinct, SameValueZero
  <2>3. /\ Len(recs') = Len(recs) /\ \A q \in 1..Len(recs) : recs[q] \in Records
        /\ \A q \in 1..Len(recs) : recs'[q] = IF q = r THEN [recs[r] EXCEPT !.value = value] ELSE recs[q]
    BY <1>2, <2>1, <2>2, ReplaceKeeps, LiveHeld
  <2>4. ASSUME NEW n \in 1..Len(recs)
        PROVE  Entry(n)' = IF n \in SameKey(key) THEN [Entries[n] EXCEPT !.value = value] ELSE Entries[n]
    <3>1. CASE n # r
      <4>1. recs'[n] = recs[n]
        BY <2>3, <3>1
      <4> QED BY <2>2, <3>1, <4>1 DEF Entry, Entries
    <3>2. CASE n = r
      <4>1. recs'[n] = [recs[n] EXCEPT !.value = value] /\ ~recs[n].empty
        BY <2>2, <2>3, <3>2 DEF Live
      <4>2. ~recs'[n].empty /\ recs'[n].key = recs[n].key /\ recs'[n].value = value
        BY <2>3, <4>1 DEF Records
      <4>3. Entry(n)' = [key |-> recs[n].key, value |-> value]
        BY <4>2 DEF Entry
      <4>4. Entries[n] = [key |-> recs[n].key, value |-> recs[n].value]
        BY <2>2, <3>2, EntriesFacts
      <4>5. [Entries[n] EXCEPT !.value = value] = [key |-> recs[n].key, value |-> value]
        BY <4>4
      <4> QED BY <2>2, <3>2, <4>3, <4>5
    <3> QED BY <3>1, <3>2
  <2>5. Entries' = [n \in 1..Len(Entries) |->
                      IF n \in SameKey(key) THEN [Entries[n] EXCEPT !.value = value] ELSE Entries[n]]
    BY <1>3, <2>3, <2>4 DEF Entries
  <2>6. Abstract!AllAt(key) # {}
    BY <1>1, <2>2
  <2>7. Entries' = [n \in 1..Len(Entries) |-> IF n \in Abstract!AllAt(key)
                                              THEN [Entries[n] EXCEPT !.value = value] ELSE Entries[n]]
    BY <1>1, <2>5
  <2>8. Entries' = IF Abstract!AllAt(key) = {} THEN Append(Entries, [key |-> key, value |-> value])
                   ELSE [n \in 1..Len(Entries) |-> IF n \in Abstract!AllAt(key)
                                                   THEN [Entries[n] EXCEPT !.value = value] ELSE Entries[n]]
    BY <2>6, <2>7, Zenon
  <2> QED BY <1>2, <2>6, <2>8, Zenon DEF Abstract!Set, Entries, Entry
<1> QED BY <1>4, <1>5 DEF js_map_set

LEMMA DeleteMaps ==
    ASSUME HashesAgree, Inv, Distinct, NEW key \in Keys, js_map_delete(key)
    PROVE  Abstract!Delete(key)
<1>1. Abstract!AllAt(key) = map_find_record(key) /\ map_find_record(key) \in SUBSET Live
  BY AbstractFinds, FoundExact, FoundLive
<1>2. /\ map_delete_record(map_find_record(key)) /\ UNCHANGED <<cur_record, locked>>
      /\ out' = [type |-> "bool", is |-> map_find_record(key) # {}]
  BY DEF js_map_delete
<1>3. Deleted(map_find_record(key))
  BY <1>1, <1>2, DeleteKeeps
<1>4. Entries' = [n \in 1..Len(Entries) |->
                    IF n \in map_find_record(key) THEN Abstract!Hole ELSE Entries[n]]
  BY <1>1, <1>3, EntriesDeleted
<1> QED BY <1>1, <1>2, <1>4 DEF Abstract!Delete, Entries, Entry

LEMMA ClearMaps ==
    ASSUME Inv, js_map_clear
    PROVE  Abstract!Clear
<1> DEFINE dead == {r \in 1..Len(recs) : ~recs[r].empty /\ \E i \in 1..Len(records) : records[i] = r}
<1>1. dead = Live
  <2>1. Live \in SUBSET Held
    BY LiveHeld
  <2>2. \A r \in Held : \E i \in 1..Len(records) : records[i] = r
    BY DEF Inv, Listed, Lists
  <2> QED BY <2>1, <2>2 DEF Live
<1>2. map_delete_record(dead) /\ UNCHANGED <<cur_record, locked>> /\ out' = Abstract!Undefined
  BY DEF js_map_clear, Undefined, Abstract!Undefined
<1> HIDE DEF dead
<1>3. Deleted(Live)
  BY <1>1, <1>2, DeleteKeeps
<1>4. Entries' = [n \in 1..Len(Entries) |-> IF n \in Live THEN Abstract!Hole ELSE Entries[n]]
  BY <1>3, EntriesDeleted
<1>5. \A n \in 1..Len(Entries) : n \notin Live => Entries[n] = Abstract!Hole
  BY EntriesFacts
<1>6. Entries' = [n \in 1..Len(Entries) |-> Abstract!Hole]
  BY <1>4, <1>5
<1> QED BY <1>2, <1>6 DEF Abstract!Clear, Entries, Entry

LEMMA QuietMaps ==
    ASSUME HashesAgree, Inv, Distinct
    PROVE  /\ \A key \in Keys : js_map_get(key) => Abstract!Get(key)
           /\ js_map_get_size => Abstract!Size
           /\ \A i \in Iterators : js_create_map_iterator(i) => Abstract!Iterate(i)
<1>1. ASSUME NEW key \in Keys, js_map_get(key) PROVE Abstract!Get(key)
  <2>1. Abstract!AllAt(key) = map_find_record(key) /\ map_find_record(key) \in SUBSET Live
    BY AbstractFinds, FoundExact, FoundLive
  <2>2. /\ UNCHANGED <<recs, cur_record, locked>>
        /\ out' = IF map_find_record(key) = {} THEN Undefined
                  ELSE Gave(CHOOSE r \in map_find_record(key) : TRUE)
    BY <1>1 DEF js_map_get
  <2> DEFINE c == CHOOSE r \in map_find_record(key) : TRUE
  <2>3. map_find_record(key) # {} => c \in Live
    BY <2>1
  <2>4. map_find_record(key) # {} => Gave(c) = Abstract!Gave(Entries[c])
    BY <2>3, GivesSame
  <2>5. out' = IF Abstract!AllAt(key) = {} THEN Abstract!Undefined
               ELSE Abstract!Gave(Entries[CHOOSE n \in Abstract!AllAt(key) : TRUE])
    BY <2>1, <2>2, <2>4 DEF Undefined, Abstract!Undefined
  <2>6. Entries' = Entries
    BY <2>2 DEF Entries, Entry
  <2> QED BY <2>2, <2>5, <2>6 DEF Abstract!Get, Entries, Entry
<1>2. ASSUME js_map_get_size PROVE Abstract!Size
  <2>1. UNCHANGED <<recs, cur_record, locked>> /\ out' = [type |-> "size", n |-> record_count]
    BY <1>2 DEF js_map_get_size
  <2>2. record_count = Cardinality(Abstract!Alive)
    BY EntriesFacts DEF Inv, Counted
  <2>3. Entries' = Entries
    BY <2>1 DEF Entries, Entry
  <2> QED BY <2>1, <2>2, <2>3 DEF Abstract!Size, Abstract!Cardinality, Cardinality, Entries, Entry
<1>3. ASSUME NEW i \in Iterators, js_create_map_iterator(i) PROVE Abstract!Iterate(i)
  <2>1. /\ UNCHANGED <<recs, locked>> /\ cur_record[i] = Abstract!Gone /\ out' = Abstract!Undefined
        /\ cur_record' = [cur_record EXCEPT ![i] = 0]
    BY <1>3 DEF js_create_map_iterator, Undefined, Abstract!Undefined, Gone, Abstract!Gone
  <2>2. Entries' = Entries
    BY <2>1 DEF Entries, Entry
  <2> QED BY <2>1, <2>2 DEF Abstract!Iterate, Entries, Entry
<1> QED BY <1>1, <1>2, <1>3
LEMMA IteratorMaps ==
    ASSUME Inv, NEW i \in Iterators
    PROVE  /\ js_map_iterator_finalizer(i) => Abstract!Drop(i)
           /\ js_map_iterator_next(i) => Abstract!IterNext(i)
<1>1. ASSUME js_map_iterator_finalizer(i) \/ js_map_iterator_next(i) PROVE Entries' = Entries
  BY <1>1, IteratorKeeps, EntriesSame
<1>2. ASSUME js_map_iterator_finalizer(i) PROVE Abstract!Drop(i)
  BY <1>1, <1>2 DEF js_map_iterator_finalizer, Abstract!Drop, Undefined, Abstract!Undefined,
     Gone, Abstract!Gone, Entries, Entry
<1>3. ASSUME js_map_iterator_next(i) PROVE Abstract!IterNext(i)
  <2> DEFINE next == IF cur_record[i] = Abstract!Ended THEN {} ELSE Abstract!After(cur_record[i])
  <2>1. cur_record[i] # Abstract!Gone /\ Entries' = Entries /\ UNCHANGED locked
    BY <1>1, <1>3 DEF js_map_iterator_next, Gone, Abstract!Gone
  <2>2. CASE cur_record[i] = Ended /\ out' = Undefined /\ UNCHANGED cur_record
    <3>1. next = {} /\ out' = Abstract!Undefined
      BY <2>2 DEF Ended, Abstract!Ended, Undefined, Abstract!Undefined
    <3>2. cur_record' = [cur_record EXCEPT ![i] = Abstract!Ended]
      BY <2>2 DEF Inv, Positions, Ended, Abstract!Ended
    <3> QED BY <2>1, <3>1, <3>2, Zenon DEF Abstract!IterNext, Entries, Entry
  <2>3. ASSUME cur_record[i] # Ended PROVE next = NextRecord(cur_record[i]) /\ next \in SUBSET Live
    <3>1. cur_record[i] \notin {Ended, Gone}
      BY <2>1, <2>3 DEF Gone, Abstract!Gone
    <3>2. cur_record[i] \in Held \cup {0} /\ NextRecord(cur_record[i]) \in SUBSET Live
      BY <3>1, PositionsHeld, NextLive
    <3>3. Abstract!After(cur_record[i]) = NextRecord(cur_record[i])
      BY <3>2, AbstractFinds
    <3> QED BY <2>3, <3>2, <3>3 DEF Ended, Abstract!Ended
  <2> HIDE DEF next
  <2>4. CASE /\ cur_record[i] # Ended /\ NextRecord(cur_record[i]) = {}
             /\ cur_record' = [cur_record EXCEPT ![i] = Ended] /\ out' = Undefined
    <3>1. next = {} /\ out' = Abstract!Undefined /\ cur_record' = [cur_record EXCEPT ![i] = Abstract!Ended]
      BY <2>3, <2>4 DEF Ended, Abstract!Ended, Undefined, Abstract!Undefined
    <3> QED BY <2>1, <3>1, Zenon DEF Abstract!IterNext, Entries, Entry, next
  <2>5. CASE /\ cur_record[i] # Ended
             /\ \E r \in NextRecord(cur_record[i]) : cur_record' = [cur_record EXCEPT ![i] = r] /\ out' = Gave(r)
    <3>1. PICK r \in NextRecord(cur_record[i]) : cur_record' = [cur_record EXCEPT ![i] = r] /\ out' = Gave(r)
      BY <2>5
    <3>2. r \in next /\ r \in Live
      BY <2>3, <2>5
    <3>3. out' = Abstract!Gave(Entries[r])
      BY <3>1, <3>2, GivesSame
    <3> QED BY <2>1, <3>1, <3>2, <3>3, Zenon DEF Abstract!IterNext, Entries, Entry, next
  <2> QED BY <1>3, <2>2, <2>4, <2>5 DEF js_map_iterator_next
<1> QED BY <1>2, <1>3

LEMMA LoopMaps ==
    ASSUME Inv
    PROVE  /\ js_map_forEach => Abstract!ForEach
           /\ CallbackReturns => Abstract!Return
           /\ CallbackThrows => Abstract!Raise
<1>1. ASSUME NEW outer, NEW from \in Held \cup {0}, Call(outer, from)
      PROVE  Abstract!CallBack(outer, from)
  <2>1. Abstract!After(from) = NextRecord(from) /\ NextRecord(from) \in SUBSET Live
    BY AbstractFinds, NextFound DEF LeastAfter
  <2>2. CASE \E r \in NextRecord(from) : locked' = Append(outer, r) /\ out' = Gave(r)
    <3>1. PICK r \in NextRecord(from) : locked' = Append(outer, r) /\ out' = Gave(r)
      BY <2>2
    <3>2. out' = Abstract!Gave(Entries[r]) /\ r \in Abstract!After(from)
      BY <2>1, <3>1, GivesSame
    <3> QED BY <3>1, <3>2, Zenon DEF Abstract!CallBack, Entries, Entry
  <2>3. CASE NextRecord(from) = {} /\ locked' = outer /\ out' = Undefined
    BY <2>1, <2>3 DEF Abstract!CallBack, Undefined, Abstract!Undefined
  <2> QED BY <1>1, <2>2, <2>3 DEF Call
<1>2. ASSUME js_map_forEach \/ CallbackReturns \/ CallbackThrows PROVE Entries' = Entries
  BY <1>2, LoopKeeps, EntriesSame
<1>3. locked # <<>> => locked[Len(locked)] \in Held \cup {0}
  BY PositionsHeld
<1>4. Outer = Abstract!Inner
  BY DEF Outer, Abstract!Inner
<1>5. ASSUME js_map_forEach PROVE Abstract!ForEach
  <2>1. Abstract!CallBack(locked, 0)
    BY <1>1, <1>5 DEF js_map_forEach
  <2> QED BY <1>2, <1>5, <2>1, Zenon DEF js_map_forEach, Abstract!ForEach, Entries, Entry
<1>6. ASSUME CallbackReturns PROVE Abstract!Return
  <2>1. Abstract!CallBack(Abstract!Inner, locked[Len(locked)])
    BY <1>1, <1>3, <1>4, <1>6 DEF CallbackReturns
  <2> QED BY <1>2, <1>6, <2>1, Zenon DEF CallbackReturns, Abstract!Return, Entries, Entry
<1>7. ASSUME CallbackThrows PROVE Abstract!Raise
  BY <1>2, <1>4, <1>7 DEF CallbackThrows, Abstract!Raise, Undefined, Abstract!Undefined, Entries, Entry
<1> QED BY <1>5, <1>6, <1>7

LEMMA NextMaps == HashesAgree /\ Inv /\ Distinct /\ [Next]_vars => StepsOrdered
<1> SUFFICES ASSUME HashesAgree, Inv, Distinct, [Next]_vars PROVE StepsOrdered
  OBVIOUS
<1>1. CASE \E k \in Keys : js_map_get(k) \/ js_map_delete(k) \/ \E v \in Values : js_map_set(k, v)
  <2>1. \E k \in Keys : Abstract!Get(k) \/ Abstract!Delete(k) \/ \E v \in Values : Abstract!Set(k, v)
    BY <1>1, QuietMaps, DeleteMaps, SetMaps
  <2> QED BY <2>1 DEF StepsOrdered, Abstract!Next
<1>2. CASE js_map_get_size \/ js_map_clear \/ js_map_forEach \/ CallbackReturns \/ CallbackThrows
  <2>1. Abstract!Size \/ Abstract!Clear \/ Abstract!ForEach \/ Abstract!Return \/ Abstract!Raise
    BY <1>2, QuietMaps, ClearMaps, LoopMaps
  <2> QED BY <2>1 DEF StepsOrdered, Abstract!Next
<1>3. CASE \E i \in Iterators : \/ js_create_map_iterator(i) \/ js_map_iterator_finalizer(i)
                               \/ js_map_iterator_next(i)
  <2>1. \E i \in Iterators : Abstract!Iterate(i) \/ Abstract!Drop(i) \/ Abstract!IterNext(i)
    BY <1>3, QuietMaps, IteratorMaps
  <2> QED BY <2>1 DEF StepsOrdered, Abstract!Next
<1>4. CASE UNCHANGED vars
  BY <1>4 DEF vars, StepsOrdered, Abstract!mvars
<1> QED BY <1>1, <1>2, <1>3, <1>4 DEF Next

(* Whatever is deleted, cleared or added again while iterators and loops   *)
(* are under way, a script sees the ordered map, provided that keys that   *)
(* are equal have equal hashes (js_map_iterator_next, js_map_forEach,      *)
(* map_delete_record).                                                     *)
THEOREM ImplementsMap == HashesAgree => (Spec => ImplementsOrderedMap)
<1> SUFFICES ASSUME HashesAgree PROVE Spec => ImplementsOrderedMap
  OBVIOUS
<1>1. Init => Inv /\ Distinct
  BY InitInv DEF Init, Distinct, Live
<1>2. Inv /\ Distinct /\ [Next]_vars => Inv' /\ Distinct'
  BY NextInv, NextDistinct
<1>3. Init => StartsOrdered
  <2> SUFFICES ASSUME Init PROVE StartsOrdered
    OBVIOUS
  <2>1. Len(recs) = 0
    BY DEF Init
  <2>2. Entries = <<>>
    BY <2>1 DEF Entries
  <2> QED BY <2>2 DEF Init, StartsOrdered, Abstract!Init, Undefined, Abstract!Undefined, Gone,
         Abstract!Gone, Entries, Entry
<1>4. Inv /\ Distinct /\ [Next]_vars => StepsOrdered
  BY NextMaps
<1> QED BY <1>1, <1>2, <1>3, <1>4, PTL DEF Spec, ImplementsOrderedMap
=============================================================================
