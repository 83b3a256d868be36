------------------------------- MODULE MapSet -------------------------------
(***************************************************************************)
(* Map and Set of quickjs/quickjs.c: records in a list and in the chains   *)
(* of a hash table, and iterators and forEach loops that lock the record   *)
(* they are at.  A deleted record that is locked stays in the list, empty, *)
(* until the last of them moves on.                                        *)
(*                                                                         *)
(* A record is named by the number of the map_add_record call that made    *)
(* it.  A key is [num, rep]: equal keys have equal num; rep is how the     *)
(* engine stores it, which the hash depends on.                            *)
(***************************************************************************)
EXTENDS Integers, Sequences, FiniteSets

CONSTANTS
    Keys, Values, Iterators,
    Hash(_),          \* map_hash_key
    FirstThreshold,   \* record_count_threshold of a new map, 4 in the code
    MaxEntries,       \* bound: records ever added
    MaxDepth          \* bound: nested forEach calls

ASSUME MapAssumption ==
    /\ IsFiniteSet(Iterators) /\ MaxEntries \in Nat
    /\ \A key \in Keys : Hash(key) \in Nat

VARIABLES
    recs,             \* every record ever added: [key, value, empty, ref_count]
    records,          \* s->records: the records in the list, in order
    hash_table,       \* the chains, 0..hash_size-1 |-> records
    record_count, record_count_threshold,
    cur_record,       \* iterator |-> record, 0 at the start, Ended or Gone
    locked,           \* the records that nested forEach calls are at
    out

vars == <<recs, records, hash_table, record_count, record_count_threshold, cur_record, locked, out>>

Ended == -1
Gone == -2
Undefined == [type |-> "undefined"]
Gave(r) == [type |-> "entry", key |-> recs[r].key, value |-> recs[r].value]
SameValueZero(a, b) == a.num = b.num
Bucket(key, table) == Hash(key) % Cardinality(DOMAIN table)

(* The elements of a list that are in S, in their order.                   *)
Kept(list, S) ==
    LET kept[i \in 0..Len(list)] ==
            IF i = 0 THEN <<>>
            ELSE IF list[i] \in S THEN Append(kept[i - 1], list[i]) ELSE kept[i - 1]
    IN  kept[Len(list)]

(* The first element after place i of a list that is in S, if any.         *)
FirstFrom(list, i, S) ==
    {list[j] : j \in {j \in (i + 1)..Len(list) :
                          list[j] \in S /\ \A h \in (i + 1)..(j - 1) : list[h] \notin S}}

-----------------------------------------------------------------------------
Init ==
    /\ recs = <<>> /\ records = <<>> /\ hash_table = [b \in {0} |-> <<>>]
    /\ record_count = 0 /\ record_count_threshold = FirstThreshold
    /\ cur_record = [i \in Iterators |-> Gone] /\ locked = <<>> /\ out = Undefined

(* The first record of the key's chain that has this key, if any.          *)
map_find_record(key) ==
    FirstFrom(hash_table[Bucket(key, hash_table)], 0,
              {r \in 1..Len(recs) : SameValueZero(recs[r].key, key)})

(* The records of the list that are not empty, in their order.             *)
Rehashed(rs, list, size) ==
    [b \in 0..(size - 1) |->
        Kept(list, {r \in 1..Len(rs) : ~rs[r].empty /\ Hash(rs[r].key) % size = b})]

\* Mutant: the chains keep their places.
Resized_in_place(rs, list, table) ==
    LET size == Cardinality(DOMAIN table)
        new == IF size = 1 THEN 4 ELSE 2 * size
    IN  [b \in 0..(new - 1) |-> IF b < size THEN table[b] ELSE <<>>]

(* map_hash_resize.                                                        *)
Resized(rs, list, table) ==
    LET size == Cardinality(DOMAIN table)
    IN  Rehashed(rs, list, IF size = 1 THEN 4 ELSE 2 * size)

map_add_record(key, value) ==
    LET r == Len(recs) + 1
        rs == Append(recs, [key |-> key, value |-> value, empty |-> FALSE, ref_count |-> 1])
        b == Bucket(key, hash_table)
        chained == [hash_table EXCEPT ![b] = Append(@, r)]
        full == record_count + 1 >= record_count_threshold
        table == IF full THEN Resized(rs, Append(records, r), chained) ELSE chained
    IN  /\ r <= MaxEntries
        /\ recs' = rs /\ records' = Append(records, r)
        /\ record_count' = record_count + 1
        /\ hash_table' = table
        /\ record_count_threshold' =
              IF full THEN 2 * Cardinality(DOMAIN table) ELSE record_count_threshold

js_map_set(key, value) ==
    /\ \/ map_find_record(key) = {} /\ map_add_record(key, value)
       \/ \E r \in map_find_record(key) :
             /\ recs' = [recs EXCEPT ![r].value = value]
             /\ UNCHANGED <<records, hash_table, record_count, record_count_threshold>>
    /\ out' = Undefined /\ UNCHANGED <<cur_record, locked>>

js_map_get(key) ==
    /\ out' = IF map_find_record(key) = {} THEN Undefined
              ELSE Gave(CHOOSE r \in map_find_record(key) : TRUE)
    /\ UNCHANGED <<recs, records, hash_table, record_count, record_count_threshold, cur_record, locked>>

js_map_get_size ==
    /\ out' = [type |-> "size", n |-> record_count]
    /\ UNCHANGED <<recs, records, hash_table, record_count, record_count_threshold, cur_record, locked>>

\* Mutant: a locked record is freed as well.
Decremented_freed(r, rs) == [rs EXCEPT ![r].ref_count = 0]

(* One reference less; a record without references is freed.               *)
Decremented(r, rs) == [rs EXCEPT ![r].ref_count = @ - 1]

(* map_delete_record, for a set of records that are not empty.             *)
map_delete_record(dead) ==
    LET rs == [r \in 1..Len(recs) |->
                  IF r \notin dead THEN recs[r]
                  ELSE [Decremented(r, recs)[r] EXCEPT !.empty = TRUE, !.value = Undefined]]
    IN  /\ recs' = rs
        /\ records' = Kept(records, {r \in 1..Len(recs) : rs[r].ref_count > 0})
        /\ hash_table' = [b \in DOMAIN hash_table |->
                             Kept(hash_table[b], (1..Len(recs)) \ dead)]
        /\ record_count' = record_count - Cardinality(dead)
        /\ UNCHANGED record_count_threshold

js_map_delete(key) ==
    /\ map_delete_record(map_find_record(key))
    /\ out' = [type |-> "bool", is |-> map_find_record(key) # {}]
    /\ UNCHANGED <<cur_record, locked>>

js_map_clear ==
    /\ map_delete_record({r \in 1..Len(recs) : ~recs[r].empty /\ \E i \in 1..Len(records) : records[i] = r})
    /\ out' = Undefined /\ UNCHANGED <<cur_record, locked>>

-----------------------------------------------------------------------------
(* Where r is in the list; before its head for r = 0.                      *)
Place(r) == IF r = 0 THEN 0 ELSE CHOOSE i \in 1..Len(records) : records[i] = r

\* Mutant: empty records are not skipped.
NextRecord_any(r) == FirstFrom(records, Place(r), 1..Len(recs))

(* The record after r that is not empty, if any.                           *)
NextRecord(r) == FirstFrom(records, Place(r), {q \in 1..Len(recs) : ~recs[q].empty})

(* map_decref_record of the record left, if any, and the lock of the one   *)
(* moved to, if any.                                                       *)
Move(from, to) ==
    LET left == IF from = 0 THEN recs ELSE Decremented(from, recs)
    IN  /\ recs' = [r \in 1..Len(recs) |->
                       IF r \in to THEN [left[r] EXCEPT !.ref_count = @ + 1] ELSE left[r]]
        /\ records' = Kept(records, {r \in 1..Len(recs) : left[r].ref_count > 0})
        /\ UNCHANGED <<hash_table, record_count, record_count_threshold>>

js_create_map_iterator(i) ==
    /\ cur_record[i] = Gone
    /\ cur_record' = [cur_record EXCEPT ![i] = 0] /\ out' = Undefined
    /\ UNCHANGED <<recs, records, hash_table, record_count, record_count_threshold, locked>>

js_map_iterator_finalizer(i) ==
    /\ cur_record[i] # Gone
    /\ Move(IF cur_record[i] = Ended THEN 0 ELSE cur_record[i], {})
    /\ cur_record' = [cur_record EXCEPT ![i] = Gone] /\ out' = Undefined /\ UNCHANGED locked

js_map_iterator_next(i) ==
    LET next == NextRecord(cur_record[i])
    IN  /\ cur_record[i] # Gone
        /\ \/ /\ cur_record[i] = Ended
              /\ out' = Undefined
              /\ UNCHANGED <<recs, records, hash_table, record_count, record_count_threshold, cur_record>>
           \/ /\ cur_record[i] # Ended /\ next = {}
              /\ Move(cur_record[i], {})
              /\ cur_record' = [cur_record EXCEPT ![i] = Ended] /\ out' = Undefined
           \/ /\ cur_record[i] # Ended
              /\ \E r \in next : /\ Move(cur_record[i], {r})
                                 /\ cur_record' = [cur_record EXCEPT ![i] = r] /\ out' = Gave(r)
        /\ UNCHANGED locked

Outer == SubSeq(locked, 1, Len(locked) - 1)

(* The loop calls back for the next record that is not empty.              *)
Call(outer, from) ==
    LET next == NextRecord(from)
    IN  \/ \E r \in next : Move(from, {r}) /\ locked' = Append(outer, r) /\ out' = Gave(r)
        \/ next = {} /\ Move(from, {}) /\ locked' = outer /\ out' = Undefined

js_map_forEach == Len(locked) < MaxDepth /\ Call(locked, 0) /\ UNCHANGED cur_record
CallbackReturns == locked # <<>> /\ Call(Outer, locked[Len(locked)]) /\ UNCHANGED cur_record
CallbackThrows ==
    /\ locked # <<>> /\ Move(locked[Len(locked)], {})
    /\ locked' = Outer /\ out' = Undefined /\ UNCHANGED cur_record

Next ==
    \/ \E k \in Keys : js_map_get(k) \/ js_map_delete(k) \/ \E v \in Values : js_map_set(k, v)
    \/ js_map_get_size \/ js_map_clear \/ js_map_forEach \/ CallbackReturns \/ CallbackThrows
    \/ \E i \in Iterators : js_create_map_iterator(i) \/ js_map_iterator_finalizer(i) \/ js_map_iterator_next(i)

Spec == Init /\ [][Next]_vars

-----------------------------------------------------------------------------
(* What a script sees is the ordered map: with every lookup through the    *)
(* chains before and after a resize, and every iterator and forEach loop   *)
(* while records are deleted, cleared, added again or the other loops move *)
(* (js_map_iterator_next, js_map_forEach, map_delete_record).              *)
Abstract == INSTANCE OrderedMap WITH
    entries <- [r \in 1..Len(recs) |->
                   IF recs[r].empty THEN [key |-> "hole"]
                   ELSE [key |-> recs[r].key, value |-> recs[r].value]],
    positions <- cur_record,
    loops <- locked,
    out <- out
StartsOrdered == Abstract!Init
StepsOrdered == [Abstract!Next]_Abstract!mvars
ImplementsOrderedMap == StartsOrdered /\ [][StepsOrdered]_vars

(* The list has the elements of S, rising.                                 *)
Lists(list, S) ==
    /\ list \in Seq(S) /\ \A r \in S : \E i \in 1..Len(list) : list[i] = r
    /\ \A i, j \in 1..Len(list) : i < j => list[i] < list[j]

(* The iterators and loops at a record.                                    *)
Users(r, positions, loops) ==
    Cardinality({i \in Iterators : positions[i] = r}) + Cardinality({j \in 1..Len(loops) : loops[j] = r})

(* A record has one reference while it is in the map and one for every     *)
(* iterator and loop at it, and is in the list while it has any, in the    *)
(* order in which records were added: none is freed under an iterator,     *)
(* none that is empty stays behind without one (map_delete_record,         *)
(* map_decref_record).                                                     *)
RecordsHeldExactly ==
    /\ \A r \in 1..Len(recs) :
          recs[r].ref_count = (IF recs[r].empty THEN 0 ELSE 1) + Users(r, cur_record, locked)
    /\ Lists(records, {r \in 1..Len(recs) : recs[r].ref_count > 0})

(* The keys a script uses are hashed alike when they are equal.  It is not *)
(* so for a number stored as an integer and as a double (map_hash_key).    *)
HashesAgree == \A a, b \in Keys : SameValueZero(a, b) => Hash(a) = Hash(b)

(* A key that was set and not deleted is found, at the one record that has *)
(* it, before and after a resize (map_find_record, map_hash_resize).       *)
EqualKeysFound ==
    \A r \in 1..Len(recs), key \in Keys :
        ~recs[r].empty /\ SameValueZero(recs[r].key, key) => map_find_record(key) = {r}
=============================================================================
