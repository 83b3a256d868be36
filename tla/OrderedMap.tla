----------------------------- MODULE OrderedMap -----------------------------
(***************************************************************************)
(* What Map and Set promise a script: a list of entries in the order they  *)
(* were added.  A deleted entry leaves a hole that is never filled, so     *)
(* that an iteration, which is a position in the list, sees every entry    *)
(* at most once and every entry added before it ends.                      *)
(***************************************************************************)
EXTENDS Integers, Sequences, FiniteSets

CONSTANTS Keys, Values, Iterators, MaxEntries, MaxDepth

VARIABLES
    entries,     \* all entries ever added; Hole where one was deleted
    positions,   \* iterator |-> the entry it gave last, 0, Ended or Gone
    loops,       \* the entries that nested forEach calls are at
    out          \* what the last operation gave

mvars == <<entries, positions, loops, out>>

Hole == [key |-> "hole"]
Ended == -1
Gone == -2
Undefined == [type |-> "undefined"]
Alive == {n \in 1..Len(entries) : entries[n] # Hole}
AllAt(key) == {n \in Alive : entries[n].key.num = key.num}
After(pos) == {n \in Alive : n > pos /\ \A m \in Alive : m > pos => n <= m}
Gave(e) == [type |-> "entry", key |-> e.key, value |-> e.value]

Init == entries = <<>> /\ positions = [i \in Iterators |-> Gone] /\ loops = <<>> /\ out = Undefined

Set(key, value) ==
    /\ Len(entries) < MaxEntries \/ AllAt(key) # {}
    /\ entries' = IF AllAt(key) = {} THEN Append(entries, [key |-> key, value |-> value])
                  ELSE [n \in 1..Len(entries) |->
                           IF n \in AllAt(key) THEN [entries[n] EXCEPT !.value = value] ELSE entries[n]]
    /\ out' = Undefined /\ UNCHANGED <<positions, loops>>

Get(key) ==
    /\ out' = IF AllAt(key) = {} THEN Undefined ELSE Gave(entries[CHOOSE n \in AllAt(key) : TRUE])
    /\ UNCHANGED <<entries, positions, loops>>

Size == out' = [type |-> "size", n |-> Cardinality(Alive)] /\ UNCHANGED <<entries, positions, loops>>

Delete(key) ==
    /\ entries' = [n \in 1..Len(entries) |-> IF n \in AllAt(key) THEN Hole ELSE entries[n]]
    /\ out' = [type |-> "bool", is |-> AllAt(key) # {}] /\ UNCHANGED <<positions, loops>>

Clear ==
    /\ entries' = [n \in 1..Len(entries) |-> Hole]
    /\ out' = Undefined /\ UNCHANGED <<positions, loops>>

Iterate(i) ==
    /\ positions[i] = Gone
    /\ positions' = [positions EXCEPT ![i] = 0] /\ out' = Undefined /\ UNCHANGED <<entries, loops>>

Drop(i) ==
    /\ positions[i] # Gone
    /\ positions' = [positions EXCEPT ![i] = Gone] /\ out' = Undefined /\ UNCHANGED <<entries, loops>>

IterNext(i) ==
    /\ positions[i] # Gone
    /\ LET next == IF positions[i] = Ended THEN {} ELSE After(positions[i])
       IN  \/ \E n \in next : positions' = [positions EXCEPT ![i] = n] /\ out' = Gave(entries[n])
           \/ next = {} /\ positions' = [positions EXCEPT ![i] = Ended] /\ out' = Undefined
    /\ UNCHANGED <<entries, loops>>

(* forEach calls back for the next entry after pos, or returns.            *)
CallBack(outer, pos) ==
    \/ \E n \in After(pos) : loops' = Append(outer, n) /\ out' = Gave(entries[n])
    \/ After(pos) = {} /\ loops' = outer /\ out' = Undefined

Inner == SubSeq(loops, 1, Len(loops) - 1)

ForEach == Len(loops) < MaxDepth /\ CallBack(loops, 0) /\ UNCHANGED <<entries, positions>>
Return == loops # <<>> /\ CallBack(Inner, loops[Len(loops)]) /\ UNCHANGED <<entries, positions>>
Raise == loops # <<>> /\ loops' = Inner /\ out' = Undefined /\ UNCHANGED <<entries, positions>>

Next ==
    \/ \E k \in Keys : Get(k) \/ Delete(k) \/ \E v \in Values : Set(k, v)
    \/ Size \/ Clear \/ ForEach \/ Return \/ Raise
    \/ \E i \in Iterators : Iterate(i) \/ Drop(i) \/ IterNext(i)

Spec == Init /\ [][Next]_mvars
=============================================================================
