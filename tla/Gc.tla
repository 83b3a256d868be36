--------------------------------- MODULE Gc ---------------------------------
(***************************************************************************)
(* Memory management of quickjs/quickjs.c: reference counts, the deferred  *)
(* freeing of objects whose count reached zero, the collector that finds   *)
(* cycles by trial deletion, and the weak references of WeakMap, whose     *)
(* keys are not counted.                                                   *)
(*                                                                         *)
(* A cell is an object with one field, a WeakMap or a detached variable    *)
(* reference (JSVarRef), which is not a JavaScript value of its own.  The  *)
(* script holds cells in roots.  Every loop of the collector is taken one  *)
(* element at a time.                                                      *)
(***************************************************************************)
EXTENDS Integers, Sequences, SequencesExt, FiniteSets

CONSTANTS
    Objects, WeakMaps, VarRefs, Null,
    MaxGcs,       \* bound: collections in a row
    MaxRecords    \* bound: the weak_count of a weak map

Cells == Objects \cup WeakMaps \cup VarRefs
JSValues == Objects \cup WeakMaps

ASSUME CellsAssumption ==
    /\ IsFiniteSet(Cells) /\ Null \notin Cells
    /\ Objects \cap WeakMaps = {} /\ VarRefs \cap JSValues = {}
ASSUME BoundsAssumption == MaxGcs \in Nat \ {0} /\ MaxRecords \in Nat

VARIABLES
    life,         \* "free", "live", or "zombie": freed, its memory kept
    field,        \* what an object or a variable holds
    entries,      \* weak map |-> key |-> value, Null without a record
    weak_count, \* of a weak map
    roots,        \* the cells the script holds
    ref_count, mark,
    gc_obj_list, tmp_obj_list, gc_zero_ref_count_list,
    phase,        \* the loop that runs; "none" while the script does
    el,           \* the next element of that loop
    gcs           \* collections since the script last ran, at most MaxGcs

heap == <<life, field, entries, weak_count>>
lists == <<gc_obj_list, tmp_obj_list, gc_zero_ref_count_list>>
gcVars == <<heap, roots, ref_count, mark, lists, phase, el, gcs>>

Without(list, S) ==
    LET kept[i \in 0..Len(list)] ==
            IF i = 0 THEN <<>>
            ELSE IF list[i] \in S THEN kept[i - 1] ELSE Append(kept[i - 1], list[i])
    IN  kept[Len(list)]
Successor(list, x) ==
    LET i == CHOOSE i \in 1..Len(list) : list[i] = x
    IN  IF i = Len(list) THEN Null ELSE list[i + 1]
First(list) == IF list = <<>> THEN Null ELSE Head(list)

(* A reference is <<holder, key>>, with the key of a weak map's record, or *)
(* Null for the field; these are the references that cells of S hold to c. *)
HoldsAt(h, k, c) ==
    IF h \in WeakMaps THEN k # Null /\ entries[h][k] = c ELSE k = Null /\ field[h] = c
References(S, c) == {r \in S \X (JSValues \cup {Null}) : HoldsAt(r[1], r[2], c)}

(* How often holder holds c.                                               *)
Holds(holder, c) == Cardinality(References({holder}, c))

-----------------------------------------------------------------------------
GcInit ==
    /\ life = [c \in Cells |-> "free"] /\ field = [c \in Objects \cup VarRefs |-> Null]
    /\ entries = [w \in WeakMaps |-> [k \in JSValues |-> Null]]
    /\ weak_count = [w \in WeakMaps |-> 0]
    /\ roots = {} /\ ref_count = [c \in Cells |-> 0] /\ mark = [c \in Cells |-> 0]
    /\ gc_obj_list = <<>> /\ tmp_obj_list = <<>> /\ gc_zero_ref_count_list = <<>>
    /\ phase = "none" /\ el = Null /\ gcs = 0

(* JS_FreeValueRT and free_var_ref for drops[c] references to each c, in a *)
(* heap where gone is being freed.  A variable without references goes at  *)
(* once, with the reference it holds; other cells go to the list of those  *)
(* to be freed, but not while cycles are removed.                          *)
Dropped(drops, gone, removing) ==
    LET vdead == {v \in VarRefs : drops[v] > 0 /\ ref_count[v] = drops[v]}
        also == [c \in Cells |-> drops[c] + Cardinality(References(vdead, c))]
        zero == IF removing THEN {}
                ELSE {c \in JSValues \ gone : also[c] > 0 /\ ref_count[c] = also[c]}
    IN  [ref_count |-> [c \in Cells |-> ref_count[c] - also[c]],
         vdead |-> vdead,
         gc_obj_list |-> Without(gc_obj_list, vdead \cup zero),
         tmp_obj_list |-> Without(tmp_obj_list, vdead),
         zero_list |-> SetToSeq(zero) \o Without(gc_zero_ref_count_list, vdead)]

(* A reference the script gives up, with what follows from it.             *)
JS_FreeValue(held, c) ==
    LET d == Dropped([x \in Cells |-> IF x = c THEN 1 ELSE 0], {}, FALSE)
    IN  /\ ref_count' = [d.ref_count EXCEPT ![held] = @ + 1]
        /\ life' = [x \in Cells |-> IF x \in d.vdead THEN "free" ELSE life[x]]
        /\ gc_obj_list' = d.gc_obj_list
        /\ gc_zero_ref_count_list' = d.zero_list
        /\ phase' = IF d.zero_list = <<>> THEN "none" ELSE "free_zero"

-----------------------------------------------------------------------------
(* What a script does, between collections.  It reaches only what it       *)
(* holds.                                                                  *)
Script == phase = "none" /\ gcs' = 0 /\ UNCHANGED <<el, mark, tmp_obj_list>>

(* add_gc_object.                                                          *)
New(c) ==
    /\ Script /\ life[c] = "free"
    /\ life' = [life EXCEPT ![c] = "live"]
    /\ ref_count' = [ref_count EXCEPT ![c] = 1]
    /\ roots' = roots \cup {c}
    /\ gc_obj_list' = Append(gc_obj_list, c)
    /\ field' = [x \in DOMAIN field |-> IF x = c THEN Null ELSE field[x]]
    /\ UNCHANGED <<entries, weak_count, gc_zero_ref_count_list, phase>>

Get(h) ==
    /\ Script /\ h \in roots
    /\ \E c \in Cells \ roots :
          /\ Holds(h, c) > 0
          /\ roots' = roots \cup {c} /\ ref_count' = [ref_count EXCEPT ![c] = @ + 1]
    /\ UNCHANGED <<heap, gc_obj_list, gc_zero_ref_count_list, phase>>

Put(h, c) ==
    /\ Script /\ h \in roots \ WeakMaps /\ c \in roots /\ field[h] # c
    /\ h \in VarRefs => c \in JSValues
    /\ field' = [field EXCEPT ![h] = c]
    /\ IF field[h] = Null
       THEN /\ ref_count' = [ref_count EXCEPT ![c] = @ + 1]
            /\ UNCHANGED <<life, gc_obj_list, gc_zero_ref_count_list, phase>>
       ELSE JS_FreeValue(c, field[h])
    /\ UNCHANGED <<entries, weak_count, roots>>

Let(c) ==
    /\ Script /\ c \in roots
    /\ roots' = roots \ {c}
    /\ LET d == Dropped([x \in Cells |-> IF x = c THEN 1 ELSE 0], {}, FALSE)
       IN  /\ ref_count' = d.ref_count
           /\ life' = [x \in Cells |-> IF x \in d.vdead THEN "free" ELSE life[x]]
           /\ gc_obj_list' = d.gc_obj_list /\ gc_zero_ref_count_list' = d.zero_list
           /\ phase' = IF d.zero_list = <<>> THEN "none" ELSE "free_zero"
    /\ UNCHANGED <<field, entries, weak_count>>

(* js_map_set on a weak map: the key is not counted, the value is.         *)
WeakSet(w, k, c) ==
    /\ Script /\ {w, k, c} \subseteq roots /\ entries[w][k] = Null /\ weak_count[w] < MaxRecords
    /\ entries' = [entries EXCEPT ![w][k] = c]
    /\ weak_count' = [weak_count EXCEPT ![w] = @ + 1]
    /\ ref_count' = [ref_count EXCEPT ![c] = @ + 1]
    /\ UNCHANGED <<life, field, roots, gc_obj_list, gc_zero_ref_count_list, phase>>

WeakDelete(w, k) ==
    /\ Script /\ {w, k} \subseteq roots /\ entries[w][k] \notin {Null}
    /\ entries' = [entries EXCEPT ![w][k] = Null]
    /\ weak_count' = [weak_count EXCEPT ![w] = @ - 1]
    /\ LET d == Dropped([x \in Cells |-> IF x = entries[w][k] THEN 1 ELSE 0], {}, FALSE)
       IN  /\ ref_count' = d.ref_count /\ life' = life
           /\ gc_obj_list' = d.gc_obj_list /\ gc_zero_ref_count_list' = d.zero_list
           /\ phase' = IF d.zero_list = <<>> THEN "none" ELSE "free_zero"
    /\ UNCHANGED <<field, roots>>

-----------------------------------------------------------------------------
(* reset_weak_ref: the maps with a record for this key.                    *)
WeakMapsWith(p) == {w \in WeakMaps : entries[w][p] # Null}

(* free_object: its fields or, by js_map_finalizer, the values of its      *)
(* records; the records of weak maps it is a key of, with their values,    *)
(* but not their counts.  While cycles are removed, memory that is still   *)
(* referenced is kept.                                                     *)
free_object(p, removing) ==
    LET freed(c) == {w \in WeakMapsWith(p) \ {p} : entries[w][p] = c}
        drops == [c \in Cells |-> Holds(p, c) + Cardinality(freed(c))]
        d == Dropped(drops, {p}, removing)
        keep == removing /\ d.ref_count[p] # 0
    IN  /\ ref_count' = d.ref_count
        /\ life' = [c \in Cells |-> IF c = p THEN (IF keep THEN "zombie" ELSE "free")
                                     ELSE IF c \in d.vdead THEN "free" ELSE life[c]]
        /\ field' = [c \in DOMAIN field |-> IF c = p THEN Null ELSE field[c]]
        /\ entries' = [w \in WeakMaps |->
                          [k \in JSValues |-> IF w = p \/ (k = p /\ w \in WeakMapsWith(p)) THEN Null
                                            ELSE entries[w][k]]]
        /\ weak_count' = [w \in WeakMaps |-> IF w = p THEN 0 ELSE weak_count[w]]
        /\ gc_obj_list' = Without(d.gc_obj_list, {p})
        /\ tmp_obj_list' = Without(d.tmp_obj_list, {p})
        /\ gc_zero_ref_count_list' = Without(d.zero_list, {p}) \o (IF keep THEN <<p>> ELSE <<>>)

free_zero_refcount ==
    /\ phase = "free_zero"
    /\ free_object(Head(gc_zero_ref_count_list), FALSE)
    /\ phase' = IF gc_zero_ref_count_list' = <<>> THEN "none" ELSE "free_zero"
    /\ UNCHANGED <<roots, mark, el, gcs>>

(* The script may be interrupted by a collection at any allocation.        *)
JS_RunGC ==
    /\ phase = "none" /\ gcs < MaxGcs /\ gc_obj_list # <<>>
    /\ phase' = "gc_decref" /\ el' = First(gc_obj_list)
    /\ UNCHANGED <<heap, roots, ref_count, mark, lists, gcs>>

(* gc_decref_child: only a child whose own children were counted already.  *)
Visited(c) == mark[c] = 1

(* The references among cells are taken off; what drops to zero goes to    *)
(* the other list.                                                         *)
gc_decref ==
    /\ phase = "gc_decref"
    /\ LET rc == [c \in Cells |-> ref_count[c] - Holds(el, c)]
           moved == {c \in Cells : Holds(el, c) > 0 /\ rc[c] = 0 /\ Visited(c)}
           self == IF rc[el] = 0 /\ el \notin moved THEN <<el>> ELSE <<>>
       IN  /\ ref_count' = rc /\ mark' = [mark EXCEPT ![el] = 1]
           /\ gc_obj_list' = Without(gc_obj_list, moved \cup ToSet(self))
           /\ tmp_obj_list' = tmp_obj_list \o SetToSeq(moved) \o self
           /\ LET next == Successor(gc_obj_list, el)
              IN  IF next # Null THEN el' = next /\ phase' = "gc_decref"
                  ELSE el' = First(gc_obj_list') /\ phase' = "gc_scan"
    /\ UNCHANGED <<heap, roots, gc_zero_ref_count_list, gcs>>

\* Mutant: the children of a cell that comes back are not looked at.
Rescued_kept(list, back) == SetToSeq(back) \o list

(* gc_scan_incref_child: to the end of the list, to be scanned.            *)
Rescued(list, back) == list \o SetToSeq(back)

(* What is held from outside comes back, with all it holds; at the end the *)
(* counts of the others are restored.                                      *)
gc_scan ==
    /\ phase = "gc_scan" /\ el # Null
    /\ LET rc == [c \in Cells |-> ref_count[c] + Holds(el, c)]
           back == {c \in Cells : Holds(el, c) > 0 /\ ref_count[c] = 0}
       IN  /\ ref_count' = rc
           /\ mark' = [c \in Cells |-> IF c \in back \cup {el} THEN 0 ELSE mark[c]]
           /\ gc_obj_list' = Rescued(gc_obj_list, back)
           /\ tmp_obj_list' = Without(tmp_obj_list, back)
           /\ el' = Successor(gc_obj_list', el)
    /\ UNCHANGED <<heap, roots, gc_zero_ref_count_list, phase, gcs>>

gc_scan_restore ==
    /\ phase = "gc_scan" /\ el = Null
    /\ ref_count' = [c \in Cells |->
                        ref_count[c] + Cardinality(References(ToSet(tmp_obj_list), c))]
    /\ phase' = "gc_free"
    /\ UNCHANGED <<heap, roots, mark, lists, el, gcs>>

gc_free_cycles ==
    /\ phase = "gc_free" /\ tmp_obj_list # <<>>
    /\ LET p == Head(tmp_obj_list)
       IN  IF p \in VarRefs
           THEN /\ tmp_obj_list' = Tail(tmp_obj_list)
                /\ gc_zero_ref_count_list' = Append(gc_zero_ref_count_list, p)
                /\ UNCHANGED <<heap, ref_count, gc_obj_list>>
           ELSE free_object(p, TRUE)
    /\ UNCHANGED <<roots, mark, phase, el, gcs>>

\* Mutant: the memory that was kept for its references is not given back.
gc_free_cycles_end_kept ==
    /\ phase = "gc_free" /\ tmp_obj_list = <<>>
    /\ mark' = [c \in Cells |-> IF life[c] # "live" THEN 0 ELSE mark[c]]
    /\ gc_zero_ref_count_list' = <<>> /\ phase' = "none" /\ gcs' = gcs + 1
    /\ UNCHANGED <<heap, roots, ref_count, gc_obj_list, tmp_obj_list, el>>

gc_free_cycles_end ==
    /\ phase = "gc_free" /\ tmp_obj_list = <<>>
    /\ life' = [c \in Cells |-> IF c \in ToSet(gc_zero_ref_count_list) THEN "free" ELSE life[c]]
    /\ mark' = [c \in Cells |-> IF life'[c] = "free" THEN 0 ELSE mark[c]]
    /\ gc_zero_ref_count_list' = <<>> /\ phase' = "none" /\ gcs' = gcs + 1
    /\ UNCHANGED <<field, entries, weak_count, roots, ref_count, gc_obj_list, tmp_obj_list, el>>

GcNext ==
    \/ \E c \in Cells : New(c) \/ Get(c) \/ Let(c) \/ \E x \in Cells : Put(x, c)
    \/ \E w \in WeakMaps, k \in JSValues : WeakDelete(w, k) \/ \E c \in JSValues : WeakSet(w, k, c)
    \/ free_zero_refcount \/ JS_RunGC \/ gc_decref \/ gc_scan \/ gc_scan_restore
    \/ gc_free_cycles \/ gc_free_cycles_end

GcSpec == GcInit /\ [][GcNext]_gcVars

-----------------------------------------------------------------------------
Reach(S) ==
    LET more(T) == T \cup {c \in Cells : References(T, c) # {}}
        grow[n \in 0..Cardinality(Cells)] == IF n = 0 THEN S ELSE more(grow[n - 1])
    IN  grow[Cardinality(Cells)]

Live == {c \in Cells : life[c] = "live"}

(* Whatever is freed, by its count or with a cycle, whatever a weak map    *)
(* loses with it: what the script can reach is alive, at every moment of   *)
(* the collection (free_object, gc_free_cycles, reset_weak_ref).           *)
ReachableAlive == Reach(roots) \subseteq Live

(* Between collections a cell counts the roots and the cells that hold it, *)
(* and no weak map has a record for a key that is gone (gc_decref takes    *)
(* all references off and gc_scan puts them back).                         *)
CountsExact ==
    phase = "none" =>
        /\ \A c \in Live : ref_count[c] = (IF c \in roots THEN 1 ELSE 0)
                                          + Cardinality(References(Live, c))
        /\ \A w \in WeakMaps \cap Live, k \in JSValues : entries[w][k] # Null => k \in Live
        /\ ToSet(gc_obj_list) = Live /\ \A c \in Live : mark[c] = 0

(* The assertions of the collector: a count to be taken off is there, an   *)
(* element of a list has the count its list says, and nothing but objects  *)
(* is left when the cycles are freed.                                      *)
AssertionsHold ==
    /\ phase = "free_zero" => ref_count[Head(gc_zero_ref_count_list)] = 0
    /\ phase = "gc_decref" => mark[el] = 0 /\ \A c \in Cells : ref_count[c] >= Holds(el, c)
    /\ phase = "gc_scan" /\ el # Null => ref_count[el] > 0
    /\ phase = "gc_free" /\ tmp_obj_list = <<>> => ToSet(gc_zero_ref_count_list) \cap VarRefs = {}

(* What the script can reach is alive at every moment of a collection,     *)
(* between collections every reference count is exact, and the assertions  *)
(* of the collector hold (free_object, gc_decref_child, gc_scan,           *)
(* gc_free_cycles, reset_weak_ref).                                        *)
MemorySafe == ReachableAlive /\ CountsExact /\ AssertionsHold

(* When the script holds still, a collection frees all it cannot reach,    *)
(* the memory kept while cycles were removed too (gc_free_cycles).         *)
(* While a weak map is alive one may not be enough: its value whose key    *)
(* went with a cycle is found by the next one (JS_FreeValueRT does nothing *)
(* while cycles are removed).                                              *)
GarbageGone ==
    phase = "none" /\ gcs > 0 /\ (gcs = MaxGcs \/ Live \cap WeakMaps = {}) =>
        {c \in Cells : life[c] # "free"} = Reach(roots)

(* The count of a weak map is the number of its records.                   *)
WeakCountExact ==
    phase = "none" =>
        \A w \in WeakMaps : weak_count[w] = Cardinality({k \in JSValues : entries[w][k] # Null})
=============================================================================
