------------------------------- MODULE Shapes -------------------------------
(***************************************************************************)
(* The own properties of objects in quickjs/quickjs.c.  An object has a    *)
(* shape (its prototype and the names and flags of its properties, with a  *)
(* hash table of them) and an array of values.  Objects share shapes: a    *)
(* hashed shape is found again by an object that gets the same properties  *)
(* in the same order, and is cloned before it is changed for one of them.  *)
(***************************************************************************)
EXTENDS Integers, Sequences, SequencesExt, FiniteSets

CONSTANTS
    Objects, Protos, Atoms, Flags,   \* Protos, Atoms and Flags are numbers
    InitialSize, InitialHashSize,    \* JS_PROP_INITIAL_SIZE, JS_PROP_INITIAL_HASH_SIZE
    CompactMin,                      \* deleted properties before they are removed
    HashMod,                         \* the range of the hash of a shape
    MaxProps                         \* bound: entries of a shape, deleted ones too

VARIABLES
    shapes,   \* id |-> shape
    obj,      \* object |-> [shape, prop]: prop is the array of values
    own       \* object |-> [proto, props]: what was asked for, in order

vars == <<shapes, obj, own>>

JS_ATOM_NULL == 0
Ids == 1..Cardinality(Objects) + 1
NoShape == [proto |-> 0, hash |-> 0, is_hashed |-> FALSE, prop |-> <<>>, prop_size |-> 0,
            head |-> <<>>, deleted |-> 0]
NoObject == [shape |-> 0, prop |-> <<>>]
Larger(a, b) == IF a > b THEN a ELSE b

Init ==
    /\ shapes = [i \in Ids |-> NoShape]
    /\ obj = [o \in Objects |-> NoObject]
    /\ own = [o \in Objects |-> [proto |-> 0, props |-> <<>>]]

Alive(o) == obj[o].shape # 0
ref_count(objs, i) == Cardinality({o \in Objects : objs[o].shape = i})
FreeId(objs) == CHOOSE i \in Ids : ref_count(objs, i) = 0
ShapeOf(o) == shapes[obj[o].shape]

(* js_free_shape: shapes without objects are gone.                         *)
Kept(shs, objs) == [i \in Ids |-> IF ref_count(objs, i) = 0 THEN NoShape ELSE shs[i]]

-----------------------------------------------------------------------------
(* The hash of a shape and the hash table of its properties: head has the  *)
(* first entry of each chain, hash_next the next one, 0 ends it.           *)

shape_hash(h, val) == ((h + val) * 5) % HashMod
shape_initial_hash(proto) == shape_hash(1, proto)
HashWith(h, atom, flags) == shape_hash(shape_hash(h, atom), flags)

Bucket(atom, size) == (atom % size) + 1

Linked(sh, entry, i) ==
    LET b == Bucket(entry.atom, Len(sh.head))
    IN  [sh EXCEPT !.prop = Append(@, [entry EXCEPT !.hash_next = sh.head[b]]), !.head[b] = i]

(* All properties go to a new hash table of the given size.                *)
Rehashed(sh, size) ==
    FoldLeft(LAMBDA s, e : IF e.atom = JS_ATOM_NULL THEN [s EXCEPT !.prop = Append(@, e)]
                           ELSE Linked(s, e, Len(s.prop) + 1),
             [sh EXCEPT !.prop = <<>>, !.head = [b \in 1..size |-> 0]], sh.prop)

js_new_shape2(proto) ==
    [NoShape EXCEPT !.proto = proto, !.hash = shape_initial_hash(proto), !.is_hashed = TRUE,
                    !.prop_size = InitialSize, !.head = [b \in 1..InitialHashSize |-> 0]]

DoubledTo(size, n) == CHOOSE s \in {size, 2 * size, 4 * size} : s >= n /\ (s = size \/ s \div 2 < n)
HalvedTo(size, n) == CHOOSE s \in {size, size \div 2, size \div 4} : s \div 2 < n /\ (s = size \/ s >= n)

NewSize(sh, count) == Larger(count, (sh.prop_size * 3) \div 2)

resize_properties(sh, count) ==
    LET size == DoubledTo(Len(sh.head), NewSize(sh, count))
    IN  [(IF size = Len(sh.head) THEN sh ELSE Rehashed(sh, size)) EXCEPT !.prop_size = NewSize(sh, count)]

(* The values after p->prop was given another size.                        *)
Resized(prop, size) == [i \in 1..size |-> IF i <= Len(prop) THEN prop[i] ELSE 0]

add_shape_property(sh, atom, flags) ==
    LET big == IF Len(sh.prop) >= sh.prop_size THEN resize_properties(sh, Len(sh.prop) + 1) ELSE sh
    IN  Linked([big EXCEPT !.hash = IF sh.is_hashed THEN HashWith(@, atom, flags) ELSE @],
               [atom |-> atom, flags |-> flags, hash_next |-> 0], Len(sh.prop) + 1)

NamesOf(sh) == [i \in 1..Len(sh.prop) |-> <<sh.prop[i].atom, sh.prop[i].flags>>]

Matches(sh1, sh, atom, flags) == NamesOf(sh1) = Append(NamesOf(sh), <<atom, flags>>)

find_hashed_shape_prop(sh, atom, flags) ==
    {i \in Ids : /\ shapes[i].is_hashed /\ shapes[i].hash = HashWith(sh.hash, atom, flags)
                 /\ shapes[i].proto = sh.proto /\ Matches(shapes[i], sh, atom, flags)}

find_hashed_shape_proto(proto) ==
    {i \in Ids : /\ shapes[i].is_hashed /\ shapes[i].hash = shape_initial_hash(proto)
                 /\ shapes[i].proto = proto /\ shapes[i].prop = <<>>}

RECURSIVE Chain(_, _, _)
Chain(sh, h, atom) ==
    IF h = 0 THEN 0 ELSE IF sh.prop[h].atom = atom THEN h ELSE Chain(sh, sh.prop[h].hash_next, atom)

(* The index of a property, 0 for none.                                    *)
find_own_property(sh, atom) == Chain(sh, sh.head[Bucket(atom, Len(sh.head))], atom)

-----------------------------------------------------------------------------
(* Operations.  Put(o, sh, prop): the object has a shape of its own now.   *)

Become(o, i, shs, prop) ==
    LET objs == [obj EXCEPT ![o] = [shape |-> i, prop |-> prop]]
    IN  obj' = objs /\ shapes' = Kept(shs, objs)

\* Mutant: a shape is changed in place whoever uses it.
MustClone_never(o) == FALSE
MustClone(o) == ShapeOf(o).is_hashed /\ ref_count(obj, obj[o].shape) # 1

(* The shape that may be changed for o alone: its own, or a clone of it.   *)
Own(o) == IF MustClone(o) THEN FreeId(obj) ELSE obj[o].shape

(* js_shape_prepare_update: and no other object will find it.              *)
js_shape_prepare_update(o) == [ShapeOf(o) EXCEPT !.is_hashed = FALSE]

JS_NewObjectProtoClass(o, proto) ==
    /\ ~Alive(o)
    /\ \E i \in IF find_hashed_shape_proto(proto) # {} THEN find_hashed_shape_proto(proto) ELSE {FreeId(obj)} :
          Become(o, i, IF shapes[i].is_hashed THEN shapes ELSE [shapes EXCEPT ![i] = js_new_shape2(proto)],
                 [k \in 1..(IF shapes[i].is_hashed THEN shapes[i].prop_size ELSE InitialSize) |-> 0])
    /\ own' = [own EXCEPT ![o] = [proto |-> proto, props |-> <<>>]]

FittedTo(o, i) ==
    IF shapes[i].prop_size # ShapeOf(o).prop_size THEN Resized(obj[o].prop, shapes[i].prop_size) ELSE obj[o].prop

(* A new property, by the shape that has it already or by a change; its    *)
(* value is its name here.                                                 *)
add_property(o, atom, flags) ==
    /\ Alive(o) /\ find_own_property(ShapeOf(o), atom) = 0 /\ Len(ShapeOf(o).prop) < MaxProps
    /\ LET sh == ShapeOf(o)
           same == IF sh.is_hashed THEN find_hashed_shape_prop(sh, atom, flags) ELSE {}
           new == add_shape_property(sh, atom, flags)
           n == Len(sh.prop) + 1
       IN  IF same # {}
           THEN \E i \in same : Become(o, i, shapes, [FittedTo(o, i) EXCEPT ![n] = atom])
           ELSE Become(o, Own(o), [shapes EXCEPT ![Own(o)] = new],
                       [Resized(obj[o].prop, Larger(Len(obj[o].prop), new.prop_size)) EXCEPT ![n] = atom])
    /\ own' = [own EXCEPT ![o].props = Append(@, [atom |-> atom, flags |-> flags, val |-> atom])]

(* The same when there is no memory to resize: the clone stays.            *)
AddFails(o, atom, flags) ==
    /\ Alive(o) /\ find_own_property(ShapeOf(o), atom) = 0
    /\ ShapeOf(o).is_hashed => find_hashed_shape_prop(ShapeOf(o), atom, flags) = {}
    /\ Len(ShapeOf(o).prop) >= ShapeOf(o).prop_size
    /\ \E grown \in BOOLEAN :
          Become(o, Own(o), [shapes EXCEPT ![Own(o)] = ShapeOf(o)],
                 IF grown THEN Resized(obj[o].prop, NewSize(ShapeOf(o), Len(ShapeOf(o).prop) + 1)) ELSE obj[o].prop)
    /\ UNCHANGED own

(* Without the deleted properties; the values move with their properties.  *)
compact_properties(sh) ==
    LET live == SelectSeq(sh.prop, LAMBDA e : e.atom # JS_ATOM_NULL)
        size == Larger(InitialSize, Len(live))
    IN  [Rehashed([sh EXCEPT !.prop = live], HalvedTo(Len(sh.head), size)) EXCEPT !.prop_size = size, !.deleted = 0]

LiveValues(sh, prop) ==
    LET live == SelectSeq([i \in 1..Len(sh.prop) |-> i], LAMBDA i : sh.prop[i].atom # JS_ATOM_NULL)
    IN  [k \in 1..Len(live) |-> prop[live[k]]]

After(sh, h) == sh.prop[h].hash_next

(* Out of its chain and out of the properties; its place stays.            *)
Unlinked(sh, h) ==
    LET b == Bucket(sh.prop[h].atom, Len(sh.head))
        entry(i) == IF i = h THEN [atom |-> JS_ATOM_NULL, flags |-> 0, hash_next |-> sh.prop[h].hash_next]
                    ELSE IF sh.prop[i].atom # JS_ATOM_NULL /\ sh.prop[i].hash_next = h
                    THEN [sh.prop[i] EXCEPT !.hash_next = After(sh, h)]
                    ELSE sh.prop[i]
    IN  [sh EXCEPT !.head[b] = IF @ = h THEN After(sh, h) ELSE @, !.deleted = @ + 1,
                   !.prop = [i \in 1..Len(sh.prop) |-> entry(i)]]

Crowded(sh) == sh.deleted >= CompactMin /\ sh.deleted >= Len(sh.prop) \div 2

(* Nobody looks whether there was memory to compact the properties; making *)
(* the values fewer needs none.                                            *)
delete_property(o, atom) ==
    /\ Alive(o) /\ find_own_property(ShapeOf(o), atom) # 0
    /\ LET h == find_own_property(ShapeOf(o), atom)
           sh == Unlinked(js_shape_prepare_update(o), h)
           prop == [obj[o].prop EXCEPT ![h] = 0]
       IN  \/ /\ Crowded(sh)
              /\ Become(o, Own(o), [shapes EXCEPT ![Own(o)] = compact_properties(sh)],
                        Resized(LiveValues(sh, prop), compact_properties(sh).prop_size))
           \/ Become(o, Own(o), [shapes EXCEPT ![Own(o)] = sh], prop)
    /\ own' = [own EXCEPT ![o].props = SelectSeq(@, LAMBDA e : e.atom # atom)]

js_update_property_flags(o, atom, flags) ==
    /\ Alive(o)
    /\ LET h == find_own_property(ShapeOf(o), atom)
       IN  /\ h # 0 /\ ShapeOf(o).prop[h].flags # flags
           /\ Become(o, Own(o), [shapes EXCEPT ![Own(o)] = [js_shape_prepare_update(o) EXCEPT !.prop[h].flags = flags]],
                     obj[o].prop)
    /\ own' = [own EXCEPT ![o].props = [i \in DOMAIN own[o].props |->
                   IF own[o].props[i].atom = atom THEN [own[o].props[i] EXCEPT !.flags = flags] ELSE own[o].props[i]]]

JS_SetPrototypeInternal(o, proto) ==
    /\ Alive(o) /\ ShapeOf(o).proto # proto
    /\ Become(o, Own(o), [shapes EXCEPT ![Own(o)] = [js_shape_prepare_update(o) EXCEPT !.proto = proto]], obj[o].prop)
    /\ own' = [own EXCEPT ![o].proto = proto]

free_object(o) ==
    /\ Alive(o)
    /\ Become(o, 0, shapes, <<>>)
    /\ own' = [own EXCEPT ![o] = [proto |-> 0, props |-> <<>>]]

Next == \E o \in Objects :
    \/ \E proto \in Protos : JS_NewObjectProtoClass(o, proto) \/ JS_SetPrototypeInternal(o, proto)
    \/ \E atom \in Atoms, flags \in Flags :
          \/ add_property(o, atom, flags) \/ AddFails(o, atom, flags)
          \/ js_update_property_flags(o, atom, flags)
    \/ \E atom \in Atoms : delete_property(o, atom)
    \/ free_object(o)

Spec == Init /\ [][Next]_vars

-----------------------------------------------------------------------------
(* Whatever shapes objects share and leave, each object has exactly the    *)
(* properties that it was given, in the order it got them, with their      *)
(* flags, its own values and its own prototype.                            *)
PropertiesExact ==
    \A o \in Objects : Alive(o) =>
        LET sh == ShapeOf(o)
            live == SelectSeq([i \in 1..Len(sh.prop) |-> i], LAMBDA i : sh.prop[i].atom # JS_ATOM_NULL)
        IN  own[o] = [proto |-> sh.proto,
                      props |-> [k \in 1..Len(live) |-> [atom |-> sh.prop[live[k]].atom, flags |-> sh.prop[live[k]].flags,
                                                         val |-> obj[o].prop[live[k]]]]]

(* The hash table of a shape finds a property exactly when the object has  *)
(* it, after any deletions, resizes and compactions (find_own_property).   *)
FoundExactly ==
    \A o \in Objects : Alive(o) =>
        \A atom \in Atoms : (find_own_property(ShapeOf(o), atom) # 0) <=> \E i \in DOMAIN own[o].props : own[o].props[i].atom = atom

(* The values of an object never end before the properties of its shape,   *)
(* though the shape may have been resized for another object               *)
(* (add_property, resize_properties, compact_properties).                  *)
ValuesFit == \A o \in Objects : Alive(o) => Len(obj[o].prop) >= ShapeOf(o).prop_size

(* A shape that others can find has the hash of its properties and nothing *)
(* deleted, so two objects never get to share by a stale hash.             *)
HashedIsFresh ==
    \A i \in Ids : shapes[i].is_hashed =>
        /\ shapes[i].deleted = 0
        /\ shapes[i].hash = FoldLeft(LAMBDA h, e : HashWith(h, e.atom, e.flags),
                                     shape_initial_hash(shapes[i].proto), shapes[i].prop)

(* All of it, wherever memory runs out.                                   *)
EachExact == ValuesFit /\ FoundExactly /\ HashedIsFresh /\ PropertiesExact
=============================================================================
