------------------------------ MODULE MCTables ------------------------------
(***************************************************************************)
(* The engine's heap for TLC: the Map of the language, with iterators and  *)
(* nested loops, and in other behaviours the shapes of two objects with    *)
(* several prototypes, with attributes or with resizes, or of one object   *)
(* with many properties, or the collector.                                 *)
(***************************************************************************)
EXTENDS MapSet, Gc, TLC

CONSTANTS
    objA, objB,           \* the objects that have shapes
    iterA, iterB          \* the iterators of the map

VARIABLES
    part,                 \* what this behaviour is about
    cell,                 \* Gc: the cell that is used besides the objects
    shapes, obj, own      \* Shapes

shapeVars == <<shapes, obj, own>>
tableVars == <<part, cell, shapeVars, vars, gcVars>>

Off == "off"
NoShapes == shapes = Off /\ obj = Off /\ own = Off

(* The objects can be exchanged, and the iterators.                        *)
Symmetry == Permutations({objA, objB}) \cup Permutations({iterA, iterB})

(* Integer keys that share a chain of every table, another after a resize. *)
SomeKeys == {[num |-> n, rep |-> "int"] : n \in {1, 5}}
KeyHash(key) == key.num

-----------------------------------------------------------------------------
Flat == INSTANCE Shapes WITH
    Objects <- {objA, objB}, Protos <- {1, 2}, Atoms <- {1, 3}, Flags <- {0},
    InitialSize <- 1, InitialHashSize <- 2, CompactMin <- 2, HashMod <- 4, MaxProps <- 2
Flagged == INSTANCE Shapes WITH
    Objects <- {objA, objB}, Protos <- {1}, Atoms <- {1, 3}, Flags <- {0, 1},
    InitialSize <- 1, InitialHashSize <- 2, CompactMin <- 2, HashMod <- 4, MaxProps <- 2
Deep == INSTANCE Shapes WITH
    Objects <- {objA, objB}, Protos <- {1}, Atoms <- {1, 3}, Flags <- {0},
    InitialSize <- 2, InitialHashSize <- 2, CompactMin <- 2, HashMod <- 4, MaxProps <- 3
Long == INSTANCE Shapes WITH
    Objects <- {objA}, Protos <- {1, 2}, Atoms <- {1, 3, 5}, Flags <- {0, 1},
    InitialSize <- 2, InitialHashSize <- 2, CompactMin <- 2, HashMod <- 4, MaxProps <- 5

-----------------------------------------------------------------------------
(* The map and the heap of the collector rest where the behaviour is about *)
(* another part.  The collector has two objects and, besides, a variable   *)
(* that closures share or a weak map.                                      *)
TablesInit ==
    /\ Init /\ GcInit
    /\ \/ part \in {"map", "heap"} /\ NoShapes
       \/ part = "flat" /\ Flat!Init
       \/ part = "flagged" /\ Flagged!Init
       \/ part = "deep" /\ Deep!Init
       \/ part = "long" /\ Long!Init
    /\ cell \in IF part = "heap" THEN VarRefs \cup WeakMaps ELSE {Null}

HeapNext == GcNext /\ \A c \in VarRefs \cup WeakMaps : c # cell => life'[c] = "free"

TablesNext ==
    /\ UNCHANGED <<part, cell>>
    /\ \/ part = "map" /\ Next /\ UNCHANGED <<shapeVars, gcVars>>
       \/ part = "heap" /\ HeapNext /\ UNCHANGED <<shapeVars, vars>>
       \/ part = "flat" /\ Flat!Next /\ UNCHANGED <<vars, gcVars>>
       \/ part = "flagged" /\ Flagged!Next /\ UNCHANGED <<vars, gcVars>>
       \/ part = "deep" /\ Deep!Next /\ UNCHANGED <<vars, gcVars>>
       \/ part = "long" /\ Long!Next /\ UNCHANGED <<vars, gcVars>>

TablesSpec == TablesInit /\ [][TablesNext]_tableVars

-----------------------------------------------------------------------------
(* Whatever shapes objects share and leave, and wherever memory runs out,  *)
(* each object has exactly the properties that it was given, in order,     *)
(* with its own values and prototype; a lookup finds exactly these; its    *)
(* values never end before the properties of a shape that was resized for  *)
(* another object; and no two objects get to share by a stale hash         *)
(* (add_property, delete_property, compact_properties).                    *)
ShapesExact ==
    /\ part = "flat" => Flat!EachExact
    /\ part = "flagged" => Flagged!EachExact
    /\ part = "deep" => Deep!EachExact
    /\ part = "long" => Long!EachExact
=============================================================================
