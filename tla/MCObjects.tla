----------------------------- MODULE MCObjects ------------------------------
(***************************************************************************)
(* Ordinary objects, arrays and proxies for TLC, one instance of           *)
(* Properties or Proxy in each behaviour.                                  *)
(***************************************************************************)
EXTENDS Integers, Sequences, SequencesExt, TLC

CONSTANTS arrA, objO, objP, Null

VARIABLES
    part,                            \* the instance of this behaviour
    objs, es, ret,                   \* Properties
    target, revoked, last, seen      \* Proxy

objectVars == <<objs, es, ret>>
proxyVars == <<target, revoked, last, seen>>
allVars == <<part, objectVars, proxyVars>>

Off == "off"
NoObjects == objs = Off /\ es = Off /\ ret = Off
NoProxy == target = Off /\ revoked = Off /\ last = Off /\ seen = Off

OverObject == (arrA :> objP) @@ (objO :> objP) @@ (objP :> Null)
NoProto == [q \in {arrA, objO, objP} |-> Null]

Es == INSTANCE EsObjects WITH Objects <- {arrA, objO, objP}, Arrays <- {arrA}, Proto <- OverObject

-----------------------------------------------------------------------------
FlagSets == {[has |-> w[1] \cup e[1] \cup c[1], w |-> w[2], e |-> e[2], c |-> c[2]] :
               w \in {<<{}, FALSE>>} \cup ({{"writable"}} \X BOOLEAN),
               e \in {<<{}, FALSE>>} \cup ({{"enumerable"}} \X BOOLEAN),
               c \in {<<{}, FALSE>>} \cup ({{"configurable"}} \X BOOLEAN)}

\* Every descriptor with value 1, and with getter and setter 1 or none.
AllDescriptors ==
    {[Es!Blank EXCEPT !.has = f.has \cup v, !.value = IF v = {} THEN Es!Undefined ELSE 1,
                   !.writable = f.w, !.enumerable = f.e, !.configurable = f.c] :
        f \in FlagSets, v \in {{}, {"value"}}}
    \cup
    {[Es!Blank EXCEPT !.has = f.has \cup (IF g < 0 THEN {} ELSE {"get"})
                                 \cup (IF s < 0 THEN {} ELSE {"set"}),
                   !.get = IF g < 0 THEN 0 ELSE g, !.set = IF s < 0 THEN 0 ELSE s,
                   !.configurable = f.c] :
        f \in {x \in FlagSets : x.has \subseteq {"configurable"}}, g \in -1..1, s \in -1..1}

SomeDescriptors ==
    {Es!ValueOnly(1), Es!ValueOnly(0),
     [Es!Blank EXCEPT !.has = {"configurable"}],
     [Es!Blank EXCEPT !.has = {"writable"}],
     [Es!Blank EXCEPT !.has = {"value", "writable"}, !.value = 1],
     [Es!Blank EXCEPT !.has = {"set", "configurable"}, !.set = 1, !.configurable = TRUE]}

FewDescriptors ==
    {[Es!Blank EXCEPT !.has = {"writable"}],
     [Es!Blank EXCEPT !.has = {"set", "configurable"}, !.set = 1, !.configurable = TRUE]}

ObjectStart ==
    [q \in {arrA, objO, objP} |-> [array |-> FALSE, fast |-> FALSE, values |-> <<>>, slots |-> <<>>,
                        props |-> <<>>, ext |-> TRUE, has_small_array_index |-> FALSE]]

NewArray(keys, len) ==
    [array |-> TRUE, fast |-> keys = <<>>, values |-> <<>>, slots |-> <<Es!LENGTH>> \o keys,
     props |-> (Es!LENGTH :> Es!Data(len, TRUE, FALSE, FALSE)) @@
               [k \in ToSet(keys) |-> Es!Data(1, TRUE, TRUE, TRUE)],
     ext |-> TRUE, has_small_array_index |-> keys # <<>>]

ArrayStart == [q \in {arrA, objO, objP} |-> IF q = arrA THEN NewArray(<<>>, 0) ELSE ObjectStart[q]]

\* A slow array of nine elements.
LongStart == [q \in {arrA, objO, objP} |-> NewArray(<<0, 1, 2, 3, 4, 5, 6, 7, 8>>, 9)]

\* A fast array of two different elements.
PairStart == [q \in {arrA, objO, objP} |-> [NewArray(<<>>, 2) EXCEPT !.values = <<1, 2>>]]

ArrayKeys == {Es!LENGTH, 0, 1, 5}
MethodKeys == {Es!LENGTH, 1}
ProtoKeys == {0}
LongKeys == {Es!LENGTH, 8}

(* Every descriptor on an object and its prototype; an array whose length  *)
(* and elements are written and defined; the methods of arrays; an array   *)
(* under a prototype with indices; and a slow array of nine elements.      *)
Plain == INSTANCE Properties WITH
    Objects <- {objO, objP}, Arrays <- {}, Proto <- OverObject, Keys <- {0}, Values <- {1},
    Lengths <- {}, Descriptors <- AllDescriptors, Methods <- {}, Start <- [q \in {objO, objP} |-> ObjectStart[q]],
    GrowSealed <- FALSE, MaxLength <- 0, MaxSlots <- 1
Array == INSTANCE Properties WITH
    Objects <- {arrA}, Arrays <- {arrA}, Proto <- NoProto, Keys <- ArrayKeys, Values <- {1},
    Lengths <- {0, 1, 6}, Descriptors <- SomeDescriptors, Methods <- {}, Start <- [q \in {arrA} |-> ArrayStart[q]],
    GrowSealed <- FALSE, MaxLength <- 6, MaxSlots <- 3
Calls == INSTANCE Properties WITH
    Objects <- {arrA}, Arrays <- {arrA}, Proto <- NoProto, Keys <- MethodKeys, Values <- {1},
    Lengths <- {3}, Descriptors <- FewDescriptors,
    Methods <- {"pop", "shift", "push", "unshift", "reverse", "fill", "copyWithin", "splice"},
    Start <- [q \in {arrA} |-> PairStart[q]], GrowSealed <- FALSE, MaxLength <- 3, MaxSlots <- 4
Chain == INSTANCE Properties WITH
    Objects <- {arrA, objP}, Arrays <- {arrA}, Proto <- OverObject, Keys <- ProtoKeys, Values <- {1},
    Lengths <- {0, 1}, Descriptors <- SomeDescriptors, Methods <- {"push"},
    Start <- [q \in {arrA, objP} |-> ArrayStart[q]], GrowSealed <- FALSE, MaxLength <- 1, MaxSlots <- 2
Long == INSTANCE Properties WITH
    Objects <- {arrA}, Arrays <- {arrA}, Proto <- NoProto, Keys <- LongKeys, Values <- {1},
    Lengths <- {0, 9}, Descriptors <- FewDescriptors, Methods <- {}, Start <- [q \in {arrA} |-> LongStart[q]],
    GrowSealed <- FALSE, MaxLength <- 9, MaxSlots <- 10

(* A proxy whose target has one property, and one whose target has two and *)
(* a prototype.                                                            *)
TrapDescriptors(Values) ==
    {[Es!Blank EXCEPT !.has = {"value", "configurable", "writable", "enumerable"}, !.value = v,
                   !.configurable = c, !.writable = w] : v \in Values, c, w \in BOOLEAN}
    \cup {Es!ValueOnly(1), [Es!Blank EXCEPT !.has = {"configurable"}],
          [Es!Blank EXCEPT !.has = {"writable"}, !.writable = TRUE],
          [Es!Blank EXCEPT !.has = {"get", "configurable"}, !.get = 1, !.configurable = TRUE],
          [Es!Blank EXCEPT !.has = {"set", "configurable"}, !.set = 1],
          [Es!Blank EXCEPT !.has = {"get", "set"}]}

Traps == INSTANCE Proxy WITH
    Objects <- {}, Arrays <- {}, Proto <- NoProto, Keys <- {0}, Values <- {1, 2}, Protos <- {objP},
    Descriptors <- TrapDescriptors({1, 2}), Nested <- FALSE,
    Operations <- {"has", "get", "set", "getOwnProperty", "define", "delete", "isExtensible",
                   "preventExtensions"}
KeyTraps == INSTANCE Proxy WITH
    Objects <- {}, Arrays <- {}, Proto <- NoProto, Keys <- {0, 1}, Values <- {1}, Protos <- {objP},
    Descriptors <- {Es!Plain(1), [Es!Blank EXCEPT !.has = {"configurable"}]}, Nested <- FALSE,
    Operations <- {"delete", "ownKeys", "getPrototypeOf", "setPrototypeOf", "preventExtensions",
                   "isExtensible"}
NestedTraps == INSTANCE Proxy WITH
    Objects <- {}, Arrays <- {}, Proto <- NoProto, Keys <- {0}, Values <- {1}, Protos <- {objP},
    Descriptors <- {Es!Plain(1), [Es!Blank EXCEPT !.has = {"configurable"}]}, Nested <- TRUE,
    Operations <- {"has", "getOwnProperty", "define", "delete", "preventExtensions", "isExtensible"}

-----------------------------------------------------------------------------
Init ==
    \/ part = "plain" /\ Plain!Init /\ NoProxy
    \/ part = "array" /\ Array!Init /\ NoProxy
    \/ part = "calls" /\ Calls!Init /\ NoProxy
    \/ part = "chain" /\ Chain!Init /\ NoProxy
    \/ part = "long" /\ Long!Init /\ NoProxy
    \/ part = "traps" /\ Traps!Init /\ NoObjects
    \/ part = "keys" /\ KeyTraps!Init /\ NoObjects
    \/ part = "nested" /\ NestedTraps!Init /\ NoObjects

Next ==
    /\ UNCHANGED part
    /\ \/ part = "plain" /\ Plain!Next /\ UNCHANGED proxyVars
       \/ part = "array" /\ Array!Next /\ UNCHANGED proxyVars
       \/ part = "calls" /\ Calls!Next /\ UNCHANGED proxyVars
       \/ part = "chain" /\ Chain!Next /\ UNCHANGED proxyVars
       \/ part = "long" /\ Long!Next /\ UNCHANGED proxyVars
       \/ part = "traps" /\ Traps!Next /\ UNCHANGED objectVars
       \/ part = "keys" /\ KeyTraps!Next /\ UNCHANGED objectVars
       \/ part = "nested" /\ NestedTraps!Next /\ UNCHANGED objectVars

Spec == Init /\ [][Next]_allVars

-----------------------------------------------------------------------------
(* The properties of the parts.                                            *)

(* Whatever the order of operations, an object has the properties, with    *)
(* the values and flags, and an array the length, that the standard gives  *)
(* it, also after a fast array became slow, after a truncation that an     *)
(* element resisted and when an operation failed halfway; an operation     *)
(* succeeds when the standard says so and calls its setters in order; and  *)
(* what the fast paths rely on holds (JS_DefineProperty,                   *)
(* JS_SetPropertyInternal, set_array_length, delete_property).  No         *)
(* instance defines an element beyond the end of an array that cannot grow *)
(* (8872), truncates an array so that its shape is compacted on the way    *)
(* (8236), or assigns where a nearer prototype has a writable property and *)
(* a farther one a setter or a read-only one (8584): there the code        *)
(* differs.                                                                *)
ObjectsExact ==
    /\ part = "plain" => Plain!FastPathsSound /\ Plain!ObjectsExact /\ Plain!ResultsExact
    /\ part = "array" => Array!FastPathsSound /\ Array!ObjectsExact /\ Array!ResultsExact
    /\ part = "calls" => Calls!FastPathsSound /\ Calls!ObjectsExact /\ Calls!ResultsExact
    /\ part = "chain" => Chain!FastPathsSound /\ Chain!ObjectsExact /\ Chain!ResultsExact
    /\ part = "long" => Long!FastPathsSound /\ Long!ObjectsExact /\ Long!ResultsExact

(* Whatever a trap answers, and whenever it revokes the proxy, the caller  *)
(* of the internal method gets the answer or the TypeError that the        *)
(* standard says; and what the proxy said for good, that it is not         *)
(* extensible or that a property is not configurable, no later answer      *)
(* takes back (js_proxy_get_own_property, js_proxy_define_own_property,    *)
(* js_proxy_get_own_property_names).  The answers on which the code gives  *)
(* another result are named: a descriptor of an accessor, or of a frozen   *)
(* property with another value (44848); a value for a property that is     *)
(* writable and not configurable (44958, 44969); a property hidden in, or  *)
(* added to, a proxy of an object that is not extensible (44629); and an   *)
(* ownKeys trap that revokes its proxy (45095).                            *)
ProxiesExact ==
    /\ part = "traps" => Traps!TrapsExact /\ Traps!PromisesKept
    /\ part = "keys" => KeyTraps!TrapsExact /\ KeyTraps!PromisesKept
    /\ part = "nested" => NestedTraps!TrapsExact /\ NestedTraps!PromisesKept
=============================================================================
