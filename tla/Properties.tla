----------------------------- MODULE Properties -----------------------------
(***************************************************************************)
(* The properties of objects and arrays in quickjs.c: how they are         *)
(* defined, assigned, deleted and frozen, and the array methods that move  *)
(* elements.                                                               *)
(*                                                                         *)
(* An array starts fast: its elements 0 .. count-1 are in u.array.values,  *)
(* all of them plain data properties, and it is converted to a slow array, *)
(* for good, when one of them cannot be.  The other properties are in the  *)
(* order of the shape, where a deleted one leaves a hole until there are   *)
(* enough of them.  Every operation is run on `objs' the way the code does *)
(* and on `es' the way the standard does (module EsObjects).               *)
(*                                                                         *)
(* Getters return undefined and setters do nothing but be called.          *)
(***************************************************************************)
EXTENDS EsObjects, SequencesExt

CONSTANTS
    Keys,        \* the keys the operations are given
    Values,      \* the values they write
    Lengths,     \* the values they write to LENGTH
    Descriptors, \* the descriptors they define properties with
    Methods,     \* the array methods that are called
    Start,       \* the objects to begin with
    GrowSealed,  \* are elements defined past the end of an array that is not extensible?
    MaxLength,   \* bound: the length of an array
    MaxSlots     \* bound: the properties of an object, holes included

VARIABLES
    objs,  \* the objects, as the code keeps them
    es,    \* the same objects, as the standard has them
    ret    \* what the last operation returned in each, and the setters it called
vars == <<objs, es, ret>>

Hole == -2
Max2(a, b) == IF a > b THEN a ELSE b

\* p->shape->prop and p->prop: the keys in their slots, and their values and flags.
find_own_property(o, k) == k \in DOMAIN o.props

\* An element of a fast array.
InValues(o, k) == o.fast /\ IsIndex(k) /\ k < Len(o.values)

Count(o) == Len(o.values)
Length(o) == o.props[LENGTH].value

Done(o) == [o |-> o, ok |-> TRUE]
Refused(o) == [o |-> o, ok |-> FALSE]

add_property_unmarked(o, k, q) ==
    [o EXCEPT !.slots = Append(@, k), !.props = (k :> q) @@ @]

add_property(o, k, q) ==
    [o EXCEPT !.slots = Append(@, k), !.props = (k :> q) @@ @,
              !.has_small_array_index = @ \/ IsIndex(k)]

ElementKeys(o) == [i \in 1..Count(o) |-> i - 1]
FastProps(o) == [k \in 0..(Count(o) - 1) |-> Data(o.values[k + 1], TRUE, TRUE, TRUE)]

convert_fast_array_to_array_fast(o) ==
    [o EXCEPT !.slots = @ \o ElementKeys(o), !.props = FastProps(o) @@ @,
              !.has_small_array_index = @ \/ Count(o) > 0, !.values = <<>>]

convert_fast_array_to_array(o) ==
    [o EXCEPT !.slots = @ \o ElementKeys(o), !.props = FastProps(o) @@ @,
              !.has_small_array_index = @ \/ Count(o) > 0,
              !.values = <<>>, !.fast = FALSE]

CompactAt == 8
Holes(s) == Cardinality({i \in DOMAIN s : s[i] = Hole})

compact_properties_short(s) ==
    IF Holes(s) >= CompactAt /\ Holes(s) >= Len(s) \div 2
    THEN Front(SelectSeq(s, LAMBDA k : k # Hole)) ELSE s

compact_properties(s) ==
    IF Holes(s) >= CompactAt /\ Holes(s) >= Len(s) \div 2
    THEN SelectSeq(s, LAMBDA k : k # Hole) ELSE s

RemoveSlot(o, k) ==
    LET s == [i \in DOMAIN o.slots |-> IF o.slots[i] = k THEN Hole ELSE o.slots[i]]
    IN  [Without(o, k) EXCEPT !.slots = compact_properties(s)]

delete_property(o, k) ==
    LET c == convert_fast_array_to_array(o)
    IN  IF find_own_property(o, k)
        THEN IF o.props[k].configurable THEN Done(RemoveSlot(o, k)) ELSE Refused(o)
        ELSE IF ~InValues(o, k) THEN Done(o)
        ELSE IF k = Count(o) - 1 THEN Done([o EXCEPT !.values = Front(@)])
        ELSE Done(RemoveSlot(c, k))

\* The first strategy of set_array_length: delete from the top down.
RECURSIVE TruncateDown(_, _, _)

\* Element cur - 1 was deleted, or it resisted.
TruncateOn(r, cur, len) ==
    IF r.ok THEN TruncateDown(r.o, cur - 1, len) ELSE [o |-> r.o, cur |-> cur]

TruncateDown(o, cur, len) ==
    IF cur <= len THEN [o |-> o, cur |-> cur]
    ELSE TruncateOn(delete_property(o, cur - 1), cur, len)

LastStuck_at(o, len) ==
    LET f(cur, k) == IF k >= cur /\ ~o.props[k].configurable THEN k ELSE cur
    IN  FoldLeft(f, len, SelectSeq(o.slots, LAMBDA k : k >= 0))

\* The second: two passes over the slots, the second of them from i on.
LastStuck(o, len) ==
    LET f(cur, k) == IF k >= cur /\ ~o.props[k].configurable THEN k + 1 ELSE cur
    IN  FoldLeft(f, len, SelectSeq(o.slots, LAMBDA k : k >= 0))

RECURSIVE TruncateScan(_, _, _)
TruncateScan(o, cur, i) ==
    IF i > Len(o.slots) THEN o
    ELSE TruncateScan(IF o.slots[i] >= cur THEN delete_property(o, o.slots[i]).o ELSE o,
                      cur, i + 1)

Truncated_short(o, len) == [o |-> TruncateDown(o, Length(o), len).o, cur |-> len]

Truncated(o, len) ==
    IF Length(o) - len <= Len(o.slots) THEN TruncateDown(o, Length(o), len)
    ELSE LET cur == LastStuck(o, len) IN [o |-> TruncateScan(o, cur, 1), cur |-> cur]

\* The length ends where the truncation t did.
LengthAt(t, len) == [o |-> [t.o EXCEPT !.props[LENGTH].value = t.cur], ok |-> t.cur = len]

set_array_length_silent(o, len) ==
    IF ~o.props[LENGTH].writable THEN Refused(o)
    ELSE IF o.fast
    THEN Done([o EXCEPT !.values = SubSeq(@, 1, IF len < Count(o) THEN len ELSE Count(o)),
                        !.props[LENGTH].value = len])
    ELSE IF len >= Length(o) THEN Done([o EXCEPT !.props[LENGTH].value = len])
    ELSE Done(LengthAt(Truncated(o, len), len).o)

set_array_length(o, len) ==
    IF ~o.props[LENGTH].writable THEN Refused(o)
    ELSE IF o.fast
    THEN Done([o EXCEPT !.values = SubSeq(@, 1, IF len < Count(o) THEN len ELSE Count(o)),
                        !.props[LENGTH].value = len])
    ELSE IF len >= Length(o) THEN Done([o EXCEPT !.props[LENGTH].value = len])
    ELSE LengthAt(Truncated(o, len), len)

\* Precondition: a fast array that is extensible.
add_fast_array_element(o, v) ==
    IF Count(o) + 1 > Length(o) /\ ~o.props[LENGTH].writable THEN Refused(o)
    ELSE Done([o EXCEPT !.values = Append(@, v),
                        !.props[LENGTH].value = Max2(@, Count(o) + 1)])

\* get_prop_flags: writable, enumerable and configurable, each from d or the default.
get_prop_flags(d, default) ==
    LET Flag(f) == IF f \in d.has THEN d[f] ELSE default
    IN  Flag("writable") /\ Flag("enumerable") /\ Flag("configurable")

\* JS_CreateProperty once the length is large enough.
AddOwn(o, k, d) ==
    IF ~o.ext THEN Refused(o)
    ELSE Done(add_property(o, k,
        IF OfAccessor(d)
        THEN Accessor(IF "get" \in d.has THEN d.get ELSE NoFunction,
                      IF "set" \in d.has THEN d.set ELSE NoFunction,
                      d.enumerable, d.configurable)
        ELSE Data(IF "value" \in d.has THEN d.value ELSE Undefined,
                  d.writable, d.enumerable, d.configurable)))

\* The length of an array grows before the property is added.
CreateElement(o, k, d) ==
    IF k + 1 <= Length(o) THEN AddOwn(o, k, d)
    ELSE IF ~o.props[LENGTH].writable THEN Refused(o)
    ELSE AddOwn([o EXCEPT !.props[LENGTH].value = k + 1], k, d)

JS_CreateProperty_gap(o, k, d) ==
    IF ~o.array \/ k = LENGTH THEN AddOwn(o, k, d)
    ELSE IF ~o.fast \/ k # Count(o) THEN CreateElement(o, k, d)
    ELSE IF ~o.ext THEN Refused(o)
    ELSE IF OfAccessor(d) \/ ~get_prop_flags(d, FALSE)
    THEN CreateElement(convert_fast_array_to_array(o), k, d)
    ELSE add_fast_array_element(o, d.value)

JS_CreateProperty(o, k, d) ==
    IF ~o.array \/ k = LENGTH THEN AddOwn(o, k, d)
    ELSE IF ~o.fast THEN CreateElement(o, k, d)
    ELSE IF k # Count(o) THEN CreateElement(convert_fast_array_to_array(o), k, d)
    ELSE IF ~o.ext THEN Refused(o)
    ELSE IF OfAccessor(d) \/ ~get_prop_flags(d, FALSE)
    THEN CreateElement(convert_fast_array_to_array(o), k, d)
    ELSE add_fast_array_element(o, d.value)

check_define_prop_flags(q, d) ==
    q.configurable \/
    /\ ~("configurable" \in d.has /\ d.configurable)
    /\ "enumerable" \in d.has => d.enumerable = q.enumerable
    /\ OfAccessor(d) \/ OfData(d) =>
          /\ OfAccessor(d) = q.getset
          /\ ~q.getset /\ ~q.writable => ~("writable" \in d.has /\ d.writable)

UpdateFlags_configurable(o, k, q, d) ==
    Done([o EXCEPT !.props[k] =
        [q EXCEPT !.configurable = IF "configurable" \in d.has THEN d.configurable ELSE @]])

\* The last part of JS_DefineProperty for a property that exists.
UpdateFlags(o, k, q, d) ==
    Done([o EXCEPT !.props[k] =
        [q EXCEPT !.configurable = IF "configurable" \in d.has THEN d.configurable ELSE @,
                  !.enumerable = IF "enumerable" \in d.has THEN d.enumerable ELSE @]])

DefineGetSet(o, k, d) ==
    LET q == o.props[k]
        a == IF q.getset THEN q
             ELSE Accessor(NoFunction, NoFunction, q.enumerable, q.configurable)
    IN  IF q.getset /\ ~q.configurable /\ \/ "get" \in d.has /\ d.get # q.get
                                          \/ "set" \in d.has /\ d.set # q.set
        THEN Refused(o)
        ELSE UpdateFlags(o, k, [a EXCEPT !.get = IF "get" \in d.has THEN d.get ELSE @,
                                         !.set = IF "set" \in d.has THEN d.set ELSE @], d)

\* The length was set with outcome r, and becomes read-only even when that failed.
DefineLength(r, d) ==
    IF "writable" \in d.has /\ ~d.writable
    THEN [r EXCEPT !.o.props[LENGTH].writable = FALSE] ELSE r

DefineData(o, k, d) ==
    LET q == o.props[k]
        b == IF q.getset THEN Data(Undefined, FALSE, q.enumerable, q.configurable) ELSE q
    IN  IF ~q.getset /\ ~q.configurable /\ ~q.writable /\ "value" \in d.has
        THEN [o |-> o, ok |-> d.value = q.value]
        ELSE IF o.array /\ k = LENGTH 
        THEN DefineLength(IF "value" \in d.has THEN set_array_length(o, d.value) ELSE Done(o), d)
        ELSE UpdateFlags(o, k, [b EXCEPT !.value = IF "value" \in d.has THEN d.value ELSE @,
                                         !.writable = IF "writable" \in d.has
                                                      THEN d.writable ELSE @], d)

DefineExisting(o, k, d) ==
    IF ~check_define_prop_flags(o.props[k], d) THEN Refused(o)
    ELSE IF OfAccessor(d) THEN DefineGetSet(o, k, d)
    ELSE IF OfData(d) THEN DefineData(o, k, d)
    ELSE UpdateFlags(o, k, o.props[k], d)

JS_DefineProperty(o, k, d) ==
    IF ~find_own_property(o, k) /\ ~InValues(o, k) THEN JS_CreateProperty(o, k, d)
    ELSE IF InValues(o, k) /\ get_prop_flags(d, TRUE) /\ ~OfAccessor(d)
    THEN Done(IF "value" \in d.has THEN [o EXCEPT !.values[k + 1] = d.value] ELSE o)
    ELSE DefineExisting(IF InValues(o, k) THEN convert_fast_array_to_array(o) ELSE o, k, d)
-----------------------------------------------------------------------------
\* From here on the operations are on the heap; r is the outcome for object p.
InHeap(h, p, r) == [h |-> [h EXCEPT ![p] = r.o], ok |-> r.ok, calls |-> <<>>]
Fails(h) == [h |-> h, ok |-> FALSE, calls |-> <<>>]
Succeeds(h) == [h |-> h, ok |-> TRUE, calls |-> <<>>]

call_setter(h, f) ==
    IF f = NoFunction THEN Fails(h) ELSE [Succeeds(h) EXCEPT !.calls = <<f>>]

JS_GetOwnPropertyInternal(o, k) ==
    IF find_own_property(o, k) THEN <<o.props[k]>>
    ELSE IF InValues(o, k) THEN <<Data(o.values[k + 1], TRUE, TRUE, TRUE)>>
    ELSE <<>>

\* The first object of the chain that has the property, or Null.
Owner(h, p, k) ==
    LET s == SelectSeq(ChainOf(p), LAMBDA q : JS_GetOwnPropertyInternal(h[q], k) # <<>>)
    IN  IF s = <<>> THEN Null ELSE Head(s)

JS_HasProperty(h, p, k) == Owner(h, p, k) # Null

JS_GetPropertyInternal(h, p, k) ==
    IF Owner(h, p, k) = Null THEN Undefined
    ELSE JS_GetOwnPropertyInternal(h[Owner(h, p, k)], k)[1].value

\* The prototypes a lookup for JS_SetPropertyInternal goes through: up to a fast
\* array with the element, an accessor or a read-only property.
Stops(o, k) ==
    InValues(o, k) \/ (find_own_property(o, k) /\ (o.props[k].getset \/ ~o.props[k].writable))

ProtoStop(h, p, k) ==
    LET s == SelectSeq(ChainOf(Proto[p]), LAMBDA q : Stops(h[q], k))
    IN  IF s = <<>> THEN Null ELSE Head(s)

\* The end of JS_SetPropertyInternal: no prototype has anything against it.
AddBySet(o, k, v) ==
    IF ~o.ext THEN Refused(o)
    ELSE IF o.array /\ o.fast /\ IsIndex(k) /\ k = Count(o) THEN add_fast_array_element(o, v)
    ELSE JS_CreateProperty(o, k, Plain(v))

SetOwn_silent(h, p, k, v) ==
    LET q == h[p].props[k]
    IN  IF h[p].array /\ k = LENGTH THEN InHeap(h, p, set_array_length(h[p], v))
        ELSE IF q.getset THEN call_setter(h, q.set)
        ELSE [h |-> IF q.writable THEN [h EXCEPT ![p].props[k].value = v] ELSE h,
              ok |-> TRUE, calls |-> <<>>]

SetOwn(h, p, k, v) ==
    LET q == h[p].props[k]
    IN  IF h[p].array /\ k = LENGTH THEN InHeap(h, p, set_array_length(h[p], v))
        ELSE IF q.getset THEN call_setter(h, q.set)
        ELSE IF ~q.writable THEN Fails(h)
        ELSE [h |-> [h EXCEPT ![p].props[k].value = v], ok |-> TRUE, calls |-> <<>>]

SetElement(h, p, k, v) ==
    Succeeds([h EXCEPT ![p].values[k + 1] = v])

JS_SetPropertyInternal(h, p, k, v) ==
    LET s == ProtoStop(h, p, k)
    IN  IF find_own_property(h[p], k) THEN SetOwn(h, p, k, v)
        ELSE IF InValues(h[p], k) THEN SetElement(h, p, k, v)
        ELSE IF s = Null \/ InValues(h[s], k) THEN InHeap(h, p, AddBySet(h[p], k, v))
        ELSE IF h[s].props[k].getset THEN call_setter(h, h[s].props[k].set)
        ELSE Fails(h)

NoIndexAbove_always(h, p) == TRUE

\* The prototypes cannot have an element: the fast path for a[i] = v at the end.
NoIndexAbove(h, p) ==
    \A q \in ToSet(ChainOf(Proto[p])) :
        IF h[q].array THEN h[q].fast ELSE ~h[q].has_small_array_index

\* JS_SetPropertyInt64 too; a key that is no index has no fast path.
JS_SetPropertyValue(h, p, k, v) ==
    IF h[p].array /\ InValues(h[p], k) THEN SetElement(h, p, k, v)
    ELSE IF /\ h[p].array /\ h[p].fast /\ h[p].ext
            /\ k = Count(h[p]) /\ NoIndexAbove(h, p)
    THEN InHeap(h, p, add_fast_array_element(h[p], v))
    ELSE JS_SetPropertyInternal(h, p, k, v)

\* JS_SetPropertyGeneric: Reflect.set with receiver r.
JS_SetPropertyGeneric(h, p, k, v, r) ==
    LET own == Owner(h, p, k)
        found == JS_GetOwnPropertyInternal(h[own], k)[1]
        mine == JS_GetOwnPropertyInternal(h[r], k)
    IN  IF own # Null /\ found.getset THEN call_setter(h, found.set)
        ELSE IF own # Null /\ ~found.writable THEN Fails(h)
        ELSE IF mine = <<>> THEN InHeap(h, r, JS_CreateProperty(h[r], k, Plain(v)))
        ELSE IF mine[1].getset \/ ~mine[1].writable THEN Fails(h)
        ELSE InHeap(h, r, JS_DefineProperty(h[r], k, ValueOnly(v)))

\* js_object_seal: the properties one by one, those of a fast array first.
SealWith(o, k, freeze) ==
    [Blank EXCEPT !.has = IF freeze /\ JS_GetOwnPropertyInternal(o, k)[1].writable
                          THEN {"configurable", "writable"} ELSE {"configurable"}]

OwnKeys(o) ==
    LET own == 0..(Count(o) - 1) \cup DOMAIN o.props
    IN  SelectSeq([i \in 1..(Max(own \cup {0}) + 1) |-> i - 1], LAMBDA k : k \in own) \o
        SelectSeq(<<LENGTH>>, LAMBDA k : k \in own)

RECURSIVE SealKeys(_, _, _)

SealOn(r, rest, freeze) == IF r.ok THEN SealKeys(r.o, rest, freeze) ELSE r

SealKeys(o, keys, freeze) ==
    IF keys = <<>> THEN Done(o)
    ELSE SealOn(JS_DefineProperty(o, Head(keys), SealWith(o, Head(keys), freeze)),
                Tail(keys), freeze)

js_object_seal(o, freeze) == SealKeys([o EXCEPT !.ext = FALSE], OwnKeys(o), freeze)
-----------------------------------------------------------------------------
\* The steps of an array method on an array of a length, as the code takes them.

JS_CopySubArray_up(to, from, count, dir) ==
    [i \in 1..Max2(count, 0) |-> Move(from + i - 1, to + i - 1)]

JS_CopySubArray(to, from, count, dir) ==
    [i \in 1..Max2(count, 0) |-> IF dir < 0 THEN Move(from + count - i, to + count - i)
                                 ELSE Move(from + i - 1, to + i - 1)]

PopSteps(len) == IF len = 0 THEN <<>> ELSE <<Drop(len - 1)>>
ShiftSteps(len) ==
    IF len = 0 THEN <<>> ELSE JS_CopySubArray(0, 1, len - 1, 1) \o <<Drop(len - 1)>>
js_array_push(len, v) == <<Write(len, v), SetLength(len + 1)>>
js_array_unshift(len, v) ==
    JS_CopySubArray(1, 0, len, -1) \o <<Write(0, v), SetLength(len + 1)>>
ReverseSteps(len) == [i \in 1..(len \div 2) |-> Swap(i - 1, len - i)]
js_array_fill(len, v) == [i \in 1..len |-> Write(i - 1, v)]

js_array_copyWithin(len, to, from) ==
    LET count == IF len - from < len - to THEN len - from ELSE len - to
    IN  JS_CopySubArray(to, from, count, IF from < to /\ to < from + count THEN -1 ELSE 1)

\* splice(start, del, items): what it does to the array itself.
js_array_splice(len, start, del, items) ==
    LET new == len + Len(items) - del
        moves == IF Len(items) = del THEN <<>>
                 ELSE JS_CopySubArray(start + Len(items), start + del, len - (start + del),
                                      IF Len(items) <= del THEN 1 ELSE -1)
                      \o [i \in 1..Max2(len - new, 0) |-> Drop(len - i)]
    IN  moves \o [i \in DOMAIN items |-> Write(start + i - 1, items[i])] \o <<SetLength(new)>>

DeleteOf(h, p, k) == InHeap(h, p, delete_property(h[p], k))

\* A step of a method on the code's objects: a move between two elements of a fast
\* array is direct.
CopyStep(h, p, from, to) ==
    IF InValues(h[p], from) /\ InValues(h[p], to)
    THEN SetElement(h, p, to, h[p].values[from + 1])
    ELSE IF JS_HasProperty(h, p, from)
    THEN JS_SetPropertyValue(h, p, to, JS_GetPropertyInternal(h, p, from))
    ELSE DeleteOf(h, p, to)

\* Elements l and u change places: l first, with outcome first, then u.
ReverseLow(h, p, l, u) ==
    IF JS_HasProperty(h, p, u)
    THEN JS_SetPropertyValue(h, p, l, JS_GetPropertyInternal(h, p, u))
    ELSE IF JS_HasProperty(h, p, l) THEN DeleteOf(h, p, l)
    ELSE Succeeds(h)

ReverseHigh(first, h, p, l, u) ==
    IF JS_HasProperty(h, p, l)
    THEN JS_SetPropertyValue(first.h, p, u, JS_GetPropertyInternal(h, p, l))
    ELSE IF JS_HasProperty(h, p, u) THEN DeleteOf(first.h, p, u)
    ELSE Succeeds(first.h)

ThenHigh(first, h, p, l, u) ==
    IF first.ok THEN Then(first, ReverseHigh(first, h, p, l, u)) ELSE first

js_array_reverse(h, p, l, u) == ThenHigh(ReverseLow(h, p, l, u), h, p, l, u)

CodeStep(h, p, s) ==
    CASE s.op = "move" -> CopyStep(h, p, s.from, s.key)
      [] s.op = "set" -> JS_SetPropertyValue(h, p, s.key, s.value)
      [] s.op = "delete" -> DeleteOf(h, p, s.key)
      [] s.op = "swap" -> js_array_reverse(h, p, s.key, s.from)

RECURSIVE CodeRun(_, _, _)

CodeOn(r, p, rest) == IF r.ok THEN Then(r, CodeRun(r.h, p, rest)) ELSE r

CodeRun(h, p, steps) ==
    IF steps = <<>> THEN Succeeds(h)
    ELSE CodeOn(CodeStep(h, p, Head(steps)), p, Tail(steps))

\* A fast array whose length is the number of its elements.
FullFast(o) == o.fast /\ Count(o) = Length(o)

\* The elements of such an array after the methods that move them directly.
Direct == {"pop", "shift", "reverse"}
DirectValues(s, m) == CASE m = "pop" -> Front(s) [] m = "shift" -> Tail(s) [] m = "reverse" -> Reverse(s)

MethodRun(h, p, m, steps) ==
    IF m \in Direct /\ FullFast(h[p]) /\ (m = "reverse" \/ Length(h[p]) > 0)
    THEN Succeeds([h EXCEPT ![p].values = DirectValues(h[p].values, m)])
    ELSE CodeRun(h, p, steps)

\* The end of pop and shift, after outcome first on an array of length len.
js_array_pop_silent(first, p, len) ==
    IF ~first.ok THEN first
    ELSE [JS_SetPropertyValue(first.h, p, LENGTH, Max2(len - 1, 0)) EXCEPT !.ok = TRUE]

js_array_pop(first, p, len) ==
    IF ~first.ok THEN first
    ELSE Then(first, JS_SetPropertyValue(first.h, p, LENGTH, Max2(len - 1, 0)))

MethodEnd(first, p, m, len) ==
    IF m \in {"pop", "shift"} THEN js_array_pop(first, p, len) ELSE first

CodeMethod(h, p, m, steps) == MethodEnd(MethodRun(h, p, m, steps), p, m, Length(h[p]))
-----------------------------------------------------------------------------
\* An object as the standard has it.
View(o) == [props |-> FastProps(o) @@ o.props, ext |-> o.ext]
ViewAll(h) == [p \in Objects |-> View(h[p])]

Init ==
    /\ objs = Start
    /\ es = ViewAll(Start)
    /\ ret = [ok |-> TRUE, es_ok |-> TRUE, calls |-> <<>>, es_calls |-> <<>>]

WithinBounds(h) ==
    \A p \in Objects : /\ Len(h[p].slots) + Count(h[p]) <= MaxSlots
                       /\ h[p].array => Length(h[p]) <= MaxLength

\* The outcome c of the code and the outcome e of the standard.
Apply(c, e) ==
    /\ WithinBounds(c.h)
    /\ objs' = c.h
    /\ es' = e.h
    /\ ret' = [ok |-> c.ok, es_ok |-> e.ok, calls |-> c.calls, es_calls |-> e.calls]

MayGrow(p, k) ==
    ~GrowSealed /\ p \in Arrays /\ ~objs[p].ext => k < Length(objs[p])

InputsFor(p, k) == IF p \in Arrays /\ k = LENGTH THEN Lengths ELSE Values

\* Object.defineProperty and Reflect.defineProperty.
Define(p, k, d) ==
    /\ MayGrow(p, k)
    /\ "value" \in d.has => d.value \in InputsFor(p, k)
    /\ \E c \in {InHeap(objs, p, JS_DefineProperty(objs[p], k, d))},
          e \in {EsDefine(es, p, k, d)} : Apply(c, e)

\* p[k] = v
Assign(p, k, v) ==
    \E c \in {JS_SetPropertyValue(objs, p, k, v)}, e \in {EsSet(es, p, k, v, p)} : Apply(c, e)

\* Reflect.set(p, k, v, r)
ReflectSet(p, k, v, r) ==
    /\ MayGrow(r, k)
    /\ \E c \in {JS_SetPropertyGeneric(objs, p, k, v, r)}, e \in {EsSet(es, p, k, v, r)} :
            Apply(c, e)

\* delete p[k]
DeleteProperty(p, k) ==
    \E c \in {DeleteOf(objs, p, k)}, e \in {EsDelete(es, p, k)} : Apply(c, e)

PreventExtensions(p) ==
    Apply(InHeap(objs, p, Done([objs[p] EXCEPT !.ext = FALSE])), EsPreventExtensions(es, p))

Seal(p, freeze) ==
    \E c \in {InHeap(objs, p, js_object_seal(objs[p], freeze))},
       e \in {EsSetIntegrity(es, p, freeze)} : Apply(c, e)

\* The steps of the code and of the standard for every call of a method on an array
\* of length len.
CallsOf(len) ==
    [pop |-> {<<PopSteps(len), EsPop(len)>>},
     shift |-> {<<ShiftSteps(len), EsShift(len)>>},
     reverse |-> {<<ReverseSteps(len), EsReverse(len)>>},
     push |-> {<<js_array_push(len, v), EsPush(len, v)>> : v \in Values},
     unshift |-> {<<js_array_unshift(len, v), EsUnshift(len, v)>> : v \in Values},
     fill |-> {<<js_array_fill(len, v), EsFill(len, v)>> : v \in Values},
     copyWithin |-> {<<js_array_copyWithin(len, to, from), EsCopyWithin(len, to, from)>> :
                        to, from \in 0..len},
     splice |-> {<<js_array_splice(len, s[1], s[2], items), EsSplice(len, s[1], s[2], items)>> :
                    s \in {x \in (0..len) \X (0..len) : x[1] + x[2] <= len},
                    items \in {<<>>} \cup {<<v>> : v \in Values}}]

CallMethod(p, m) ==
    \E call \in CallsOf(Length(objs[p]))[m] :
    \E c \in {CodeMethod(objs, p, m, call[1])}, e \in {EsRun(es, p, call[2])} : Apply(c, e)

Next ==
    \/ \E p \in Objects, k \in Keys : \E d \in Descriptors : Define(p, k, d)
    \/ \E p \in Objects, k \in Keys : \E v \in InputsFor(p, k) : Assign(p, k, v)
    \/ \E p, r \in Objects, k \in Keys : \E v \in InputsFor(r, k) : ReflectSet(p, k, v, r)
    \/ \E p \in Objects, k \in Keys : DeleteProperty(p, k)
    \/ \E p \in Objects : PreventExtensions(p)
    \/ \E p \in Objects, freeze \in BOOLEAN : Seal(p, freeze)
    \/ \E p \in Arrays, m \in Methods : CallMethod(p, m)

Spec == Init /\ [][Next]_vars
-----------------------------------------------------------------------------
(***************************************************************************)
(* Whatever the order of operations, an object has the properties, with    *)
(* the values and flags, and an array the length, that the standard gives  *)
(* it: also after a fast array became slow, after a truncation that an     *)
(* element resisted, and when an operation failed halfway.                 *)
(***************************************************************************)
ObjectsExact == ViewAll(objs) = es

(***************************************************************************)
(* An operation succeeds when, and only when, the standard's does, and     *)
(* calls the setters that it calls, in its order.                          *)
(***************************************************************************)
ResultsExact == ret.ok = ret.es_ok /\ ret.calls = ret.es_calls

(***************************************************************************)
(* What the fast paths rely on: the elements of a fast array are all in    *)
(* its values, below its length; and an object whose shape is not marked   *)
(* has no property with an index.                                          *)
(***************************************************************************)
FastPathsSound ==
    \A p \in Objects :
        /\ objs[p].fast => /\ \A k \in DOMAIN objs[p].props : k < 0
                           /\ Count(objs[p]) <= Length(objs[p])
        /\ (\E k \in DOMAIN objs[p].props : IsIndex(k)) => objs[p].has_small_array_index
        /\ {objs[p].slots[i] : i \in DOMAIN objs[p].slots} \ {Hole} = DOMAIN objs[p].props
=============================================================================
