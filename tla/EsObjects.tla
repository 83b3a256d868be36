----------------------------- MODULE EsObjects -----------------------------
(***************************************************************************)
(* The essential internal methods of ordinary objects and arrays, as the   *)
(* ECMAScript standard states them: [[DefineOwnProperty]], [[Set]],        *)
(* [[Delete]], ArraySetLength and SetIntegrityLevel.  It is the reference  *)
(* that module Properties is compared with; nothing here is taken from the *)
(* code.                                                                   *)
(*                                                                         *)
(* An object is [props, ext]: its own properties and whether it is         *)
(* extensible.  A key is an array index (a natural number) or LENGTH.      *)
(***************************************************************************)
EXTENDS Integers, Sequences, FiniteSetsExt, TLC

CONSTANTS
    Objects,   \* the objects
    Arrays,    \* the ones that are arrays
    Null,      \* the prototype of the last object of a chain
    Proto      \* the prototype of every object

LENGTH == -1
Undefined == -1
NoFunction == 0

IsIndex(k) == k # LENGTH

Data(v, w, e, c) ==
    [getset |-> FALSE, value |-> v, writable |-> w, get |-> NoFunction,
     set |-> NoFunction, enumerable |-> e, configurable |-> c]

Accessor(g, s, e, c) ==
    [getset |-> TRUE, value |-> Undefined, writable |-> FALSE, get |-> g,
     set |-> s, enumerable |-> e, configurable |-> c]

\* A descriptor has the fields of d.has; the others of the record mean nothing.
Blank == [has |-> {}, value |-> Undefined, writable |-> FALSE, get |-> NoFunction,
          set |-> NoFunction, enumerable |-> FALSE, configurable |-> FALSE]
ValueOnly(v) == [Blank EXCEPT !.has = {"value"}, !.value = v]
Plain(v) == [has |-> {"value", "writable", "enumerable", "configurable"}, value |-> v,
             writable |-> TRUE, get |-> NoFunction, set |-> NoFunction,
             enumerable |-> TRUE, configurable |-> TRUE]

OfAccessor(d) == d.has \cap {"get", "set"} # {}
OfData(d) == d.has \cap {"value", "writable"} # {}

\* A field of d, or of q when d does not have it.
FieldOf(d, q, f) == IF f \in d.has THEN d[f] ELSE q[f]

With(o, k, q) == [o EXCEPT !.props = (k :> q) @@ @]
Without(o, k) == [o EXCEPT !.props = [x \in DOMAIN o.props \ {k} |-> o.props[x]]]

\* ValidateAndApplyPropertyDescriptor: may d be applied to property q?
Compatible(q, d) ==
    q.configurable \/
    /\ ~("configurable" \in d.has /\ d.configurable)
    /\ "enumerable" \in d.has => d.enumerable = q.enumerable
    /\ OfAccessor(d) => q.getset
    /\ OfData(d) => ~q.getset
    /\ q.getset => /\ "get" \in d.has => d.get = q.get
                   /\ "set" \in d.has => d.set = q.set
    /\ ~q.getset /\ ~q.writable => /\ ~("writable" \in d.has /\ d.writable)
                                   /\ "value" \in d.has => d.value = q.value

\* The property d makes of q: fields of the other kind start from their defaults.
Applied(q, d) ==
    LET e == FieldOf(d, q, "enumerable")
        c == FieldOf(d, q, "configurable")
        b == IF q.getset = OfAccessor(d) THEN q ELSE Blank
    IN  IF OfAccessor(d) \/ (q.getset /\ ~OfData(d))
        THEN LET a == IF q.getset THEN q ELSE Blank
             IN  Accessor(FieldOf(d, a, "get"), FieldOf(d, a, "set"), e, c)
        ELSE Data(FieldOf(d, b, "value"), FieldOf(d, b, "writable"), e, c)

\* d makes a property of q when it may.
Defined(o, k, q, d, may) ==
    [o |-> IF may THEN With(o, k, Applied(q, d)) ELSE o, ok |-> may]

OrdinaryDefine(o, k, d) ==
    IF k \in DOMAIN o.props
    THEN Defined(o, k, o.props[k], d, Compatible(o.props[k], d))
    ELSE Defined(o, k, Data(Undefined, FALSE, FALSE, FALSE), d, o.ext)

Refusing(o) == [o |-> o, ok |-> FALSE]

\* ArraySetLength: the elements go from the top down, until one does not; def is the
\* outcome of defining the length, end where the elements end.
Cut(def, d, end, new) ==
    [o |-> [def.o EXCEPT !.props =
              [k \in {x \in DOMAIN def.o.props : x < end} |->
                 IF k # LENGTH THEN def.o.props[k]
                 ELSE [def.o.props[LENGTH] EXCEPT
                         !.value = end, !.writable = ~("writable" \in d.has /\ ~d.writable)]]],
     ok |-> end = new]

EndOf(o, new) ==
    Max({new} \cup {i + 1 : i \in {x \in DOMAIN o.props : x >= new /\ ~o.props[x].configurable}})

LengthCut(def, o, d) ==
    IF def.ok THEN Cut(def, d, EndOf(o, d.value), d.value) ELSE Refusing(o)

ArraySetLength(o, d) ==
    IF "value" \notin d.has \/ d.value >= o.props[LENGTH].value THEN OrdinaryDefine(o, LENGTH, d)
    ELSE IF ~o.props[LENGTH].writable THEN Refusing(o)
    ELSE LengthCut(OrdinaryDefine(o, LENGTH, [d EXCEPT !.writable = TRUE]), o, d)

\* An element past the end takes the length with it.
Grown(r, k) ==
    IF r.ok /\ k >= r.o.props[LENGTH].value THEN [r EXCEPT !.o.props[LENGTH].value = k + 1] ELSE r

ArrayDefine(o, k, d) ==
    IF k = LENGTH THEN ArraySetLength(o, d)
    ELSE IF k >= o.props[LENGTH].value /\ ~o.props[LENGTH].writable THEN Refusing(o)
    ELSE Grown(OrdinaryDefine(o, k, d), k)

OnHeap(h, p, r) == [h |-> [h EXCEPT ![p] = r.o], ok |-> r.ok, calls |-> <<>>]

EsDefine(h, p, k, d) ==
    OnHeap(h, p, IF p \in Arrays THEN ArrayDefine(h[p], k, d) ELSE OrdinaryDefine(h[p], k, d))

EsDelete(h, p, k) ==
    LET ok == k \in DOMAIN h[p].props => h[p].props[k].configurable
    IN  [h |-> IF ok THEN [h EXCEPT ![p] = Without(@, k)] ELSE h,
         ok |-> ok, calls |-> <<>>]

\* The objects of the prototype chain, from p on.
RECURSIVE ChainOf(_)
ChainOf(p) == IF p = Null THEN <<>> ELSE <<p>> \o ChainOf(Proto[p])

\* The nearest object of the chain that has the property, or Null.
Holder(h, p, k) ==
    LET s == SelectSeq(ChainOf(p), LAMBDA q : k \in DOMAIN h[q].props)
    IN  IF s = <<>> THEN Null ELSE Head(s)

\* Getters return undefined.
EsGet(h, p, k) ==
    LET q == Holder(h, p, k) IN IF q = Null THEN Undefined ELSE h[q].props[k].value

FoundAt(h, q, k) == IF q = Null THEN Data(Undefined, TRUE, TRUE, TRUE) ELSE h[q].props[k]

\* OrdinarySet with receiver r, when own is the property found; a setter is called and
\* changes nothing.
SetThrough(own, h, k, v, r) ==
    IF own.getset
    THEN [h |-> h, ok |-> own.set # NoFunction,
          calls |-> IF own.set = NoFunction THEN <<>> ELSE <<own.set>>]
    ELSE IF \/ ~own.writable
            \/ k \in DOMAIN h[r].props /\ (h[r].props[k].getset \/ ~h[r].props[k].writable)
    THEN [h |-> h, ok |-> FALSE, calls |-> <<>>]
    ELSE EsDefine(h, r, k, IF k \in DOMAIN h[r].props THEN ValueOnly(v) ELSE Plain(v))

EsSet(h, p, k, v, r) ==
    SetThrough(FoundAt(h, Holder(h, p, k), k), h, k, v, r)

EsPreventExtensions(h, p) ==
    [h |-> [h EXCEPT ![p].ext = FALSE], ok |-> TRUE, calls |-> <<>>]

\* SetIntegrityLevel: no DefineOwnProperty it makes can fail.
EsSetIntegrity(h, p, freeze) ==
    LET Fixed(q) == [q EXCEPT !.configurable = FALSE,
                              !.writable = IF freeze THEN FALSE ELSE q.writable]
    IN  [h |-> [h EXCEPT ![p] = [ext |-> FALSE,
                                 props |-> [k \in DOMAIN h[p].props |-> Fixed(h[p].props[k])]]],
         ok |-> TRUE, calls |-> <<>>]
-----------------------------------------------------------------------------
\* The array methods are sequences of steps on an array of a length; the first that
\* fails ends the method.
Move(from, to) == [op |-> "move", key |-> to, from |-> from, value |-> Undefined]
Write(k, v) == [op |-> "set", key |-> k, from |-> 0, value |-> v]
Drop(k) == [op |-> "delete", key |-> k, from |-> 0, value |-> Undefined]
Swap(l, h) == [op |-> "swap", key |-> l, from |-> h, value |-> Undefined]
SetLength(n) == Write(LENGTH, n)

\* A run of n elements, moved from the first or from the last on.
Upwards(from, to, n) == [i \in 1..n |-> Move(from + i - 1, to + i - 1)]
Downwards(from, to, n) == [i \in 1..n |-> Move(from + n - i, to + n - i)]

EsPop(len) == IF len = 0 THEN <<SetLength(0)>> ELSE <<Drop(len - 1), SetLength(len - 1)>>
EsShift(len) ==
    IF len = 0 THEN <<SetLength(0)>>
    ELSE Upwards(1, 0, len - 1) \o <<Drop(len - 1), SetLength(len - 1)>>
EsPush(len, v) == <<Write(len, v), SetLength(len + 1)>>
EsUnshift(len, v) == Downwards(0, 1, len) \o <<Write(0, v), SetLength(len + 1)>>
EsReverse(len) == [i \in 1..(len \div 2) |-> Swap(i - 1, len - i)]
EsFill(len, v) == [i \in 1..len |-> Write(i - 1, v)]

EsCopyWithin(len, to, from) ==
    LET n == len - (IF to > from THEN to ELSE from)
    IN  IF from < to /\ to < from + n THEN Downwards(from, to, n) ELSE Upwards(from, to, n)

EsSplice(len, start, del, items) ==
    LET k == Len(items)
        tail == len - start - del
        moves == CASE k < del -> Upwards(start + del, start + k, tail)
                                 \o [i \in 1..(del - k) |-> Drop(len - i)]
                   [] k > del -> Downwards(start + del, start + k, tail)
                   [] k = del -> <<>>
    IN  moves \o [i \in 1..k |-> Write(start + i - 1, items[i])] \o <<SetLength(len + k - del)>>

\* Two outcomes one after the other.
Then(a, b) == [b EXCEPT !.calls = a.calls \o @]

Held(h, p, k) == Holder(h, p, k) # Null

\* One element takes the place of another, which may not be there.
EsMove(g, h, p, from, to) ==
    IF Held(h, p, from) THEN EsSet(g, p, to, EsGet(h, p, from), p) ELSE EsDelete(g, p, to)

EsSwapHigh(first, h, p, l, u) ==
    IF first.ok THEN Then(first, EsMove(first.h, h, p, l, u)) ELSE first

EsStep(h, p, s) ==
    CASE s.op = "move" -> EsMove(h, h, p, s.from, s.key)
      [] s.op = "set" -> EsSet(h, p, s.key, s.value, p)
      [] s.op = "delete" -> EsDelete(h, p, s.key)
      [] s.op = "swap" /\ ~Held(h, p, s.key) /\ ~Held(h, p, s.from) ->
            [h |-> h, ok |-> TRUE, calls |-> <<>>]
      [] s.op = "swap" /\ (Held(h, p, s.key) \/ Held(h, p, s.from)) ->
            EsSwapHigh(EsMove(h, h, p, s.from, s.key), h, p, s.key, s.from)

RECURSIVE EsRun(_, _, _)

EsOn(r, p, rest) == IF r.ok THEN Then(r, EsRun(r.h, p, rest)) ELSE r

EsRun(h, p, steps) ==
    IF steps = <<>> THEN [h |-> h, ok |-> TRUE, calls |-> <<>>]
    ELSE EsOn(EsStep(h, p, Head(steps)), p, Tail(steps))
=============================================================================
