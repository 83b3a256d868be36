---------------------------- MODULE BinaryObject ----------------------------
(***************************************************************************)
(* The binary object format of quickjs.c: JS_WriteObject turns a compiled  *)
(* module, a function or a plain value into bytes, in one runtime, and     *)
(* JS_ReadObject builds it again in another, whose atoms have other        *)
(* numbers.  ckb-js -c writes a module this way; the loader reads it from  *)
(* a cell.                                                                 *)
(*                                                                         *)
(* A word has WordBits bits where the code has 32, a limb of a big number  *)
(* LimbBytes bytes and LimbDigits decimal digits where it has 8 and 19.    *)
(***************************************************************************)
EXTENDS Integers, Sequences, SequencesExt, FiniteSets

CONSTANTS
    WordBits, LimbBytes, LimbDigits,
    JS_ATOM_END,   \* the first atom that is not predefined
    OpSize,        \* the size of each opcode (short_opcode_info)
    OpAtom,        \* the opcodes whose first operand is an atom
    WriterAtoms,   \* the strings of the atoms from JS_ATOM_END on, in the writer
    ReaderAtoms,   \* the same in the reader before it reads
    Inputs         \* the values written: [heap, root, flags]

VARIABLES
    phase, \* "write", "send" or "read", and "done"
    input, \* the value being written
    file,  \* the bytes
    whole, \* was nothing cut off?
    result \* what the writer or the reader came to
vars == <<phase, input, file, whole, result>>

Word == 2 ^ WordBits
WordBytes == WordBits \div 8
Groups == (WordBits + 6) \div 7
Tag == Word \div 2 \* JS_ATOM_TAG_INT
Tagged(a) == a >= Tag

LE(v, n) == [i \in 1 .. n |-> (v \div 256 ^ (i - 1)) % 256]
OfLE(b) == FoldLeft(LAMBDA v, i : v + b[i] * 256 ^ (i - 1), 0, [i \in DOMAIN b |-> i])

\* A value is a primitive <<kind, data>> or <<"ref", i>> for the i-th entry of a heap:
\* an object, a function or a module.
IsRef(v) == v[1] = "ref"

Predefined(a) == [wide |-> FALSE, chars |-> <<a>>]
Str(tab, a) == IF a < JS_ATOM_END THEN Predefined(a) ELSE tab[a - JS_ATOM_END + 1]
-----------------------------------------------------------------------------
(* The writer: out, the atoms numbered so far, the objects seen.            *)

RECURSIVE Leb(_)
Leb(v) == IF v < 128 THEN <<v>> ELSE <<128 + (v % 128)>> \o Leb(v \div 128)
Sleb(v) == Leb(IF v >= 0 THEN 2 * v ELSE -2 * v - 1)
Put(s, b) == [s EXCEPT !.out = @ \o b]
Failed(s) == [s EXCEPT !.ok = FALSE]

FirstAtom(flags) == IF "bytecode" \in flags THEN JS_ATOM_END ELSE 1

\* bc_atom_to_idx: the state after it, and the number.
NumberAtom(s, a) ==
    IF a < s.first \/ Tagged(a) \/ \E i \in DOMAIN s.atoms : s.atoms[i] = a
    THEN s ELSE [s EXCEPT !.atoms = Append(@, a)]
AtomNumber(s, a) ==
    IF a < s.first \/ Tagged(a) THEN a
    ELSE s.first + (CHOOSE i \in DOMAIN s.atoms : s.atoms[i] = a) - 1

bc_put_atom(s, a) ==
    IF Tagged(a) THEN Put(s, Leb((2 * (a - Tag) + 1) % Word))
    ELSE LET t == NumberAtom(s, a) IN Put(t, Leb((2 * AtomNumber(t, a)) % Word))

WriteString(str) ==
    Leb(2 * Len(str.chars) + (IF str.wide THEN 1 ELSE 0))
    \o IF str.wide THEN FlattenSeq([i \in DOMAIN str.chars |-> LE(str.chars[i], 2)])
       ELSE str.chars

\* put_u32
Patched(code, at, a) ==
    [i \in DOMAIN code |-> IF i \in at .. at + WordBytes - 1
                           THEN LE(a, WordBytes)[i - at + 1] ELSE code[i]]

\* JS_WriteFunctionBytecode: the atoms of a copy of the code are numbered.
RECURSIVE WriteCode(_, _, _)
WriteCode(s, code, pos) ==
    IF pos > Len(code) THEN Put(s, code)
    ELSE LET op == code[pos]
             a == OfLE(SubSeq(code, pos + 1, pos + WordBytes))
             t == NumberAtom(s, a)
         IN  IF op \in OpAtom
             THEN WriteCode(t, Patched(code, pos + 1, AtomNumber(t, a)),
                            pos + OpSize[op])
             ELSE WriteCode(s, code, pos + OpSize[op])

\* Only the lowest bytes or digits that are not zero are written.
Trim(q) == LET nz == {i \in DOMAIN q : q[i] # 0}
           IN  SubSeq(q, CHOOSE i \in nz : \A j \in nz : i <= j, Len(q))
LimbBytesOf(limbs) == FlattenSeq([i \in DOMAIN limbs |-> LE(limbs[i], LimbBytes)])
Digits(l) == [j \in 1 .. LimbDigits |-> (l \div 10 ^ (j - 1)) % 10]
DigitsOf(limbs) == FlattenSeq([i \in DOMAIN limbs |-> Digits(limbs[i])])
Bcd(d) == [i \in 1 .. (Len(d) + 1) \div 2 |->
              d[2 * i - 1] + IF 2 * i <= Len(d) THEN 16 * d[2 * i] ELSE 0]

\* A big number is <<kind, [class, sign, expn, limbs]>>; the class and the exponent go
\* into one number.
Exponent(n) == CASE n.class = "zero" -> 0 [] n.class = "inf" -> 1 [] n.class = "nan" -> 2
                 [] OTHER -> IF n.expn >= 0 THEN n.expn + 3 ELSE n.expn
WriteBigNum(kind, n) ==
    Sleb(2 * Exponent(n) + n.sign)
    \o IF n.limbs = <<>> THEN <<>>
       ELSE IF kind = "bigdecimal"
            THEN LET d == Trim(DigitsOf(n.limbs)) IN Leb(Len(d)) \o Bcd(d)
            ELSE LET b == Trim(LimbBytesOf(n.limbs)) IN Leb(Len(b)) \o b

TagOf == [null |-> 1, undefined |-> 2, false |-> 3, true |-> 4, int |-> 5, float |-> 6,
          string |-> 7, object |-> 8, array |-> 9, bigint |-> 10, bigfloat |-> 11,
          bigdecimal |-> 12, template |-> 13, function |-> 14, module |-> 15, typed |-> 16,
          buffer |-> 17, shared |-> 18, date |-> 19, wrapper |-> 20, reference |-> 21]

WritePrimitive(s, v) ==
    Put(s, <<TagOf[v[1]]>> \o
           CASE v[1] = "int" -> Sleb(v[2])
             [] v[1] = "float" -> LE(v[2], 2)
             [] v[1] = "string" -> WriteString(v[2])
             [] v[1] \in {"bigint", "bigfloat", "bigdecimal"} -> WriteBigNum(v[1], v[2])
             [] OTHER -> <<>>)

RECURSIVE JS_WriteObjectRec(_, _, _)

\* One field: a byte, two bytes, a number, an atom, raw bytes or a value.
WriteField(s, f, heap) ==
    IF ~s.ok THEN s
    ELSE CASE f[1] = "u8" -> Put(s, <<f[2]>>)
           [] f[1] = "u16" -> Put(s, LE(f[2], 2))
           [] f[1] = "leb" -> Put(s, Leb(f[2]))
           [] f[1] = "atom" -> bc_put_atom(s, f[2])
           [] f[1] = "bytes" -> Put(s, f[2])
           [] f[1] = "code" -> WriteCode(s, f[2], 1)
           [] f[1] = "value" -> JS_WriteObjectRec(s, f[2], heap)
WriteFields(s, fields, heap) == FoldLeft(LAMBDA t, f : WriteField(t, f, heap), s, fields)

Each(q, Fields(_)) == FlattenSeq([i \in DOMAIN q |-> Fields(q[i])])
U8(n) == <<"u8", n>>
N(n) == <<"leb", n>>
A(a) == <<"atom", a>>
V(v) == <<"value", v>>

FunctionFields(b) ==
    <<<<"u16", b.flags>>, U8(b.js_mode), A(b.name), N(b.arg_count), N(b.var_count),
      N(b.defined), N(b.stack), N(Len(b.closure)), N(Len(b.pool)), N(Len(b.code)),
      N(Len(b.vardefs))>>
    \o Each(b.vardefs, LAMBDA d : <<A(d[1]), N(d[2]), N(d[3] + 1), U8(d[4])>>)
    \o Each(b.closure, LAMBDA c : <<A(c[1]), N(c[2]), U8(c[3])>>)
    \o <<<<"code", b.code>>>>
    \o Each(b.debug, LAMBDA d : <<A(d[1]), N(d[2]), N(Len(d[3])), <<"bytes", d[3]>>>>)
    \o Each(b.pool, LAMBDA v : <<V(v)>>)

ModuleFields(m) ==
    <<A(m.name), N(Len(m.reqs))>> \o Each(m.reqs, LAMBDA r : <<A(r)>>)
    \o <<N(Len(m.exports))>>
    \o Each(m.exports, LAMBDA e : IF e[1] = 0 THEN <<U8(0), N(e[2]), A(e[4])>>
                                  ELSE <<U8(1), N(e[2]), A(e[3]), A(e[4])>>)
    \o <<N(Len(m.stars))>> \o Each(m.stars, LAMBDA r : <<N(r)>>)
    \o <<N(Len(m.imports))>> \o Each(m.imports, LAMBDA i : <<N(i[1]), A(i[2]), N(i[3])>>)
    \o <<V(m.func)>>

\* JS_WriteObjectTag: the enumerable properties with a string as key, <<atom, kind, value>>.
Written(o) == SelectSeq(o.props, LAMBDA p : p[2] # "hidden")
ObjectFields(o) ==
    <<N(Len(Written(o)))>> \o Each(Written(o), LAMBDA p : <<A(p[1]), V(p[3])>>)

Refused_accessor(o, flags) ==
    CASE o.kind \in {"function", "module"} -> "bytecode" \notin flags
      [] o.kind = "shared" -> "sab" \notin flags
      [] o.kind = "buffer" -> o.detached
      [] OTHER -> o.kind = "map"

Refused_code(o, flags) == o.kind = "map"

\* The entries that cannot be written; "map" stands for every class without a tag.
Refused(o, flags) ==
    CASE o.kind \in {"function", "module"} -> "bytecode" \notin flags
      [] o.kind = "shared" -> "sab" \notin flags
      [] o.kind = "buffer" -> o.detached
      [] o.kind = "object" -> \E i \in DOMAIN o.props : o.props[i][2] = "getset"
      [] OTHER -> o.kind = "map"

IsTemplate(o, flags) == "bytecode" \in flags /\ ~o.ext

\* What stands for one entry of the heap after its tag.
EntryFields(o, flags) ==
    CASE o.kind = "function" -> FunctionFields(o)
      [] o.kind = "module" -> ModuleFields(o)
      [] o.kind = "array" -> <<N(Len(o.elems))>> \o Each(o.elems, LAMBDA v : <<V(v)>>)
                             \o IF IsTemplate(o, flags) THEN <<V(o.raw)>> ELSE <<>>
      [] o.kind = "object" -> ObjectFields(o)
      [] o.kind = "buffer" -> <<N(Len(o.bytes)), <<"bytes", o.bytes>>>>
      [] o.kind = "shared" -> <<N(o.length), <<"bytes", LE(o.data, 2)>>>>
      [] o.kind = "typed" -> <<U8(o.type), N(o.count), N(o.offset), V(o.buffer)>>
      [] OTHER -> <<V(o.data)>>

EntryTag(o, flags) ==
    TagOf[IF o.kind = "array" /\ IsTemplate(o, flags) THEN "template" ELSE o.kind]

\* An object is listed, or marked while it is being written; functions and modules are
\* neither.
JS_WriteObjectRec(s, v, heap) ==
    IF ~IsRef(v) THEN WritePrimitive(s, v)
    ELSE LET o == heap[v[2]]
             code == o.kind \in {"function", "module"}
             listed == "reference" \in s.flags /\ \E i \in DOMAIN s.list : s.list[i] = v[2]
             entered == IF code THEN s
                        ELSE IF "reference" \in s.flags THEN [s EXCEPT !.list = Append(@, v[2])]
                             ELSE [s EXCEPT !.marks = @ \cup {v[2]}]
             after == IF Refused(o, s.flags) THEN Failed(entered)
                      ELSE WriteFields(Put(entered, <<EntryTag(o, s.flags)>>),
                                       EntryFields(o, s.flags), heap)
         IN  IF listed /\ ~code
             THEN Put(s, <<TagOf.reference>> \o Leb((CHOOSE i \in DOMAIN s.list : s.list[i] = v[2]) - 1))
             ELSE IF v[2] \in s.marks /\ ~code THEN Failed(s)
             ELSE [after EXCEPT !.marks = @ \ {v[2]}]

\* JS_WriteObjectAtoms: the version and the strings of the atoms go to the front.
BC_VERSION == 2
WriteObjectAtoms(s) ==
    <<BC_VERSION>> \o Leb(Len(s.atoms))
    \o FlattenSeq([i \in DOMAIN s.atoms |-> WriteString(Str(WriterAtoms, s.atoms[i]))])
    \o s.out

WriterState(flags) ==
    [out |-> <<>>, atoms |-> <<>>, list |-> <<>>, marks |-> {}, ok |-> TRUE,
     first |-> FirstAtom(flags), flags |-> flags]
-----------------------------------------------------------------------------
(* The reader: at, the bytes read; heap, what it has built; refs, the       *)
(* objects for references; tab, the atoms of its runtime; idx, the atoms of *)
(* the file; vals, the fields of the entry being read.                      *)

Wrong(r) == [r EXCEPT !.ok = FALSE]

\* What is read after r, when r was read.
Then(r, Next_(_)) == IF r.ok THEN Next_(r) ELSE r

Remains(r) == Len(file) - r.at
Got(r, n, v) == [r EXCEPT !.at = @ + n, !.vals = Append(@, v)]
Bytes(r, n) == SubSeq(file, r.at + 1, r.at + n)

GetFixed(r, n) == IF ~r.ok \/ Remains(r) < n THEN Wrong(r) ELSE Got(r, n, OfLE(Bytes(r, n)))
GetBuf_any(r, n) ==
    LET m == IF Remains(r) < n THEN Remains(r) ELSE n IN Got(r, m, Bytes(r, m))
GetBuf(r, n) == IF ~r.ok \/ Remains(r) < n THEN Wrong(r) ELSE Got(r, n, Bytes(r, n))

\* get_leb128: the length of the number that starts here, zero when it does not end.
LebLength(r) ==
    LET ends == {i \in 1 .. Groups : i <= Remains(r) /\ file[r.at + i] < 128}
    IN  IF ends = {} THEN 0 ELSE CHOOSE i \in ends : \A j \in ends : i <= j
LebValue(b) == FoldLeft(LAMBDA v, i : (v + (b[i] % 128) * 128 ^ (i - 1)) % Word, 0,
                        [i \in DOMAIN b |-> i])
LebOf(r, n) == IF n = 0 THEN Wrong(r) ELSE Got(r, n, LebValue(Bytes(r, n)))
GetLeb(r) == LebOf(r, IF r.ok THEN LebLength(r) ELSE 0)
Unzigzag_half(v) == IF v % 2 = 0 THEN v \div 2 ELSE -(v \div 2)
Unzigzag(v) == IF v % 2 = 0 THEN v \div 2 ELSE -((v + 1) \div 2)
Top(r) == r.vals[Len(r.vals)]
Map(r, v) == IF r.ok THEN [r EXCEPT !.vals[Len(r.vals)] = v] ELSE r
GetSleb(r) == Then(GetLeb(r), LAMBDA t : Map(t, Unzigzag(Top(t))))

\* bc_idx_to_atom: zero when the index is not one of the file's.
IdxToAtom(r, i) ==
    IF Tagged(i) \/ i < r.first THEN i
    ELSE IF i - r.first >= Len(r.idx) THEN 0 ELSE r.idx[i - r.first + 1]
AtomAt(r, i) == Then(r, LAMBDA t : IF i = 0 THEN Wrong(t) ELSE Map(t, i))
GetAtom(r) ==
    Then(GetLeb(r), LAMBDA t :
        AtomAt(t, IF Top(t) % 2 = 1 THEN Tag + Top(t) \div 2 ELSE IdxToAtom(t, Top(t) \div 2)))

StringOf(b, wide) ==
    [wide |-> wide,
     chars |-> IF wide THEN [i \in 1 .. Len(b) \div 2 |-> OfLE(SubSeq(b, 2 * i - 1, 2 * i))]
               ELSE b]
GetChars(t, wide, size) ==
    IF Remains(t) < size THEN Wrong(t)
    ELSE Map([t EXCEPT !.at = @ + size], StringOf(Bytes(t, size), wide))
GetString(r) ==
    Then(GetLeb(r), LAMBDA t :
        GetChars(t, Top(t) % 2 = 1, (Top(t) \div 2) * (IF Top(t) % 2 = 1 THEN 2 ELSE 1)))

\* JS_NewAtomStr, and the table of the file's atoms.
NewAtom(r, str) ==
    LET same == {i \in DOMAIN r.tab : r.tab[i].chars = str.chars}
        pre == {a \in 1 .. JS_ATOM_END - 1 : Predefined(a).chars = str.chars}
    IN  IF pre # {} THEN [r EXCEPT !.idx = Append(@, CHOOSE a \in pre : TRUE)]
        ELSE IF same # {} THEN [r EXCEPT !.idx = Append(@, JS_ATOM_END - 1 + CHOOSE i \in same : TRUE)]
        ELSE [r EXCEPT !.tab = Append(@, str), !.idx = Append(@, JS_ATOM_END + Len(r.tab))]
Drop(r) == [r EXCEPT !.vals = <<>>]
Repeat(r, n, Step(_)) == FoldLeft(LAMBDA t, i : IF t.ok THEN Step(t) ELSE t, r, [i \in 1 .. n |-> i])
ReadObjectAtoms(r) ==
    Then(GetFixed(r, 1), LAMBDA v : IF Top(v) # BC_VERSION THEN Wrong(v) ELSE
    Then(GetLeb(v), LAMBDA n :
        Repeat(Drop(n), Top(n), LAMBDA t :
            Then(GetString(Drop(t)), LAMBDA u : Drop(NewAtom(u, Top(u)))))))

FixCode_raw(r, code, pos) == Map(r, code)

\* JS_ReadFunctionBytecode: the atoms of the code are numbered as in this runtime.
RECURSIVE FixCode(_, _, _)
FixCode(r, code, pos) ==
    IF pos > Len(code) THEN Map(r, code)
    ELSE LET op == code[pos]
             a == IdxToAtom(r, OfLE(SubSeq(code, pos + 1, pos + WordBytes)))
         IN  IF op \in OpAtom
             THEN IF a = 0 THEN Wrong(r)
                  ELSE FixCode(r, Patched(code, pos + 1, a), pos + OpSize[op])
             ELSE FixCode(r, code, pos + OpSize[op])

\* The mantissa of a big number: l limbs, the lowest of them padded below.
Padded(q, size) == [i \in 1 .. (size - (Len(q) % size)) % size |-> 0] \o q
LimbsOf(q, size, base) ==
    LET p == Padded(q, size)
    IN  [i \in 1 .. Len(p) \div size |->
            FoldLeft(LAMBDA v, j : v + p[(i - 1) * size + j] * base ^ (j - 1), 0,
                     [j \in 1 .. size |-> j])]
Unbcd(b, n) == [i \in 1 .. n |-> IF i % 2 = 1 THEN b[(i + 1) \div 2] % 16 ELSE b[i \div 2] \div 16]
BigNumOf(e, limbs) ==
    LET x == e \div 2
    IN  [sign |-> e % 2, limbs |-> limbs,
         class |-> CASE x = 0 -> "zero" [] x = 1 -> "inf" [] x = 2 -> "nan" [] OTHER -> "finite",
         expn |-> IF x >= 3 THEN x - 3 ELSE IF x < 0 THEN x ELSE 0]
DecimalOf(b, kind, d) ==
    IF \E i \in DOMAIN d : d[i] >= 10 THEN Wrong(b)
    ELSE Map(b, <<kind, BigNumOf(b.vals[1], LimbsOf(d, LimbDigits, 10))>>)
MantissaOf(b, kind) ==
    IF kind = "bigdecimal" THEN DecimalOf(b, kind, Unbcd(Top(b), b.vals[2]))
    ELSE Map(b, <<kind, BigNumOf(b.vals[1], LimbsOf(Top(b), LimbBytes, 256))>>)

\* The exponent with the class, the length of the mantissa, and the mantissa.
ReadBigNum(r, kind) ==
    Then(GetSleb(r), LAMBDA e :
        IF BigNumOf(Top(e), <<>>).class # "finite" THEN Map(e, <<kind, BigNumOf(Top(e), <<>>)>>)
        ELSE Then(GetLeb(e), LAMBDA n :
            IF Top(n) = 0 THEN Wrong(n)
            ELSE Then(GetBuf(n, IF kind = "bigdecimal" THEN (Top(n) + 1) \div 2 ELSE Top(n)),
                      LAMBDA b : MantissaOf(b, kind))))

RECURSIVE JS_ReadObjectRec(_)

GetField(r, kind) ==
    IF ~r.ok THEN r
    ELSE CASE kind = "u8" -> GetFixed(r, 1)
           [] kind = "u16" -> GetFixed(r, 2)
           [] kind = "leb" -> GetLeb(r)
           [] kind = "leb16" -> Then(GetLeb(r), LAMBDA t : Map(t, Top(t) % 65536))
           [] kind = "atom" -> GetAtom(r)
           [] kind = "value" -> Then(JS_ReadObjectRec(Drop(r)),
                                     LAMBDA t : [t EXCEPT !.vals = Append(r.vals, Top(t))])
GetFields(r, kinds) == FoldLeft(GetField, r, kinds)

\* n times the same fields, as one sequence of tuples.
InTuples(q, k) == [i \in 1 .. Len(q) \div k |-> SubSeq(q, (i - 1) * k + 1, i * k)]
GetMany(r, n, kinds) ==
    Then(Repeat(Drop(r), n, LAMBDA u : GetFields(u, kinds)), LAMBDA t :
        [t EXCEPT !.vals = Append(r.vals, InTuples(t.vals, Len(kinds)))])
Counted(r, kinds) ==
    Then(GetLeb(r), LAMBDA t : GetMany([t EXCEPT !.vals = r.vals], Top(t), kinds))

\* A new entry of the heap; an object is listed for references as well.
Built(r, o) == [r EXCEPT !.heap = Append(@, o), !.vals = <<<<"ref", Len(r.heap) + 1>>>>]
NewObject_unlisted(r, o) == [r EXCEPT !.heap = Append(@, o)]
NewObject(r, o) ==
    [r EXCEPT !.heap = Append(@, o), !.refs = Append(@, Len(r.heap) + 1)]
Fill(r, i, o) == [r EXCEPT !.heap[i] = o, !.vals = <<<<"ref", i>>>>]

\* A function that could not be read is freed; its code is walked although the pointer
\* to it is not set before it has been read.
Free(r, codeLen) == [r EXCEPT !.wild = @ \/ codeLen > 0]

OrFree(t, codeLen) == IF t.ok THEN t ELSE Free(t, codeLen)

HasDebug(v) == (v[1] \div 1024) % 2 = 1
ReadDebug(x) ==
    IF ~HasDebug(x.vals) THEN x
    ELSE Then(GetFields(x, <<"atom", "leb", "leb">>), LAMBDA g : GetBuf(g, g.vals[17]))

\* A function of its fields v and its constants.
FunctionOf(v, pool) ==
    [kind |-> "function", flags |-> v[1], js_mode |-> v[2], name |-> v[3],
     arg_count |-> v[4], var_count |-> v[5], defined |-> v[6], stack |-> v[7],
     vardefs |-> [i \in DOMAIN v[12] |-> [v[12][i] EXCEPT ![3] = @ - 1]],
     closure |-> v[13], code |-> v[14],
     debug |-> IF HasDebug(v) THEN <<<<v[15], v[16], v[18]>>>> ELSE <<>>,
     pool |-> [i \in DOMAIN pool |-> pool[i][1]]]

\* The numbers of everything, the variables, the closure, the code, the debug
\* information and the constants.
ReadFunctionTag(r) ==
    Then(GetFields(r, <<"u16", "u8", "atom", "leb16", "leb16", "leb16", "leb16",
                        "leb", "leb", "leb", "leb">>), LAMBDA h :
    Then(OrFree(GetBuf(GetMany(GetMany(h, h.vals[11], <<"atom", "leb", "leb", "u8">>),
                               h.vals[8], <<"atom", "leb", "u8">>),
                       h.vals[10]), h.vals[10]), LAMBDA b :
    Then(FixCode(b, Top(b), 1), LAMBDA x :
    Then(ReadDebug(x), LAMBDA l :
    Then(GetMany(l, l.vals[9], <<"value">>), LAMBDA p : Built(p, FunctionOf(p.vals, Top(p))))))))

\* A local export has an index and a name, an indirect one two names.
ExportOf(v) == IF v[1] = 0 THEN <<0, v[2], 0, v[3]>> ELSE <<v[1], v[2], v[3], v[4]>>
GetExport(r) ==
    Then(GetFixed(Drop(r), 1), LAMBDA k :
    Then(GetFields(k, IF Top(k) = 0 THEN <<"leb", "atom">> ELSE <<"leb", "atom", "atom">>),
         LAMBDA e : [e EXCEPT !.vals = Append(r.vals, ExportOf(e.vals))]))
GetExports(r) ==
    Then(GetLeb(r), LAMBDA n :
    Then(Repeat(Drop(n), Top(n), GetExport), LAMBDA x : [x EXCEPT !.vals = Append(r.vals, x.vals)]))

Heads(q) == [k \in DOMAIN q |-> q[k][1]]
ModuleOf(v) ==
    [kind |-> "module", name |-> v[1], reqs |-> Heads(v[2]), exports |-> v[3],
     stars |-> Heads(v[4]), imports |-> v[5], func |-> v[6]]
ReadModule(r) ==
    Then(Counted(GetFields(r, <<"atom">>), <<"atom">>), LAMBDA q :
    Then(Counted(Counted(GetExports(q), <<"leb">>), <<"leb", "atom", "leb">>), LAMBDA i :
    Then(GetField(i, "value"), LAMBDA f : Built(f, ModuleOf(f.vals)))))

\* The object exists, empty, while its elements are read: they may refer to it.
ArrayOf(v, template) ==
    [kind |-> "array", elems |-> Heads(v[1]), ext |-> ~template,
     raw |-> IF template THEN v[2] ELSE <<"undefined">>]
ReadArray(r, template) ==
    Then(Counted(NewObject(r, [kind |-> "array", elems |-> <<>>]), <<"value">>), LAMBDA t :
    Then(GetFields(t, IF template THEN <<"value">> ELSE <<>>), LAMBDA w :
        Fill(w, Len(r.heap) + 1, ArrayOf(w.vals, template))))

ObjectOf(props) ==
    [kind |-> "object", props |-> [j \in DOMAIN props |-> <<props[j][1], "data", props[j][2]>>]]
ReadObjectTag(r) ==
    Then(Counted(NewObject(r, [kind |-> "object", props |-> <<>>]), <<"atom", "value">>),
         LAMBDA t : Fill(t, Len(r.heap) + 1, ObjectOf(Top(t))))

\* The last entry of the heap becomes the object of reference i.
Listed(u, i) == [u EXCEPT !.refs = SubSeq(u.refs, 1, i - 1) \o <<Len(u.heap)>>
                                      \o SubSeq(u.refs, i + 1, Len(u.refs))]

\* The place of the typed array in the list comes before its buffer's.
TypedOf(v) ==
    [kind |-> "typed", type |-> v[1], count |-> v[2], offset |-> v[3], buffer |-> v[4]]
ReadTypedArray(r) ==
    Then(GetFields(r, <<"u8", "leb", "leb">>), LAMBDA h :
    Then(GetField([h EXCEPT !.refs = Append(@, 0)], "value"), LAMBDA t :
        IF IsRef(Top(t)) /\ t.heap[Top(t)[2]].kind = "buffer"
        THEN Listed(Built(t, TypedOf(t.vals)), Len(r.refs) + 1)
        ELSE Wrong(t)))

ReadArrayBuffer(r) ==
    Then(GetLeb(r), LAMBDA n :
    Then(GetBuf(n, Top(n)), LAMBDA b :
        Listed(Built(b, [kind |-> "buffer", bytes |-> Top(b), detached |-> FALSE]),
               Len(b.refs) + 1)))

\* Date and the objects of primitives: the list grows after the value was read.
ReadWrapped(r, kind) ==
    Then(JS_ReadObjectRec(r), LAMBDA t :
        IF kind = "date" /\ Top(t)[1] \notin {"int", "float"} THEN Wrong(t)
        ELSE Listed(Built(t, [kind |-> kind, data |-> Top(t)]), Len(t.refs) + 1))

ReadReference(r) ==
    IF "reference" \notin r.flags THEN Wrong(r)
    ELSE Then(GetLeb(r), LAMBDA t :
        IF Top(t) >= Len(t.refs) THEN Wrong(t)
        ELSE [t EXCEPT !.vals = <<<<"ref", t.refs[Top(t) + 1]>>>>])

Primitive(r, kind) == Then(r, LAMBDA t : Map(t, <<kind, Top(t)>>))

\* What follows the tag of kind k.
ReadKind(t, k) ==
    CASE k \in {"null", "undefined", "false", "true"} -> [t EXCEPT !.vals = <<<<k>>>>]
      [] k = "int" -> Primitive(GetSleb(t), k)
      [] k = "float" -> Primitive(GetFixed(t, 2), k)
      [] k = "string" -> Primitive(GetString(t), k)
      [] k \in {"bigint", "bigfloat", "bigdecimal"} -> ReadBigNum(t, k)
      [] k = "function" -> IF "bytecode" \in t.flags THEN ReadFunctionTag(t) ELSE Wrong(t)
      [] k = "module" -> IF "bytecode" \in t.flags THEN ReadModule(t) ELSE Wrong(t)
      [] k \in {"array", "template"} -> ReadArray(t, k = "template")
      [] k = "object" -> ReadObjectTag(t)
      [] k = "typed" -> ReadTypedArray(t)
      [] k = "buffer" -> ReadArrayBuffer(t)
      [] k = "shared" -> Wrong(t)
      [] k \in {"date", "wrapper"} -> ReadWrapped(t, k)
      [] k = "reference" -> ReadReference(t)

JS_ReadObjectRec(r) ==
    Then(GetFixed(r, 1), LAMBDA h :
        IF \E k \in DOMAIN TagOf : TagOf[k] = Top(h)
        THEN ReadKind(Drop(h), CHOOSE k \in DOMAIN TagOf : TagOf[k] = Top(h))
        ELSE Wrong(h))

ReaderState(flags) ==
    [at |-> 0, ok |-> TRUE, heap |-> <<>>, refs |-> <<>>, tab |-> ReaderAtoms, idx |-> <<>>,
     vals |-> <<>>, first |-> FirstAtom(flags), flags |-> flags, wild |-> FALSE]
-----------------------------------------------------------------------------
None == [ok |-> FALSE]

Init ==
    /\ phase = "write"
    /\ input \in Inputs
    /\ file = <<>>
    /\ whole = TRUE
    /\ result = None

JS_WriteObject ==
    /\ phase = "write"
    /\ \E s \in {JS_WriteObjectRec(WriterState(input.flags), input.root, input.heap)} :
          /\ file' = IF s.ok THEN WriteObjectAtoms(s) ELSE <<>>
          /\ phase' = IF s.ok THEN "send" ELSE "done"
          /\ result' = [ok |-> s.ok]
    /\ UNCHANGED <<input, whole>>

\* The file is stored in a cell; a part of it at the end may be missing.
Send ==
    /\ phase = "send"
    /\ \E n \in 0 .. Len(file) : file' = SubSeq(file, 1, n) /\ whole' = (n = Len(file))
    /\ phase' = "read"
    /\ UNCHANGED <<input, result>>

JS_ReadObject ==
    /\ phase = "read"
    /\ \E a \in {ReadObjectAtoms(ReaderState(input.flags))} :
       \E r \in {IF a.ok THEN JS_ReadObjectRec(a) ELSE a} :
          result' = IF r.ok THEN [ok |-> TRUE, heap |-> r.heap, root |-> Top(r), tab |-> r.tab,
                                  at |-> r.at]
                    ELSE [ok |-> FALSE, wild |-> r.wild]
    /\ phase' = "done"
    /\ UNCHANGED <<input, file, whole>>

Next == JS_WriteObject \/ Send \/ JS_ReadObject
Spec == Init /\ [][Next]_vars
-----------------------------------------------------------------------------
(* What a heap means, whatever the numbers of its atoms and its entries.    *)

Name(tab, a) == IF Tagged(a) THEN <<"int", a - Tag, <<>>>> ELSE <<"str", 0, Str(tab, a).chars>>

RECURSIVE Instructions(_, _)
Instructions(code, tab) ==
    IF code = <<>> THEN <<>>
    ELSE LET n == OpSize[code[1]]
             named == code[1] \in OpAtom
             a == OfLE(SubSeq(code, 2, 1 + WordBytes))
         IN  <<<<code[1], IF named THEN Name(tab, a) ELSE <<>>,
                 SubSeq(code, IF named THEN 2 + WordBytes ELSE 2, n)>>>>
             \o Instructions(SubSeq(code, n + 1, Len(code)), tab)

\* The values an entry leads to, in order, and the rest of it.
Seen(o) == SelectSeq(o.props, LAMBDA p : p[2] # "hidden")
Children(o) ==
    CASE o.kind = "function" -> o.pool
      [] o.kind = "module" -> <<o.func>>
      [] o.kind = "array" -> Append(o.elems, o.raw)
      [] o.kind = "object" -> [i \in DOMAIN Seen(o) |-> Seen(o)[i][3]]
      [] o.kind = "typed" -> <<o.buffer>>
      [] o.kind \in {"date", "wrapper"} -> <<o.data>>
      [] OTHER -> <<>>
Body(o, tab) ==
    LET Named(q, at) == [i \in DOMAIN q |-> [j \in DOMAIN q[i] |->
                            IF j \in at THEN Name(tab, q[i][j]) ELSE q[i][j]]]
    IN  CASE o.kind = "function" ->
               <<o.flags, o.js_mode, Name(tab, o.name), o.arg_count, o.var_count, o.defined,
                 o.stack, Named(o.vardefs, {1}), Named(o.closure, {1}),
                 Instructions(o.code, tab), Named(o.debug, {1})>>
          [] o.kind = "module" ->
               <<Name(tab, o.name), [i \in DOMAIN o.reqs |-> Name(tab, o.reqs[i])],
                 Named(o.exports, {3, 4}), o.stars, Named(o.imports, {2})>>
          [] o.kind = "array" -> <<o.ext>>
          [] o.kind = "object" -> [i \in DOMAIN Seen(o) |-> Name(tab, Seen(o)[i][1])]
          [] o.kind = "typed" -> <<o.type, o.count, o.offset>>
          [] o.kind = "buffer" -> o.bytes
          [] OTHER -> <<>>

\* The pairs of entries that stand at the same place below a pair of roots.
Below(pairs, h1, h2) ==
    {q \in UNION {{<<Children(h1[p[1]])[i], Children(h2[p[2]])[i]>> :
                     i \in DOMAIN Children(h1[p[1]]) \cap DOMAIN Children(h2[p[2]])} : p \in pairs} :
        IsRef(q[1]) /\ IsRef(q[2])}
RECURSIVE Together(_, _, _)
Together(pairs, h1, h2) ==
    LET more == pairs \cup {<<q[1][2], q[2][2]>> : q \in Below(pairs, h1, h2)}
    IN  IF more = pairs THEN pairs ELSE Together(more, h1, h2)

SameValue(v, w) == IF IsRef(v) \/ IsRef(w) THEN IsRef(v) /\ IsRef(w) ELSE v = w
SameEntry(o, p, tab) ==
    /\ o.kind = p.kind
    /\ Body(o, WriterAtoms) = Body(p, tab)
    /\ Len(Children(o)) = Len(Children(p))
    /\ \A i \in DOMAIN Children(o) : SameValue(Children(o)[i], Children(p)[i])

\* The entries an entry leads to, itself included, and those below it.
RECURSIVE ReachedFrom(_, _)
ReachedFrom(ids, h) ==
    LET more == ids \cup {v[2] : v \in {w \in UNION {{Children(h[i])[k] :
                                k \in DOMAIN Children(h[i])} : i \in ids} : IsRef(w)}}
    IN  IF more = ids THEN ids ELSE ReachedFrom(more, h)
Direct(i, h) == {Children(h[i])[k][2] : k \in {k \in DOMAIN Children(h[i]) : IsRef(Children(h[i])[k])}}

Unwritable(o, flags) ==
    \/ o.kind \in {"function", "module"} /\ "bytecode" \notin flags
    \/ o.kind = "object" /\ \E i \in DOMAIN o.props : o.props[i][2] = "getset"
    \/ o.kind = "buffer" /\ o.detached
    \/ o.kind = "shared" /\ "sab" \notin flags
    \/ o.kind = "map"
CanWrite(in) ==
    IsRef(in.root) =>
        \A i \in ReachedFrom({in.root[2]}, in.heap) :
            /\ ~Unwritable(in.heap[i], in.flags)
            /\ "reference" \in in.flags \/ i \notin ReachedFrom(Direct(i, in.heap), in.heap)

(***************************************************************************)
(* A value that JS_ReadObject builds from the bytes of JS_WriteObject is   *)
(* the value that was written: the same entries at the same places, with   *)
(* the same names although the atoms of the two runtimes have other        *)
(* numbers, and every byte is used.  With references, two places share an  *)
(* object exactly when they did before.                                    *)
(***************************************************************************)
SavedExact ==
    phase = "done" /\ file # <<>> /\ whole =>
        /\ result.ok
        /\ result.at = Len(file)
        /\ SameValue(input.root, result.root)
        /\ IsRef(input.root) =>
             LET pairs == Together({<<input.root[2], result.root[2]>>}, input.heap, result.heap)
             IN  /\ \A p \in pairs : SameEntry(input.heap[p[1]], result.heap[p[2]], result.tab)
                 /\ {p[2] : p \in pairs} = DOMAIN result.heap
                 /\ \A p, q \in pairs : p[2] = q[2] => p[1] = q[1]
                 /\ "reference" \in input.flags =>
                      \A p, q \in pairs : p[1] = q[1] => p[2] = q[2]

(***************************************************************************)
(* JS_WriteObject refuses a value exactly when it reaches something the    *)
(* format has no place for: a cycle without references, an accessor, a     *)
(* detached buffer, another class, or code that was not asked for.         *)
(***************************************************************************)
WriteExact == phase # "write" /\ (phase = "done" => ~whole \/ file = <<>>) =>
                  (file # <<>> \/ ~whole) = CanWrite(input)

(***************************************************************************)
(* JS_ReadObject never takes a file of which the end is missing for a      *)
(* shorter value.                                                          *)
(***************************************************************************)
CutRefused == phase = "done" /\ ~whole => ~result.ok

(***************************************************************************)
(* When the code of a function cannot be read, freeing the function walks  *)
(* only the code that was read.                                            *)
(***************************************************************************)
FreesOnlyWhatWasRead == phase = "done" /\ ~whole => ~result.wild
=============================================================================
