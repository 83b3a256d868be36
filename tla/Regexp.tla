------------------------------- MODULE Regexp -------------------------------
(***************************************************************************)
(* src/quickjs/libregexp.c: the compiler of regular expressions and the    *)
(* backtracking machine that runs their bytecode.  The compiler is a       *)
(* function of the pattern (constant level); the machine takes one action  *)
(* per opcode on the program counter, the subject pointer, the captures,   *)
(* the counter stack and the stack of saved states.                        *)
(*                                                                         *)
(* An instruction is a record and addresses count instructions instead of  *)
(* bytes; a character range is the set of its characters.  The tokens, the *)
(* alphabet and the reference semantics come from EsRegexp.                *)
(***************************************************************************)
EXTENDS EsRegexp

CONSTANTS Cases,             \* set of [patterns, inputs, starts]: a pattern is [toks, flags],
                             \* an input a subject, a start a value of lastIndex
          CAPTURE_COUNT_MAX, STACK_SIZE_MAX,
          STATES_MAX         \* saved states the memory holds

VARIABLES re, prog, input, start, pc, cptr, capture, stack, states, ret
vars == <<re, prog, input, start, pc, cptr, capture, stack, states, ret>>

INT32_MAX == Infinity
NULL == -1
NoMatch == -1

Ins(op) == [op |-> op, val |-> 0, min |-> 0, max |-> 0, count |-> 0, chars |-> {}]
Op(op) == <<Ins(op)>>
OpVal(op, v) == <<[Ins(op) EXCEPT !.val = v]>>
OpChars(op, S) == <<[Ins(op) EXCEPT !.chars = S]>>

(***************************************************************************)
(* Characters.                                                             *)
(***************************************************************************)
ToUpper == [a |-> "A", b |-> "B", z |-> "Z", e1 |-> "E1"]
ToLower == [A |-> "a", B |-> "b", Z |-> "z", E1 |-> "e1"]
lre_canonicalize(c, is_utf16) ==
    IF is_utf16 THEN IF c \in DOMAIN ToLower THEN ToLower[c] ELSE c
    ELSE IF c \in DOMAIN ToUpper THEN ToUpper[c] ELSE c

is_line_terminator(c) == c = "nl"
is_word_char(c) == LET v == CodePoint[c] IN v \in 48..57 \/ v \in 65..90 \/ v \in 97..122

cr_init_char_range(t) ==
    LET S == {x \in Alphabet : CodePoint[x] \in
                IF t = "\\w" THEN (48..57) \union (65..90) \union (97..122) ELSE 48..57}
    IN  IF t = "\\D" THEN Alphabet \ S ELSE S
\* Only the letters a to z get their upper case; the lower case ones are kept.
cr_canonicalize(S) == S \union {ToUpper[x] : x \in S \intersect {"a", "b", "z"}}

IgnoreCase(s) == "i" \in s.flags
IsUtf16(s) == "u" \in s.flags
At(s, p) == IF p > Len(s.toks) THEN "end" ELSE s.toks[p]

(***************************************************************************)
(* Analyses of the bytecode of an atom.                                    *)
(***************************************************************************)
SimpleChars == {"char", "range", "dot", "any"}
NoEffect == {"line_start", "line_end", "push_i32", "push_char_pos", "drop",
             "word_boundary", "not_word_boundary", "prev"}
Neutral == SimpleChars \union NoEffect
           \union {"save_start", "save_end", "save_reset", "back_reference", "backward_back_reference"}

re_check_advance(code) ==
    LET Ops(S) == {i \in 1..Len(code) : code[i].op \in S}
        set == {code[i].val : i \in Ops({"save_start", "save_end"})}
               \union UNION {code[i].min..(code[i].max - 1) : i \in Ops({"save_reset"})}
        read == {code[i].val : i \in Ops({"back_reference", "backward_back_reference"})}
        chars == Ops(SimpleChars)
        other == {i \in 1..Len(code) : code[i].op \notin Neutral}
    IN  IF set \intersect read # {} THEN -1
        ELSE IF \E i \in chars : \A j \in other : i < j THEN 1 ELSE 0

\* Mutant: a backtracking step of a simple quantifier always goes one character back.
SimpleQuantifierOfOne(code) ==
    IF code # <<>> /\ \A i \in 1..Len(code) : code[i].op \in SimpleChars THEN 1 ELSE -1

re_is_simple_quantifier(code) ==
    IF \A i \in 1..Len(code) : code[i].op \in SimpleChars \union
            {"line_start", "line_end", "word_boundary", "not_word_boundary"}
    THEN Cardinality({i \in 1..Len(code) : code[i].op \in SimpleChars})
    ELSE -1

\* The repetition of an atom: its code, given the captures before and after it.
AddQuantifier(atom, min, max, greedy, c0, c1) ==
    LET len == Len(atom)
        simple == re_is_simple_quantifier(atom)
        check == greedy /\ re_check_advance(atom) = 0
        z == IF check THEN Op("push_char_pos") ELSE <<>>
        split(n) == OpVal(IF greedy THEN "split_next_first" ELSE "split_goto_first", n)
        reset == IF c0 = c1 THEN <<>>
                 ELSE <<[Ins("save_reset") EXCEPT !.min = c0, !.max = c1 - 1]>>
        star == LET n == Len(z) + len + 1
                IN  split(n) \o z \o atom
                    \o OpVal(IF check THEN "bne_char_pos" ELSE "goto", -(n + 1))
        upto(n) == OpVal("push_i32", n) \o split(len + 1) \o atom
                   \o OpVal("loop", -(len + 2)) \o Op("drop")
        times == IF min = 1 THEN atom
                 ELSE OpVal("push_i32", min) \o atom \o OpVal("loop", -(len + 1)) \o Op("drop")
    IN  CASE greedy /\ max > 0 /\ simple > 0 ->
                <<[Ins("simple_greedy_quant") EXCEPT !.val = len + 1, !.min = min, !.max = max,
                                                     !.count = simple]>> \o atom \o Op("match")
          [] OTHER ->
             IF min = 0
             THEN reset \o (CASE max = 0 -> <<>>
                              [] max = 1 -> split(len) \o atom
                              [] max = INT32_MAX -> star
                              [] OTHER -> upto(max))
             ELSE IF min = 1 /\ max = INT32_MAX /\ ~check
             THEN atom \o OpVal(IF greedy THEN "split_goto_first" ELSE "split_next_first", -(len + 1))
             ELSE times \o (CASE max = INT32_MAX -> star
                              [] max > min /\ max # INT32_MAX -> upto(max - min)
                              [] OTHER -> <<>>)

(***************************************************************************)
(* The parser.  A parse state has the next token, the code emitted since   *)
(* the caller's start, capture_count, the group names and an error flag;   *)
(* q says that the term is an atom (last_atom_start >= 0).                 *)
(***************************************************************************)
\* The digits at p: <<next token, value>>.
parse_digits(s, p) ==
    LET D == {n \in 0..(Len(s.toks) - p + 1) : \A k \in p..(p + n - 1) : Digit(s.toks[k]) >= 0}
        n == CHOOSE m \in D : \A k \in D : k <= m
    IN  <<p + n, Number(s.toks, p, p + n - 1)>>

\* One pass over the pattern from token p.  With a name: the index of the group
\* of that name, or -1; the pass over a name it does not look for leaves p after
\* the '>' and then steps over one more token.
RECURSIVE CapturesFrom(_, _, _, _)
CapturesFrom(s, p, idx, name) ==
    LET tk == At(s, p)
        closes == {k \in (p + 1)..Len(s.toks) : s.toks[k] = "]"}
        group == tk \in {"(", "(?<n>", "(?<m>"}
    IN  IF tk = "end" \/ idx >= CAPTURE_COUNT_MAX THEN IF name = "" THEN idx ELSE -1
        ELSE IF tk \in {"[", "[^"}
        THEN CapturesFrom(s, IF closes = {} THEN Len(s.toks) + 1
                             ELSE 1 + CHOOSE k \in closes : \A l \in closes : k <= l, idx, name)
        ELSE IF name # "" /\ tk \in {"(?<n>", "(?<m>"}
        THEN IF tk = NamedGroup[name] THEN idx ELSE CapturesFrom(s, p + 2, idx + 1, name)
        ELSE CapturesFrom(s, p + 1, IF group THEN idx + 1 ELSE idx, name)
re_parse_captures(s, name) == CapturesFrom(s, 1, 1, name)
re_count_captures(s) == re_parse_captures(s, "")
re_has_named_captures(s) ==
    \E p \in 1..Len(s.toks) : s.toks[p] \in {"(?<n>", "(?<m>"} /\ ~InClass(s.toks, p)
find_group_name(st, name) ==
    IF \E i \in 1..Len(st.names) : st.names[i] = name
    THEN CHOOSE i \in 1..Len(st.names) : st.names[i] = name ELSE -1

re_parse_error(st) == [st EXCEPT !.err = TRUE, !.q = FALSE]

get_class_atom(tk) == IF tk \in ClassEscapes THEN cr_init_char_range(tk) ELSE {Plain(tk)}
re_emit_range(S) == OpChars(IF S = {} THEN "char" ELSE "range", S)

\* The class from token p on, after the bracket: <<next token, characters, error>>.
RECURSIVE ClassLoop(_, _, _)
ClassLoop(s, p, S) ==
    LET c1 == At(s, p)
        c2 == At(s, p + 2)
        dash == At(s, p + 1) = "-" /\ c2 # "]"
        both == c1 \notin ClassEscapes /\ c2 \notin ClassEscapes
        v1 == CodePoint[Plain(c1)]
        v2 == CodePoint[Plain(c2)]
    IN  IF c1 = "]" THEN <<p + 1, S, FALSE>>
        ELSE IF c1 = "end" THEN <<p, S, TRUE>>
        ELSE IF dash /\ c2 = "end" THEN <<p, S, TRUE>>
        ELSE IF dash /\ ~both /\ IsUtf16(s) THEN <<p, S, TRUE>>
        ELSE IF dash /\ both
        THEN IF v2 < v1 THEN <<p, S, TRUE>>
             ELSE ClassLoop(s, p + 3, S \union {x \in Alphabet : CodePoint[x] \in v1..v2})
        ELSE ClassLoop(s, p + 1, S \union get_class_atom(c1))
re_parse_char_class(s, p) ==
    LET r == ClassLoop(s, p + 1, {})
        S == IF IgnoreCase(s) THEN cr_canonicalize(r[2]) ELSE r[2]
    IN  <<r[1], IF s.toks[p] = "[^" THEN Alphabet \ S ELSE S, r[3]>>

\* The quantifier at token p: <<next token, min, max>>; the next token is zero where
\* there is none, and less for a syntax error.
NoQuantifier(s) == <<IF IsUtf16(s) THEN -1 ELSE 0, 0, 0>>
BracesEnd(s, n, min, max) ==
    IF At(s, n) # "}" THEN NoQuantifier(s) ELSE <<n + 1, min, max>>
AfterComma(s, n, min) ==
    IF Digit(At(s, n)) < 0 THEN BracesEnd(s, n, min, INT32_MAX)
    ELSE IF parse_digits(s, n)[2] < min THEN <<-1, 0, 0>>
    ELSE BracesEnd(s, parse_digits(s, n)[1], min, parse_digits(s, n)[2])
AfterMin(s, lo) ==
    IF At(s, lo[1]) = "," THEN AfterComma(s, lo[1] + 1, lo[2])
    ELSE BracesEnd(s, lo[1], lo[2], lo[2])
QuantifierAt(s, p) ==
    CASE At(s, p) = "*" -> <<p + 1, 0, INT32_MAX>>
      [] At(s, p) = "+" -> <<p + 1, 1, INT32_MAX>>
      [] At(s, p) = "?" -> <<p + 1, 0, 1>>
      [] At(s, p) = "{" -> IF Digit(At(s, p + 1)) < 0 THEN NoQuantifier(s)
                           ELSE AfterMin(s, parse_digits(s, p + 1))
      [] OTHER -> <<0, 0, 0>>

\* The atom that st ends with, repeated as q says.
Repeated(s, st, q, lazy, c0) ==
    IF q[1] < 0 THEN re_parse_error(st)
    ELSE IF q[1] = 0 THEN [st EXCEPT !.q = FALSE]
    ELSE [st EXCEPT !.pos = IF lazy THEN q[1] + 1 ELSE q[1], !.q = FALSE,
                    !.code = AddQuantifier(st.code, q[2], q[3], ~lazy, c0, st.caps)]
RepeatedBy(s, st, q, c0) == Repeated(s, st, q, At(s, q[1]) = "?", c0)
ParseQuantifier(s, st, c0) == RepeatedBy(s, st, QuantifierAt(s, st.pos), c0)

RECURSIVE re_parse_disjunction(_, _, _)

\* The code of a term of one token; in the backward direction a character is
\* read after a step back, and the pointer is left before it.
Emit(st, code, q) == [st EXCEPT !.pos = st.pos + 1, !.code = code, !.q = q]
EmitChars(st, back, code) ==
    LET prev == IF back THEN Op("prev") ELSE <<>> IN Emit(st, prev \o code \o prev, TRUE)
EmitChar(s, st, back, x) ==
    EmitChars(st, back, OpChars("char", {IF IgnoreCase(s) THEN lre_canonicalize(x, IsUtf16(s)) ELSE x}))
ClassAtom(s, st, back) ==
    LET tk == At(s, st.pos)
    IN  IF tk \in ClassEscapes THEN EmitChars(st, back, re_emit_range(get_class_atom(tk)))
        ELSE EmitChar(s, st, back, Plain(tk))

\* A term that starts with a parenthesis.
NameOf(tk) == CASE tk = "(?<n>" -> "n" [] tk = "(?<m>" -> "m" [] OTHER -> ""
Inside(st, tk) ==
    [st EXCEPT !.pos = st.pos + 1, !.code = <<>>,
               !.caps = IF tk \in Captures THEN st.caps + 1 ELSE st.caps,
               !.names = IF tk \in Captures THEN Append(st.names, NameOf(tk)) ELSE st.names]

\* The code of a group whose inside is body; n is the capture.
GroupCode(tk, n, body, back) ==
    CASE tk \in Captures -> OpVal(IF back THEN "save_end" ELSE "save_start", n) \o body
                            \o OpVal(IF back THEN "save_start" ELSE "save_end", n)
      [] tk = "(?:" -> body
      [] tk \in Lookarounds ->
            OpVal(IF tk \in {"(?!", "(?<!"} THEN "negative_lookahead" ELSE "lookahead",
                  Len(body) + 1) \o body \o Op("match")

GroupEnd(s, tk, n, d, back) ==
    IF d.err \/ At(s, d.pos) # ")" THEN re_parse_error(d)
    ELSE [d EXCEPT !.pos = d.pos + 1, !.code = GroupCode(tk, n, d.code, back),
                   !.q = tk \notin Lookarounds \/ (~IsUtf16(s) /\ tk \in {"(?=", "(?!"})]

GroupOf(s, st, tk, back) ==
    IF tk \in Captures /\ (st.caps >= CAPTURE_COUNT_MAX
                           \/ (NameOf(tk) # "" /\ find_group_name(st, NameOf(tk)) > 0))
    THEN re_parse_error(st)
    ELSE GroupEnd(s, tk, st.caps,
                  re_parse_disjunction(s, Inside(st, tk),
                                       IF tk \in Lookarounds THEN tk \in {"(?<=", "(?<!"} ELSE back),
                  back)

ParseGroup(s, st, back) == GroupOf(s, st, At(s, st.pos), back)

\* A back reference by number or by name, or what Annex B makes of it.
ParseBackReference(s, st, back) ==
    LET tk == At(s, st.pos)
        backref(n) == Emit(st, OpVal(IF back THEN "backward_back_reference"
                                     ELSE "back_reference", n), TRUE)
        name == IF tk = "\\k<n>" THEN "n" ELSE "m"
        g == find_group_name(st, name)
        h == IF g < 0 THEN re_parse_captures(s, name) ELSE g
        n == IF tk = "\\1" THEN 1 ELSE 2
    IN  CASE tk \in {"\\k<n>", "\\k<m>"} -> IF h < 0 THEN re_parse_error(st) ELSE backref(h)
          [] tk = "\\k" -> IF IsUtf16(s) \/ re_has_named_captures(s) THEN re_parse_error(st)
                           ELSE ClassAtom(s, st, back)
          [] tk \in {"\\1", "\\2"} ->
                IF n < st.caps \/ n < re_count_captures(s) THEN backref(n)
                ELSE IF IsUtf16(s) THEN re_parse_error(st) ELSE EmitChar(s, st, back, Plain(tk))

\* The atom or assertion at st.pos; st.code is empty.
ParseAtom(s, st, back) ==
    LET p == st.pos
        tk == At(s, p)
        lo == parse_digits(s, p + 1)
        end == IF At(s, lo[1]) # "," THEN lo[1] ELSE parse_digits(s, lo[1] + 1)[1]
    IN  CASE tk = "^" -> Emit(st, Op("line_start"), FALSE)
          [] tk = "$" -> Emit(st, Op("line_end"), FALSE)
          [] tk = "\\b" -> Emit(st, Op("word_boundary"), FALSE)
          [] tk = "\\B" -> Emit(st, Op("not_word_boundary"), FALSE)
          [] tk = "." -> EmitChars(st, back, Op(IF "s" \in s.flags THEN "any" ELSE "dot"))
          [] tk = "{" -> IF IsUtf16(s) THEN re_parse_error(st)
                         ELSE IF Digit(At(s, p + 1)) < 0 \/ At(s, end) # "}" THEN ClassAtom(s, st, back)
                         ELSE re_parse_error(st)
          [] tk \in {"*", "+", "?"} -> re_parse_error(st)
          [] tk \in Openers -> ParseGroup(s, st, back)
          [] tk \in {"\\k<n>", "\\k<m>", "\\k", "\\1", "\\2"} -> ParseBackReference(s, st, back)
          [] tk \in {"[", "[^"} ->
                LET r == re_parse_char_class(s, p)
                IN  IF r[3] THEN re_parse_error(st)
                    ELSE [EmitChars(st, back, re_emit_range(r[2])) EXCEPT !.pos = r[1]]
          [] tk \in {"]", "}"} -> IF IsUtf16(s) THEN re_parse_error(st) ELSE ClassAtom(s, st, back)
          [] OTHER -> ClassAtom(s, st, back)

TermEnd(s, a, caps) == IF a.q THEN ParseQuantifier(s, a, caps) ELSE a
re_parse_term(s, st, back) == TermEnd(s, ParseAtom(s, st, back), st.caps)

\* In the backward direction every term is put before the ones parsed so far.
Beside(t, code, back) == [t EXCEPT !.code = IF back THEN t.code \o code ELSE code \o t.code]

RECURSIVE re_parse_alternative(_, _, _)
re_parse_alternative(s, st, back) ==
    IF st.err \/ At(s, st.pos) \in {"end", "|", ")"} THEN st
    ELSE re_parse_alternative(s,
             Beside(re_parse_term(s, [st EXCEPT !.code = <<>>, !.q = FALSE], back), st.code, back),
             back)

\* The code so far, or the alternative b.
Either(code, b) ==
    [b EXCEPT !.code = OpVal("split_next_first", Len(code) + 1) \o code
                       \o OpVal("goto", Len(b.code)) \o b.code]

RECURSIVE MoreAlternatives(_, _, _)
MoreAlternatives(s, st, back) ==
    IF st.err \/ At(s, st.pos) # "|" THEN st
    ELSE MoreAlternatives(s,
             Either(st.code, re_parse_alternative(s, [st EXCEPT !.pos = st.pos + 1, !.code = <<>>],
                                                  back)), back)
re_parse_disjunction(s, st, back) ==
    MoreAlternatives(s, re_parse_alternative(s, st, back), back)

\* The largest depth of the counter stack over a linear pass, -1 when it is too deep.
compute_stack_size(code) ==
    LET Depths == [i \in 1..Len(code) |->
            Cardinality({k \in 1..i : code[k].op \in {"push_i32", "push_char_pos"}})
            - Cardinality({k \in 1..i : code[k].op \in {"drop", "bne_char_pos"}})]
        D == {0} \union {Depths[i] : i \in 1..Len(code)}
        m == CHOOSE d \in D : \A e \in D : e <= d
    IN  IF m > STACK_SIZE_MAX THEN -1 ELSE m

Header(s, st, code, size) ==
    [err |-> st.err \/ At(s, st.pos) # "end" \/ size < 0,
     code |-> code, caps |-> st.caps, stack |-> size]
WithHeader(s, st, code) == Header(s, st, code, compute_stack_size(code))
Compiled(s, st) ==
    WithHeader(s, st,
        (IF "y" \in s.flags THEN <<>>
         ELSE OpVal("split_goto_first", 2) \o Op("any") \o OpVal("goto", -3))
        \o OpVal("save_start", 0) \o st.code \o OpVal("save_end", 0) \o Op("match"))
lre_compile(s) ==
    Compiled(s, re_parse_disjunction(s, [pos |-> 1, code |-> <<>>, caps |-> 1, names |-> <<>>,
                                         err |-> FALSE, q |-> FALSE], FALSE))

(***************************************************************************)
(* Reading the subject.                                                    *)
(***************************************************************************)
cbuf_end == Len(input)
Pair(i) == IsUtf16(re) /\ i >= 0 /\ i + 1 < cbuf_end /\ input[i + 1] = "H" /\ input[i + 2] = "L"
\* The character at p of a buffer that ends at e, and the pointer after it.
GET_CHAR(p, e) == IF Pair(p) /\ p + 1 < e THEN <<"HL", p + 2>> ELSE <<input[p + 1], p + 1>>
PREV_CHAR(p) == IF Pair(p - 2) THEN p - 2 ELSE p - 1
\* The character before p of a buffer that starts at b, and the pointer to it.
GET_PREV_CHAR(p, b) == IF p - 2 >= b /\ Pair(p - 2) THEN <<"HL", p - 2>> ELSE <<input[p], p - 1>>

Canon(c) == IF IgnoreCase(re) THEN lre_canonicalize(c, IsUtf16(re)) ELSE c
Accept(ins, c) == CASE ins.op \in {"char", "range"} -> Canon(c) \in ins.chars
                    [] ins.op = "dot" -> ~is_line_terminator(c)
                    [] ins.op = "any" -> TRUE

\* The comparison of a back reference: the pointer after it, or NoMatch.
RECURSIVE Forward(_, _, _)
Forward(p1, e1, p) ==
    IF p1 >= e1 THEN p
    ELSE IF p >= cbuf_end THEN NoMatch
    ELSE LET a == GET_CHAR(p1, e1)
             b == GET_CHAR(p, cbuf_end)
         IN  IF Canon(a[1]) # Canon(b[1]) THEN NoMatch ELSE Forward(a[2], e1, b[2])
RECURSIVE Backward(_, _, _)
Backward(p1, b1, p) ==
    IF p1 <= b1 THEN p
    ELSE IF p = 0 THEN NoMatch
    ELSE LET a == GET_PREV_CHAR(p1, b1)
             b == GET_PREV_CHAR(p, 0)
         IN  IF Canon(a[1]) # Canon(b[1]) THEN NoMatch ELSE Backward(a[2], b1, b[2])

\* The opcodes that only test and move the pointer.
Tests == SimpleChars \union {"line_start", "line_end", "word_boundary", "not_word_boundary",
                             "prev", "back_reference", "backward_back_reference"}
Advance(ins, p) ==
    LET v1 == p > 0 /\ is_word_char(GET_PREV_CHAR(p, 0)[1])
        v2 == p < cbuf_end /\ is_word_char(GET_CHAR(p, cbuf_end)[1])
        multi == "m" \in re.flags
        if(b) == IF b THEN p ELSE NoMatch
        s == capture[ins.val + 1][1]
        e == capture[ins.val + 1][2]
    IN  CASE ins.op \in SimpleChars ->
                IF p >= cbuf_end THEN NoMatch
                ELSE LET g == GET_CHAR(p, cbuf_end) IN IF Accept(ins, g[1]) THEN g[2] ELSE NoMatch
          [] ins.op = "line_start" ->
                if(p = 0 \/ (multi /\ is_line_terminator(GET_PREV_CHAR(p, 0)[1])))
          [] ins.op = "line_end" ->
                if(p = cbuf_end \/ (multi /\ is_line_terminator(GET_CHAR(p, cbuf_end)[1])))
          [] ins.op = "word_boundary" -> if(v1 # v2)
          [] ins.op = "not_word_boundary" -> if(v1 = v2)
          [] ins.op = "prev" -> IF p = 0 THEN NoMatch ELSE PREV_CHAR(p)
          [] ins.op = "back_reference" ->
                IF s = NULL \/ e = NULL THEN p ELSE Forward(s, e, p)
          [] ins.op = "backward_back_reference" ->
                IF s = NULL \/ e = NULL THEN p ELSE Backward(e, s, p)

(***************************************************************************)
(* The machine.                                                            *)
(***************************************************************************)
State(type, at, p, count) ==
    [type |-> type, pc |-> at, cptr |-> p, count |-> count, capture |-> capture, stack |-> stack]

\* Mutant: the saved state of a greedy quantifier is not brought up to date.
Retried_as_saved(rs) == rs

\* The saved state of a greedy quantifier, one repetition of its atom shorter.
Retried(rs) ==
    [rs EXCEPT !.count = @ - 1,
               !.cptr = FoldLeft(LAMBDA q, x : PREV_CHAR(q), rs.cptr,
                                 [x \in 1..prog.code[rs.pc].count |-> x])]

\* Unwinding the saved states with the result r, up to one to resume from.
RECURSIVE Unwind(_, _)
Unwind(ss, r) ==
    LET rs == ss[Len(ss)]
        below == Front(ss)
        ok == (rs.type = "lookahead") = (r = 1)
    IN  IF ss = <<>> THEN [ret |-> IF r = 1 THEN "match" ELSE "fail", resume |-> FALSE]
        ELSE CASE rs.type \in {"split", "greedy"} /\ r = 1 -> Unwind(below, r)
               [] rs.type = "split" /\ r = 0 ->
                     [resume |-> TRUE, pc |-> rs.pc, cptr |-> rs.cptr, capture |-> rs.capture,
                      stack |-> rs.stack, states |-> below]
               [] rs.type = "greedy" /\ r = 0 ->
                     LET again == Retried(rs)
                     IN  [resume |-> TRUE, pc |-> rs.pc + 1 + prog.code[rs.pc].val,
                          cptr |-> again.cptr, capture |-> rs.capture, stack |-> rs.stack,
                          states |-> IF again.count = 0 THEN below ELSE Append(below, again)]
               [] OTHER ->
                     IF ok
                     THEN [resume |-> TRUE, pc |-> rs.pc, cptr |-> rs.cptr, stack |-> rs.stack,
                           states |-> below,
                           capture |-> IF rs.type = "lookahead" THEN capture ELSE rs.capture]
                     ELSE Unwind(below, 0)

Finish(r) ==
    \E u \in {Unwind(states, r)} :
        IF u.resume
        THEN /\ pc' = u.pc /\ cptr' = u.cptr /\ capture' = u.capture /\ stack' = u.stack
             /\ states' = u.states
             /\ UNCHANGED ret
        ELSE /\ ret' = u.ret /\ states' = <<>>
             /\ UNCHANGED <<pc, cptr, capture, stack>>

\* push_state, with what to do when the memory lasts.
push_state(st, go) ==
    IF Len(states) < STATES_MAX
    THEN states' = Append(states, st) /\ go
    ELSE ret' = "memory" /\ UNCHANGED <<pc, cptr, capture, stack, states>>

ins == prog.code[pc]
Running(ops) == ret = "run" /\ ins.op \in ops /\ UNCHANGED <<re, prog, input, start>>
Goto(n) == pc' = pc + 1 + n
Next1 == Goto(0)

DoMatch == Running({"match"}) /\ Finish(1)

DoTest ==
    /\ Running(Tests)
    /\ \E p \in {Advance(ins, cptr)} :
         IF p = NoMatch THEN Finish(0)
         ELSE Next1 /\ cptr' = p /\ UNCHANGED <<capture, stack, states, ret>>

DoSplit ==
    /\ Running({"split_goto_first", "split_next_first"})
    /\ LET away == pc + 1 + ins.val
           next == ins.op = "split_next_first"
       IN  push_state(State("split", IF next THEN away ELSE pc + 1, cptr, 0),
                      /\ pc' = IF next THEN pc + 1 ELSE away
                      /\ UNCHANGED <<cptr, capture, stack, ret>>)

DoLookahead ==
    /\ Running({"lookahead", "negative_lookahead"})
    /\ push_state(State(ins.op, pc + 1 + ins.val, cptr, 0),
                  Next1 /\ UNCHANGED <<cptr, capture, stack, ret>>)

DoGoto == Running({"goto"}) /\ Goto(ins.val) /\ UNCHANGED <<cptr, capture, stack, states, ret>>

DoSave ==
    /\ Running({"save_start", "save_end"})
    /\ capture' = [capture EXCEPT ![ins.val + 1][IF ins.op = "save_start" THEN 1 ELSE 2] = cptr]
    /\ Next1
    /\ UNCHANGED <<cptr, stack, states, ret>>

DoSaveReset ==
    /\ Running({"save_reset"})
    /\ capture' = [n \in DOMAIN capture |-> IF n - 1 \in ins.min..ins.max THEN <<NULL, NULL>>
                                            ELSE capture[n]]
    /\ Next1
    /\ UNCHANGED <<cptr, stack, states, ret>>

DoPush ==
    /\ Running({"push_i32", "push_char_pos"})
    /\ stack' = Append(stack, IF ins.op = "push_i32" THEN ins.val ELSE cptr)
    /\ Next1
    /\ UNCHANGED <<cptr, capture, states, ret>>

DoDrop == Running({"drop"}) /\ stack' = Front(stack) /\ Next1
          /\ UNCHANGED <<cptr, capture, states, ret>>

DoLoop ==
    /\ Running({"loop"})
    /\ LET n == stack[Len(stack)] - 1
       IN  /\ stack' = [stack EXCEPT ![Len(stack)] = n]
           /\ Goto(IF n # 0 THEN ins.val ELSE 0)
    /\ UNCHANGED <<cptr, capture, states, ret>>

DoBneCharPos ==
    /\ Running({"bne_char_pos"})
    /\ stack' = Front(stack)
    /\ Goto(IF stack[Len(stack)] # cptr THEN ins.val ELSE 0)
    /\ UNCHANGED <<cptr, capture, states, ret>>

\* One run of a simple atom, up to its match opcode: the no_recurse call.
RECURSIVE NoRecurse(_, _)
OneMore(at, p) == IF p = NoMatch THEN NoMatch ELSE NoRecurse(at + 1, p)
NoRecurse(at, p) ==
    IF prog.code[at].op = "match" THEN p ELSE OneMore(at, Advance(prog.code[at], p))
RECURSIVE GreedyLoop(_, _, _)
GreedyOn(q, p, r, max) ==
    IF r = NoMatch THEN <<q, p>>
    ELSE IF q + 1 >= max /\ max # INT32_MAX THEN <<q + 1, r>>
    ELSE GreedyLoop(q + 1, r, max)
GreedyLoop(q, p, max) == GreedyOn(q, p, NoRecurse(pc + 1, p), max)

DoSimpleGreedyQuant ==
    /\ Running({"simple_greedy_quant"})
    /\ \E g \in {GreedyLoop(0, cptr, ins.max)} :
         LET go == Goto(ins.val) /\ cptr' = g[2] /\ UNCHANGED <<capture, stack, ret>>
         IN  IF g[1] < ins.min THEN Finish(0)
             ELSE IF g[1] > ins.min THEN push_state(State("greedy", pc, g[2], g[1] - ins.min), go)
             ELSE go /\ UNCHANGED states

Next == DoMatch \/ DoTest \/ DoSplit \/ DoLookahead \/ DoGoto \/ DoSave \/ DoSaveReset
        \/ DoPush \/ DoDrop \/ DoLoop \/ DoBneCharPos \/ DoSimpleGreedyQuant

\* lre_exec on a compiled pattern; a pattern that does not compile is an error.
Init ==
    /\ \E c \in Cases :
         /\ re \in c.patterns
         /\ prog \in {lre_compile(re)}
         /\ input \in c.inputs
         /\ start \in {i \in c.starts : i <= Len(input)}
    /\ pc = 1 /\ cptr = start /\ stack = <<>> /\ states = <<>>
    /\ capture = [n \in 1..prog.caps |-> <<NULL, NULL>>]
    /\ ret = IF prog.err THEN "error" ELSE "run"

Spec == Init /\ [][Next]_vars /\ WF_vars(Next)

(***************************************************************************)
(* Properties.                                                             *)
(***************************************************************************)
Group(n) == IF capture[n][1] = NULL \/ capture[n][2] = NULL THEN Undefined ELSE capture[n]
Outcome == IF ret = "match" THEN [ret |-> ret, cap |-> [n \in DOMAIN capture |-> Group(n)]]
           ELSE [ret |-> ret, cap |-> <<>>]

\* The compiled program on the backtracking machine gives what ECMAScript says of
\* the pattern: a syntax error, no match, or the same match with the same captures.
MatchExact == ret # "run" => Outcome = EsExec(re, input, start)

\* The counter stack stays within the size compute_stack_size put in the header
\* (the buffer of lre_exec and of every saved state), is never popped when empty,
\* and a match leaves nothing on it.
StackFits ==
    /\ ret # "error" => Len(stack) <= prog.stack
    /\ ret = "run" /\ ins.op \in {"drop", "loop", "bne_char_pos"} => Len(stack) > 0
    /\ ret = "match" => stack = <<>>
=============================================================================
