------------------------------ MODULE EsRegexp ------------------------------
(***************************************************************************)
(* What ECMAScript (the Pattern grammar with its Annex B and the matcher   *)
(* semantics) promises of a regular expression: the reference the compiler *)
(* and the backtracking machine of src/quickjs/libregexp.c are compared    *)
(* with.  Nothing here is translated from that file.                       *)
(*                                                                         *)
(* A pattern is a sequence of tokens and a set of flags; a token is a      *)
(* character, an operator or an escape ("(?:", "\\1", "(?<n>", ...).  A    *)
(* subject is a sequence of UTF-16 units; H and L are a high and a low     *)
(* surrogate, HL the code point they make.  The matcher returns the        *)
(* sequence of all its successes in the order backtracking meets them, so  *)
(* the first one is the match.                                             *)
(***************************************************************************)
EXTENDS Integers, Sequences, FiniteSets, SequencesExt

Infinity == 99                  \* an unbounded repetition count
Undefined == <<-1, -1>>         \* a capture that took part in no match

\* The characters and their code points, in the order of the alphabet.
CodePoint == [nl |-> 10, minus |-> 45, n0 |-> 48, n1 |-> 49, n2 |-> 50,
              A |-> 65, B |-> 66, Z |-> 90, a |-> 97, b |-> 98, c |-> 99,
              k |-> 107, z |-> 122, e1 |-> 233, E1 |-> 201,
              H |-> 55357, L |-> 56832, HL |-> 128512, o1 |-> 1, o2 |-> 2,
              lbrace |-> 123, rbrace |-> 125, rbracket |-> 93, comma |-> 44]
Alphabet == DOMAIN CodePoint

\* The character that a token of the pattern stands for as a plain character.
Plain(t) ==
    CASE t = "{" -> "lbrace" [] t = "}" -> "rbrace" [] t = "]" -> "rbracket"
      [] t = "-" -> "minus" [] t = "," -> "comma" [] t = "\\k" -> "k"
      [] t = "0" -> "n0" [] t = "1" -> "n1" [] t = "2" -> "n2"
      [] t = "\\1" -> "o1" [] t = "\\2" -> "o2" [] OTHER -> t

Digit(t) == CASE t = "0" -> 0 [] t = "1" -> 1 [] t = "2" -> 2 [] OTHER -> -1
Openers == {"(", "(?:", "(?=", "(?!", "(?<=", "(?<!", "(?<n>", "(?<m>"}
Captures == {"(", "(?<n>", "(?<m>"}
NamedGroup == [n |-> "(?<n>", m |-> "(?<m>"]
Lookarounds == {"(?=", "(?!", "(?<=", "(?<!"}

(***************************************************************************)
(* The grammar, by spans: a pattern is valid exactly when every span of it *)
(* has the form its position asks for.                                     *)
(***************************************************************************)
LOCAL Slice(t, i, j) == SubSeq(t, i, j)

\* Token i lies inside the brackets of a class.
InClass(t, i) ==
    \E o \in 1..(i - 1) :
        /\ t[o] \in {"[", "[^"}
        /\ \A m \in (o + 1)..(i - 1) : t[m] # "]"
        /\ ~ \E o2 \in 1..(o - 1) : t[o2] \in {"[", "[^"}
                                     /\ \A m \in (o2 + 1)..o : t[m] # "]"
\* How many groups are open before token i of t.
Depth(t, i) == Cardinality({k \in 1..(i - 1) : t[k] \in Openers /\ ~InClass(t, k)})
               - Cardinality({k \in 1..(i - 1) : t[k] = ")" /\ ~InClass(t, k)})
\* The token that closes the group or the class opened at i, 0 when none does.
CloseOf(t, i) ==
    LET C == IF t[i] \in {"[", "[^"} THEN {k \in (i + 1)..Len(t) : t[k] = "]"}
             ELSE {k \in (i + 1)..Len(t) : t[k] = ")" /\ ~InClass(t, k)
                                           /\ Depth(t, k + 1) = Depth(t, i)}
    IN  IF C = {} THEN 0 ELSE CHOOSE k \in C : \A l \in C : k <= l

\* The braces at token i as a repetition: <<tokens, min, max>>, or <<0, 0, 0>>.
Number(t, i, j) == FoldLeft(LAMBDA n, d : 10 * n + Digit(d), 0, Slice(t, i, j))
Braces(t, i) ==
    LET IsNumber(a, b) == a <= b /\ \A k \in a..b : Digit(t[k]) >= 0
        Close == {k \in (i + 1)..Len(t) : t[k] = "}"}
        c == CHOOSE k \in Close : \A l \in Close : k <= l
        Comma == {k \in (i + 1)..(c - 1) : t[k] = ","}
        m == CHOOSE k \in Comma : TRUE
    IN  IF i > Len(t) \/ Close = {} THEN <<0, 0, 0>>
        ELSE IF t[i] # "{" THEN <<0, 0, 0>>
        ELSE IF Comma = {} /\ IsNumber(i + 1, c - 1)
        THEN <<c - i + 1, Number(t, i + 1, c - 1), Number(t, i + 1, c - 1)>>
        ELSE IF Cardinality(Comma) = 1 /\ IsNumber(i + 1, m - 1)
                /\ (m + 1 = c \/ IsNumber(m + 1, c - 1))
        THEN <<c - i + 1, Number(t, i + 1, m - 1),
               IF m + 1 = c THEN Infinity ELSE Number(t, m + 1, c - 1)>>
        ELSE <<0, 0, 0>>
\* The quantifier at token i: <<tokens, min, max>>.
Quantifier(t, i) ==
    IF i > Len(t) THEN <<0, 0, 0>>
    ELSE IF t[i] = "*" THEN <<1, 0, Infinity>>
    ELSE IF t[i] = "+" THEN <<1, 1, Infinity>>
    ELSE IF t[i] = "?" THEN <<1, 0, 1>>
    ELSE Braces(t, i)

Bad == [k |-> "bad"]
Empty == [k |-> "empty"]
Upto(c1, c2) == {x \in Alphabet : CodePoint[c1] <= CodePoint[x] /\ CodePoint[x] <= CodePoint[c2]}
Escape(t) == CASE t = "\\d" -> {"n0", "n1", "n2"}
               [] t = "\\D" -> Alphabet \ {"n0", "n1", "n2"}
               [] t = "\\w" -> {"n0", "n1", "n2", "A", "B", "Z", "a", "b", "c", "k", "z"}
ClassEscapes == {"\\d", "\\D", "\\w"}
AtomSet(t) == IF t \in ClassEscapes THEN Escape(t) ELSE {Plain(t)}

\* ClassRanges: the set of characters of the tokens between the brackets, or
\* {"bad"} for a range out of order.
RECURSIVE ClassRanges(_, _)
ClassRanges(t, u) ==
    LET more(n) == ClassRanges(Slice(t, n + 1, Len(t)), u)
        range == t[1] \notin ClassEscapes /\ t[3] \notin ClassEscapes
    IN  IF t = <<>> THEN {}
        ELSE IF Len(t) >= 3 /\ t[2] = "-"
        THEN IF range
             THEN IF CodePoint[Plain(t[1])] > CodePoint[Plain(t[3])] THEN {"bad"}
                  ELSE Upto(Plain(t[1]), Plain(t[3])) \union more(3)
             ELSE IF u THEN {"bad"}
             ELSE AtomSet(t[1]) \union {"minus"} \union AtomSet(t[3]) \union more(3)
        ELSE AtomSet(t[1]) \union more(1)

(***************************************************************************)
(* The tree of a pattern.  T is the whole pattern, i..j the span.          *)
(***************************************************************************)
RECURSIVE Disjunction(_, _, _, _)
RECURSIVE Alternative(_, _, _, _)

GroupNumber(T, i) == Cardinality({k \in 1..i : T[k] \in Captures /\ ~InClass(T, k)})
Groups(T) == GroupNumber(T, Len(T))
HasNames(T) == \E k \in 1..Len(T) : T[k] \in {"(?<n>", "(?<m>"} /\ ~InClass(T, k)
\* The number of the group of that name, 0 when there is none.
Named(T, name) ==
    LET K == {k \in 1..Len(T) : T[k] = NamedGroup[name] /\ ~InClass(T, k)}
    IN  IF K = {} THEN 0 ELSE GroupNumber(T, CHOOSE k \in K : TRUE)

\* The tree of the group that opens at i, a inside.
GroupAt(T, i, a) ==
    CASE T[i] \in Captures -> [k |-> "group", n |-> GroupNumber(T, i), a |-> a]
      [] T[i] = "(?:" -> a
      [] T[i] \in Lookarounds ->
            [k |-> "look", neg |-> T[i] \in {"(?!", "(?<!"}, back |-> T[i] \in {"(?<=", "(?<!"},
             a |-> a]

\* The atom or assertion that starts at i: its tree and its last token.
AtomAt(T, i, j, u) ==
    LET tk == T[i]
        cl == CloseOf(T, i)
        ref(n) == <<[k |-> "ref", n |-> n], i, TRUE>>
        name == IF tk = "\\k<n>" THEN "n" ELSE "m"
    IN  CASE tk \in {"^", "$", "\\b", "\\B"} -> <<[k |-> tk], i, FALSE>>
          [] tk = "." -> <<[k |-> "."], i, TRUE>>
          [] tk \in Openers -> <<GroupAt(T, i, IF cl = 0 \/ cl > j THEN Bad
                                              ELSE Disjunction(T, i + 1, cl - 1, u)), cl,
                                 tk \notin Lookarounds \/ (~u /\ tk \in {"(?=", "(?!"})>>
          [] tk \in {"[", "[^"} ->
                LET S == IF cl = 0 THEN {"bad"} ELSE ClassRanges(Slice(T, i + 1, cl - 1), u)
                IN  <<IF "bad" \in S THEN Bad
                      ELSE [k |-> "set", s |-> S, inv |-> tk = "[^"], cl, TRUE>>
          [] tk \in {"\\1", "\\2"} ->
                LET n == IF tk = "\\1" THEN 1 ELSE 2
                IN  IF n <= Groups(T) THEN ref(n)
                    ELSE <<IF u THEN Bad ELSE [k |-> "set", s |-> {Plain(tk)}, inv |-> FALSE],
                           i, TRUE>>
          [] tk \in {"\\k<n>", "\\k<m>"} ->
                IF Named(T, name) > 0 THEN ref(Named(T, name)) ELSE <<Bad, i, TRUE>>
          [] tk = "\\k" -> <<IF u \/ HasNames(T) THEN Bad
                             ELSE [k |-> "set", s |-> {"k"}, inv |-> FALSE], i, TRUE>>
          [] tk \in ClassEscapes -> <<[k |-> "set", s |-> Escape(tk), inv |-> FALSE], i, TRUE>>
          [] tk \in {"*", "+", "?", ")", "|"} -> <<Bad, i, TRUE>>
          [] tk = "{" -> <<IF u \/ Braces(T, i)[1] > 0 THEN Bad
                           ELSE [k |-> "set", s |-> {"lbrace"}, inv |-> FALSE], i, TRUE>>
          [] tk \in {"}", "]"} -> <<IF u THEN Bad
                                    ELSE [k |-> "set", s |-> {Plain(tk)}, inv |-> FALSE], i, TRUE>>
          [] OTHER -> <<[k |-> "set", s |-> {Plain(tk)}, inv |-> FALSE], i, TRUE>>

\* The term at i when its atom is at, <<tree, last token, may be repeated>>, and q its
\* quantifier.
TermWith(T, at, q, i, j, u) ==
    LET e == at[2] + 1
        lazy == q[1] > 0 /\ e + q[1] <= j /\ T[e + q[1]] = "?"
        lit == ~at[3] /\ Braces(T, e)[1] > 0
        open == u /\ at[3] /\ q[1] = 0 /\ e <= j /\ T[e] = "{"
    IN  IF at[1] = Bad \/ at[2] = 0 \/ lit \/ open \/ (q[1] > 0 /\ q[3] < q[2]) THEN Bad
        ELSE [k |-> "seq", b |-> Alternative(T, e + q[1] + (IF lazy THEN 1 ELSE 0), j, u),
              a |-> IF q[1] = 0 THEN at[1]
                    ELSE [k |-> "repeat", a |-> at[1], min |-> q[2], max |-> q[3],
                          greedy |-> ~lazy,
                          first |-> GroupNumber(T, i - 1) + 1, last |-> GroupNumber(T, at[2])]]

Term(T, at, i, j, u) ==
    TermWith(T, at, IF at[3] THEN Quantifier(T, at[2] + 1) ELSE <<0, 0, 0>>, i, j, u)

Alternative(T, i, j, u) == IF i > j THEN Empty ELSE Term(T, AtomAt(T, i, j, u), i, j, u)

\* The alternative a, and those after the bar at f, if there is one up to j.
OrRest(T, a, f, j, u) ==
    IF f > j THEN a ELSE [k |-> "or", a |-> a, b |-> Disjunction(T, f + 1, j, u)]

Bar(T, i, j) ==
    Min({j + 1} \cup {k \in i..j : T[k] = "|" /\ ~InClass(T, k) /\ Depth(T, k) = Depth(T, i)})

Disjunction(T, i, j, u) ==
    OrRest(T, Alternative(T, i, Bar(T, i, j) - 1, u), Bar(T, i, j), j, u)

RECURSIVE Valid(_)
Valid(t) == CASE t.k = "bad" -> FALSE
              [] t.k \in {"seq", "or"} -> Valid(t.a) /\ Valid(t.b)
              [] t.k \in {"group", "look", "repeat"} -> Valid(t.a)
              [] OTHER -> TRUE

\* The tree of a pattern, Bad for a SyntaxError.
Twice(T) ==
    \E k, l \in 1..Len(T) : /\ k # l /\ T[k] = T[l] /\ T[k] \in {"(?<n>", "(?<m>"}
                            /\ ~InClass(T, k) /\ ~InClass(T, l)
OrBad(t, T) == IF Valid(t) /\ ~Twice(T) THEN t ELSE Bad
Tree(re) == OrBad(Disjunction(re.toks, 1, Len(re.toks), "u" \in re.flags), re.toks)

(***************************************************************************)
(* The matcher: M returns every success of a tree from a state (index and  *)
(* captures), first choice first.  cx holds the subject as characters and  *)
(* the flags.                                                              *)
(***************************************************************************)
Lower == [A |-> "a", B |-> "b", Z |-> "z", E1 |-> "e1"]
Canonicalize(c, F) == IF "i" \in F /\ c \in DOMAIN Lower THEN Lower[c] ELSE c
IsWord(cx, e) == e >= 0 /\ e < Len(cx.in)
                 /\ cx.in[e + 1] \in Escape("\\w")
NewLine(cx, e) == e >= 0 /\ e < Len(cx.in) /\ cx.in[e + 1] = "nl"
Accepts(t, c, F) ==
    IF t.k = "." THEN "s" \in F \/ c # "nl"
    ELSE (\E d \in t.s : Canonicalize(d, F) = Canonicalize(c, F)) # t.inv

RECURSIVE M(_, _, _, _)
RECURSIVE Repeat(_, _, _, _, _, _)
MAll(t, xs, cx, back) == FlattenSeq([i \in 1..Len(xs) |-> M(t, xs[i], cx, back)])

M(t, x, cx, back) ==
    LET e == x.e
        one == IF back THEN e - 1 ELSE e + 1
        low == IF back THEN one ELSE e
        if(p) == IF p THEN <<x>> ELSE <<>>
    IN  CASE t.k = "empty" -> <<x>>
          [] t.k = "seq" -> IF back THEN MAll(t.a, M(t.b, x, cx, back), cx, back)
                            ELSE MAll(t.b, M(t.a, x, cx, back), cx, back)
          [] t.k = "or" -> M(t.a, x, cx, back) \o M(t.b, x, cx, back)
          [] t.k \in {"set", "."} ->
                IF one < 0 \/ one > Len(cx.in) THEN <<>>
                ELSE IF Accepts(t, cx.in[low + 1], cx.flags) THEN <<[x EXCEPT !.e = one]>> ELSE <<>>
          [] t.k = "^" -> if(e = 0 \/ ("m" \in cx.flags /\ NewLine(cx, e - 1)))
          [] t.k = "$" -> if(e = Len(cx.in) \/ ("m" \in cx.flags /\ NewLine(cx, e)))
          [] t.k = "\\b" -> if(IsWord(cx, e - 1) # IsWord(cx, e))
          [] t.k = "\\B" -> if(IsWord(cx, e - 1) = IsWord(cx, e))
          [] t.k = "group" ->
                LET ys == M(t.a, x, cx, back)
                IN  [i \in 1..Len(ys) |->
                        [ys[i] EXCEPT !.cap[t.n] = IF back THEN <<ys[i].e, e>> ELSE <<e, ys[i].e>>]]
          [] t.k = "look" ->
                LET ys == M(t.a, x, cx, t.back)
                IN  IF t.neg THEN if(ys = <<>>)
                    ELSE IF ys = <<>> THEN <<>> ELSE <<[x EXCEPT !.cap = ys[1].cap]>>
          [] t.k = "ref" ->
                LET p == x.cap[t.n]
                    len == p[2] - p[1]
                    to == IF back THEN e - len ELSE e + len
                    from == IF back THEN to ELSE e
                IN  IF p = Undefined THEN <<x>>
                    ELSE IF to < 0 \/ to > Len(cx.in) THEN <<>>
                    ELSE IF \A d \in 1..len : Canonicalize(cx.in[p[1] + d], cx.flags)
                                              = Canonicalize(cx.in[from + d], cx.flags)
                         THEN <<[x EXCEPT !.e = to]>> ELSE <<>>
          [] t.k = "repeat" -> Repeat(t, t.min, t.max, x, cx, back)

\* RepeatMatcher: the captures of the atom are reset before every iteration,
\* and an optional iteration that consumes nothing is refused.
Repeat(t, min, max, x, cx, back) ==
    LET fresh == [x EXCEPT !.cap = [n \in DOMAIN x.cap |->
                     IF n \in t.first..t.last THEN Undefined ELSE x.cap[n]]]
        ys == M(t.a, fresh, cx, back)
        kept == SelectSeq(ys, LAMBDA y : min > 0 \/ y.e # x.e)
        again == FlattenSeq([i \in 1..Len(kept) |->
                     Repeat(t, IF min = 0 THEN 0 ELSE min - 1,
                            IF max = Infinity THEN max ELSE max - 1, kept[i], cx, back)])
    IN  IF max = 0 THEN <<x>>
        ELSE IF min > 0 THEN again
        ELSE IF t.greedy THEN again \o <<x>> ELSE <<x>> \o again

\* The subject as code points, and the unit at which each of them starts.
RECURSIVE CodePoints(_)
CodePoints(s) == IF s = <<>> THEN <<>>
                 ELSE IF Len(s) >= 2 /\ s[1] = "H" /\ s[2] = "L"
                      THEN <<"HL">> \o CodePoints(Slice(s, 3, Len(s)))
                      ELSE <<s[1]>> \o CodePoints(Slice(s, 2, Len(s)))
UnitOf(cps, e) == e + Cardinality({k \in 1..e : cps[k] = "HL"})

\* The outcome of matching from the character index start: "error" for a bad
\* pattern, else whether it matches and the units of the match and of the groups.
NoCaptures(re) == [n \in 1..Groups(re.toks) |-> Undefined]
Chars(re, subject) == IF "u" \in re.flags THEN CodePoints(subject) ELSE subject

\* The indices a match may start at, from unit start on.
StartsAt(re, cps, start) ==
    {e \in 0..Len(cps) : IF "y" \in re.flags THEN UnitOf(cps, e) = start
                         ELSE /\ UnitOf(cps, e) >= start
                              /\ \E f \in 0..e : UnitOf(cps, f) = start}

\* The match y that starts at e, in units.
Found(re, cps, e, y) ==
    LET units(p) == IF p = Undefined \/ "u" \notin re.flags THEN p
                    ELSE <<UnitOf(cps, p[1]), UnitOf(cps, p[2])>>
    IN  [ret |-> "match", cap |-> <<units(<<e, y.e>>)>> \o [n \in DOMAIN y.cap |-> units(y.cap[n])]]

\* The first start with a success; tries gives the successes of every start.
FirstFound(re, cps, tries) ==
    LET hits == {e \in DOMAIN tries : tries[e] # <<>>}
    IN  IF hits = {} THEN [ret |-> "fail", cap |-> <<>>]
        ELSE Found(re, cps, Min(hits), tries[Min(hits)][1])

EsMatch(re, t, cps, start) ==
    IF t = Bad THEN [ret |-> "error", cap |-> <<>>]
    ELSE FirstFound(re, cps, [e \in StartsAt(re, cps, start) |->
             M(t, [e |-> e, cap |-> NoCaptures(re)], [in |-> cps, flags |-> re.flags], FALSE)])

EsExec(re, subject, start) == EsMatch(re, Tree(re), Chars(re, subject), start)
=============================================================================
