------------------------------ MODULE MCRegexp ------------------------------
(* Patterns for Regexp, by theme, and the subjects they run on.            *)
EXTENDS EsRegexp

P(toks, flags) == [toks |-> toks, flags |-> flags]
Words(S, n) == UNION {[1..k -> S] : k \in 0..n}

(***************************************************************************)
(* The patterns on which the code does what ECMAScript says.  Left out:    *)
(* a repetition of an atom with a group in one of its alternatives (the    *)
(* group is not reset between two iterations) and of an atom that can      *)
(* match nothing, unless nothing is its last choice and it has no group    *)
(* (an iteration that consumes nothing is accepted, or repeated for ever). *)
(***************************************************************************)
RECURSIVE HasGroup(_), CanBeEmpty(_), EmptyLast(_), GroupInChoice(_), Regular(_)
Inner(t) == IF t.k \in {"seq", "or"} THEN {t.a, t.b}
            ELSE IF t.k \in {"group", "look", "repeat"} THEN {t.a} ELSE {}
HasGroup(t) == t.k = "group" \/ \E x \in Inner(t) : HasGroup(x)
CanBeEmpty(t) == CASE t.k \in {"set", ".", "bad"} -> FALSE
                   [] t.k \in {"seq"} -> CanBeEmpty(t.a) /\ CanBeEmpty(t.b)
                   [] t.k = "or" -> CanBeEmpty(t.a) \/ CanBeEmpty(t.b)
                   [] t.k = "group" -> CanBeEmpty(t.a)
                   [] t.k = "repeat" -> t.min = 0 \/ CanBeEmpty(t.a)
                   [] OTHER -> TRUE
EmptyLast(t) == CASE t.k = "or" -> ~CanBeEmpty(t.a) /\ EmptyLast(t.b)
                  [] t.k = "seq" -> EmptyLast(t.a) /\ EmptyLast(t.b)
                  [] t.k = "repeat" -> t.greedy /\ EmptyLast(t.a)
                  [] OTHER -> TRUE
GroupInChoice(t) == (t.k = "or" /\ HasGroup(t)) \/ \E x \in Inner(t) : GroupInChoice(x)
Regular(t) == /\ \A x \in Inner(t) : Regular(x)
              /\ t.k = "repeat" /\ t.max > 0 =>
                     /\ ~GroupInChoice(t.a)
                     /\ CanBeEmpty(t.a) => t.greedy /\ EmptyLast(t.a) /\ ~HasGroup(t.a)
\* Two counts that no brace closes (out of order, they are refused all the same).
OpenBraces(t) == /\ \E i \in 1..(Len(t) - 1) : t[i] = "," /\ Digit(t[i + 1]) >= 0
                 /\ \A i \in 1..Len(t) : t[i] # "}"

Keep(S) == {p \in S : Regular(Tree(p)) /\ ~OpenBraces(p.toks)}

\* Every pattern of a few tokens of the grammar: what compiles, and how it matches.
Syntax == Words({"a", "(", ")", "|", "*", "?", "(?:"}, 4)
Counts == {<<"a", "{">> \o t : t \in Words({"1", ",", "2", "}", "?", "*"}, 4)}
          \union Words({"{", "1", "}", ","}, 3)
Classes == {<<o>> \o t : o \in {"[", "[^"}, t \in Words({"a", "-", "c", "]", "\\d"}, 4)}
Names == Words({"(?<n>", ")", "\\k<n>", "\\1", "\\k", "("}, 4)
HasName(t) == \A i \in DOMAIN t : t[i] = "\\k<n>" => \E j \in DOMAIN t : t[j] = "(?<n>"
SyntaxPatterns ==
    Keep({P(t, {}) : t \in Syntax \union Counts}
         \union {P(t, f) : t \in {<<"a", "{", "1">>, <<"{">>, <<"]">>, <<"a", "{", "1", "}">>,
                                  <<"\\1">>, <<"(?=", ")", "*">>, <<"(?<=", ")", "*">>,
                                  <<"a", "{", "a">>, <<"^", "*">>}, f \in {{}, {"u"}}}
         \union {P(t, {}) : t \in {n \in Names : HasName(n)} \union Classes})
SyntaxInputs == {<<"a", "a">>, <<"minus", "b">>}

\* Groups, back references, alternatives and nested repetitions.
GroupPatterns == {
    <<"(", "a", ")", "(", "b", ")", "?", "\\1">>,
    <<"(", "a", "|", "a", "b", ")", "(", "b", "|", ")", "a", "?">>,
    <<"(?:", "a", "|", "b", ")", "+", "?", "b">>,
    <<"(", "a", "*", ")", "(", "b", "*", ")", "\\1">>,
    <<"\\1", "(", "a", ")">>,
    <<"(", "a", ")", "\\1", "*", "b">>,
    <<"(?<n>", "a", ")", "\\k<n>">>,
    <<"(", "a", ")", "{", "2", "}", "?">>,
    <<"(", "a", "b", "?", ")", "{", "1", ",", "2", "}">>,
    <<"(", "a", "+", "?", ")", "b">>,
    <<"a", "{", "1", ",", "2", "}", "?", "b">>,
    <<"(?:", "(?:", "a", "{", "1", ",", "2", "}", "?", "b", "?", ")", "{", "1", ",", "2", "}", "b", ")", "*">>,
    <<"(?:", "a", "*", ")", "*", "b">>,
    <<"(?:", "a", "*", "b", ")", "*", "a">>,
    <<"(", "(", "a", ")", "*", "b", ")", "*">>,
    <<"(?:", "a", "*", "b", "*", ")", "{", "2", ",", "}", "a">>,
    <<"(?:", "a", "b", ")", "{", "0", ",", "2", "}", "b">>,
    <<"(", "a", ")", "{", "0", "}", "\\1", "b">>,
    <<"(?:", "a", "|", "b", ")", "{", "1", ",", "2", "}", "(", "a", ")">>,
    <<"(?:", "(", "a", ")", "b", "?", ")", "+", "?", "$">>,
    <<"(?:", "(?:", "a", "?", ")", "*", "b", ")", "+">>,
    <<"(?:", "a", "{", "2", "}", "|", "b", ")", "*", "?", "a", "$">>}

\* Lookahead and lookbehind, with groups and repetitions inside.
LookPatterns == {
    <<"(?=", "(", "a", ")", ")", "\\1", "b">>,
    <<"(?!", "a", ")", "b">>,
    <<"(?=", "a", "*", "b", ")", "a">>,
    <<"(?:", "(?=", "a", ")", "a", ")", "*", "b">>,
    <<"(?!", "(", "a", ")", "b", ")", "\\1", "a">>,
    <<"(?<=", "a", ")", "b">>,
    <<"(?<!", "a", ")", "b">>,
    <<"(?<=", "(", "a", ")", "(", "b", ")", ")", "$">>,
    <<"(?<=", "\\1", "(", "a", ")", ")", "b">>,
    <<"(?<=", "(", "a", ")", "\\1", ")", "b">>,
    <<"(?<=", "a", "{", "1", ",", "2", "}", "?", ")", "b">>,
    <<"(?<=", "(", "a", "*", ")", "(", "b", ")", ")">>,
    <<"(?<=", "^", "a", ")", "b">>,
    <<"(?<=", "(?:", "a", "|", "b", ")", "*", ")", "$">>,
    <<"(?=", "a", ")", "?", "b">>,
    <<"(?<=", "(?<n>", "a", ")", "\\k<n>", ")", "b">>,
    <<"(?<=", "\\k<n>", "(?<n>", "a", ")", "b", "*", ")">>,
    <<"(?=", "(", "a", "*", ")", ")", "a", "*", "b", "\\1">>,
    <<"(?!", "(?!", "a", ")", ")", "b", "?", "a">>,
    <<"(?<=", "(?=", "(", "b", ")", ")", "b", ")", "a", "?">>}
MatchPatterns == {P(t, {}) : t \in GroupPatterns \union LookPatterns}
MatchInputs == Words({"a", "b"}, 3)

\* Flags: case, line ends, the dot, sticky, surrogate pairs.
FlagPatterns == {
    P(<<"a", "[", "a", "-", "b", "]">>, {"i"}),
    P(<<"[^", "a", "]", "+", "b">>, {"i"}),
    P(<<"(", "a", ")", "\\1">>, {"i"}),
    P(<<"a", "|", "b">>, {"y"}),
    P(<<"^", "b", "*", "$">>, {"m"}),
    P(<<"a", ".", "b">>, {"s"}),
    P(<<"a", ".", "b">>, {}),
    P(<<".", "+", "?", "$">>, {"m"}),
    P(<<"\\b", "a", "\\B">>, {}),
    P(<<"\\B", "b", "\\b">>, {}),
    P(<<"\\w", "+">>, {"i", "u"}),
    P(<<"^", ".", "$">>, {"u"}),
    P(<<".", ".">>, {}),
    P(<<".", "*", "?", "L">>, {"u"}),
    P(<<"(", ".", ")", "\\1">>, {"u"}),
    P(<<"(?<=", "(", ".", ")", ")", "b">>, {"u"}),
    P(<<"[", "H", "L", "]">>, {"u"}),
    P(<<"[", "H", "L", "]">>, {}),
    P(<<".", "{", "2", "}">>, {"u", "s"}),
    P(<<"e1">>, {"i"}),
    P(<<"[^", "b", "]", "*", "$">>, {"u"})}
FlagInputs == Words({"a", "A", "b"}, 2)
              \union {<<"b", "nl", "b">>, <<"a", "nl", "b">>, <<"H", "L">>, <<"H", "L", "b">>,
                      <<"H", "L", "H", "L">>, <<"L", "H", "b">>, <<"E1">>, <<"e1", "a">>}

\* Repetitions of atoms that can match nothing, whatever they capture.
EmptyAtoms == {<<"(", "a", "?", ")">>, <<"(", "a", "|", ")">>, <<"(?:", "a", "?", "?", ")">>,
               <<"(", "|", "a", ")">>, <<"(?=", "a", ")">>, <<"(?:", "a", "*", "b", "*", ")">>,
               <<"(", "(", "a", "?", ")", "b", "?", ")">>, <<"(?:", "(?!", "b", ")", ")">>,
               <<"(?:", "(", "a", "*", ")", "*", ")">>, <<"(?:", "(", "a", "?", ")", "\\1", ")">>}
Repetitions == {<<"*">>, <<"+">>, <<"{", "2", ",", "}">>, <<"{", "1", ",", "2", "}">>}
EmptyPatterns == {P(a \o q \o lazy \o <<"b">>, {}) : a \in EmptyAtoms, q \in Repetitions, lazy \in {<<>>, <<"?">>}}

\* A lazy repetition without end of something that can match nothing is in the pattern.
RECURSIVE LazyOnEmpty(_)
LazyOnEmpty(t) == \/ t.k = "repeat" /\ t.max = Infinity /\ ~t.greedy /\ CanBeEmpty(t.a)
                  \/ \E x \in Inner(t) : LazyOnEmpty(x)

Case(patterns, inputs, starts) == [patterns |-> patterns, inputs |-> inputs, starts |-> starts]
SomeCases == {Case(SyntaxPatterns, SyntaxInputs, {0}), Case(MatchPatterns, MatchInputs, {0, 1}),
              Case(FlagPatterns, FlagInputs, {0}), Case(EmptyPatterns, MatchInputs, {0})}
=============================================================================
