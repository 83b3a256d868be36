----------------------------- MODULE Statements -----------------------------
(***************************************************************************)
(* Statements of quickjs/quickjs.c, from source to result: the code the    *)
(* parser emits for loops, switch, try, break, continue and return         *)
(* (js_parse_statement_or_decl, emit_break, emit_return), the stack depth  *)
(* compute_stack_size finds for it, and what JS_CallInternal does with it. *)
(*                                                                         *)
(* A statement is a record with a field t.  Expressions are calls: each is *)
(* logged and returns or throws as the environment decides; so do tests,   *)
(* iterators and their return method.  oracle keeps the decisions in order *)
(* so that the meaning of the program can be worked out from them again.   *)
(* Variables, scopes and the peephole passes over the code are left out.   *)
(***************************************************************************)
EXTENDS Integers, Sequences, SequencesExt, FiniteSetsExt

CONSTANTS
    Programs,       \* the function bodies that are run
    MaxDecisions,   \* bound: after this many decisions loops end and nothing throws
    MaxThrows       \* bound: decisions to throw

VARIABLES
    prog,           \* the function body
    code,           \* its code
    stack_size,     \* the stack it is given
    pc, stack,      \* the interpreter's; the top is last
    exc,            \* the exception that unwinds the stack, or None
    oracle, log,    \* the decisions and the calls so far
    result          \* how the function ended

vars == <<prog, code, stack_size, pc, stack, exc, oracle, log, result>>

Ins(op) == [op |-> op]
To(op, l) == [op |-> op, l |-> l]
Call(id) == [op |-> "call", id |-> id]
Test(id) == [op |-> "test", id |-> id]
Drop == Ins("drop")
NoName == ""        \* JS_ATOM_NULL
NoLabel == <<>>     \* -1

-----------------------------------------------------------------------------
(* The parser: the code of a statement, given its place in the program,    *)
(* from which new_label makes names, and the break entries around it, the  *)
(* innermost first (top_break).                                            *)
BreakEntry(name, brk, cont, drop_count) ==
    [label_name |-> name, label_break |-> brk, label_cont |-> cont,
     drop_count |-> drop_count, label_finally |-> NoLabel, has_iterator |-> FALSE]

js_is_live_code(ins) ==
    ins = <<>> \/ Last(ins).op \notin {"return", "return_undef", "throw", "goto", "ret"}

Repeat(n, ins) == [i \in 1..n |-> ins]

\* Mutant: continue leaves what switch and for-in keep on the stack.
Leave_keep(e) ==
    (IF e.has_iterator THEN <<Ins("iterator_close")>> ELSE <<>>)
    \o (IF e.label_finally = NoLabel THEN <<>>
        ELSE <<Ins("undefined"), To("gosub", e.label_finally), Drop>>)

(* What emit_break emits for an entry it leaves.                           *)
Leave(e) ==
    (IF e.has_iterator THEN <<Ins("iterator_close")>> ELSE <<>>)
    \o Repeat(IF e.has_iterator THEN e.drop_count - 3 ELSE e.drop_count, Drop)
    \o (IF e.label_finally = NoLabel THEN <<>>
        ELSE <<Ins("undefined"), To("gosub", e.label_finally), Drop>>)

(* The entry a break or a continue leads to: any that has such a label, or *)
(* the one with the name.                                                  *)
IsTarget(e, name, is_cont) ==
    /\ (IF is_cont THEN e.label_cont ELSE e.label_break) # NoLabel
    /\ name = NoName \/ e.label_name = name

emit_break(top, name, is_cont) ==
    LET j == SelectInSeq(top, LAMBDA e : IsTarget(e, name, is_cont))
    IN  IF j = 0 THEN <<Ins("error")>>
        ELSE FlattenSeq([i \in 1..(j - 1) |-> Leave(top[i])])
             \o <<To("goto", IF is_cont THEN top[j].label_cont ELSE top[j].label_break)>>

(* iterator_close_return takes off by itself what lies above the iterator. *)
DropCount(drop_count, e) == (IF e.has_iterator THEN -3 ELSE drop_count) + e.drop_count

(* What emit_return emits for an entry it leaves.                          *)
ReturnThrough(acc, e) ==
    LET hasval == acc.hasval \/ e.has_iterator
        count == DropCount(acc.drop_count, e)
        closed == IF ~e.has_iterator THEN acc.ins
                  ELSE acc.ins \o (IF acc.hasval THEN <<>> ELSE <<Ins("undefined")>>)
                       \o <<Ins("iterator_close_return"), Ins("iterator_close")>>
    IN  IF e.label_finally = NoLabel THEN [ins |-> closed, hasval |-> hasval, drop_count |-> count]
        ELSE [ins |-> closed \o (IF hasval THEN Repeat(count, Ins("nip"))
                                 ELSE Append(Repeat(count, Drop), Ins("undefined")))
                      \o <<To("gosub", e.label_finally)>>,
              hasval |-> TRUE, drop_count |-> 0]

emit_return(top, hasval) ==
    LET all == FoldLeft(ReturnThrough, [ins |-> <<>>, hasval |-> hasval, drop_count |-> 0], top)
    IN  all.ins \o <<Ins(IF all.hasval THEN "return" ELSE "return_undef")>>

RECURSIVE js_parse_statement_or_decl(_, _, _, _)

js_parse_block(list, at, top) ==
    FlattenSeq([i \in 1..Len(list) |-> js_parse_statement_or_decl(list[i], Append(at, i), top, NoName)])

js_parse_for_in_of(st, at, top, name) ==
    LET l(x) == Append(at, x)
        of == st.t = "for_of"
        e == [BreakEntry(name, l("break"), l("cont"), IF of THEN 3 ELSE 1) EXCEPT !.has_iterator = of]
    IN  <<Call(st.id), Ins(IF of THEN "for_of_start" ELSE "for_in_start"), To("goto", l("cont")),
          To("label", l("next")), Drop, To("goto", l("body")), To("label", l("body"))>>
        \o js_parse_block(st.body, at, <<e>> \o top)
        \o <<To("label", l("cont")), Ins(IF of THEN "for_of_next" ELSE "for_in_next"), To("if_false", l("next")),
             Drop, To("label", l("break")), Ins(IF of THEN "iterator_close" ELSE "drop")>>

js_parse_try(st, at, top) ==
    LET l(x) == Append(at, x)
        entry == [BreakEntry(NoName, NoLabel, NoLabel, 1) EXCEPT !.label_finally = l("finally")]
        block(list, x) ==
            LET ins == js_parse_block(list, l(x), <<entry>> \o top)
            IN  ins \o IF js_is_live_code(ins)
                       THEN <<Drop, Ins("undefined"), To("gosub", l("finally")), Drop, To("goto", l("end"))>>
                       ELSE <<>>
        rethrow(x) == <<To("label", l(x)), To("gosub", l("finally")), Ins("throw")>>
    IN  <<To("catch", l("catch"))>> \o block(st.body, "try")
        \o (IF st.catch = <<>> THEN rethrow("catch")
            ELSE <<To("label", l("catch")), Drop, To("catch", l("catch2"))>> \o block(st.catch, "c") \o rethrow("catch2"))
        \o <<To("label", l("finally"))>>
        \o js_parse_block(st.finally, l("f"), <<BreakEntry(NoName, NoLabel, NoLabel, 2)>> \o top)
        \o <<Ins("ret"), To("label", l("end"))>>

(* switch with a case, the default and a last case, each with a body.      *)
js_parse_switch(st, at, top) ==
    LET l(x) == Append(at, x)
        body(list, x) == js_parse_block(list, l(x), <<BreakEntry(NoName, l("break"), NoLabel, 1)>> \o top)
    IN  <<Call(st.id), Ins("dup"), Ins("strict_eq"), To("if_false", l("case2"))>> \o body(st.case1, 1)
        \o <<To("label", l("default"))>> \o body(st.default, 2)
        \o <<To("goto", l("skip")), To("label", l("case2")), Ins("dup"), Ins("strict_eq"),
             To("if_false", l("default")), To("label", l("skip"))>> \o body(st.case2, 3)
        \o <<To("label", l("break")), Drop>>

js_parse_if(st, at, top) ==
    LET l(x) == Append(at, x)
    IN  <<Test(st.id), To("if_false", l("else"))>> \o js_parse_block(st.body, at, top)
        \o <<To("goto", l("end")), To("label", l("else"))>>
        \o js_parse_block(st.else, l("e"), top) \o <<To("label", l("end"))>>

(* while, do and for; the code for the increment is moved to the end.      *)
js_parse_loop(st, at, top, name) ==
    LET l(x) == Append(at, x)
        body == js_parse_block(st.body, at, <<BreakEntry(name, l("break"), l("cont"), 0)>> \o top)
        break == To("label", l("break"))
        cont == To("label", l("cont"))
    IN  CASE st.t = "while" ->
               <<cont, Test(st.id), To("if_false", l("break"))>> \o body \o <<To("goto", l("cont")), break>>
          [] st.t = "do" ->
               <<To("label", l("do"))>> \o body \o <<cont, Test(st.id), To("if_true", l("do")), break>>
          [] st.t = "for" ->
               <<To("label", l("test")), Test(st.id), To("if_false", l("break"))>> \o body
               \o <<cont, Call(st.inc), Drop, To("goto", l("test")), break>>

(* A label on a loop is the loop's; any other labelled statement gets a    *)
(* break entry of its own.                                                 *)
js_parse_label(st, at, top) ==
    LET end == Append(at, "break")
    IN  IF st.body.t \in {"while", "do", "for", "for_of", "for_in"}
        THEN js_parse_statement_or_decl(st.body, at, top, st.name)
        ELSE js_parse_statement_or_decl(st.body, Append(at, "in"),
                 <<BreakEntry(st.name, end, NoLabel, 0)>> \o top, NoName) \o <<To("label", end)>>

js_parse_statement_or_decl(st, at, top, name) ==
    CASE st.t = "label" -> js_parse_label(st, at, top)
      [] st.t = "block" -> js_parse_block(st.body, at, top)
      [] st.t = "expr" -> <<Call(st.id), Drop>>
      [] st.t = "return" -> (IF st.hasval THEN <<Call(st.id)>> ELSE <<>>) \o emit_return(top, st.hasval)
      [] st.t = "throw" -> <<Call(st.id), Ins("throw")>>
      [] st.t = "if" -> js_parse_if(st, at, top)
      [] st.t \in {"while", "do", "for"} -> js_parse_loop(st, at, top, name)
      [] st.t \in {"for_of", "for_in"} -> js_parse_for_in_of(st, at, top, name)
      [] st.t = "switch" -> js_parse_switch(st, at, top)
      [] st.t = "try" -> js_parse_try(st, at, top)
      [] st.t \in {"break", "continue"} -> emit_break(top, st.name, st.t = "continue")

(* A label becomes the position of its label instruction.                  *)
resolve_labels(ins) ==
    [p \in 1..Len(ins) |->
        IF "l" \in DOMAIN ins[p]
        THEN [ins[p] EXCEPT !.l = SelectInSeq(ins, LAMBDA i : i.op = "label" /\ i.l = ins[p].l)]
        ELSE ins[p]]

(* A function body ends with a return if its end can be reached.           *)
Compiled(body) ==
    LET ins == js_parse_block(body, <<>>, <<>>)
    IN  resolve_labels(IF js_is_live_code(ins) THEN Append(ins, Ins("return_undef")) ELSE ins)

-----------------------------------------------------------------------------
(* quickjs-opcode.h: what an operation pops and pushes.  A call stands for *)
(* an expression; strict_eq for a comparison with a case's value.          *)
Effect(op) ==
    CASE op \in {"drop", "throw", "return", "ret", "if_false", "if_true"} -> <<1, 0>>
      [] op \in {"undefined", "call", "test", "catch"} -> <<0, 1>>
      [] op \in {"goto", "gosub", "label", "return_undef"} -> <<0, 0>>
      [] op = "nip" -> <<2, 1>>
      [] op = "dup" -> <<1, 2>>
      [] op \in {"strict_eq", "for_in_start"} -> <<1, 1>>
      [] op \in {"for_of_start", "for_in_next"} -> <<1, 3>>
      [] op = "for_of_next" -> <<3, 5>>
      [] op = "iterator_close" -> <<3, 0>>
      [] op = "iterator_close_return" -> <<4, 4>>

(* Where control may go from position p, and with how much on the stack.   *)
Successors(cd, p, len) ==
    LET op == cd[p].op
        after == len - Effect(op)[1] + Effect(op)[2]
    IN  (IF op \in {"return", "return_undef", "throw", "ret", "goto"} THEN {} ELSE {<<p + 1, after>>})
        \cup (IF op \in {"goto", "if_false", "if_true", "catch"} THEN {<<cd[p].l, after>>} ELSE {})
        \cup (IF op = "gosub" THEN {<<cd[p].l, after + 1>>} ELSE {})

(* The stack levels of the positions that can be reached; two levels for   *)
(* one position ("unconsistent stack size"), or a level under what the     *)
(* operation pops, and the function is refused.                            *)
compute_stack_size(cd) ==
    LET reach[n \in 0..Len(cd)] ==
            IF n = 0 THEN {<<1, 0>>}
            ELSE UNION {{w} \cup Successors(cd, w[1], w[2]) : w \in reach[n - 1]}
        levels == reach[Len(cd)]
    IN  [ok |-> /\ \A w, x \in levels : w[1] = x[1] => w = x
                /\ \A w \in levels : w[2] >= Effect(cd[w[1]].op)[1],
         size |-> Max({w[2] : w \in levels})]

-----------------------------------------------------------------------------
(* JS_CallInternal.                                                        *)
Value(v) == [k |-> "value", v |-> v]
Undefined == Value(<<"undefined">>)
Bool(b) == [k |-> "bool", v |-> b]
Iter(id) == [k |-> "iter", v |-> id]
CatchOffset(p) == [k |-> "catch", v |-> p]      \* 0 for an enumerator
ReturnPc(p) == [k |-> "pc", v |-> p]

Running == [c |-> "running"]
Refused == [c |-> "refused"]
Returned(v) == [c |-> "return", v |-> v]
Thrown(v) == [c |-> "throw", v |-> v]

(* What the environment may decide at a call, a test, the next or the      *)
(* return method of an iterator.                                           *)
MayDecide(what) ==
    LET usual == CASE what = "call" -> {"ok"} [] what = "test" -> {"true", "false"}
                   [] what = "next" -> {"value", "done"} [] what = "close" -> {"ok"}
        throws == Len(SelectSeq(oracle, LAMBDA d : d = "throw"))
    IN  IF Len(oracle) >= MaxDecisions THEN usual \ {"true", "value"}
        ELSE IF what # "test" /\ throws < MaxThrows THEN usual \cup {"throw"} ELSE usual

Decide(what, id, d) ==
    /\ d \in MayDecide(what)
    /\ oracle' = Append(oracle, d)
    /\ log' = Append(log, <<what, id>>)

Init ==
    /\ prog \in Programs
    /\ code = Compiled(prog)
    /\ \E size \in {IF \E i \in DOMAIN code : code[i].op = "error" THEN [ok |-> FALSE, size |-> 0]
                    ELSE compute_stack_size(code)} :
          /\ stack_size = size.size
          /\ result = IF size.ok THEN Running ELSE Refused
    /\ pc = 1 /\ stack = <<>> /\ exc = Undefined /\ oracle = <<>> /\ log = <<>>

Unwinding == exc # Undefined

(* An opcode that neither asks nor throws: the new stack and position.     *)
Goes(st, p) ==
    /\ stack' = st /\ pc' = p
    /\ UNCHANGED <<prog, code, stack_size, exc, oracle, log, result>>

At(op) == result = Running /\ ~Unwinding /\ code[pc].op = op
Target == code[pc].l
Sp(i) == stack[Len(stack) + 1 - i]          \* sp[-i]
Popped(n) == SubSeq(stack, 1, Len(stack) - n)

op_drop == At("drop") /\ Goes(Popped(1), pc + 1)
op_nip == At("nip") /\ Goes(Append(Popped(2), Sp(1)), pc + 1)
op_dup == At("dup") /\ Goes(Append(stack, Sp(1)), pc + 1)
op_undefined == At("undefined") /\ Goes(Append(stack, Undefined), pc + 1)
op_label == At("label") /\ Goes(stack, pc + 1)
op_goto == At("goto") /\ Goes(stack, Target)
op_if(op, taken) == At(op) /\ Goes(Popped(1), IF Sp(1) = Bool(taken) THEN Target ELSE pc + 1)
op_catch == At("catch") /\ Goes(Append(stack, CatchOffset(Target)), pc + 1)
op_gosub == At("gosub") /\ Goes(Append(stack, ReturnPc(pc + 1)), Target)

op_ret ==
    At("ret") /\ IF Sp(1).k = "pc" THEN Goes(Popped(1), Sp(1).v)
                 ELSE /\ exc' = Value(<<"invalid ret value">>)
                      /\ UNCHANGED <<prog, code, stack_size, pc, stack, oracle, log, result>>

op_throw ==
    /\ At("throw") /\ exc' = Sp(1) /\ stack' = Popped(1)
    /\ UNCHANGED <<prog, code, stack_size, pc, oracle, log, result>>

op_return ==
    /\ At("return") \/ At("return_undef")
    /\ result' = Returned(IF At("return") THEN Sp(1) ELSE Undefined)
    /\ UNCHANGED <<prog, code, stack_size, pc, stack, exc, oracle, log>>

op_for_of_start ==
    At("for_of_start") /\ Goes(Popped(1) \o <<Iter(Sp(1).v[2]), Value(<<"next">>), CatchOffset(0)>>, pc + 1)
op_for_in_start == At("for_in_start") /\ Goes(Append(Popped(1), Iter(Sp(1).v[2])), pc + 1)

(* iterator_close_return takes everything above the iterator off.          *)
AboveIterator == Max({i \in 0..(Len(stack) - 1) : i = 0 \/ stack[i].k = "catch"})

op_iterator_close_return ==
    /\ At("iterator_close_return")
    /\ LET n == AboveIterator
       IN  IF n >= 3 THEN Goes(SubSeq(stack, 1, n - 3) \o <<Sp(1)>> \o SubSeq(stack, n - 2, n), pc + 1)
           ELSE /\ exc' = Value(<<"iterator_close_return">>) /\ stack' = SubSeq(stack, 1, n)
                /\ UNCHANGED <<prog, code, stack_size, pc, oracle, log, result>>

(* An expression, whose value is made of its place, or a test.             *)
op_call(d) ==
    /\ At("call") \/ At("test")
    /\ LET id == code[pc].id
       IN  /\ Decide(code[pc].op, id, d)
           /\ IF d = "throw" THEN exc' = Value(<<"error", id>>) /\ UNCHANGED <<stack, pc>>
              ELSE /\ stack' = Append(stack, IF At("call") THEN Value(<<"value", id>>) ELSE Bool(d = "true"))
                   /\ pc' = pc + 1 /\ UNCHANGED exc
    /\ UNCHANGED <<prog, code, stack_size, result>>

(* The comparison of switch's value with the one of a case.                *)
op_strict_eq(d) ==
    /\ At("strict_eq") /\ Decide("test", Sp(1).v[2], d)
    /\ stack' = Append(Popped(1), Bool(d = "true")) /\ pc' = pc + 1
    /\ UNCHANGED <<prog, code, stack_size, exc, result>>

(* js_for_of_next: an iterator that is done, or failed, is forgotten.      *)
op_for_of_next(d) ==
    /\ At("for_of_next") /\ Decide("next", Sp(3).v, d)
    /\ LET kept == IF d = "value" THEN stack ELSE [stack EXCEPT ![Len(stack) - 2] = Undefined]
       IN  IF d = "throw" THEN /\ exc' = Value(<<"error", Sp(3).v>>) /\ stack' = kept /\ UNCHANGED pc
           ELSE /\ stack' = kept \o <<Value(<<"item">>), Bool(d = "done")>> /\ pc' = pc + 1 /\ UNCHANGED exc
    /\ UNCHANGED <<prog, code, stack_size, result>>

op_for_in_next(d) ==
    /\ At("for_in_next") /\ d # "throw" /\ Decide("next", Sp(1).v, d)
    /\ stack' = stack \o <<Value(<<"item">>), Bool(d = "done")>> /\ pc' = pc + 1
    /\ UNCHANGED <<prog, code, stack_size, exc, result>>

(* The iterator_close opcode: the catch offset goes first, so that an      *)
(* exception of the return method is not taken for one of the loop.        *)
op_iterator_close(d) ==
    /\ At("iterator_close")
    /\ IF Sp(3) = Undefined THEN d = "ok" /\ Goes(Popped(3), pc + 1)
       ELSE /\ Decide("close", Sp(3).v, d)
            /\ IF d = "throw" THEN exc' = Value(<<"error", Sp(3).v>>) /\ stack' = Popped(2) /\ UNCHANGED pc
               ELSE stack' = Popped(3) /\ pc' = pc + 1 /\ UNCHANGED exc
            /\ UNCHANGED <<prog, code, stack_size, result>>

\* Mutant: an iterator that failed is closed too.
ClosedOnThrow_always(v) == TRUE

(* JS_IteratorClose with an exception pending finds no return method in    *)
(* undefined.                                                              *)
ClosedOnThrow(v) == v # Undefined

(* The exception label: values go off the stack up to a catch offset, an   *)
(* enumerator is closed on the way and what its return method does is      *)
(* forgotten.                                                              *)
Unwind(d) ==
    /\ result = Running /\ Unwinding
    /\ IF stack = <<>>
       THEN /\ d = "ok" /\ result' = Thrown(exc) /\ UNCHANGED <<stack, pc, exc, oracle, log>>
       ELSE IF Sp(1).k = "catch" /\ Sp(1).v = 0
       THEN /\ stack' = Popped(2) /\ UNCHANGED <<pc, exc, result>>
            /\ IF ClosedOnThrow(Sp(3)) THEN Decide("close", Sp(3).v, d) ELSE d = "ok" /\ UNCHANGED <<oracle, log>>
       ELSE /\ d = "ok" /\ UNCHANGED <<oracle, log, result>>
            /\ IF Sp(1).k = "catch"
               THEN stack' = Append(Popped(1), exc) /\ pc' = Sp(1).v /\ exc' = Undefined
               ELSE stack' = Popped(1) /\ UNCHANGED <<pc, exc>>
    /\ UNCHANGED <<prog, code, stack_size>>

Decisions == {"ok", "true", "false", "value", "done", "throw"}

Next ==
    \/ op_drop \/ op_nip \/ op_dup \/ op_undefined \/ op_label \/ op_goto
    \/ op_if("if_false", FALSE) \/ op_if("if_true", TRUE)
    \/ op_catch \/ op_gosub \/ op_ret \/ op_throw \/ op_return
    \/ op_for_of_start \/ op_for_in_start \/ op_iterator_close_return
    \/ \E d \in Decisions : \/ op_call(d) \/ op_strict_eq(d) \/ op_for_of_next(d) \/ op_for_in_next(d)
                            \/ op_iterator_close(d) \/ Unwind(d)

Spec == Init /\ [][Next]_vars

-----------------------------------------------------------------------------
(* The meaning of a program, from the language's rules: a completion       *)
(* [c, v, name], the decisions o that are left and the calls made.         *)
Normal == [c |-> "normal", v |-> Undefined, name |-> NoName]
Abrupt(c, v, name) == [c |-> c, v |-> v, name |-> name]
Asked(s, what, id) ==
    [d |-> IF s.o = <<>> THEN "none" ELSE Head(s.o),
     s |-> [o |-> IF s.o = <<>> THEN <<>> ELSE Tail(s.o), log |-> Append(s.log, <<what, id>>)]]
Ends(c, s) == [c |-> c, s |-> s]
Error(id) == Abrupt("throw", Value(<<"error", id>>), NoName)

RECURSIVE Run(_, _, _), Loop(_, _, _, _)

RunAll(list, s) ==
    FoldLeft(LAMBDA r, st : IF r.c = Normal THEN Run(st, r.s, NoName) ELSE r, Ends(Normal, s), list)

(* An expression and then Do(state) if it does not throw.                  *)
After(id, s, Do(_)) ==
    LET a == Asked(s, "call", id) IN IF a.d = "throw" THEN Ends(Error(id), a.s) ELSE Do(a.s)

Continues(c, name) == c = Normal \/ (c.c = "continue" /\ c.name \in {NoName, name})
Breaks(c, name) == c.c = "break" /\ c.name \in {NoName, name}

(* One turn of a loop; first is FALSE when the body comes before the test. *)
Loop(st, s, name, first) ==
    LET of == st.t \in {"for_of", "for_in"}
        a == Asked(s, IF of THEN "next" ELSE "test", st.id)
        b == RunAll(st.body, IF first THEN a.s ELSE s)
        again(t) == IF st.t = "for" THEN After(st.inc, t, LAMBDA u : Loop(st, u, name, TRUE))
                    ELSE Loop(st, t, name, TRUE)
        z == Asked(b.s, "close", st.id)
        out == IF Breaks(b.c, name) THEN Normal ELSE b.c
    IN  IF first /\ a.d = "throw" THEN Ends(Error(st.id), a.s)
        ELSE IF first /\ a.d \notin {"true", "value"} THEN Ends(Normal, a.s)
        ELSE IF Continues(b.c, name) THEN again(b.s)
        ELSE IF st.t # "for_of" THEN Ends(out, b.s)
        ELSE IF z.d = "throw" /\ b.c.c # "throw" THEN Ends(Error(st.id), z.s)
        ELSE Ends(out, z.s)

Run(st, s, name) ==
    CASE st.t = "label" ->
           LET r == Run(st.body, s, st.name)
           IN  IF r.c.c = "break" /\ r.c.name = st.name THEN Ends(Normal, r.s) ELSE r
      [] st.t = "block" -> RunAll(st.body, s)
      [] st.t = "expr" -> After(st.id, s, LAMBDA t : Ends(Normal, t))
      [] st.t = "return" ->
           IF st.hasval THEN After(st.id, s, LAMBDA t : Ends(Abrupt("return", Value(<<"value", st.id>>), NoName), t))
           ELSE Ends(Abrupt("return", Undefined, NoName), s)
      [] st.t = "throw" -> After(st.id, s, LAMBDA t : Ends(Abrupt("throw", Value(<<"value", st.id>>), NoName), t))
      [] st.t \in {"break", "continue"} -> Ends(Abrupt(st.t, Undefined, st.name), s)
      [] st.t = "if" -> LET a == Asked(s, "test", st.id)
                        IN  RunAll(IF a.d = "true" THEN st.body ELSE st.else, a.s)
      [] st.t \in {"while", "for"} -> Loop(st, s, name, TRUE)
      [] st.t = "do" -> Loop(st, s, name, FALSE)
      [] st.t \in {"for_of", "for_in"} -> After(st.id, s, LAMBDA t : Loop(st, t, name, TRUE))
      [] st.t = "switch" ->
           After(st.id, s, LAMBDA t :
               LET a == Asked(t, "test", st.id)
                   b == Asked(a.s, "test", st.id)
                   r == IF a.d = "true" THEN RunAll(st.case1 \o st.default \o st.case2, a.s)
                        ELSE RunAll((IF b.d = "true" THEN <<>> ELSE st.default) \o st.case2, b.s)
               IN  IF Breaks(r.c, NoName) THEN Ends(Normal, r.s) ELSE r)
      [] st.t = "try" ->
           LET b == RunAll(st.body, s)
               c == IF b.c.c = "throw" /\ st.catch # <<>> THEN RunAll(st.catch, b.s) ELSE b
               f == RunAll(st.finally, c.s)
           IN  IF f.c = Normal THEN Ends(c.c, f.s) ELSE f

Meaning == RunAll(prog, [o |-> oracle, log |-> <<>>])

(* Early errors: a break or a continue without anything to lead to.  loops *)
(* and labels are the names of the loops and the statements around.        *)
RECURSIVE Legal(_, _, _, _, _)
Legal(st, name, loops, labels, breakable) ==
    LET all(list, l, b) == \A i \in DOMAIN list : Legal(list[i], NoName, l, labels, b)
        parts == IF st.t = "switch" THEN st.case1 \o st.default \o st.case2
                 ELSE IF st.t = "try" THEN st.body \o st.catch \o st.finally
                 ELSE IF st.t = "if" THEN st.body \o st.else ELSE st.body
    IN  CASE st.t = "label" -> Legal(st.body, st.name, loops, labels \cup {st.name}, breakable)
          [] st.t = "break" -> IF st.name = NoName THEN breakable ELSE st.name \in labels
          [] st.t = "continue" -> IF st.name = NoName THEN loops # {} ELSE st.name \in loops
          [] st.t \in {"while", "do", "for", "for_of", "for_in"} -> all(st.body, loops \cup {name}, TRUE)
          [] st.t = "switch" -> all(parts, loops, TRUE)
          [] st.t \in {"block", "try", "if"} -> all(parts, loops, breakable)
          [] OTHER -> TRUE

(* Every jump of a list of statements, with what is around it, the         *)
(* outermost first.                                                        *)
RECURSIVE JumpsOf(_, _)
JumpsOf(list, path) ==
    LET inside(st) ==
            CASE st.t \in {"break", "continue", "return"} -> {[jump |-> st, path |-> path]}
              [] st.t \in {"while", "do", "for", "for_of", "for_in"} -> JumpsOf(st.body, Append(path, st.t))
              [] st.t = "switch" -> JumpsOf(st.case1 \o st.default \o st.case2, Append(path, "switch"))
              [] st.t = "try" -> JumpsOf(st.body \o st.catch, Append(path, "try"))
                                 \cup JumpsOf(st.finally, Append(path, "finally"))
              [] st.t = "if" -> JumpsOf(st.body \o st.else, path)
              [] st.t = "block" -> JumpsOf(st.body, path)
              [] st.t = "label" -> JumpsOf(<<st.body>>, IF st.body.t \in {"while", "do", "for", "for_of", "for_in"}
                                                        THEN path ELSE Append(path, "labelled"))
              [] OTHER -> {}
    IN  UNION {inside(list[i]) : i \in DOMAIN list}

(* Where the code does otherwise than the language.  A return from a       *)
(* switch, a for-in loop or a finally block in a for-of loop in a try      *)
(* block: emit_return forgets what the inner statement keeps on the stack  *)
(* (drop_count = -3), and compute_stack_size does not.                     *)
CountLost ==
    \E j \in JumpsOf(prog, <<>>) :
        /\ j.jump.t = "return"
        /\ \E i, k \in DOMAIN j.path :
               /\ j.path[i] = "for_of" /\ i < k /\ j.path[k] \in {"switch", "for_in", "finally"}
               /\ \A m \in i..k : j.path[m] # "try"
               /\ \E m \in 1..i : j.path[m] = "try"

(* A break without a name in a labelled statement that is no loop ends     *)
(* that statement (IsTarget).                                              *)
EndsLabelled ==
    \E j \in JumpsOf(prog, <<>>) :
        /\ j.jump.t = "break" /\ j.jump.name = NoName
        /\ \E i \in DOMAIN j.path :
               /\ j.path[i] = "labelled"
               /\ \A m \in (i + 1)..Len(j.path) : j.path[m] \in {"try", "finally", "labelled"}

(* Whatever is thrown and wherever, break, continue and return run the     *)
(* finally blocks and close the iterators they leave, in order, each once, *)
(* and the function ends as the language says (emit_break, emit_return,    *)
(* the exception label of JS_CallInternal), but for an EndsLabelled break. *)
RunsAsWritten ==
    result.c \in {"return", "throw"} /\ ~EndsLabelled =>
        LET m == Meaning
        IN  /\ m.s.log = log
            /\ result = IF m.c.c = "throw" THEN Thrown(m.c.v) ELSE Returned(m.c.v)

(* The stack of a frame never grows over the size that compute_stack_size  *)
(* gave it, nor is more taken from it than it holds.                       *)
StackWithinSize ==
    /\ Len(stack) <= stack_size
    /\ result = Running /\ ~Unwinding => Len(stack) >= Effect(code[pc].op)[1]

LegalProgram == \A i \in DOMAIN prog : Legal(prog[i], NoName, {}, {}, FALSE)

(* A function is refused, by the parser or by compute_stack_size, only for *)
(* a break or a continue that leads nowhere.                               *)
LegalAccepted == result = Refused => ~LegalProgram

(* A function is refused, by the parser or by compute_stack_size, exactly  *)
(* for a break or a continue that leads nowhere ("break must be inside     *)
(* loop or switch", emit_break), an EndsLabelled break excepted, and for a *)
(* return that is CountLost.                                               *)
RefusedExactly == result = Refused <=> CountLost \/ (~LegalProgram /\ ~EndsLabelled)
=============================================================================
