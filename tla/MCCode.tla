------------------------------- MODULE MCCode -------------------------------
(***************************************************************************)
(* Compiled code for TLC, one component in each behaviour: statements and  *)
(* their code, modules that are linked, and values and functions that are  *)
(* written as bytecode and read again.                                     *)
(***************************************************************************)
EXTENDS BinaryObject

CONSTANT Parts                                               \* what behaviours are about

VARIABLES
    part,                                                    \* what this behaviour is about
    prog, code, stack_size, pc, exc, oracle, log,            \* Statements, with stack and result
    decls, status, instantiated, var_refs, module_ns,        \* ModuleLink, with stack
    stack

statementVars == <<prog, code, stack_size, pc, exc, oracle, log>>
linkVars == <<decls, status, instantiated, var_refs, module_ns>>
objectVars == <<phase, input, file, whole>>
codeVars == <<part, stack, result, statementVars, linkVars, objectVars>>

Off == "off"
NoStatements == /\ prog = Off /\ code = Off /\ stack_size = Off /\ pc = Off
                /\ exc = Off /\ oracle = Off /\ log = Off
NoLink == /\ decls = Off /\ status = Off /\ instantiated = Off
          /\ var_refs = Off /\ module_ns = Off
NoObject == phase = Off /\ input = Off /\ file = Off /\ whole = Off

-----------------------------------------------------------------------------
(* Programs are nests of statements with one jump inside, and a call after *)
(* each of them to tell whether it was reached.                            *)
Expr(id) == [t |-> "expr", id |-> id]

Try(body, catch, finally) ==
    [t |-> "try", body |-> body, catch |-> catch, finally |-> finally]

(* A statement of the kind around body, at depth n.                        *)
Around(kind, n, body) ==
    LET x == Expr(<<kind, n>>)
        loop(t) == [t |-> t, id |-> <<t, n>>, inc |-> <<"inc", n>>, body |-> body]
    IN  CASE kind \in {"while", "do", "for", "for_of", "for_in"} -> loop(kind)
          [] kind = "L_for_of" -> [t |-> "label", name |-> "L", body |-> loop("for_of")]
          [] kind = "L_for" -> [t |-> "label", name |-> "L", body |-> loop("for")]
          [] kind = "L_block" -> [t |-> "label", name |-> "L", body |-> [t |-> "block", body |-> body]]
          [] kind = "if" -> [t |-> "if", id |-> <<"if", n>>, body |-> body, else |-> <<x>>]
          [] kind = "case" -> [t |-> "switch", id |-> <<"switch", n>>, case1 |-> body, default |-> <<x>>, case2 |-> <<>>]
          [] kind = "default" -> [t |-> "switch", id |-> <<"switch", n>>, case1 |-> <<x>>, default |-> body, case2 |-> <<>>]
          [] kind = "try" -> Try(body, <<>>, <<x>>)
          [] kind = "try_catch" -> Try(body, <<x>>, <<>>)
          [] kind = "catch" -> Try(<<x>>, body, <<Expr(<<"finally", n>>)>>)
          [] kind = "finally" -> Try(<<x>>, <<>>, body)

RECURSIVE Nested(_, _, _)
Nested(nest, n, jump) ==
    IF n > Len(nest) THEN <<jump>> ELSE <<Around(nest[n], n, Nested(nest, n + 1, jump)), Expr(<<"after", n>>)>>

Jumps == {[t |-> "break", name |-> ""], [t |-> "break", name |-> "L"],
          [t |-> "continue", name |-> ""], [t |-> "continue", name |-> "L"],
          [t |-> "return", hasval |-> TRUE, id |-> <<"value", 0>>], [t |-> "return", hasval |-> FALSE],
          [t |-> "throw", id |-> <<"value", 0>>]}

ProgramsOf(nests) == {Nested(nest, 1, jump) : nest \in nests, jump \in Jumps}

Kinds == {"while", "do", "for", "L_for_of", "L_block", "for_in", "if", "case", "default", "try", "try_catch", "catch", "finally"}
Pairs == Kinds \X Kinds
Triples == {"L_for", "L_for_of", "try"} \X {"for_of", "try", "catch", "finally"} \X {"case", "try_catch", "finally", "for_of"}

Flat == INSTANCE Statements WITH
    Programs <- ProgramsOf(Pairs), MaxDecisions <- 6, MaxThrows <- 2
Deep == INSTANCE Statements WITH
    Programs <- ProgramsOf(Triples), MaxDecisions <- 8, MaxThrows <- 2

-----------------------------------------------------------------------------
(* Up to four declarations in three modules, linked for a main module that *)
(* imports a name and a namespace from the first.                          *)
D(kind, name, from, of) == [kind |-> kind, name |-> name, from |-> from, of |-> of]

Three == {"a", "b", "c"}
TwoNames == {"x", "default", "n"}
MainProgram == <<D("import", "x", "a", "x"), D("imports", "n", "a", "")>>

(* Every way to export x, and the default or x of another module.         *)
Exports ==
    {<<m, D("local", n, "", "")>> : m \in Three, n \in {"x", "default"}}
    \cup UNION {{<<e[1], D("from", "x", e[2], "x")>>, <<e[1], D("from", "x", e[2], "default")>>,
                  <<e[1], D("star", "", e[2], "")>>} : e \in {p \in Three \X Three : p[1] # p[2]}}
    \cup {<<"a", D("from", "x", "a", "x")>>, <<"a", D("from", "default", "b", "x")>>, <<"b", D("ns", "x", "c", "")>>, <<"c", D("ns", "x", "b", "")>>}

(* Imports that are exported again, also on cycles.                        *)
Through ==
    {<<m, D("local", n, "", "")>> : m \in Three, n \in {"x", "default"}}
    \cup {<<e[1], D(kind, p[1], e[2], p[2])>> : kind \in {"from", "through"},
            e \in {<<"a", "b">>, <<"a", "c">>, <<"b", "c">>},
            p \in {<<"x", "x">>, <<"x", "default">>, <<"default", "x">>}}
    \cup {<<"a", D("star", "", "b", "")>>, <<"b", D("star", "", "c", "")>>, <<"a", D("ns", "x", "c", "")>>}
    \cup {<<"c", D("through", "x", "b", "default")>>, <<"c", D("star", "", "a", "")>>}

(* One variable that two modules hand on, and two namespaces of a module.  *)
Stars == {<<"a", D("star", "", "b", "")>>, <<"a", D("star", "", "c", "")>>}
HandedOn ==
    Stars \cup {<<"a", D("local", "default", "", "")>>, <<"b", D("through", "x", "a", "default")>>,
                <<"c", D("through", "x", "a", "default")>>, <<"c", D("from", "x", "a", "default")>>}
TwoNamespaces ==
    Stars \cup {<<"b", D("ns", "x", "c", "")>>, <<"b", D("ns", "default", "a", "")>>,
                <<"c", D("from", "x", "b", "default")>>, <<"c", D("ns", "x", "c", "")>>}

Link == INSTANCE ModuleLink WITH
    Modules <- Three, Names <- TwoNames, Main <- "main", MainDecls <- MainProgram,
    Available <- Exports, MaxDecls <- 4
Relink == INSTANCE ModuleLink WITH
    Modules <- Three, Names <- TwoNames, Main <- "main", MainDecls <- MainProgram,
    Available <- Through, MaxDecls <- 4
Diamond == INSTANCE ModuleLink WITH
    Modules <- Three, Names <- TwoNames, Main <- "main", MainDecls <- MainProgram,
    Available <- HandedOn, MaxDecls <- 5
Spaces == INSTANCE ModuleLink WITH
    Modules <- Three, Names <- TwoNames, Main <- "main", MainDecls <- MainProgram,
    Available <- TwoNamespaces, MaxDecls <- 5

-----------------------------------------------------------------------------
(* Values: graphs of three objects, functions and modules, and numbers.    *)
S8(c) == [wide |-> FALSE, chars |-> c]
Opcodes == [op \in 0 .. 255 |-> CASE op = 1 -> 1 + WordBytes [] op = 2 -> 2 + WordBytes
                                  [] op = 3 -> 1 + WordBytes [] OTHER -> 1]
Atoms1 == <<S8(<<97>>), S8(<<98, 99>>), [wide |-> TRUE, chars |-> <<300>>], S8(<<100>>)>>
Atoms2 == <<S8(<<100>>), S8(<<101>>), S8(<<97>>)>>

Ref(i) == <<"ref", i>>
I32(n) == <<"int", n>>
X == JS_ATOM_END
Array(q) == [kind |-> "array", elems |-> q, ext |-> TRUE, raw |-> <<"undefined">>]
Template(q, raw) == [kind |-> "array", elems |-> q, ext |-> FALSE, raw |-> raw]
Obj(props) == [kind |-> "object", props |-> props]
Buffer(b, d) == [kind |-> "buffer", bytes |-> b, detached |-> d]
View(i) == [kind |-> "typed", type |-> 1, count |-> 2, offset |-> 1, buffer |-> Ref(i)]

Places == {I32(1), Ref(1), Ref(2), Ref(3)}
Leaves ==
    {Buffer(<<7, 9>>, FALSE), Buffer(<<>>, TRUE), [kind |-> "map"],
     [kind |-> "date", data |-> I32(5)], [kind |-> "wrapper", data |-> <<"false">>],
     Obj(<<<<X, "getset", <<"null">>>>>>), Array(<<Ref(1)>>),
     Obj(<<<<X + 1, "data", Ref(2)>>, <<X, "hidden", Ref(3)>>, <<Tag + 3, "data", Ref(1)>>>>)}
GraphInputs ==
    {[heap |-> <<Array(<<a, b>>), Obj(<<<<X, "data", c>>, <<5, "data", d>>>>), o>>,
      root |-> Ref(1), flags |-> f] :
        a, b, c, d \in Places, o \in Leaves, f \in {{}, {"reference"}}}
    \cup {[heap |-> <<o, Buffer(<<3, 4, 5>>, FALSE), View(2)>>, root |-> Ref(1), flags |-> f] :
            o \in Leaves \cup {Array(<<Ref(3), Ref(2), Ref(3)>>)},
            f \in {{}, {"reference"}, {"bytecode"}}}

Func(flags, ops, pool, debug) ==
    [kind |-> "function", flags |-> flags, js_mode |-> 1, name |-> X + 1, arg_count |-> 1,
     var_count |-> 1, defined |-> 1, stack |-> 200,
     vardefs |-> <<<<X, 0, -1, 5>>, <<Tag + 2, 1, 0, 255>>>>,
     closure |-> <<<<X + 2, 130, 17>>>>, code |-> ops, pool |-> pool, debug |-> debug]
AtomOp(a) == <<1>> \o LE(a, WordBytes)
CodeSet ==
    {<<>>, <<0>>, AtomOp(X), <<0>> \o AtomOp(Tag + 7) \o <<2>> \o LE(X + 3, WordBytes) \o <<1>>,
     <<3>> \o LE(1, WordBytes) \o AtomOp(4) \o AtomOp(X + 1) \o AtomOp(X)}
Debug == <<<<X + 3, 12, <<1, 2, 3>>>>>>
Pools == {<<>>, <<<<"string", S8(<<120>>)>>, Ref(2)>>, <<Ref(2), Ref(3), Ref(2)>>}
Mod(f) == [kind |-> "module", name |-> X + 3, reqs |-> <<X, X + 1>>,
           exports |-> <<<<0, 1, 0, X>>, <<1, 0, X + 2, 22>>>>, stars |-> <<1>>,
           imports |-> <<<<2, X + 1, 0>>, <<3, 30, 1>>>>, func |-> Ref(f)]
CodeInputs ==
    {[heap |-> <<Func(IF d THEN 1024 + 5 ELSE 2047 - 1024, c, p, IF d THEN Debug ELSE <<>>),
                 Func(0, c, <<>>, <<>>), Template(<<<<"string", S8(<<121>>)>>>>, Ref(4)),
                 Template(<<<<"string", [wide |-> TRUE, chars |-> <<500, 3>>]>>>>, <<"undefined">>),
                 Mod(1)>>,
      root |-> Ref(r), flags |-> f] :
        d \in BOOLEAN, c \in CodeSet, p \in Pools, r \in {1, 5}, f \in {{}, {"bytecode"}}}

Big(k, c, s, e, l) == <<k, [class |-> c, sign |-> s, expn |-> e, limbs |-> l]>>
Numbers0 ==
    {I32(n) : n \in {0, 1, -1, 63, 64, -64, -65, 8191, 8192, Tag - 1, -Tag}}
    \cup {<<"float", n>> : n \in {0, 255, 65535}} \cup {<<k>> : k \in {"null", "true", "false"}}
    \cup {<<"string", S8(<<>>)>>, <<"string", S8([i \in 1 .. 64 |-> 1])>>}
    \cup {Big(k, "finite", s, e, l) : k \in {"bigint", "bigfloat"}, s \in {0, 1},
            e \in {-1, 0, 1, 31, 40}, l \in {<<32768>>, <<33025>>, <<1, 40000>>, <<256, 32768>>, <<512, 1, 65280>>}}
    \cup {Big("bigdecimal", "finite", s, e, l) : s \in {0, 1}, e \in {-3, 0, 2},
            l \in {<<1000>>, <<1234>>, <<120, 5000>>, <<9999, 1000>>, <<3, 4000>>, <<100, 9870>>}}
    \cup {Big(k, c, s, 0, <<>>) : k \in {"bigint", "bigdecimal"}, c \in {"zero", "inf", "nan"},
            s \in {0, 1}}
NumberInputs == {[heap |-> <<>>, root |-> v, flags |-> {}] : v \in Numbers0}

AllInputs == GraphInputs \cup CodeInputs \cup NumberInputs

-----------------------------------------------------------------------------
CodeInit ==
  /\ part \in Parts
  /\ \/ part = "flat" /\ Flat!Init /\ NoLink /\ NoObject
     \/ part = "deep" /\ Deep!Init /\ NoLink /\ NoObject
     \/ part = "link" /\ Link!Init /\ result = Off /\ NoStatements /\ NoObject
     \/ part = "relink" /\ Relink!Init /\ result = Off /\ NoStatements /\ NoObject
     \/ part = "diamond" /\ Diamond!Init /\ result = Off /\ NoStatements /\ NoObject
     \/ part = "spaces" /\ Spaces!Init /\ result = Off /\ NoStatements /\ NoObject
     \/ part = "object" /\ Init /\ stack = Off /\ NoStatements /\ NoLink

CodeNext ==
    /\ UNCHANGED part
    /\ \/ part = "flat" /\ Flat!Next /\ UNCHANGED <<linkVars, objectVars>>
       \/ part = "deep" /\ Deep!Next /\ UNCHANGED <<linkVars, objectVars>>
       \/ part = "link" /\ Link!Next /\ UNCHANGED <<result, statementVars, objectVars>>
       \/ part = "relink" /\ Relink!Next /\ UNCHANGED <<result, statementVars, objectVars>>
       \/ part = "diamond" /\ Diamond!Next /\ UNCHANGED <<result, statementVars, objectVars>>
       \/ part = "spaces" /\ Spaces!Next /\ UNCHANGED <<result, statementVars, objectVars>>
       \/ part = "object" /\ Next /\ UNCHANGED <<stack, statementVars, linkVars>>

CodeSpec == CodeInit /\ [][CodeNext]_codeVars

-----------------------------------------------------------------------------
(* The properties of the parts.                                            *)

(* Whatever is thrown and wherever, break, continue and return run the     *)
(* finally blocks and close the iterators they leave, in order, each once, *)
(* and the function ends as the language says; the stack of its frame      *)
(* never grows over the size that compute_stack_size gave it, nor is more  *)
(* taken from it than it holds (emit_break, emit_return, the exception     *)
(* label of JS_CallInternal).  Left out is a break without a name whose    *)
(* nearest target is a labelled statement that is no loop: it ends that    *)
(* statement where the language looks further out.                         *)
RunsAsWritten ==
    /\ part = "flat" => Flat!RunsAsWritten /\ Flat!StackWithinSize
    /\ part = "deep" => Deep!RunsAsWritten /\ Deep!StackWithinSize

(* A function is refused, by the parser or by compute_stack_size, exactly  *)
(* for a break or a continue that leads nowhere ("break must be inside     *)
(* loop or switch", emit_break), but a break in a labelled statement is    *)
(* taken to end that one, and for a return out of a switch, a for-in loop  *)
(* or a finally block in a for-of loop in a try block, which is legal      *)
(* (emit_return, compute_stack_size).                                      *)
AcceptedExactly ==
    /\ part = "flat" => Flat!RefusedExactly
    /\ part = "deep" => Deep!RefusedExactly

(* No program is refused that the language accepts: the "unconsistent      *)
(* stack size" of compute_stack_size is an error of the code the compiler  *)
(* made, not of the program (emit_return).                                 *)
LegalAccepted == part = "deep" => Deep!LegalAccepted

(* Every variable a module is bound to is there, as js_create_module_      *)
(* function makes them first "because of cyclic references"                *)
(* (quickjs.c:27913).                                                      *)
NoMissingVariable == part = "relink" => Relink!NoMissingVariable

(* Linking fails when, and only when, an import or an indirect export has  *)
(* no meaning or two; every imported name is the variable that the         *)
(* language says, through any chain of re-exports and star exports; a      *)
(* namespace has the names that resolve, bound to their variables,         *)
(* whenever in the linking it was built (js_resolve_export1,               *)
(* js_link_module, js_build_module_ns).  Excepted are the graphs in which  *)
(* one variable or namespace is handed on by two modules under their own   *)
(* names, which the code calls ambiguous, or one module exports two        *)
(* namespaces, which it takes for one.  A module is bound to a variable    *)
(* that is not there yet only where an import is exported again on a cycle *)
(* (js_create_module_function).                                            *)
LinkingExact ==
    /\ part = "link" => Link!LinkedExactly
    /\ part = "relink" => Relink!LinkedExactly
    /\ part = "diamond" => Diamond!LinkedExactly
    /\ part = "spaces" => Spaces!LinkedExactly

(* A value that JS_ReadObject builds from the bytes of JS_WriteObject is   *)
(* the value that was written: the same entries at the same places, with   *)
(* the same names although the atoms of the two runtimes have other        *)
(* numbers; with references, two places share an object exactly when they  *)
(* did before. A value is refused exactly when it reaches something the    *)
(* format has no place for, and a file of which the end is missing is      *)
(* never taken for a shorter value.                                        *)
BytecodeExact ==
    /\ part = "object" => SavedExact /\ WriteExact /\ CutRefused
=============================================================================
