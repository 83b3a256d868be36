----------------------------- MODULE ModuleLink -----------------------------
(***************************************************************************)
(* Names across modules in quickjs/quickjs.c: what a module exports and    *)
(* imports (js_parse_export, js_parse_import), which variable an imported  *)
(* name stands for (js_resolve_export), the namespace objects              *)
(* (js_build_module_ns) and the linking of a graph of modules              *)
(* (js_link_module).  ModuleLoader has the loading and the evaluation.     *)
(*                                                                         *)
(* A module is the sequence of its declarations [kind, name, from, of]:    *)
(*     local    export let name                                            *)
(*     from     export {of as name} from "from"                            *)
(*     ns       export * as name from "from"                               *)
(*     star     export * from "from"                                       *)
(*     import   import {of as name} from "from"                            *)
(*     imports  import * as name from "from"                               *)
(*     through  import {of as name} from "from"; export {name}             *)
(* A variable is <<module, name>>, a namespace object <<module, "*">>.     *)
(***************************************************************************)
EXTENDS Integers, Sequences, SequencesExt, FiniteSets

CONSTANTS
    Modules, Names,
    Main, MainDecls,   \* the module that is linked and what it declares
    Available,         \* the declarations <<m, d>> that programs are made of
    MaxDecls           \* bound: declarations outside Main

VARIABLES
    decls,             \* module |-> its declarations
    status,            \* "parsing", "linking", "linked", "failed" or "crashed"
    stack,             \* frames [m, i] of js_link_module: the i-th request is next
    instantiated,      \* the modules with the flag set
    var_refs,          \* module |-> name |-> the variable it stands for
    module_ns          \* module |-> its namespace object: a set of [name, var]

vars == <<decls, status, stack, instantiated, var_refs, module_ns>>

NULL == <<>>           \* no variable
None == {}             \* no namespace object yet, as a set of sets
All == Modules \cup {Main}
LocalKinds == {"local", "through"}
ExportKinds == {"local", "through", "from", "ns"}
ImportKinds == {"import", "imports", "through"}

OfKind(m, kinds) == SelectSeq(decls[m], LAMBDA d : d.kind \in kinds)

Init ==
    /\ decls = [m \in All |-> IF m = Main THEN MainDecls ELSE <<>>]
    /\ status = "parsing" /\ stack = <<>> /\ instantiated = {}
    /\ var_refs = [m \in All |-> [n \in Names |-> NULL]]
    /\ module_ns = [m \in All |-> None]

NotBoundTwice(m, d) ==
    d.kind = "star" \/ \A e \in ToSet(decls[m]) : e.kind = "star" \/ e.name # d.name

(* js_parse_export and js_parse_import add a declaration to a module: no   *)
(* name is exported twice and none is bound twice.                         *)
Declare(m, d) ==
    /\ status = "parsing"
    /\ Len(FoldLeft(\o, <<>>, SetToSeq({decls[k] : k \in Modules}))) < MaxDecls
    /\ NotBoundTwice(m, d)
    /\ decls' = [decls EXCEPT ![m] = Append(@, d)]
    /\ UNCHANGED <<status, stack, instantiated, var_refs, module_ns>>

(* A module asks for another once, where it is first named.                *)
req_module_entries(m) ==
    FoldLeft(LAMBDA reqs, d : IF Contains(reqs, d.from) THEN reqs ELSE Append(reqs, d.from),
             <<>>, OfKind(m, {"from", "ns", "star", "import", "imports", "through"}))

-----------------------------------------------------------------------------
(* Which export entry a name stands for.                                   *)

find_export_entry(m, n) ==
    SelectSeq(OfKind(m, ExportKinds), LAMBDA d : d.name = n)

local_name(me) ==
    CASE me.kind \in LocalKinds -> me.name
      [] me.kind = "from" -> me.of
      [] me.kind = "ns" -> "*"

Result(ret, m, me, s) == [ret |-> ret, m |-> m, me |-> me, s |-> s]
NoEntry == [kind |-> "none", name |-> "", from |-> "", of |-> ""]

SameExport(a, b) == a.m = b.m /\ local_name(a.me) = local_name(b.me)

\* Mutant: export * passes the default export on.
StarPasses_default(n) == TRUE
StarPasses(n) == n # "default"

(* s has the pairs already looked at.                                      *)
RECURSIVE js_resolve_export1(_, _, _)
js_resolve_export1(m, n, s) ==
    LET s1 == s \cup {<<m, n>>}
        entry == find_export_entry(m, n)
        try(acc, d) ==
            IF acc.ret = "AMBIGUOUS" THEN acc
            ELSE LET r == js_resolve_export1(d.from, n, acc.s)
                 IN  CASE r.ret = "AMBIGUOUS" -> r
                       [] r.ret = "FOUND" /\ acc.ret = "FOUND" ->
                              IF SameExport(acc, r) THEN [acc EXCEPT !.s = r.s]
                              ELSE Result("AMBIGUOUS", m, NoEntry, r.s)
                       [] r.ret = "FOUND" /\ acc.ret # "FOUND" -> r
                       [] OTHER -> [acc EXCEPT !.s = r.s]
    IN  CASE <<m, n>> \in s -> Result("CIRCULAR", m, NoEntry, s)
          [] <<m, n>> \notin s /\ entry # <<>> ->
                 IF entry[1].kind = "from"
                 THEN js_resolve_export1(entry[1].from, entry[1].of, s1)
                 ELSE Result("FOUND", m, entry[1], s1)
          [] OTHER -> FoldLeft(try, Result("NOT_FOUND", m, NoEntry, s1),
                               IF StarPasses(n) THEN OfKind(m, {"star"}) ELSE <<>>)

js_resolve_export(m, n) == js_resolve_export1(m, n, {})

-----------------------------------------------------------------------------
(* Namespace objects.                                                      *)

(* s.names are the names found; s.direct those that m itself exports from  *)
(* its own variables, which need no second lookup.                         *)
StarExports(m) == OfKind(m, {"star"})

RECURSIVE get_exported_names(_, _, _)
get_exported_names(s, m, from_star) ==
    LET own == {d \in ToSet(OfKind(m, ExportKinds)) : ~(from_star /\ d.name = "default")}
        names == {d.name : d \in own}
        direct == {d.name : d \in {e \in own : ~from_star /\ e.kind \in LocalKinds}}
    IN  IF m \in s.modules THEN s
        ELSE FoldLeft(LAMBDA acc, d : get_exported_names(acc, d.from, TRUE),
                      [modules |-> s.modules \cup {m}, names |-> s.names \cup names,
                       direct |-> (s.direct \ names) \cup (direct \ s.names)],
                      StarExports(m))

Lookup(s, m, n) ==
    IF n \in s.direct THEN Result("FOUND", m, find_export_entry(m, n)[1], {}) ELSE js_resolve_export(m, n)

(* The variable or the namespace object of an entry that was found.        *)
VarRef(refs, r) == IF r.me.kind = "ns" THEN <<r.me.from, "*">> ELSE refs[r.m][r.me.name]

(* Ambiguous names are left out; a name that is not found is an error.     *)
js_build_module_ns(refs, m) ==
    LET s == get_exported_names([modules |-> {}, names |-> {}, direct |-> {}], m, FALSE)
        found == {[name |-> n, r |-> Lookup(s, m, n)] : n \in s.names}
    IN  [error |-> \E f \in found : f.r.ret \notin {"FOUND", "AMBIGUOUS"},
         props |-> {[name |-> f.name, var |-> VarRef(refs, f.r)] : f \in {g \in found : g.r.ret = "FOUND"}}]

-----------------------------------------------------------------------------
(* Linking.                                                                *)

OwnVariable(m, n) == \E d \in ToSet(decls[m]) : d.kind = "local" /\ d.name = n

(* js_create_module_function of Main and of all it depends on: a module's  *)
(* own variables come to be; the imported ones are still missing.          *)
js_create_module_function ==
    /\ status = "parsing" /\ status' = "linking"
    /\ var_refs' = [m \in All |-> [n \in Names |->
          IF OwnVariable(m, n) THEN <<m, n>> ELSE NULL]]
    /\ stack' = <<[m |-> Main, i |-> 1]>> /\ instantiated' = {Main}
    /\ UNCHANGED <<decls, module_ns>>

Top == stack[Len(stack)]
Advanced == [stack EXCEPT ![Len(stack)].i = @ + 1]

js_link_module_enter ==
    /\ status = "linking" /\ stack # <<>> /\ Top.i <= Len(req_module_entries(Top.m))
    /\ LET m1 == req_module_entries(Top.m)[Top.i]
       IN  IF m1 \in instantiated THEN stack' = Advanced /\ UNCHANGED instantiated
           ELSE /\ stack' = Append(Advanced, [m |-> m1, i |-> 1])
                /\ instantiated' = instantiated \cup {m1}
    /\ UNCHANGED <<decls, status, var_refs, module_ns>>

(* acc: the variables of all modules, the namespaces and the status.       *)
js_get_module_ns(acc, m) ==
    LET ns == js_build_module_ns(acc.refs, m)
    IN  IF acc.ns[m] # None THEN acc
        ELSE IF ns.error THEN [acc EXCEPT !.status = "failed"]
        ELSE IF \E p \in ns.props : p.var = NULL THEN [acc EXCEPT !.status = "crashed"]
        ELSE [acc EXCEPT !.ns[m] = {ns.props}]

LinkImport(acc, m, d) ==
    LET r == js_resolve_export(d.from, d.of)
        target == IF d.kind = "imports" THEN d.from ELSE r.me.from
        bind(a, v) == IF a.status # "linking" THEN a ELSE [a EXCEPT !.refs[m][d.name] = v]
    IN  CASE acc.status # "linking" -> acc
          [] acc.status = "linking" /\ d.kind = "imports" -> bind(js_get_module_ns(acc, d.from), <<d.from, "*">>)
          [] acc.status = "linking" /\ d.kind # "imports" /\ r.ret # "FOUND" -> [acc EXCEPT !.status = "failed"]
          [] acc.status = "linking" /\ d.kind # "imports" /\ r.me.kind = "ns" ->
                 bind(js_get_module_ns(acc, target), <<target, "*">>)
          [] OTHER -> IF VarRef(acc.refs, r) = NULL THEN [acc EXCEPT !.status = "crashed"]
                      ELSE bind(acc, VarRef(acc.refs, r))

IndirectExportsFound(m) ==
    \A d \in ToSet(OfKind(m, {"from"})) : js_resolve_export(d.from, d.of).ret = "FOUND"

(* The requests are done: the module's own indirect exports and imports.   *)
js_link_module ==
    /\ status = "linking" /\ stack # <<>> /\ Top.i > Len(req_module_entries(Top.m))
    /\ \E acc \in {IF ~IndirectExportsFound(Top.m)
                   THEN [refs |-> var_refs, ns |-> module_ns, status |-> "failed"]
                   ELSE FoldLeft(LAMBDA a, d : LinkImport(a, Top.m, d),
                                 [refs |-> var_refs, ns |-> module_ns, status |-> "linking"],
                                 OfKind(Top.m, ImportKinds))} :
          /\ var_refs' = acc.refs /\ module_ns' = acc.ns
          /\ status' = IF acc.status = "linking" /\ Len(stack) = 1 THEN "linked" ELSE acc.status
    /\ stack' = SubSeq(stack, 1, Len(stack) - 1)
    /\ UNCHANGED <<decls, instantiated>>

Next ==
    \/ \E a \in Available : Declare(a[1], a[2])
    \/ js_create_module_function \/ js_link_module_enter \/ js_link_module

Spec == Init /\ [][Next]_vars

-----------------------------------------------------------------------------
(* What the language says.  A name of a module leads to other names, or    *)
(* ends at a variable or a namespace; what can be reached is what it       *)
(* means: nothing, one binding, or an ambiguity.                           *)

Leads(m, n) ==
    LET entry == find_export_entry(m, n)
    IN  IF entry = <<>> THEN IF n = "default" THEN {} ELSE {<<d.from, n>> : d \in ToSet(OfKind(m, {"star"}))}
        ELSE IF entry[1].kind \in {"from", "through"} THEN {<<entry[1].from, entry[1].of>>} ELSE {}

Ends(m, n) ==
    {IF d.kind = "ns" THEN <<d.from, "*">> ELSE <<m, n>> :
         d \in {e \in ToSet(find_export_entry(m, n)) : e.kind \in {"local", "ns"}}}

(* The names that m and n lead to, in any number of steps.               *)
Reach(m, n, Step(_, _)) ==
    LET reach[k \in 0..Cardinality(All) * Cardinality(Names)] ==
            IF k = 0 THEN {<<m, n>>}
            ELSE LET r == reach[k - 1] IN r \cup UNION {Step(p[1], p[2]) : p \in r}
    IN  reach[Cardinality(All) * Cardinality(Names)]

Meaning(m, n) == UNION {Ends(p[1], p[2]) : p \in Reach(m, n, Leads)}

Reachable ==
    LET reach[k \in 0..Cardinality(All)] ==
            IF k = 0 THEN {Main}
            ELSE LET r == reach[k - 1] IN r \cup UNION {ToSet(req_module_entries(m)) : m \in r}
    IN  reach[Cardinality(All)]

Resolves(m, n) == Cardinality(Meaning(m, n)) = 1

(* The export entries that the code compares (SameExport): it does not     *)
(* look behind an import that is exported again, and takes the namespaces  *)
(* that a module exports for one.                                          *)
Entries(m, n) ==
    LET again(k, x) == \E d \in ToSet(find_export_entry(k, x)) : d.kind = "through"
        step(k, x) == IF again(k, x) THEN {} ELSE Leads(k, x)
    IN  UNION {{<<p[1], local_name(d)>> : d \in {e \in ToSet(find_export_entry(p[1], p[2])) : e.kind # "from"}} :
                   p \in Reach(m, n, step)}

(* A name for which the code finds more or fewer exports than the language *)
(* says: one variable, or one namespace, that modules hand on under their  *)
(* own names, or two namespaces that one module exports.                   *)
CountedOtherwise ==
    \E m \in Reachable : \E n \in Names : Cardinality(Entries(m, n)) # Cardinality(Meaning(m, n))

(* A module that exports an import again and comes back to itself.         *)
HandsOnInCycle ==
    LET after[k \in 0..Cardinality(All), m \in All] ==
            IF k = 0 THEN ToSet(req_module_entries(m))
            ELSE after[k - 1, m] \cup UNION {ToSet(req_module_entries(x)) : x \in after[k - 1, m]}
    IN  \E m \in Reachable : OfKind(m, {"through"}) # <<>> /\ m \in after[Cardinality(All), m]

(* Every imported name of a linked module is the variable that the         *)
(* language says, through any chain of re-exports and star exports         *)
(* (js_resolve_export1, js_link_module).                                   *)
ImportsExact ==
    status = "linked" =>
        \A m \in Reachable : \A d \in ToSet(OfKind(m, ImportKinds \ {"imports"})) :
            {var_refs[m][d.name]} = Meaning(d.from, d.of)

(* A namespace object has the names that resolve, each bound to its        *)
(* variable, and no others, whenever in the linking it was built           *)
(* (js_build_module_ns, get_exported_names).                               *)
NamespaceExact ==
    \A m \in All : module_ns[m] # None =>
        module_ns[m] = {{[name |-> n, var |-> CHOOSE v \in Meaning(m, n) : TRUE] :
                            n \in {k \in Names : Resolves(m, k)}}}

(* Linking fails when, and only when, an import or an indirect export of   *)
(* some module of the graph has no meaning or two (js_link_module).        *)
LinkExact ==
    (status = "linked") <=>
        \A m \in Reachable : \A d \in ToSet(OfKind(m, {"from", "import", "through"})) : Resolves(d.from, d.of)

(* No module is bound to a variable that is not there yet: the functions   *)
(* of all modules are created before any is linked, "because of cyclic     *)
(* references" (js_create_module_function).                                *)
NoMissingVariable == status # "crashed"

(* What linking comes to: exactly what the language says where no name is  *)
(* CountedOtherwise, and a variable that is not there yet is met only      *)
(* where an import is exported again on a cycle.                           *)
LinkedExactly ==
    /\ status \in {"linked", "failed"} => (LinkExact /\ ImportsExact /\ NamespaceExact) \/ CountedOtherwise
    /\ status = "crashed" => HandsOnInCycle
=============================================================================
