---------------------------- MODULE ModuleLoader ----------------------------
(***************************************************************************)
(* Running a file system: run_from_file_system_buf and eval_buf of         *)
(* quickjs/qjs.c, js_module_loader of quickjs/std_module.c, and the part   *)
(* of quickjs/quickjs.c that resolves, links and evaluates modules.        *)
(*                                                                         *)
(* The C code recurses over the imports; here each recursion is a stack of *)
(* frames, one step of the top frame at a time.  A name is                 *)
(* [path, ext]: path elements, the last one the file, and "js" or "bc".    *)
(* A file is [kind, imports, fault]: what its first byte makes of it, the  *)
(* specifiers it imports in order, and what goes wrong with it, if         *)
(* anything: it does not parse, an import has no such export, or its body  *)
(* throws.  No path element but "." and ".." begins with a dot.            *)
(***************************************************************************)
EXTENDS Integers, Sequences, FiniteSets

CONSTANTS
    FileSystems,   \* the file systems to run: name |-> file
    MaxModules     \* bound: modules in the list of loaded modules

VARIABLES
    files,         \* the mounted file system
    mods,          \* ctx->loaded_modules, in the order they were created
    phase,         \* what JS_EvalFunction is at, or "done"
    stack,         \* frames [m, i]: module m, its i-th import is next
    err,           \* what main returns
    ran            \* the modules whose bodies were run, in order

vars == <<files, mods, phase, stack, err, ran>>

Names == [path : Seq(STRING), ext : STRING]
ASSUME FilesAssumption ==
    \A fs \in FileSystems : \A f \in DOMAIN fs : fs[f].imports \in Seq(Names)
ASSUME DiskAssumption ==
    \A fs \in FileSystems :
        /\ IsFiniteSet(DOMAIN fs) /\ DOMAIN fs \subseteq Names
        /\ \A f \in DOMAIN fs : fs[f].fault \in {"none", "parse", "binding", "throw"}

-----------------------------------------------------------------------------
(* Names.                                                                  *)

Js(path) == [path |-> path, ext |-> "js"]
Bc(name) == [name EXCEPT !.ext = "bc"]
MAIN_FILE_NAME == Js(<<"main">>)

(* compile_from_file names every module "".                                *)
NoName == [path |-> <<>>, ext |-> ""]

IsDots(e) == e \in {".", ".."}
Directory(path) == IF path = <<>> THEN <<>> ELSE SubSeq(path, 1, Len(path) - 1)

\* Mutant: every import is resolved against the top directory.
normalize_from_top(base, spec) ==
    [spec EXCEPT !.path = SelectSeq(@, LAMBDA e : e \notin {".", ".."})]

(* Only leading "." and ".." are worked off, against the directory of the  *)
(* importing module; ".." stays when there is nothing to go up from.       *)
WorkedOff(s) ==
    IF Len(s.rest) > 1 /\ s.rest[1] = "."
    THEN [s EXCEPT !.rest = Tail(@)]
    ELSE IF Len(s.rest) > 1 /\ s.rest[1] = ".." /\ s.dir # <<>> /\ ~IsDots(s.dir[Len(s.dir)])
    THEN [dir |-> Directory(s.dir), rest |-> Tail(s.rest)]
    ELSE s
Rebased(dir, path) ==
    LET after[n \in 0..Len(path)] ==
            IF n = 0 THEN [dir |-> dir, rest |-> path] ELSE WorkedOff(after[n - 1])
    IN  after[Len(path)].dir \o after[Len(path)].rest

js_default_module_normalize_name(base, spec) ==
    IF IsDots(spec.path[1])
    THEN [spec EXCEPT !.path = Rebased(Directory(base.path), @)]
    ELSE spec

(* js_load_file finds no empty file.  A name that ends in .js is tried     *)
(* again with .bc.                                                         *)
Loadable(name) == name \in DOMAIN files /\ files[name].kind # "empty"

\* Mutant: only the name itself is tried.
Candidates_named(name) == {f \in {name} : Loadable(f)}

Candidates(name) ==
    {f \in {name} : Loadable(f)} \cup
    {f \in {Bc(name)} : ~Loadable(name) /\ name.ext = "js" /\ Loadable(f)}

-----------------------------------------------------------------------------
(* Modules.                                                                *)

(* A module def as js_new_module_def and the parser, or JS_ReadModule,     *)
(* leave it.  Source is named as it was asked for.                         *)
NewModule(file, name) ==
    [file |-> file,
     name |-> IF files[file].kind = "bytecode" THEN NoName ELSE name,
     links |-> [i \in 1..Len(files[file].imports) |-> 0],
     func_created |-> FALSE, instantiated |-> FALSE,
     eval_mark |-> FALSE, evaluated |-> FALSE]

Modules == 1..Len(mods)
Imports(m) == files[mods[m].file].imports
Fault(m) == files[mods[m].file].fault
Named(name) == {m \in Modules : mods[m].name = name}

\* Mutant: a module whose imports are not resolved yet is not found.
find_resolved_module(name) ==
    {m \in Named(name) : \A i \in DOMAIN mods[m].links : mods[m].links[i] # 0}

(* The first module of the list with this name, if any.                    *)
js_find_loaded_module(name) ==
    {m \in Named(name) : \A k \in Named(name) : m <= k}

Top == stack[Len(stack)]
Pop == SubSeq(stack, 1, Len(stack) - 1)

\* Mutant: the index of the import is not advanced.
Advanced_stays == Append(Pop, Top)

Advanced == Append(Pop, [Top EXCEPT !.i = @ + 1])
Enter(m) == <<[m |-> m, i |-> 1]>>
AtEnd == Top.i > Len(Imports(Top.m))
Target == mods[Top.m].links[Top.i]

(* An exception unwinds every recursion and main returns -1.  The modules  *)
(* js_free_modules then gives up are not looked at again.                  *)
Fail == err' = -1 /\ phase' = "done" /\ stack' = <<>>

-----------------------------------------------------------------------------
Init ==
    /\ files \in FileSystems
    /\ mods = <<>> /\ phase = "start" /\ stack = <<>> /\ err = 0 /\ ran = <<>>

(* main.js, or main.bc if there is no main.js; an empty one is an error.   *)
run_from_file_system_buf ==
    LET main == IF MAIN_FILE_NAME \in DOMAIN files THEN MAIN_FILE_NAME
                ELSE Bc(MAIN_FILE_NAME)
    IN  /\ phase = "start"
        /\ IF Loadable(main) /\ files[main].fault # "parse"
           THEN /\ mods' = <<NewModule(main, MAIN_FILE_NAME)>>
                /\ phase' = "resolve" /\ stack' = Enter(1)
                /\ UNCHANGED err
           ELSE Fail /\ UNCHANGED mods
        /\ UNCHANGED <<files, ran>>

(* js_host_resolve_imported_module for the next import of the top frame:   *)
(* found among the loaded modules, or loaded, to be resolved in turn, or   *)
(* not to be loaded.                                                       *)
js_host_resolve_imported_module(name) ==
    LET link(k) == [mods EXCEPT ![Top.m].links[Top.i] = k]
    IN  \/ \E k \in js_find_loaded_module(name) :
             /\ mods' = link(k) /\ stack' = Advanced
             /\ UNCHANGED <<phase, err>>
        \/ /\ js_find_loaded_module(name) = {}
           /\ Len(mods) < MaxModules
           /\ \E f \in Candidates(name) :
                /\ files[f].fault # "parse"
                /\ mods' = Append(link(Len(mods) + 1), NewModule(f, name))
                /\ stack' = Advanced \o Enter(Len(mods) + 1)
                /\ UNCHANGED <<phase, err>>
        \/ /\ js_find_loaded_module(name) = {}
           /\ \A f \in Candidates(name) : files[f].fault = "parse"
           /\ Fail /\ UNCHANGED mods

js_resolve_module ==
    /\ phase = "resolve" /\ stack # <<>>
    /\ \/ /\ ~AtEnd
          /\ js_host_resolve_imported_module(
                 js_default_module_normalize_name(mods[Top.m].name, Imports(Top.m)[Top.i]))
       \/ AtEnd /\ stack' = Pop /\ UNCHANGED <<mods, phase, err>>
    /\ UNCHANGED <<files, ran>>

Linked(S) == UNION {{mods[m].links[i] : i \in DOMAIN mods[m].links} : m \in S}
ReachedFrom(k) ==
    LET reach[n \in 0..Len(mods)] ==
            IF n = 0 THEN {k} ELSE reach[n - 1] \cup Linked(reach[n - 1])
    IN  reach[Len(mods)]

(* js_create_module_function recurses like the others and cannot fail on a *)
(* module that parsed: one step, with the entry into js_link_module.       *)
js_create_module_function ==
    /\ phase = "resolve" /\ stack = <<>>
    /\ LET reached == ReachedFrom(1)
       IN  mods' = [m \in Modules |->
                [mods[m] EXCEPT !.func_created = m \in reached, !.instantiated = m = 1]]
    /\ phase' = "link" /\ stack' = Enter(1)
    /\ UNCHANGED <<files, err, ran>>

(* js_link_module: the imports first, then the module's own bindings.      *)
js_link_module ==
    /\ phase = "link" /\ stack # <<>>
    /\ \/ /\ ~AtEnd /\ mods[Target].instantiated
          /\ stack' = Advanced /\ UNCHANGED <<mods, phase, err>>
       \/ /\ ~AtEnd /\ ~mods[Target].instantiated
          /\ mods' = [mods EXCEPT ![Target].instantiated = TRUE]
          /\ stack' = Advanced \o Enter(Target)
          /\ UNCHANGED <<phase, err>>
       \/ /\ AtEnd /\ Fault(Top.m) # "binding"
          /\ stack' = Pop /\ UNCHANGED <<mods, phase, err>>
       \/ AtEnd /\ Fault(Top.m) = "binding" /\ Fail /\ UNCHANGED mods
    /\ UNCHANGED <<files, ran>>

JS_EvalFunction ==
    /\ phase = "link" /\ stack = <<>>
    /\ mods' = [mods EXCEPT ![1].eval_mark = TRUE]
    /\ phase' = "evaluate" /\ stack' = Enter(1)
    /\ UNCHANGED <<files, err, ran>>

\* Mutant: the wrong flag is looked at.
Settled_instantiated(m) == mods[m].instantiated

(* On the way already, or evaluated before.                                *)
Settled(m) == mods[m].eval_mark \/ mods[m].evaluated

(* js_evaluate_module: the imports first, then the body.                   *)
js_evaluate_module ==
    /\ phase = "evaluate" /\ stack # <<>>
    /\ \/ /\ ~AtEnd /\ Settled(Target)
          /\ stack' = Advanced /\ UNCHANGED <<mods, phase, err, ran>>
       \/ /\ ~AtEnd /\ ~Settled(Target)
          /\ mods' = [mods EXCEPT ![Target].eval_mark = TRUE]
          /\ stack' = Advanced \o Enter(Target)
          /\ UNCHANGED <<phase, err, ran>>
       \/ /\ AtEnd
          /\ ran' = Append(ran, Top.m)
          /\ IF Fault(Top.m) = "throw"
             THEN /\ mods' = [m \in Modules |-> [mods[m] EXCEPT
                                 !.eval_mark = FALSE, !.evaluated = @ \/ m = Top.m]]
                  /\ Fail
             ELSE /\ mods' = [mods EXCEPT ![Top.m].eval_mark = FALSE,
                                          ![Top.m].evaluated = TRUE]
                  /\ stack' = Pop /\ UNCHANGED <<phase, err>>
    /\ UNCHANGED files

Return ==
    /\ phase = "evaluate" /\ stack = <<>>
    /\ phase' = "done"
    /\ UNCHANGED <<files, mods, stack, err, ran>>

Next ==
    \/ run_from_file_system_buf
    \/ js_resolve_module \/ js_create_module_function
    \/ js_link_module \/ JS_EvalFunction
    \/ js_evaluate_module \/ Return

Spec == Init /\ [][Next]_vars

-----------------------------------------------------------------------------
(* What a program means: files, the paths between them, and an order.      *)

(* The file a specifier names for the file that contains it.               *)
PathOf(f, spec) ==
    LET step[i \in 0..Len(spec.path)] ==
            IF i = 0 THEN Directory(f.path)
            ELSE IF spec.path[i] = "." THEN step[i - 1]
            ELSE IF spec.path[i] = ".." THEN Directory(step[i - 1])
            ELSE Append(step[i - 1], spec.path[i])
    IN  IF IsDots(spec.path[1]) THEN step[Len(spec.path)] ELSE spec.path

FilesMeant(f, spec) ==
    LET name == [spec EXCEPT !.path = PathOf(f, spec)]
        there == {g \in DOMAIN files : files[g].kind # "empty"}
    IN  IF name \in there THEN {name} ELSE {Bc(name)} \cap there
ImportsOf(f) == {files[f].imports[i] : i \in 1..Len(files[f].imports)}

(* Names as programs write them: "." and ".." come first in a specifier    *)
(* and do not lead out of the disk.  Bytecode, which loses its name, has   *)
(* them only at the top.                                                   *)
LeadingDots(path, depth) ==
    \E p \in 1..(Len(path) - 1) :
        /\ \A j \in 1..Len(path) : IsDots(path[j]) <=> j <= p
        /\ Cardinality({j \in 1..p : path[j] = ".."}) <= depth
PlainNamesIn(fs) ==
    \A f \in DOMAIN fs : \A i \in 1..Len(fs[f].imports) :
        LET spec == fs[f].imports[i]
            dir == Directory(f.path)
        IN  /\ spec.ext \in {"js", "bc"} /\ spec.path # <<>>
            /\ IsDots(spec.path[1]) =>
                  /\ fs[f].kind = "bytecode" => dir = <<>>
                  /\ \A j \in 1..Len(dir) : ~IsDots(dir[j])
                  /\ LeadingDots(spec.path, Len(dir))

(* The files main reaches.                                                 *)
Start == IF MAIN_FILE_NAME \in DOMAIN files THEN {MAIN_FILE_NAME}
         ELSE {Bc(MAIN_FILE_NAME)} \cap DOMAIN files
Reached ==
    LET meant(f) == UNION {FilesMeant(f, s) : s \in ImportsOf(f)}
        more(S) == S \cup UNION {meant(f) : f \in S}
        reach[n \in 0..Cardinality(DOMAIN files)] ==
            IF n = 0 THEN Start ELSE more(reach[n - 1])
    IN  reach[Cardinality(DOMAIN files)]

-----------------------------------------------------------------------------
(* Properties.                                                             *)

(* No file is loaded twice, however many modules import it and whatever    *)
(* cycles there are: its exports exist once and its body runs once.        *)
LoadedOnce ==
    \A m, k \in Modules : mods[m].file = mods[k].file => m = k

(* An import is resolved against the directory of the file that contains   *)
(* it.                                                                     *)
ResolvesFromImporter ==
    \A m \in Modules : \A i \in 1..Len(Imports(m)) :
        mods[m].links[i] # 0 =>
            mods[mods[m].links[i]].file \in FilesMeant(mods[m].file, Imports(m)[i])

(* A source file is entered once, however many modules import it (it is    *)
(* found again under the name it was entered with; one named .bc can have  *)
(* two), and no body runs before every module is linked.                   *)
SourceLoadedOnce ==
    \A m, k \in Modules :
        /\ mods[m].file = mods[k].file
        /\ files[mods[m].file].kind # "bytecode" /\ mods[m].file.ext # "bc"
        => m = k
AllLinked ==
    ran # <<>> => \A m \in Modules : mods[m].func_created /\ mods[m].instantiated
LinkedBeforeRun == SourceLoadedOnce /\ AllLinked

(* A body runs when everything it imports has run, except what imports it  *)
(* back: then the cycle was entered there.  No body runs twice, and main   *)
(* does not return 0 before each of them has.                              *)
Precedes(k, m) == \E a, b \in 1..Len(ran) : ran[a] = k /\ ran[b] = m /\ a < b
DependenciesFirst ==
    \A a \in 1..Len(ran) : \A i \in DOMAIN mods[ran[a]].links :
        LET k == mods[ran[a]].links[i]
        IN  Precedes(k, ran[a]) \/ ran[a] \in ReachedFrom(k)
EachRunsOnce ==
    /\ \A a, b \in 1..Len(ran) : ran[a] = ran[b] => a = b
    /\ phase = "done" /\ err = 0 => \A m \in Modules : \E a \in 1..Len(ran) : ran[a] = m
BodiesInOrder == DependenciesFirst /\ EachRunsOnce

(* main returns 0 exactly when every file it reaches exists, parses, binds *)
(* and does not throw; then each of their bodies has run, and no module's  *)
(* body twice.                                                             *)
ExitCodeExact ==
    phase = "done" =>
        LET sound == /\ Start # {} /\ \A f \in Start : files[f].kind # "empty"
                     /\ \A f \in Reached :
                          /\ files[f].fault = "none"
                          /\ \A s \in ImportsOf(f) : FilesMeant(f, s) # {}
        IN  /\ err = 0 <=> sound
            /\ sound => /\ {mods[ran[a]].file : a \in 1..Len(ran)} = Reached
                        /\ \A a, b \in 1..Len(ran) : ran[a] = ran[b] => a = b

(* No body runs unless every file main reaches was loaded.                 *)
NothingRunsUnloaded == ran # <<>> => {mods[m].file : m \in Modules} = Reached

(* An import is resolved against the directory of the file that contains   *)
(* it, and nothing runs before every file that main reaches is loaded      *)
(* (js_module_loader, js_resolve_module).                                  *)
EvaluationExact == ResolvesFromImporter /\ NothingRunsUnloaded

(* main returns, for every import graph.                                   *)
Terminates == <>(phase = "done")

=============================================================================
