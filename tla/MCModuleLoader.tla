--------------------------- MODULE MCModuleLoader ---------------------------
(* Small programs for ModuleLoader.                                        *)
EXTENDS ModuleLoader, TLC

File(kind, imports, fault) == [kind |-> kind, imports |-> imports, fault |-> fault]

MainJs == Js(<<"main">>)
AJs == Js(<<"a">>)
BJs == Js(<<"b">>)
ToMain == Js(<<".", "main">>)
ToA == Js(<<".", "a">>)
ToB == Js(<<".", "b">>)

UpTo2(S) == {<<>>} \cup {<<x>> : x \in S} \cup {<<x, y>> : x, y \in S}

(* main imports a, or a and b in either order; a and b import up to two of *)
(* the three files, themselves included; one fault in at most one file.    *)
Faults == {[f \in {MainJs, AJs, BJs} |-> IF f = g THEN e ELSE "none"] :
              g \in {MainJs, AJs, BJs}, e \in {"none", "parse", "binding", "throw"}}
SourceGraphs ==
    {(MainJs :> File("source", m, e[MainJs])) @@
     (AJs :> File("source", a, e[AJs])) @@
     (BJs :> File("source", b, e[BJs])) :
        m \in {<<ToA>>, <<ToA, ToB>>, <<ToB, ToA>>},
        a \in UpTo2({ToMain, ToA, ToB}), b \in UpTo2({ToMain, ToA, ToB}), e \in Faults}

(* Files that are missing, empty, or present only as bytecode; modules in  *)
(* directories that import each other.                                     *)
LibX == Js(<<"lib", "x">>)
LibA == Js(<<"lib", "a">>)
LibY == Js(<<"lib", "y">>)
ToLibX == Js(<<".", "lib", "x">>)
BareLibX == Js(<<"lib", "x">>)
ToX == Js(<<".", "x">>)
ToY == Js(<<".", "y">>)
UpToA == Js(<<"..", "a">>)
DotUpToA == Js(<<".", "..", "a">>)

Present(f, imports) ==
    {f :> File("source", imports, "none"),
     f :> File("empty", <<>>, "none"),
     Bc(f) :> File("bytecode", <<>>, "none"),
     (f :> File("empty", <<>>, "none")) @@ (Bc(f) :> File("bytecode", <<>>, "none")),
     [n \in {} |-> File("empty", <<>>, "none")]}
Directories ==
    {main @@ a @@ x @@ y :
        main \in {MainJs :> File("source", i, "none") :
                     i \in {<<ToLibX>>, <<BareLibX, ToA>>, <<ToA, ToLibX>>}}
                 \cup {Bc(MainJs) :> File("bytecode", <<ToLibX, ToA>>, "none"),
                       MainJs :> File("empty", <<>>, "none")},
        a \in Present(AJs, <<ToLibX>>),
        x \in Present(LibX, <<ToA, UpToA>>),
        y \in Present(LibA, <<DotUpToA, ToX>>)}

AllPrograms == SourceGraphs \cup Directories

(* The same program as bytecode: main imports a and b, both import c.      *)
CJs == Js(<<"c">>)
ToC == Js(<<".", "c">>)
Diamond ==
    {(Bc(MainJs) :> File("bytecode", <<ToA, ToB>>, "none")) @@
     (Bc(AJs) :> File("bytecode", <<ToC>>, "none")) @@
     (Bc(BJs) :> File("bytecode", <<ToC>>, "none")) @@
     (Bc(CJs) :> File("bytecode", <<>>, "none"))}

(* lib/x imports its neighbour lib/y; there is another y at the top.       *)
TwoYs ==
    {(MainJs :> File("source", <<ToLibX>>, "none")) @@
     (Bc(LibX) :> File("bytecode", <<ToY>>, "none")) @@
     (Bc(LibY) :> File("bytecode", <<>>, "none")) @@
     (Js(<<"y">>) :> File("source", <<>>, "none"))}

(* These programs' names are plain, except that of lib/y in lib/x.         *)
ASSUME MeantAssumption ==
    /\ \A fs \in AllPrograms \cup Diamond : PlainNamesIn(fs)
    /\ \A fs \in TwoYs : ~PlainNamesIn(fs)
=============================================================================
