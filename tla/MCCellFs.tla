------------------------------ MODULE MCCellFs ------------------------------
(* Small directories for CellFs.                                           *)
EXTENDS CellFs, TLC

(* Paths as find prints them and as a user may type them.                  *)
A == <<"a">>
DotA == <<".", "/", "a">>
AB == <<"a", "/", "b">>
ADotB == <<"a", "/", ".", "/", "b">>
DotADotB == <<".", "/", "a", "/", ".", "/", "b">>
ADotDotB == <<"a", "/", ".", "/", ".", "/", "b">>
UpA == <<"..", "/", "a">>
DotUpA == <<".", "/", "..", "/", "a">>
RootA == <<"/", "a">>
DriveA == <<"C:", "/", "a">>

AskedNames == {A, AB, <<"b">>}
Lists ==
    {<<>>, <<DotA, AB>>, <<A, <<"b">>>>, <<A, DotA, ADotB>>, <<DotA, ADotDotB>>, <<UpA, DotA>>} \cup
    {<<p>> : p \in {A, ADotB, ADotDotB, DotADotB, UpA, RootA, DriveA}}
UpLists == {<<A>>, <<UpA>>, <<DotUpA>>, <<DotUpA, A>>}

(* Empty files, and files with a NUL in them.                              *)
SomeFiles ==
    { (<<"a">> :> <<>>) @@ (<<"a", "/", "b">> :> <<"x">>),
      (<<"a">> :> <<"x", NUL, "y">>) @@ (<<"a", "/", "b">> :> <<>>) }
UpFiles == { (<<"a">> :> <<"x">>) @@ (<<"..", "/", "a">> :> <<"y">>) }
=============================================================================
