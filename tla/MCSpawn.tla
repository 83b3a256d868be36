------------------------------ MODULE MCSpawn ------------------------------
(* Machines that spawn each other, for SyscallSpawn.                       *)
EXTENDS SyscallSpawn

Typed(bytes) == [type |-> "typed", buffer |-> bytes, from |-> 1, to |-> Len(bytes)]
Short == Typed(<<"c">>)

(* One cell; hashes that are known, unknown, too short or not bytes.       *)
SomeCells == {<<"c", "1">>}
SpawnHashes == {Typed(<<"c", "1">>), Typed(<<"c", "2">>), Short,
                [Short EXCEPT !.type = "arraybuffer"]}

(* Whole arrays, a part of one, and an ArrayBuffer.                        *)
SpawnContents == {Typed(<<>>), Typed(<<"x">>), Typed(<<"x", "y", "z">>),
                  [Typed(<<"x", "y", "z">>) EXCEPT !.from = 2],
                  [Short EXCEPT !.type = "arraybuffer"]}

SomeLimits == {-1, 0, 2, 3}
SomeStatuses == {0, 1, 127, 128, 255, 256, -1}
=============================================================================
