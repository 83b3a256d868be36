---------------------------- MODULE SyscallSpawn ----------------------------
(***************************************************************************)
(* exec_cell, spawn_cell, set_content and exit of quickjs/ckb_module.c,    *)
(* over the machines they act on: a spawned machine runs while the one     *)
(* that spawned it waits, an executed program replaces its caller.         *)
(*                                                                         *)
(* A JavaScript argument that should be bytes is [type, buffer, from, to]: *)
(* a typed array shows the bytes from..to of its buffer.                   *)
(***************************************************************************)
EXTENDS Integers, Sequences, SequencesExt

CONSTANTS
    Cells,       \* the code hashes for which there is a cell
    Hashes,      \* arguments for code_hash
    Contents,    \* arguments for set_content
    Limits,      \* values of content_length
    Statuses,    \* arguments for exit
    Modulus,     \* 2^32 in the conversion of the exit code, made smaller
    MaxMachines, \* bound: machines that wait for each other
    MaxAlloc     \* bound: the largest buffer malloc can give

HashSize == 2    \* the bytes of a code hash, 32 in the code

VARIABLES
    machines,    \* the waiting machines and, last, the one that runs
    last         \* what the last call of the running machine gave

vars == <<machines, last>>

-----------------------------------------------------------------------------
None == [type |-> "none"]
UndefinedValue == [type |-> "undefined"]
Throw(arg) == [type |-> "exception", refused |-> arg.type]
Shown(arg) == SubSeq(arg.buffer, arg.from, arg.to)
Running == machines[Len(machines)]
Rest == SubSeq(machines, 1, Len(machines) - 1)

(* A machine: how much content its parent takes, the content it set; and,  *)
(* for the properties, the bytes its script meant to set.                  *)
Machine(limit) == [limit |-> limit, content |-> <<>>, meant |-> <<>>]

(* JS_GetTypedArrayBuffer and JS_GetArrayBuffer: the whole buffer behind a *)
(* typed array; nothing else will do.                                      *)
BytesOf(arg) == {arg.buffer : x \in {y \in {arg.type} : y = "typed"}}

(* code_hash: 32 bytes.                                                    *)
CodeHash(arg) == {b \in BytesOf(arg) : Len(b) = HashSize}

Int8(n) == ((n + 128) % 256) - 128

Uint32(n) == n % Modulus

-----------------------------------------------------------------------------
Init == machines = <<Machine(0)>> /\ last = None

(* The cell is found and the new program replaces this one, or the call    *)
(* comes back and is not looked at.                                        *)
exec_cell(hash) ==
    \/ /\ CodeHash(hash) = {}
       /\ last' = Throw(hash) /\ UNCHANGED machines
    \/ /\ \E h \in CodeHash(hash) : h \in Cells
       /\ last' = None /\ UNCHANGED machines
    \/ /\ \E h \in CodeHash(hash) : h \notin Cells
       /\ last' = [type |-> "undefined", failed |-> TRUE] /\ UNCHANGED machines

(* content_length goes to malloc as a size: a negative one is too large.   *)
spawn_cell(hash, content_length) ==
    /\ Len(machines) < MaxMachines
    /\ LET ok == /\ \E h \in CodeHash(hash) : h \in Cells
                 /\ content_length \in 0..MaxAlloc
       IN  \/ ok /\ machines' = Append(machines, Machine(content_length)) /\ last' = None
           \/ ~ok /\ last' = Throw(hash) /\ UNCHANGED machines

(* The VM keeps no more than the parent left room for.                     *)
Kept(bytes, limit) == IF Len(bytes) > limit THEN SubSeq(bytes, 1, limit) ELSE bytes

set_content(arg) ==
    \/ /\ \E b \in BytesOf(arg) :
            machines' = Append(Rest, [Running EXCEPT !.content = Kept(b, Running.limit),
                                                     !.meant = Shown(arg)])
       /\ last' = UndefinedValue
    \/ BytesOf(arg) = {} /\ last' = Throw(arg) /\ UNCHANGED machines

(* The object spawn_cell makes for the parent, and for the properties what *)
(* the child meant to say.                                                 *)
SpawnResult(child, status) ==
    [type |-> "spawned", exit_code |-> Uint32(Int8(status)), content |-> child.content,
     meant |-> child.meant, limit |-> child.limit, status |-> status]

(* ckb.exit, or the return of main.  The last machine ends the script.     *)
exit(status) ==
    /\ Len(machines) > 1
    /\ machines' = Rest
    /\ last' = SpawnResult(Running, status)

Next ==
    \/ \E h \in Hashes : exec_cell(h)
    \/ \E h \in Hashes, n \in Limits : spawn_cell(h, n)
    \/ \E c \in Contents : set_content(c)
    \/ \E s \in Statuses : exit(s)

Spec == Init /\ [][Next]_vars

-----------------------------------------------------------------------------
(* Properties.                                                             *)

(* A parent gets the bytes its child, or the program the child executed,   *)
(* meant to set last, up to the length it asked for: those its typed array *)
(* shows (set_content).                                                    *)
ContentDelivered ==
    last.type = "spawned" => last.content = SubSeq(last.meant, 1,
        IF Len(last.meant) < last.limit THEN Len(last.meant) ELSE last.limit)
=============================================================================
