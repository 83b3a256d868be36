---------------------------- MODULE SyscallLoad ----------------------------
(***************************************************************************)
(* The load_* functions of quickjs/ckb_module.c: the arguments of the      *)
(* JavaScript call, the probe of the length, the buffer, and the           *)
(* ArrayBuffer, the number or the exception that comes back.               *)
(*                                                                         *)
(* The thirteen functions differ in the system call they name; here a call *)
(* names the item it asks for and whether it takes a field.  An argument   *)
(* is a number, undefined, or a value JS_ToInt64 throws on.                *)
(***************************************************************************)
EXTENDS Integers, Sequences

CONSTANTS
    Width,      \* bits of a size_t
    Items,      \* what the VM can load: <<index, field>> |-> bytes
    HashBytes,  \* the bytes of the transaction hash and of the script hash
    Indexes,    \* the indexes a script asks for
    Rests,      \* the lists of arguments after index and source
    HeapSize,   \* bound: bytes malloc can hand out, below 2^Width - 1
    MaxLive     \* bound: buffers alive at once

VARIABLES
    avail,      \* bytes malloc can still hand out
    live,       \* the ArrayBuffers a script holds, by number
    last        \* history: the last call, the heap it met and its result

loadVars == <<avail, live, last>>

-----------------------------------------------------------------------------
Num(n) == [type |-> "number", n |-> n]
Undefined == [type |-> "undefined"]
Symbol == [type |-> "symbol"]

SizeT(n) == n % 2^Width
NO_VALUE == SizeT(-1)
SmallerOf(a, b) == IF a < b THEN a ELSE b

(* JS_ToInt64 and the assignment to a size_t.                              *)
ToSize(v) == IF v.type = "number" THEN SizeT(v.n) ELSE 0

(* What the system hands out is bytes, a hash has some; a number is what   *)
(* JS_ToInt64 makes of one, and none of these is as large as NO_VALUE.     *)
IsText(bytes) == bytes \in Seq({bytes[i] : i \in DOMAIN bytes})
IsArgument(v) ==
    v.type = "number" => v.n \in Int /\ -2^Width < v.n /\ v.n < NO_VALUE

LoadAssumption ==
    /\ 2^Width \in Nat \ {0, 1}
    /\ HeapSize \in Nat
    /\ \A key \in DOMAIN Items : IsText(Items[key])
    /\ IsText(HashBytes) /\ HashBytes # <<>> /\ Len(HashBytes) < NO_VALUE
    /\ \A rest \in Rests :
          rest \in Seq({rest[i] : i \in DOMAIN rest}) /\ \A i \in DOMAIN rest : IsArgument(rest[i])
ASSUME LoadAssumed == LoadAssumption

Throw == [type |-> "exception"]
Buffer(bytes) == [type |-> "buffer", bytes |-> bytes]
Length(n) == [type |-> "length", n |-> n]
Failed == [ret |-> Throw, took |-> 0]

(* The system call: at most want bytes from an offset, and how many there  *)
(* are from there on.                                                      *)
Loaded(data, want, offset) ==
    LET from == SmallerOf(offset, Len(data))
        size == Len(data) - from
    IN  [len |-> size, bytes |-> SubSeq(data, from + 1, from + SmallerOf(want, size))]

(* length, offset and field, each NO_VALUE when omitted.                   *)
parse_args(has_field, rest) ==
    LET k == IF has_field THEN 1 ELSE 0
        at(i) == IF i <= Len(rest) THEN ToSize(rest[i]) ELSE NO_VALUE
    IN  [ok |-> \A i \in 1..SmallerOf(Len(rest), k + 2) : rest[i].type # "symbol",
         field |-> IF has_field THEN at(1) ELSE NO_VALUE,
         length |-> at(k + 1), offset |-> at(k + 2)]

\* Mutant: the length the system call reports is not cut to the request.
real_len_reported(len, length) == len
real_len(len, length) == IF len < length THEN len ELSE length

probe(data, offset) == Loaded(data, 0, offset).len

(* The ArrayBuffer: the bytes the system call wrote, in a buffer that held *)
(* others.                                                                 *)
Received(got, length) ==
    [i \in 1..real_len(got.len, length) |-> IF i <= Len(got.bytes) THEN got.bytes[i] ELSE "stale"]

(* data is the set holding the item, empty when the VM knows no such item. *)
(* took is what malloc gave and nobody freed when the call throws.         *)
syscall_load(data, length0, offset0) ==
    LET offset == IF offset0 = NO_VALUE THEN 0 ELSE offset0
        item == CHOOSE d \in data : TRUE
        length == IF length0 = NO_VALUE THEN probe(item, offset) ELSE length0
        bytes == Received(Loaded(item, length, offset), length)
    IN  IF length0 = 0
        THEN [ret |-> IF data = {} THEN Throw ELSE Length(probe(item, offset)), took |-> 0]
        ELSE IF length0 = NO_VALUE /\ data = {} THEN Failed
        ELSE IF length > avail THEN Failed
        ELSE [ret |-> IF data = {} THEN Throw ELSE Buffer(bytes), took |-> length]

-----------------------------------------------------------------------------
LoadInit ==
    /\ avail = HeapSize /\ live = <<>>
    /\ last = [item |-> {}, rest |-> <<>>, room |-> HeapSize, ret |-> Throw]

(* What the call took belongs to its ArrayBuffer; no error path frees it.  *)
Finish(r, data, rest) ==
    /\ avail' = avail - r.took
    /\ live' = IF r.ret.type = "buffer" THEN Append(live, r.took) ELSE live
    /\ last' = [item |-> data, rest |-> rest, room |-> avail, ret |-> r.ret]

Data(key) == {Items[k] : k \in {key} \cap DOMAIN Items}

(* load_transaction, load_script, load_cell, load_input, load_header,      *)
(* load_witness, load_cell_data.                                           *)
load(index, rest) ==
    LET a == parse_args(FALSE, rest)
        data == Data(<<index, NO_VALUE>>)
    IN  /\ Len(live) < MaxLive
        /\ Finish(IF a.ok THEN syscall_load(data, a.length, a.offset)
                  ELSE Failed, data, rest)

(* load_cell_by_field, load_header_by_field, load_input_by_field.          *)
load_by_field(index, rest) ==
    LET a == parse_args(TRUE, rest)
        data == IF ~a.ok \/ a.field = NO_VALUE THEN {} ELSE Data(<<index, a.field>>)
    IN  /\ Len(live) < MaxLive
        /\ Finish(IF a.ok THEN syscall_load(data, a.length, a.offset)
                  ELSE Failed,
                  data, IF rest = <<>> THEN rest ELSE Tail(rest))

(* load_tx_hash and load_script_hash do not look at their arguments.       *)
load_hash(rest) ==
    /\ Len(live) < MaxLive
    /\ Finish(syscall_load({HashBytes}, Len(HashBytes), 0), {HashBytes}, rest)

(* The collector finds an ArrayBuffer dead and calls my_free.              *)
my_free(i) ==
    /\ avail' = avail + live[i]
    /\ live' = SubSeq(live, 1, i - 1) \o SubSeq(live, i + 1, Len(live))
    /\ UNCHANGED last

LoadNext ==
    \/ \E i \in Indexes, rest \in Rests : load(i, rest) \/ load_by_field(i, rest)
    \/ load_hash(<<>>)
    \/ \E i \in 1..Len(live) : my_free(i)

LoadSpec == LoadInit /\ [][LoadNext]_loadVars

-----------------------------------------------------------------------------
(* Properties.                                                             *)

(* What docs/syscalls.md promises for length and offset, by its own five   *)
(* cases; more arguments are ignored.                                      *)
Promised(data, rest) ==
    LET offset == IF Len(rest) >= 2 THEN SmallerOf(rest[2].n, Len(data)) ELSE 0
        there == SubSeq(data, offset + 1, Len(data))
    IN  IF rest = <<>> THEN Buffer(there)
        ELSE IF rest[1].n = 0 THEN Length(Len(there))
        ELSE Buffer(SubSeq(there, 1, SmallerOf(rest[1].n, Len(there))))

Natural(rest) == \A i \in 1..Len(rest) : rest[i].type = "number" /\ rest[i].n >= 0

(* Every load with natural length and offset gives what the document says, *)
(* whatever the length of the data; it throws exactly when the item does   *)
(* not exist or the bytes asked for do not fit into the heap.              *)
PartialLoadExact ==
    Natural(last.rest) =>
        IF last.item = {} THEN last.ret = Throw
        ELSE LET data == CHOOSE d \in last.item : TRUE
                 wanted == IF last.rest = <<>> THEN Len(data) ELSE last.rest[1].n
             IN  last.ret = IF wanted > last.room THEN Throw
                            ELSE Promised(data, last.rest)

Total(sizes) ==
    LET sum[n \in 0..Len(sizes)] == IF n = 0 THEN 0 ELSE sum[n - 1] + sizes[n]
    IN  sum[Len(sizes)]

Lost == HeapSize - avail - Total(live)

(* Memory is lost only by asking, with a length, for an item that does not *)
(* exist: the buffer is there before the system call fails.                *)
LossExplained == Lost' # Lost => last'.item = {} /\ last'.rest # <<>>

(* Every call of a load function returns what is promised and loses memory *)
(* only where that is explained (syscall_load); collecting a buffer loses  *)
(* none.  Before the first call there is nothing to promise.               *)
LoadsAsPromised == [][PartialLoadExact' /\ LossExplained]_loadVars
=============================================================================
