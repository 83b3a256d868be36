-------------------------------- MODULE Stdio -------------------------------
(***************************************************************************)
(* The streams of include/c-stdlib/src/stdio_impl.c over the files of a    *)
(* mounted file system (get_file of include/ckb_cell_fs.c), with local     *)
(* access off.  Without file system access every call, and with it every   *)
(* call but those below, ends the machine with -1.                         *)
(***************************************************************************)
EXTENDS Integers, Sequences, SequencesExt, FiniteSets

CONSTANTS
    Files,        \* file name |-> contents, a sequence of bytes
    Names,        \* names to open, some of no file
    Requests,     \* [size, nitems] of fread
    Modulus,      \* 2^32, made smaller
    MaxStreams    \* bound: fopen calls

VARIABLES
    fs_access,    \* s_fs_access_enabled
    streams,      \* the FILEs handed out, in order
    blocks,       \* heap blocks allocated and not freed
    status,       \* "running" or what the machine exited with
    last          \* the last call: what it was to read and what it gave

vars == <<fs_access, streams, blocks, status, last>>

Quiet == [call |-> "none"]
Open == {s \in 1..Len(streams) : streams[s].open}
Contents(s) == Files[streams[s].name]
Left(s) == SubSeq(Contents(s), streams[s].offset + 1, Len(Contents(s)))

-----------------------------------------------------------------------------
Init == fs_access = FALSE /\ streams = <<>> /\ blocks = 0 /\ status = "running" /\ last = Quiet

enable_fs_access ==
    /\ status = "running" /\ ~fs_access
    /\ fs_access' = TRUE /\ UNCHANGED <<streams, blocks, status, last>>

(* NOT_IMPL: any call before that, and the functions that are stubs.       *)
NOT_IMPL ==
    /\ status = "running"
    /\ status' = "exited -1" /\ UNCHANGED <<fs_access, streams, blocks, last>>

(* freefile gives back the FILE; the FSFile behind it stays.               *)
Freed == 1

(* The FILE comes first; a name that is not found leaves it allocated.     *)
fopen(name) ==
    /\ status = "running" /\ fs_access /\ Len(streams) < MaxStreams
    /\ \/ /\ name \in DOMAIN Files
          /\ streams' = Append(streams, [name |-> name, offset |-> 0, open |-> TRUE, got |-> <<>>])
          /\ blocks' = blocks + 2
       \/ /\ name \notin DOMAIN Files
          /\ streams' = Append(streams, [name |-> name, offset |-> 0, open |-> FALSE, got |-> <<>>])
          /\ blocks' = blocks + 1
    /\ last' = Quiet /\ UNCHANGED <<fs_access, status>>

fclose(s) ==
    /\ status = "running" /\ s \in Open
    /\ streams' = [streams EXCEPT ![s].open = FALSE]
    /\ blocks' = blocks - Freed
    /\ last' = Quiet /\ UNCHANGED <<fs_access, status>>

fgetc(s) ==
    /\ status = "running" /\ s \in Open
    /\ \/ /\ Left(s) = <<>>
          /\ last' = [call |-> "fgetc", at |-> s, returned |-> -1, bytes |-> 0, want |-> 1, size |-> 1]
          /\ UNCHANGED streams
       \/ /\ Left(s) # <<>>
          /\ last' = [call |-> "fgetc", at |-> s, returned |-> Head(Left(s)), bytes |-> 1, want |-> 1, size |-> 1]
          /\ streams' = [streams EXCEPT ![s].offset = @ + 1, ![s].got = Append(@, Head(Left(s)))]
    /\ UNCHANGED <<fs_access, blocks, status>>

\* Mutant: the last byte is left when more is asked for.
BytesToRead_short(size, nitems, left) ==
    IF (size * nitems) % Modulus > left THEN left - 1 ELSE (size * nitems) % Modulus

(* bytes_to_read: a product of 32 bits, and not more than there is.        *)
BytesToRead(size, nitems, left) ==
    IF (size * nitems) % Modulus > left THEN left ELSE (size * nitems) % Modulus

(* At the end of the file the result is 0; otherwise the bytes divided by  *)
(* the size, rounded up.  A size of zero is not among the requests.        *)
fread(s, size, nitems) ==
    LET n == IF Left(s) = <<>> THEN 0 ELSE BytesToRead(size, nitems, Len(Left(s)))
    IN  /\ status = "running" /\ s \in Open
        /\ streams' = [streams EXCEPT ![s].offset = @ + n,
                                      ![s].got = @ \o SubSeq(Left(s), 1, n)]
        /\ last' = [call |-> "fread", at |-> s, returned |-> (n + size - 1) \div size,
                    bytes |-> n, want |-> size * nitems, size |-> size]
        /\ UNCHANGED <<fs_access, blocks, status>>

(* feof and ferror: the file is at its end; it is never in error.          *)
feof(s) ==
    /\ status = "running" /\ s \in Open
    /\ last' = [call |-> "feof", at |-> s, returned |-> IF Left(s) = <<>> THEN 1 ELSE 0,
                bytes |-> 0, want |-> 0, size |-> 1]
    /\ UNCHANGED <<fs_access, streams, blocks, status>>

Next ==
    \/ enable_fs_access \/ NOT_IMPL
    \/ \E name \in Names : fopen(name)
    \/ \E s \in 1..MaxStreams :
          \/ fclose(s) \/ fgetc(s) \/ feof(s)
          \/ \E r \in Requests : fread(s, r.size, r.nitems)

Spec == Init /\ [][Next]_vars

-----------------------------------------------------------------------------
(* However fgetc and fread are mixed and whatever other streams on the     *)
(* same file do, a stream gives every byte of its file once, in order: a   *)
(* call gives as much as was asked for and there is, or, when a product    *)
(* does not fit in 32 bits ("TODO", 265), less and never more; fread       *)
(* counts the items it began, the last of which may not be whole (274);    *)
(* and the end is reported exactly when all was given (fgetc, fread,       *)
(* feof).                                                                  *)
StreamExact ==
    /\ \A s \in Open : IsPrefix(streams[s].got, Contents(s)) /\ Len(streams[s].got) = streams[s].offset
    /\ last.call # "none" =>
          LET before == Len(streams[last.at].got) - last.bytes
              left == Len(Contents(last.at)) - before
              given == IF last.want < left THEN last.want ELSE left
          IN  /\ last.bytes = given \/ (last.want >= Modulus /\ last.bytes < given)
              /\ last.call = "fread" =>
                    /\ last.bytes <= last.returned * last.size
                    /\ last.returned * last.size < last.bytes + last.size
              /\ last.call = "feof" => (last.returned = 1 <=> left = 0)
              /\ last.call = "fgetc" => (last.returned = -1 <=> left = 0)

(* A file that was open costs one block for good, its FSFile, and a name   *)
(* that was not found one, its FILE: no sequence of calls costs more       *)
(* (fopen, freefile).                                                      *)
BlocksAccounted == blocks = Len(streams) + Cardinality(Open)

=============================================================================
