------------------------------- MODULE MCHost -------------------------------
(***************************************************************************)
(* The parts of the program around the engine for TLC, one of them in each *)
(* behaviour: the file system of a cell, the modules that are loaded from  *)
(* one, loading by system calls, the command line and the streams of       *)
(* stdio.                                                                  *)
(***************************************************************************)
EXTENDS MCCellFs, MCModuleLoader, SyscallLoad

VARIABLES
    part,                            \* the component this behaviour is about
    call,                            \* the last call of Stdio
    argv, env, type, buf, local_access, result, main_phase, main_err,   \* Main
    fs_access, streams, blocks, status                                  \* Stdio

mainVars == <<argv, env, type, buf, local_access, result, main_phase, main_err>>
stdioVars == <<call, fs_access, streams, blocks, status>>
hostVars == <<part, mainVars, stdioVars, loadVars, fsVars, vars>>

Off == "off"
NoMain == /\ argv = Off /\ env = Off /\ type = Off /\ buf = Off
          /\ local_access = Off /\ result = Off /\ main_phase = Off /\ main_err = Off
NoStdio == call = Off /\ fs_access = Off /\ streams = Off /\ blocks = Off /\ status = Off

-----------------------------------------------------------------------------
(* Loading: an empty item, one of three bytes, and a field of two; no      *)
(* value is 255 in a word of 8 bits.                                       *)
SomeItems ==
    (<<0, 255>> :> <<>>) @@ (<<1, 255>> :> <<"a", "b", "c">>) @@
    (<<1, 2>> :> <<"d", "e">>)
LoadLengths == {Num(n) : n \in {0, 1, 3, 5, -1, -2}} \cup {Symbol}
LoadOffsets == {Num(n) : n \in {1, 3, 7}} \cup {Undefined}
ArgumentLists ==
    {<<>>} \cup {<<l>> : l \in LoadLengths} \cup (LoadLengths \X LoadOffsets)
        \cup {<<Num(2), l, Num(1)>> : l \in LoadLengths}

SomeHash == <<"h1", "h2">>

-----------------------------------------------------------------------------
(* The command line: up to three options and texts, files of every kind.   *)
(* Behind a file the stack holds a NUL at once, or the end of a text first.*)
Text(t) == [type |-> "text", text |-> t]
Img(contents) == [type |-> "image", files |-> contents]
Words == {<<"-", o>> : o \in {"e", "f", "r", "c"}} \cup {<<"v">>, <<"v", "t">>}
CommandLines == {<<>>} \cup {<<a>> : a \in Words} \cup {<<a, b>> : a, b \in Words}
                   \cup {<<a, b, c>> : a, b \in Words, c \in {<<"-", "f">>, <<"-", "r">>, <<"v">>}}
TextFiles == {[type |-> "none"]} \cup {Text(t) : t \in {<<>>, <<"v">>, <<"v", "v", "t">>, <<"bc", "v">>, <<"s">>, <<"v", "v", "v", "v">>}}
Images == {Img(f) : f \in UNION {[d -> {<<>>, <<"v">>, <<"bc", "t">>}] : d \in SUBSET {"main.js", "main.bc"}}}
SomeLocalFiles == TextFiles \cup Images
SomeScripts == [size : {34, 35}, hash : {"text", "empty", "long", "image", "absent"}]
SomeCells == [h \in {"text", "empty", "long", "image"} |->
              CASE h = "text" -> Text(<<"bc", "v">>)
                [] h = "empty" -> Text(<<>>)
                [] h = "long" -> Text(<<"v", "v", "v", "v">>)
                [] h = "image" -> Img([n \in {"main.js", "main.bc"} |->
                                            IF n = "main.js" THEN <<"v">> ELSE <<"bc", "v">>])]

Leftovers == {<<"nul">>, <<"v", "nul">>, <<"s", "nul">>}

Run == INSTANCE Main WITH
    ArgLists <- CommandLines, LocalFiles <- SomeLocalFiles, Scripts <- SomeScripts,
    Cells <- SomeCells, Stacks <- Leftovers, BufSize <- 4,
    phase <- main_phase, err <- main_err

-----------------------------------------------------------------------------
(* Streams: an empty file, one of three bytes and a name of no file; one   *)
(* request has a product that does not fit in a word.                      *)
StreamFiles == [f \in {"a", "b"} |-> IF f = "a" THEN <<>> ELSE <<1, 2, 3>>]
SomeRequests == {[size |-> 1, nitems |-> 2], [size |-> 2, nitems |-> 1],
                 [size |-> 1, nitems |-> 7], [size |-> 3, nitems |-> 0],
                 [size |-> 3, nitems |-> 3]}

Streams == INSTANCE Stdio WITH last <- call,
    Files <- StreamFiles, Names <- {"a", "b", "c"}, Requests <- SomeRequests,
    Modulus <- 8, MaxStreams <- 3

-----------------------------------------------------------------------------
(* What has no value that stands for rest starts as it does anyway, from    *)
(* one disk and one program in the parts that are not about them.          *)
AnyDisk == CHOOSE d \in Disks : TRUE
AnyProgram == CHOOSE fsys \in FileSystems : TRUE
HostInit ==
    /\ Init /\ FsInit /\ LoadInit
    /\ \/ disk = AnyDisk /\ part = "loader" /\ NoMain /\ NoStdio
       \/ files = AnyProgram /\ part = "cellfs" /\ NoMain /\ NoStdio
       \/ disk = AnyDisk /\ files = AnyProgram /\
             \/ part = "load" /\ NoMain /\ NoStdio
             \/ part = "main" /\ Run!Init /\ NoStdio
             \/ part = "stdio" /\ Streams!Init /\ NoMain

LoaderStep ==
    /\ part = "loader" /\ Next
    /\ UNCHANGED <<part, fsVars, loadVars, mainVars, stdioVars>>

HostNext ==
    \/ part = "cellfs" /\ FsNext /\ UNCHANGED <<part, vars, loadVars, mainVars, stdioVars>>
    \/ LoaderStep
    \/ part = "load" /\ LoadNext /\ UNCHANGED <<part, fsVars, vars, mainVars, stdioVars>>
    \/ part = "main" /\ Run!Next /\ UNCHANGED <<part, fsVars, vars, loadVars, stdioVars>>
    \/ part = "stdio" /\ Streams!Next /\ UNCHANGED <<part, fsVars, vars, loadVars, mainVars>>

(* The VM is one thread, which runs until main returns.                    *)
HostSpec == HostInit /\ [][HostNext]_hostVars /\ WF_hostVars(LoaderStep)

-----------------------------------------------------------------------------
(* The properties of the parts.                                            *)

(* main returns, for every graph of imports: the recursions that resolve,  *)
(* link and evaluate modules end (js_resolve_module, js_link_module,       *)
(* js_evaluate_module).                                                    *)
MainReturns == part = "loader" => Terminates

(* What is evaluated or compiled is the text that the options and the      *)
(* environment select, and the machine returns 0 exactly when there was    *)
(* one and it ran or compiled (main, eval_buf).  Named in ProgramExact:    *)
(* -c compiles what the stack holds behind the file with it.               *)
MainExact ==
    /\ part = "main" => Run!ProgramExact /\ Run!ExitCodeExact

(* A stream gives every byte of its file once, in order, also when a       *)
(* product of fread does not fit in its word, and reports the end exactly  *)
(* at the end; the number fread returns is that of the items it began;     *)
(* opening costs one block for good and no more (fopen, fgetc, fread,      *)
(* feof, fclose).                                                          *)
StreamsExact ==
    /\ part = "stdio" => Streams!StreamExact /\ Streams!BlocksAccounted
=============================================================================
