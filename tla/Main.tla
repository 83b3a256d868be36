-------------------------------- MODULE Main --------------------------------
(***************************************************************************)
(* The command line, the choice of the program and its evaluation: main,   *)
(* parse_args, compile_from_file, eval_buf, run_from_local_file,           *)
(* run_from_cell_data and run_from_file_system_buf of quickjs/qjs.c, and   *)
(* load_cell_code_info and load_cell_code of quickjs/ckb_module.c.         *)
(*                                                                         *)
(* A text is a sequence of characters.  "t" stands for code that throws,   *)
(* "s" for code that does not parse, BC for the first byte of bytecode.    *)
(* An argument is a text, too; an option is the text of its two            *)
(* characters.  The files of an image end in a NUL, as CellFs packs them.  *)
(***************************************************************************)
EXTENDS Integers, Sequences, SequencesExt

CONSTANTS
    ArgLists,      \* command lines to run
    LocalFiles,    \* what read_local_file may find: texts, or NoFile
    Scripts,       \* script args: [size, hash]; hash names the code cell
    Cells,         \* code hash |-> contents: a text, or an image
    Stacks,        \* what the stack may hold behind a file that was read
    BufSize        \* the 512 KiB of the buffers for local files, made small

NUL == "nul"
BC == "bc"
NoFile == [type |-> "none"]
TextFile(t) == [type |-> "text", text |-> t]
Image(files) == [type |-> "image", files |-> files]

VARIABLES
    argv,          \* the command line
    env,           \* [local, script]: what this run finds outside
    type,          \* RunJSType
    buf,           \* the memory that was read: what it holds and a length
    local_access,  \* s_local_access_enabled
    result,        \* what was evaluated or compiled, and how that ended
    phase,         \* the next step
    err            \* the variable err of main

vars == <<argv, env, type, buf, local_access, result, phase, err>>

Nothing == [mode |-> "none", text |-> <<>>, threw |-> FALSE]
Option(c) == <<"-", c>>
Has(c) == \E i \in 1..Len(argv) : argv[i] = Option(c)

(* The parser stops at a NUL at or behind the length it was given; up to   *)
(* there everything is program text.                                       *)
SourceRead(mem, len) ==
    SubSeq(mem, 1, SelectInSubSeq(mem, len + 1, Len(mem), LAMBDA c : c = NUL) - 1)

Throws(text) == Contains(text, "t") \/ Contains(text, "s")
Parses(text) == ~Contains(text, "s") /\ ~Contains(text, BC)

-----------------------------------------------------------------------------
Init ==
    /\ argv \in ArgLists
    /\ env \in [local : LocalFiles, script : Scripts]
    /\ type = "none" /\ buf = [mem |-> <<NUL>>, len |-> 0]
    /\ local_access = FALSE /\ result = Nothing /\ phase = "parse_args" /\ err = 0

(* -c wins over all, -e excludes -r and -f, -r and -f go together.         *)
RunType ==
    CASE Has("c") -> "CompileWithFile"
      [] ~Has("c") /\ Has("e") ->
             IF Len(argv) < 2 \/ Has("r") \/ Has("f") THEN "RunJsError" ELSE "RunJsWithCode"
      [] ~Has("c") /\ ~Has("e") /\ Has("r") ->
             IF Has("f") THEN "RunJsWithDbgFileSystem" ELSE "RunJsWithDbgFile"
      [] OTHER -> IF Has("f") THEN "RunJsWithFileSystem" ELSE "RunJsWithFile"

parse_args ==
    /\ phase = "parse_args"
    /\ type' = RunType
    /\ phase' = IF RunType = "RunJsError" THEN "exit" ELSE "load"
    /\ err' = IF RunType = "RunJsError" THEN -1 ELSE 0
    /\ UNCHANGED <<argv, env, buf, local_access, result>>

Exit(e) == err' = e /\ phase' = "exit"

(* The argument behind the first, wherever -e stands.                      *)
CommandLineCode ==
    /\ phase = "load" /\ type = "RunJsWithCode"
    /\ buf' = [mem |-> Append(argv[2], NUL), len |-> Len(argv[2])]
    /\ phase' = "eval"
    /\ UNCHANGED <<argv, env, type, local_access, result, err>>

\* Mutant: a full buffer is taken for the file.
Truncated_unchecked(count) == FALSE

(* A buffer that is full may have lost the end of the file.                *)
Truncated(count) == count = BufSize

(* What read_local_file puts into the buffer.                              *)
Read(text) == SubSeq(text, 1, IF Len(text) < BufSize THEN Len(text) ELSE BufSize)

(* -r and -c: the buffer on the stack is not cleared; run_from_local_file  *)
(* ends the text with a NUL, compile_from_file does not.                   *)
read_local_file ==
    /\ phase = "load"
    /\ type \in {"RunJsWithDbgFile", "RunJsWithDbgFileSystem", "CompileWithFile"}
    /\ local_access' = TRUE
    /\ \/ /\ env.local.type = "none" \/ (env.local.type = "text" /\ Truncated(Len(Read(env.local.text))))
          /\ Exit(-1) /\ UNCHANGED buf
       \/ /\ env.local.type = "text" /\ ~Truncated(Len(Read(env.local.text)))
          /\ type # "RunJsWithDbgFileSystem"
          /\ \E stack \in Stacks :
                buf' = [mem |-> Read(env.local.text) \o
                                (IF type = "CompileWithFile" THEN stack ELSE <<NUL>>),
                        len |-> Len(Read(env.local.text))]
          /\ phase' = "eval" /\ UNCHANGED err
       \/ /\ env.local.type = "text" /\ ~Truncated(Len(Read(env.local.text)))
          /\ type = "RunJsWithDbgFileSystem"
          /\ Exit(-1) /\ UNCHANGED buf
       \/ /\ env.local.type = "image"
          /\ buf' = env.local
          /\ IF type = "RunJsWithDbgFileSystem" THEN phase' = "mount" /\ UNCHANGED err ELSE Exit(-1)
    /\ UNCHANGED <<argv, env, type, result>>

(* The args of the script name the cell with the code: 2 bytes of options, *)
(* 32 of hash and 1 of hash type, then anything.                           *)
LoaderArgsSize == 2 + 32 + 1

load_cell_code ==
    /\ phase = "load" /\ type \in {"RunJsWithFile", "RunJsWithFileSystem"}
    /\ LET found == env.script.size >= LoaderArgsSize /\ env.script.hash \in DOMAIN Cells
           cell == Cells[env.script.hash]
           fs == type = "RunJsWithFileSystem"
       IN  \/ /\ ~found
              /\ Exit(IF env.script.size >= LoaderArgsSize THEN 1 ELSE -1) /\ UNCHANGED buf
           \/ /\ found /\ cell.type = "text"
              /\ IF cell.text = <<>> \/ fs THEN Exit(-1) /\ UNCHANGED buf
                 ELSE /\ buf' = [mem |-> Append(cell.text, NUL), len |-> Len(cell.text)]
                      /\ phase' = "eval" /\ UNCHANGED err
           \/ /\ found /\ cell.type = "image"
              /\ buf' = cell
              /\ IF fs THEN phase' = "mount" /\ UNCHANGED err ELSE Exit(-1)
    /\ UNCHANGED <<argv, env, type, local_access, result>>

(* main.js, and main.bc only without one; an empty file is an error.       *)
MainFile(files) ==
    {n \in {"main.js", "main.bc"} :
        /\ n \in DOMAIN files /\ files[n] # <<>>
        /\ n = "main.bc" => "main.js" \notin DOMAIN files}

run_from_file_system_buf ==
    /\ phase = "mount"
    /\ \/ \E n \in MainFile(buf.files) :
             /\ buf' = [mem |-> Append(buf.files[n], NUL), len |-> Len(buf.files[n])]
             /\ phase' = "eval" /\ UNCHANGED err
       \/ MainFile(buf.files) = {} /\ Exit(-1) /\ UNCHANGED buf
    /\ UNCHANGED <<argv, env, type, local_access, result>>

(* Bytecode is taken by its length, source up to a NUL.                    *)
Text == IF buf.mem[1] = BC THEN SubSeq(buf.mem, 1, buf.len) ELSE SourceRead(buf.mem, buf.len)

eval_buf ==
    /\ phase = "eval" /\ type # "CompileWithFile"
    /\ result' = [mode |-> "evaluated", text |-> Text, threw |-> Throws(Text)]
    /\ Exit(IF Throws(Text) THEN -1 ELSE 0)
    /\ UNCHANGED <<argv, env, type, buf, local_access>>

(* Compiling runs nothing; the bytecode goes to the output.                *)
compile_from_file ==
    /\ phase = "eval" /\ type = "CompileWithFile"
    /\ LET text == SourceRead(buf.mem, buf.len) IN
       /\ result' = [mode |-> "compiled", text |-> text, threw |-> ~Parses(text)]
       /\ Exit(IF Parses(text) THEN 0 ELSE -1)
    /\ UNCHANGED <<argv, env, type, buf, local_access>>

Next ==
    \/ parse_args \/ CommandLineCode \/ read_local_file \/ load_cell_code
    \/ run_from_file_system_buf \/ eval_buf \/ compile_from_file

Spec == Init /\ [][Next]_vars

-----------------------------------------------------------------------------
(* What the options ask for, read off their documentation: the text behind *)
(* -e; with -c or -r a local file, otherwise the cell the script names;    *)
(* with -f the main file of that file system.  {} if there is no such      *)
(* text, or none that may be run.                                          *)
Asked ==
    LET store == IF Has("r") \/ Has("c") THEN {env.local}
                 ELSE {Cells[h] : h \in {x \in {env.script.hash} :
                          env.script.size >= LoaderArgsSize /\ x \in DOMAIN Cells}}
        fits(t) == (Has("r") \/ Has("c")) => Len(t) < BufSize
        fs == Has("f") /\ ~Has("c")
        texts == {s.text : s \in {x \in store : x.type = "text" /\ ~fs /\ fits(x.text)}}
        mains == {IF "main.js" \in DOMAIN s.files THEN s.files["main.js"] ELSE s.files["main.bc"] :
                  s \in {x \in store : x.type = "image" /\ fs /\ DOMAIN x.files \cap {"main.js", "main.bc"} # {}}}
    IN  IF Has("e") /\ ~Has("c")
        THEN {argv[2] : i \in {j \in {1} : Len(argv) > 1 /\ ~Has("r") /\ ~Has("f")}}
        ELSE (IF Has("r") \/ Has("c") THEN texts ELSE texts \ {<<>>}) \cup (mains \ {<<>>})

(* JS_Eval wants a NUL behind its input (quickjs.h:793).  -c gives it the  *)
(* file as it was read, so the text goes on to the next NUL of the stack.  *)
CompiledBeyond(text) ==
    /\ Has("c") /\ env.local.type = "text"
    /\ \E stack \in Stacks : text = SourceRead(env.local.text \o stack, Len(env.local.text))

(* Whatever the options, files, cells and stale memory, what is evaluated  *)
(* or compiled is the text that was asked for, to its end and not further: *)
(* no truncated file and no other store, and with -c alone bytes left on   *)
(* the stack, which follow the whole file (run_from_local_file,            *)
(* run_from_cell_data, compile_from_file).                                 *)
ProgramExact ==
    result.mode # "none" => result.text \in Asked \/ CompiledBeyond(result.text)

(* The machine returns 0 exactly if there was a text to run and it ran     *)
(* without an exception, or to compile and what was compiled of it parsed: *)
(* no error on the way to it is lost, and no program that should run is    *)
(* refused (main, eval_buf).                                               *)
ExitCodeExact ==
    phase = "exit" =>
        (err = 0 <=> IF Has("c") THEN Asked # {} /\ Parses(result.text)
                     ELSE \E text \in Asked : ~Throws(text))

=============================================================================
