# A TLA+ verification of ckb-js-vm

ckb-js-vm is a QuickJS interpreter built as a bare RISC-V program for the CKB
virtual machine. There is no operating system under it: the repository brings
its own heap, its own C library, a read-only file system packed into a cell, a
module loader on top of that file system, and JavaScript bindings for the CKB
system calls. This directory models those parts, and the parts of the QuickJS
engine whose correctness is hardest to test, in TLA+, checks them with TLC on
small instances, and proves with TLAPS the main facts about the heap, the file
system, the module loader, the Map of the language and async generators. Every
path below is relative to `src/`.

## 1. Inventory

| Part | Source | State | Operations | Who calls it |
|---|---|---|---|---|
| Heap allocator | `include/c-stdlib/src/malloc_impl.c` | the break, 64 free lists, `binmap`, a header in front of every chunk | `malloc`, `realloc`, `free`, `malloc_config` | every other part; QuickJS for every object |
| Cell file system | `include/ckb_cell_fs.c`, `tools/fs.lua` | a list of mounted images, newest first | `ckb_load_fs`, `ckb_get_file`, `ckb_reset_fs`; `pack`, `unpack` off chain | main mounts, the module loader and stdio look up |
| Module loader | `quickjs/std_module.c`, module part of `quickjs/quickjs.c` | the loaded modules and their flags, export and import tables | normalise, find, load, resolve, link, evaluate | QuickJS for every `import` |
| Main | `quickjs/qjs.c` | the choice of mode and its buffer | parse the options, load the program, evaluate, compile | the CKB VM |
| System call bindings | `quickjs/ckb_module.c` | none of its own, buffers per call | `load_*`, `exec_cell`, `spawn_cell`, `set_content`, `exit` | JavaScript |
| stdio | `include/c-stdlib/src/stdio_impl.c` | FILE objects with a position | `fopen`, `fread`, `fgetc`, `feof`, `fclose` | C code in the VM; nothing in the repository calls `enable_fs_access`, without which every call ends the machine |
| printf | `include/c-stdlib/src/printf_impl.c` | the output position | `snprintf`, `printf`, `ckb_printf` | QuickJS for numbers and messages, `console.log` |
| QuickJS core | `quickjs/quickjs.c` | the heap of objects with counts and shapes, the job queue, compiled functions | parse, compile, run; properties, arrays, maps, proxies, promises, generators, garbage collection, serialisation | main |
| libregexp | `quickjs/libregexp.c` | the machine's stack and captures | `lre_compile`, `lre_exec` | RegExp |
| libbf | `quickjs/libbf.c` | numbers as limb arrays | arithmetic with rounding | BigInt, BigFloat, BigDecimal |

How they interact: main reads a program from a cell (through the system calls)
or from the host (when debugging), mounts it as a file system when told to, and
evaluates `main.js` or `main.bc`. QuickJS calls back into the loader for each
`import`; the loader looks the file up in the mounted images and compiles source
or reads bytecode. The whole VM is one thread, but JavaScript interleaves:
callbacks, getters, traps, iterators and promise jobs run in the middle of
engine operations and change the state these have read. Other machines are
spawned and waited for. Nothing is persisted, nothing is sent: the hard
behaviours are long sequences of calls, error paths in the middle of a
multi-step operation, boundary sizes, fast paths that must agree with slow ones,
and re-entrance.

What makes each part correct:

* *Heap*: blocks never overlap; nothing leaks inside the allocator; free memory
  is found again whole; a failing call changes nothing; resizing keeps the data.
* *File system*: what was packed is found under its name with its contents; the
  newest image shadows older ones; a failed mount leaves the mounted list alone.
* *Modules*: every module is evaluated once, after what it imports, for every
  import graph, cycles included; a name stands for the variable the standard
  says; a load error reaches main.
* *Main*: exactly one way of running is chosen and its errors become the exit code.
* *Bindings*: a JavaScript call returns what the system call delivered or throws.
* *stdio*: reads deliver each byte once, in order, and report the end of file.
* *The engine*: what a script observes is what ECMAScript says, whatever path the
  engine takes; no object that can be reached is freed and all garbage is.

The points at which this is hard to test are listed under `hazards` in
`PROJECT.json`, each at its source line.

`docs/syscalls.md` documents a `ckb.mount` that `ckb_module.c` does not bind; there
is nothing to model.

## 2. Plan

Done:

1. `Malloc`: the allocator in full, an abstract `Allocator`, the refinement
   between them, and TLAPS proofs of the safety invariants (section 3).
2. `CellFs`: images as `pack` writes them, mounting with allocation failures,
   lookup; lookups against a plain map from names to contents (section 4).
3. `ModuleLoader`: normalisation, loaded list, source and bytecode modules,
   resolve, link and evaluate as a stack machine over all small import graphs;
   termination under weak fairness (section 5).
4. `Main`, `SyscallLoad`, `SyscallSpawn`, `Stdio`, `Printf`: the program around
   the interpreter (section 6).
5. The engine (section 7) and its libraries (section 8), each against an
   independent reference: what ECMAScript, the C standard or exact arithmetic
   gives for the same input.

Proved (a module of theorems for each, section 2.2): `Malloc` in full, `CellFs`,
`ModuleLoader`, `MapSet` with its refinement, `AsyncGenerator`, `Gc`,
`SyscallLoad`.

Next, and model-checked until then: that `Promise` settles each promise once
(`PromisesExact`) and that a stream gives each byte once (`StreamsExact`).

### 2.1 Modules and runs

A component has a module of its own, which can be read and instantiated alone. A
run puts components of one area side by side: its MC module has the variables of
each, a variable `part` that says which of them a behaviour is about, and a named
INSTANCE per component and size of instance (or it extends one component, whose
constants then have their values in the configuration). The initial predicate chooses the
part and its initial state; the variables of all other parts hold `"off"`. So
one run answers one question about an area of the system (where a configuration
chooses among the parts, they are the constant `Parts`), and each behaviour in
it is a behaviour of one component. A property `P` of such a run reads "in the
part of component C, C's `P`", and has the component's name where two have the
same.

| Run | Module | Checks | What it shows |
|---|---|---|---|
| `heap` | `MCMalloc` | `TypeOK`, `BoundaryTagsAgree`, `BlocksDisjoint`, `NoLeak`, `Coalesced`, `FreeListsExact`, `CallsExact`, `ImplementsAllocator` | Every order of malloc, realloc and free of small blocks, of blocks of whole pages and of blocks around the sizes malloc refuses, in regions of one, two and eight pages and in a region near the size of the code's: splitting, merging, growing in place, copying and running out of memory. |
| `host` | `MCHost` | `AllocationsAccounted`, `LookupExact`, `NamesAreImportable`, `UnpackRestores`, `EvaluationExact`, `LinkedBeforeRun`, `BodiesInOrder`, `ExitCodeExact`, `MainReturns`, `LoadsAsPromised`, `MainExact`, `StreamsExact` | The program around the interpreter: packing files under every spelling of their names, mounting two images with allocations that may fail, looking names up and unpacking again; every import graph of three modules as source, bytecode, missing, throwing or lacking an export; what a load system call delivers for every length and offset; which text main runs or compiles, with stale bytes behind it, and what it returns; and streams over a mounted file. |
| `loader_bytecode` (violation) | `MCModuleLoader` | `LoadedOnce` | A graph of bytecode modules: one that is imported by two others is loaded and evaluated twice. |
| `spawn_view` (violation) | `MCSpawn` | `ContentDelivered` | Machines that spawn each other, execute programs and set content: a typed array that shows a part of its buffer sends all of it. |
| `tables` | `MCTables` | `ShapesExact`, `RecordsHeldExactly`, `EqualKeysFound`, `MemorySafe`, `GarbageGone`, `ImplementsOrderedMap` | Objects that share shapes while properties come and go and memory runs out; maps that are changed while they are iterated; reference counting and cycle collection over every graph of two objects with a shared variable or a weak map, a collection at any moment. |
| `runtime` | `MCRuntime` | `PromisesExact`, `AnswersExact`, `RegularMatchExact`, `MatchingEnds` | Promises, thenables and Promise.all with their jobs in every order of calls; the request queue of an async generator; and patterns with groups, loops, lookarounds, references, classes and flags, compiled and executed on all short subjects against the matching of ECMAScript. Matching ends for all of them but lazy repetitions of what can be empty. |
| `regexp_lazy` (violation) | `MCRuntime` | `EveryMatchingEnds` | A lazy repetition of an atom that can match nothing goes round for ever. |
| `objects` | `MCObjects` | `ObjectsExact`, `ProxiesExact` | Definition, assignment and deletion of properties on ordinary objects and fast and slow arrays, array methods, prototypes with setters, and proxies, also of proxies, whose traps answer anything, throw or revoke, each against the object operations of ECMAScript; five named differences of proxies excepted. |
| `code` | `MCCode` | `RunsAsWritten`, `AcceptedExactly`, `LinkingExact`, `BytecodeExact` | Compiled control flow run against its source and which of it is refused, the variables that imports are linked to in small module graphs with cycles, diamonds and re-exports, and functions, modules and values that are written as bytecode and read back; the programs and graphs on which the code differs are named in the properties. |
| `statements_switch` (violation) | `MCCode` | `LegalAccepted` | A return out of a switch in a for-of loop in a try block is refused for its stack size. |
| `module_link_cycle` (violation) | `MCCode` | `NoMissingVariable` | An import that is exported again on a cycle is taken before its variable exists. |
| `numbers` | `MCNumbers` | `BinaryExact`, `DecimalExact`, `FormatsExact` | The arithmetic of libbf on binary and decimal numbers of one to four narrow limbs, in the seven rounding modes, at the limits of the exponent and on special values, against exact rational arithmetic; and snprintf of numbers and texts into buffers of several sizes against the C standard, but for the deviations it names. |

### 2.2 Theorems

Every theorem holds for every value of the constants: any number of objects,
requests, files or modules, with no bound other than those the code has. Each
rests on an inductive invariant, stated at the head of its module, that was first
checked by TLC on the instance of the run.

| Module | Theorem | Property | What it says |
|---|---|---|---|
| `MallocProofs` | `TypeCorrect` | `TypeOK` | The header words, the links, the binmap and the client's blocks keep their types for every set of requests, every region and every bound on live blocks. |
| `MallocProofs` | `TagsAgree` | `BoundaryTagsAgree` | Header and footer of every chunk agree and chunks tile the heap up to its end marker, after any sequence of calls. |
| `MallocProofs` | `Disjoint` | `BlocksDisjoint` | Blocks handed out are aligned, inside the region, and never reach into each other or into a header. |
| `MallocProofs` | `Leakless` | `NoLeak` | A chunk is in use exactly when the client holds its block. |
| `MallocProofs` | `AlwaysCoalesced` | `Coalesced` | No two free chunks are neighbours after any call. |
| `MallocProofs` | `ListsExact` | `FreeListsExact` | The doubly linked lists hold exactly the free chunks, each in the bin of its size, and binmap has exactly the bits of the bins that hold one. |
| `MallocProofs` | `CrashFree` |  | The consistency check of free and realloc never fires on a client that stays inside its blocks. |
| `MallocProofs` | `Implements` | `ImplementsAllocator` | The boundary-tag allocator implements the abstract one: every call is a grant, a resize, a release or a failure that changes nothing. |
| `MallocProofs` | `CallsAreExact` | `CallsExact` | malloc gives up only when every free chunk is smaller than 5/4 of the chunk wanted and the break cannot be raised; realloc keeps all the data that fits and never fails to shrink; a failed call leaves the heap as it was; an empty heap is one chunk again. |
| `AsyncGeneratorProofs` | `AnswersAreExact` | `AnswersExact` | The answers an async generator gives are the ones the language asks for, in the order of the calls; a request without an answer is in the queue behind the ones made before it, and until the generator has ended the queue is empty whenever no code runs and no promise is waited for; the frame of the body is freed once. For any number of requests, in every order of calls, awaits and ends. Requests behind the end of a generator may stay unanswered (quickjs.c:19589): the theorem does not say otherwise. |
| `MapSetProofs` | `RecordsAreHeld` | `RecordsHeldExactly` | A record of a Map or Set has one reference while it is in the map and one for every iterator and forEach loop at it, and is in the list exactly while it has one; for any keys, values, hash, number of iterators and depth of loops. |
| `MapSetProofs` | `KeysAreFound` | `EqualKeysFound` | A key that was set and not deleted is found at the one record that has it, before and after every resize, provided that equal keys have equal hashes. |
| `MapSetProofs` | `ImplementsMap` | `ImplementsOrderedMap` | Whatever is deleted, cleared or added again while iterators and forEach loops are under way, a script sees the ordered map of OrderedMap, provided that equal keys have equal hashes. |
| `CellFsProofs` | `LookupsAreExact` | `LookupExact` | ckb_get_file finds a file exactly when a mounted image was packed with its name, with the contents it was packed with last; for any names without a NUL, any contents, any number of images and every allocation that may fail. |
| `CellFsProofs` | `PackedNamesAreImportable` | `NamesAreImportable` | fs.lua packs every path whose dots are apart under the name an import asks for: for any list of paths and any files on the disk, a path loses its "." elements and nothing else. |
| `CellFsProofs` | `UnpackIsExact` | `UnpackRestores` | Unpacking an image restores the files it was packed from. |
| `CellFsProofs` | `ObjectsAccounted` | `AllocationsAccounted` | Every object ckb_cell_fs.c has allocated is in the mounted list, with a caller or was dropped by a reset: the failing paths free what they allocated. |
| `ModuleLoaderProofs` | `SourceOnceAndLinkedFirst` | `LinkedBeforeRun` | A source file is loaded once however many modules import it, and no body runs before every module is created and linked; for any file systems, whatever cycles their imports have and whatever is missing or faulty. |
| `ModuleLoaderProofs` | `DependenciesRunBefore` | `BodiesInOrder` | A body runs after the bodies of what it imports, except along a cycle; none runs twice; and evaluation that ends without an exception has run all of them. |
| `ModuleLoaderProofs` | `NormalizesAsMeant` |  | When "." and ".." come first in a specifier and do not lead out of the disk, the loop of js_default_module_normalize_name gives the file that following the path element by element gives, for the source and the bytecode of every importing file. |
| `ModuleLoaderProofs` | `LoadsWhatIsMeant` | `EvaluationExact` | An import is resolved against the directory of the file that contains it, and nothing runs before every file that main reaches is loaded; for any file systems whose names are plain (NormalizesAsMeant). |
| `ModuleLoaderProofs` | `ReturnsExactly` | `ExitCodeExact` | Main returns 0 exactly when every file it reaches is there, parses, binds its imports and evaluates without an exception, whatever cycles the imports have; for any file systems whose names are plain. |
| `GcProofs` | `MemoryIsSafe` | `MemorySafe` | What a script reaches is alive at every moment of a collection; between collections every count is the number of holders and no weak map has a record of a dead key; the collector's assertions hold; for any number of objects, variables and weak maps and whatever they hold. |
| `GcProofs` | `CountsAreOfHolders` |  | The inductive invariant of the collector: every cell that has memory is on one of its three lists, once, and its count is that of the holders that are counted at that moment, while references are taken off and put back. |
| `SyscallLoadProofs` | `LoadsArePromised` | `LoadsAsPromised` | A load with natural length and offset gives the bytes, or the number of bytes, that docs/syscalls.md promises, and throws exactly when there is no such item or no room for them; and a load loses memory only when it asks, with a length, for an item that does not exist; for any word size, items, lists of arguments and size of heap. |

`Induction` has the facts about numbers, sequences and recursively defined
functions that several of them use.

Only model-checked are liveness (`MainReturns` and `MatchingEnds`, which need fairness),
`GarbageGone` (how many collections it takes depends on the heap, section 7.2), and
what the engine's compilers and evaluators compute: these are recursive
operators over data, for which there is no induction in the prover.

## 3. The allocator

### 3.1 Module `Malloc`

`heap` holds what the C code keeps: the words of every current chunk header
(`csize`, `psize`, and `next`, `prev` for free chunks), the list heads (address
*i* stands for `bins[i]`), `binmap`, the break with its limits, and the end of the
heap. A word is a record `[size, inuse]`, the C word split at its low bit. `live`
is not allocator state: it is what the client holds, pointer to requested size.
Each C function is an operator from heap to heap with the function's name
(`unbin`, `bin_chunk`, `trim`, `expand_heap`, ...); `release_chunk` is
`__bin_chunk`. The actions are whole calls: the VM has one thread, and the locks
in the C code are empty. Constants of the C code (alignment 32, overhead 16,
page 4096, threshold 229376, the 64 bins and `bin_tab`) keep their values.

Abstractions:

* Bytes inside a block are not modelled; `realloc` reports how many leading
  bytes it carries over (`kept`), which is what its `memcpy` decides.
* A header word inside the space of a chunk is dropped from the model: nobody
  reads it again.
* `bin_index_up` reads past `bin_tab` for sizes above the largest bin. What it
  finds there is undefined: any byte of `TailBytes`.
* `SIZE_LIMIT` stands for the largest request `adjust_size` accepts; a
  64-bit value would only make TLC's integers overflow.
* The client is well-behaved: it frees and resizes blocks it holds and writes
  inside them. `malloc_config` is called before the first allocation.

`Allocator` is what a client may rely on: a set of disjoint blocks, a grant, a
resize, a release, a refusal. `ImplementsAllocator` is the refinement.

### 3.2 Instances

The run `heap` chooses a region and, with it, the sizes its client asks for:

| Region | Requests | For |
|---|---|---|
| one page | 0, 24 | the smallest chunks and remainders |
| two pages, off a page boundary | 0, 24 | the same, with a break that is raised once |
| two pages, off a page boundary | 1008, 3056 | a quarter and three quarters of a page: splitting, growing in place, copying, running out |
| eight pages | 4064, 8176, 16368 | bins that hold a range of sizes, and what a lookup passes over |
| near the size of the code's heap | 131056, 262192, 393200, 1000002 | what `malloc` refuses, sizes past `bin_tab` |

`TailBytes` is {0, 22, 46, 200}: below, inside and above the bins. Three live
blocks are enough for a chunk with both neighbours in every state. The heap
arithmetic is that of the code, so no bound hides a bin boundary that a request
in the run reaches. `MCMalloc` also evaluates an assumption that `bin_tab` as a
formula agrees with the table in the C source byte for byte. `CallsExact` joins
what each call promises: no crash, an empty heap is one chunk again, `malloc` fails
only when it must, `realloc` keeps the data and shrinks, a failed call changes
nothing.

No fairness is assumed: the allocator promises safety only.

### 3.3 Proofs (`MallocProofs`)

Proved for every set of requests, every region, every bound on live blocks and
every content of the bytes behind `bin_tab`: all the properties of the run.

None of the invariants is inductive alone: `free` needs the footers to find its
neighbours, `unbin` needs the links, `malloc` needs the sizes on a bin's list to
be that bin's. The inductive invariant `Inv` joins them: `HeapOK` says that the
headers form a chain in both directions (`Forward`, `Backward`) without overlap,
aligned and inside the region (`Placed`, `Region`), that the free lists are
doubly linked and hold exactly the free chunks, by bin (`Lists`), and that no
two free chunks touch (`Merged`); `LiveOK` ties the client's blocks to the chunks
in use. Each C function has a lemma saying which part of this it needs and
restores: between `unbin` and `bin_chunk` the heap is not `HeapOK`, so `Lists` is
stated for a given set of listed chunks and `Merged` is left out of the `Shape`
that the intermediate steps keep. `BinFit` is the arithmetic core: every chunk
of a bin at or above `bin_index_up(n)` has at least `n` bytes.

`ListsExact` adds to `Inv` that `binmap` has a bit exactly for the bins with a
chunk (`BitsExact`). That the lists, which `FreeListsExact` follows from link to
link, have no cycle comes from a rank: the last chunk of a bin is the one that
links back to the head, and each chunk before it is one step further away.

`CallsAreExact` goes call by call: from `HeapOK` it says of each what the heap is
afterwards. `BinMiss` is the converse of `BinFit`: a free chunk that a lookup
passes over is smaller than 5/4 of the chunk wanted.

## 4. The cell file system

### 4.1 Module `CellFs`

| State | Code |
|---|---|
| `disk` | the files of the host on which `tools/fs.lua` runs |
| `outfile` | the image `fs.lua` writes, later the data of a cell |
| `dir` | the directory `fs.lua unpack` fills |
| `fs` | `CELL_FILE_SYSTEM`, the list of nodes, newest first |
| `allocated` | objects `ckb_cell_fs.c` holds from `malloc` |
| `handed`, `dropped` | FSFile objects given to callers; objects lost at a reset |
| `packed`, `tree`, `store` | history: the paths packed, the files the image should hold, the files mounted |

`do_pack`, `do_unpack`, `ckb_load_fs`, `ckb_get_file` and `ckb_reset_fs` are the
operations of the code, each with all it calls. The order in which Lua walks its
table is any permutation, the same for both loops of `pack`. An allocation
fails or not by nondeterminism: `Obtained` is what `load_fs` has by then, `Freed`
what its error path gives back.

A path or a file is a sequence of tokens: an element of a path, the slash, a
byte. One element is one byte, so the offsets in an image are those of
one-letter names; names are compared as C strings, up to their NUL.

### 4.2 Instances

In the run `host` the file system has two directories of two files, one of them empty and in the
second one with a NUL inside, thirteen lists of paths with dots in every position, absolute
ones and drive letters, and two images mounted. The path `./../a`, which is packed as
`../a`, is left out (section 10). One list names a file that
is not there: `fs.lua` stops at it in the middle of the table of entries (fs.lua:49), and what
it leaves holds no image (`Unusable`).

Two images are enough for shadowing; file sizes of 0, 1 and 3 bytes put every
offset after an empty and a non-empty neighbour. `fs.lua` replaces `/./` without
overlap, so `a/././b` keeps a dot: `NamesAreImportable` leaves such paths out, and
says so.

Lookups never happen concurrently with a mount, so no fairness and no
interleaving inside an operation is needed.

### 4.3 Proofs (`CellFsProofs`)

Proved for every set of directories on the host, every number of images and every
pattern of failing allocations; the constants `Elements` and `Bytes` are what names
and contents are made of, and `CellFsAssumption` says that neither is the NUL that
ends a name. `fs.lua` computes offsets in one loop and writes in another; the
invariant says that the image `Holds` the files it was packed from, with every
name, its NUL and every content `Within` the bytes at the offset of its entry.
`FlattenedAt` finds a piece in a concatenation at the sum of the lengths before
it, `PackHolds` and `UnpackHolds` follow the two programs, `GetHolds` a lookup, and
`LoadAllocates` counts on each failing path of `ckb_load_fs` what was obtained and
given back.

`NamesAreImportable` compares two programs on one text: the host's reading of a path
(`Canonical`) and `gsub` in `normalize_relative_path`. `ScanIsCanonical` takes them
through the path together: what is left of a match tells whether the next token is
a dot, or the slash behind one. This holds of a path of a file only, for
`gsub` keeps a dot at the end: `PathAssumption` says that two elements have a slash between
them and that the path of a file on the disk ends in an element, which `do_pack`
finds out when it opens the file. The rest of the hypothesis, that dots do not
follow each other, is in the property.

## 5. The module loader

### 5.1 Module `ModuleLoader`

`files` is the mounted file system: name to `[kind, imports, fault]`. `mods` is
`ctx->loaded_modules` in order, with the flags of `JSModuleDef` that the
algorithm uses. `js_resolve_module`, `js_link_module` and `js_evaluate_module`
are recursive in C; here each is a stack of frames, and a step is one turn of
the loop over the imports of the top frame, so that the order of the flags and
the recursion is kept. `js_create_module_function` also recurses, but cannot fail
on a module that parsed, and is one step. `run_from_file_system_buf` starts and
`Return` ends the program.

What may go wrong with a file is one of: it does not parse, an import names no
export, its body throws. Which names a module exports is left out. Bytecode
carries the name it was compiled under, and `compile_from_file` compiles under
the empty name: `NewModule` names it `NoName`.

### 5.2 Instances

In the run `host` the loader has two instances. *Graphs*: main imports `a`, or `a` and `b` in
either order; `a` and `b` import any up to two of the three files; at most one fault
anywhere (5070 programs). *Directories*: files in two directories that are
source, bytecode, empty or missing (625 programs). `loader_bytecode` checks a
diamond of bytecode modules and fails: the shared module is loaded twice, for it is
not found under its name.

Among the directories bytecode imports nothing, or sits at the root, so that
the differences of section 10 stay apart from what holds. The graphs of
the first instance contain cycles of length one to three, through main and beside
it, and diamonds. `MaxModules` is one
more than the most modules any behaviour of the passing run loads, so it cuts
none: three among the graphs and six among the directories, where bytecode
that is imported twice is loaded twice.

Fairness: `HostSpec` has weak fairness of `LoaderStep`, all steps of the loader together. The VM is one thread
that runs until main returns, and a body either returns or throws; a script that
loops by itself is not a matter of the loader. Deadlock checking is off because a program ends.

`EvaluationExact` says that every import is resolved to the file meant and nothing
runs before all files main reaches are loaded; `LinkedBeforeRun` that source is
loaded once and no body runs before every module is linked; `BodiesInOrder` that
bodies run once, after what they import, cycles excepted; `ExitCodeExact` that
main returns 0 exactly for programs without a fault.

### 5.3 Proofs (`ModuleLoaderProofs`)

`LinkedBeforeRun` and `BodiesInOrder` are proved for all file systems: any number of
files, any imports, any faults. `FilesAssumption` only says that a file imports a
sequence of names.

Each of the three recursions is a depth-first search, and its part of the
invariant says of every import of a module that was entered that it has been dealt
with or that a frame of the stack has not come to it: an import without a link is
ahead of a frame (`Pending`); an import of an instantiated module is instantiated
or ahead (`Linking`); what a frame has passed has run, is below it on the stack, or
is the frame above it (`Evaluating`). When the stack is empty nothing is left; and
since every module but the first is imported by an older one (`Creation`), a set
that has the first and is closed under imports has all (`ClosedIsAll`). `Naming` says
that source modules have the name they were asked for and no two the same, from
which they are loaded once. For the order (`Ordered`), a module whose body runs
finds each of its imports run, or below it on the stack; in the second case the
stack is a path of imports from there to the module (`ChainIsPath`), so the two are
on a cycle.

`EvaluationExact` and `ExitCodeExact` are about names. A specification of names is
in the module: `PathOf` follows a path element by element, as a reader does, and the
loop of `js_default_module_normalize_name` works off the dots it begins with.
The two differ where the code does something else than a reader expects (a dot inside a
specifier, more `..` than there are directories, bytecode in a directory, which has lost
its name), so both theorems have the hypothesis `PlainNames`: in a specifier dots
come first, do not lead out of the disk, and bytecode has them only at the top.
`MeantAssumption` has TLC evaluate that the programs of the run have plain names and that
an odd one has not. `NormalizesAsMeant` is the lemma about the loop (`RebasedMeant`:
after n turns the directory is the one meant and n elements are gone); `AsMeant` in
the invariant then says that the file behind every module is the one its importer
means, and `Faultless` that what was loaded had no fault of an earlier phase. For
the exit code, main returns 0 only when every file it reaches was loaded; the files it
reaches (`Reached`) are a union of sets that grow until they no longer do
(`Stabilises`, which needs that a disk has finitely many files: `DiskAssumption`).

`MainReturns` is liveness and stays with TLC.

## 6. The program around the interpreter

### 6.1 `Main`: the command line and the program

`argv` and `env` (local files, script arguments, code cells) are inputs; `type`,
`buf`, `local_access` and `err` are the variables of `main` and `parse_args`. One
action is one function of `quickjs/qjs.c` on the way from the options to the exit
code; a text is a few characters that tell apart code that runs, throws, does
not parse, is bytecode or is an image. `ProgramExact` compares what was evaluated
with what the options and the environment select, `ExitCodeExact` the exit code
with how that ended; `MainExact` is both. `compile_from_file` puts no NUL behind the file
(qjs.c:140, where quickjs.h:793 asks for one), so the parser reads on into what the stack
held: `Stacks` are such bytes, some of which are source, and `CompiledBeyond` is the one
exception `ProgramExact` makes, for `-c` alone. A program that runs must never have them.

### 6.2 `SyscallLoad` and `SyscallSpawn`: the bindings

`SyscallLoad` is one action for the JavaScript call with all it does: arguments
and defaults, the probe of the length, the buffer, the second call. The machine
word has `Width` bits so that "no length given" (`(size_t)-1`) is a value like the
others. The heap shrinks with each call, so every allocation fails somewhere.
`LoadsAsPromised` has two halves. `PartialLoadExact` compares what comes back with
the five cases of `docs/syscalls.md`; `LossExplained`, of every step, says that a
load loses memory only when it asks, with a length, for an item that does not
exist: the buffer is there before the system call fails, and no error path frees
it.

`SyscallLoadProofs` proves both (`LoadsArePromised`) for any word size, items,
arguments and heap, from `LoadAssumption`: an item is a sequence
of bytes, a hash is not empty, and what `JS_ToInt64` makes of a number is not as
large as "no length given". The run `host` checks that its constants satisfy it. Two
numbers describe a load, where it begins and how many bytes come (`Cut`); the
system call, the copy into the buffer and the words of the document are each
shown to be these bytes (`LoadedFacts`, `BytesGiven`, `ThereFacts`). The invariant
is only that the heap and the buffers are natural numbers: what a call returns
depends on no earlier one, what it loses is a difference of two sums over the
buffers (`TotalAppend`, `TotalWithout`).

`SyscallSpawn` has the stack of machines: a spawned one runs while its parent
waits, an executed program replaces its caller. What a parent gets from its child is
up to the machine, which is external; what is left to the code is which bytes it passes on.
The run `spawn_view` shows that they are not those of the array given: a typed array over a
part of a buffer sends all of the buffer (ckb_module.c:438). No passing run has this module:
with whole arrays only, its properties would restate the machine.

### 6.3 `Stdio`: streams over a mounted file

`streams` is every FILE handed out with its offset and flags, `blocks` what the code
holds from `malloc`. Only the calls that do not end the machine are actions. A product of
size and number of items that does not fit in 32 bits (one request of the instance) gives fewer
bytes, and the number of items that `fread` reports includes one that is not whole (section 10):
`StreamsExact` names both.

### 6.4 `Printf`: formatting

One action per way round the loop of `_vsnprintf`. A call is a sequence of items;
the model writes the format from them, parses it as the code does and compares
with what the C standard says of the items. Integers have small widths (`CharBits`
to `LongBits`); a double is a fraction of a power of two with `Significand` bits, to which
the product with a power of ten is rounded as in the code, so that the cases in which it
meets a half exactly are reached (0.95 with one digit).
The run `numbers` checks `FormatsExact`, beside the arithmetic of libbf.
Not modelled: `_etoa` (`%e`, `%g`), formats that end inside a conversion, and precisions of
a double so large that the zeros in front leave no room in its buffer.
`FormatsExact` names the items on which the code does not do what the standard says
(`Deviates`); the instance has all of them, and a call without such an item must be exact:
left alignment with a precision larger than the digits, `#` with digits that fill the width,
`%#.3o`, fields longer than the buffer of 32 bytes, a negative `*` precision, `%hhd`,
infinities with the flags zero and space, negative zero, digits of a fraction behind the ninth,
and the half that carries into the whole part without being carried (printf_impl.c:450,
section 10). Where the product of `_ftoa` is rounded, its last digit may be one off.

## 7. The QuickJS engine

Each module runs the code's algorithm and an independent reference on the same
inputs. The reference is written from the ECMAScript standard and shares no
definition with the model of the code, so that a change to the code's part is
seen. JavaScript functions that the engine calls (callbacks, getters, traps,
iterators) are decisions of the environment at the moment of the call.

### 7.1 `MapSet` and `OrderedMap`

Records in a list and in hash chains; iterators and `forEach` loops lock the
record they are at. `ImplementsOrderedMap` is the refinement to a list of entries
with holes, in which an iteration is a position. A value of the map that owns an
iterator of the same map is left out.

In the run `tables` the map part has two keys whose hashes meet in one chain of
every table, at most three records, two iterators and two nested loops.

`MapSetProofs` proves all three properties for any keys, values, hash, iterators
and depth of loops. Its invariant says that iterators and loops are at records
(`Positions`), that a record's count is its users (`Counts`), that the list has the
records with a count (`Listed`), each chain those with its hashes (`Chained`), and
that `record_count` is the number of those that are not empty (`Counted`). That no
two records have equal keys (`Distinct`), and with it lookup and refinement, needs
that equal keys have equal hashes: the code breaks this for a number that is once
an integer and once a double (section 10), and `HashesAgree` is the hypothesis of
these two theorems. The refinement is proved step by step, each operation to
the abstract one of its name or to a stutter.

### 7.2 `Gc`

Reference counts, deferred freeing, and the collector by trial deletion, one
element of each list per step, with weak maps. A reference is a pair of a holder
and a key (`References`), so that counts are cardinalities. No fairness is needed:
collections run to their end before the script goes on. In the run `tables` the heap has two
objects and either a variable that closures share or a weak map: enough for
cycles through each of them, for a weak map's key or value in a cycle, and for a
cell that only a cell of the other list holds.

`GcProofs` proves `MemorySafe` for any number of objects, variables and weak maps
and any heap. That reachable cells are alive is not inductive by itself: it
depends on the counts, and these are not the numbers of holders while a
collection runs. The invariant (`Inv`) names the holders that are counted
(`Counting`): all live cells while the script runs, cells are freed or garbage is
removed; in `gc_decref` the cells without a mark, whose references have not been
taken off; in `gc_scan` the cells before the one that is next, whose references
have been put back. `Counts` says that every count is that of the roots and of
these holders. The rest says that every cell with memory is on one of the three
lists, once (`Listed`), what its mark and its count are there in each phase
(`Resting`, `Decreasing`, `Scanning`), that the records of a weak map die with the
map and the key (`RecordsAlive`), that a free cell is not held (`Unheld`), that a
variable is freed with its last reference (`VariablesHeld`), and that while garbage
is removed the cells on `gc_obj_list` hold nothing but each other (`Freeing`): that
is why what is reached stays. A cell whose count `gc_decref` brings to zero before
its turn is moved only if it was visited, which is what keeps its count on either
list what the list says. `NoVariablesLeft` is the assertion at the end of
`gc_free_cycles`: the last object that held a variable freed it.

`GarbageGone` stays with TLC. With `MaxGcs` collections it is a fact about the
instance: each value of a weak map whose key was the value of another one needs
one more collection, so that no fixed number is enough for every heap.

### 7.3 `Promise`

Resolving functions, reactions, thenables, `finally`, `all`, `race`; jobs run one
at a time. `qjs.c` never runs the job queue: main returns with the jobs pending
(no call of `JS_ExecutePendingJob` in the repository), so the embedder that runs
jobs here is the engine's interface and not main. Thenables that call both
functions given to `allSettled` are left out.

### 7.4 `Statements`

From source to result: the code the parser emits, the stack depth
`compute_stack_size` finds, and its execution with every exception and every
answer of an iterator. `oracle` records the decisions, so that the meaning of the
program, given by a recursive evaluator, is worked out from the same ones. Programs are
all nests of two or three statements of every kind, a labelled block included, around a
jump. `RefusedExactly` says which are refused: those the language refuses, and with them,
by a wrong count of the stack, a return out of a switch, a for-in loop or a finally block in
a for-of loop in a try block (`CountLost`, quickjs.c:25820), as the run
`statements_switch` shows. An unnamed break in a labelled block ends the block
(`EndsLabelled`, 25748): there `RunsAsWritten` compares nothing.

### 7.5 `AsyncGenerator`

The queue of requests and the loop of `js_async_generator_resume_next`, one turn
per step, with requests from the script and from the body itself. `yield*` and
JavaScript run by a `then` getter are left out.

`AnswersExact` does not say that every request is answered: behind the end of a generator
the code leaves some without an answer (quickjs.c:19589, section 10). It says that the
answers given are the expected ones in their order, that a request without one is in the
queue (`NoneForgotten`), and that until the generator has ended a queue that nobody works
on is empty.

`AsyncGeneratorProofs` proves `AnswersExact` for any number of requests. What the
answers must be is `Expected`, which serves one request after the other as the
standard says; the invariant (`Served`) is that serving the requests answered so
far gives the answers given so far and leaves the generator as it is, with the
other requests in the queue in order (`QueueExact`), and with state, loop and body
in one of the ways in which they occur together (`Control`).

### 7.6 `ModuleLink`

Names across modules: exports, star exports, namespaces, and the linking of
graphs with cycles. Every graph of a bounded number of declarations is an
initial state, in four instances: every kind of export (`Link`), imports that are
exported again, on cycles too (`Relink`), one variable that two modules hand on
(`Diamond`), and several namespaces of one module (`Spaces`). `LinkedExactly` names the
graphs on which the code differs: `CountedOtherwise`, where one variable counts as two or
two namespaces as one (27497, 27498), and `HandsOnInCycle`, where a variable is taken
before it exists (28076); the run `module_link_cycle` shows the latter.

### 7.7 `Shapes`

How objects share shapes: found by hash, cloned before a change, compacted.
Sizes of the tables are small constants so that growing and compaction happen. Every
allocation may fail: of a clone, of a larger shape, of larger values, and of the smaller
shape of a compaction, whose result `delete_property` does not look at (8098).
The run `tables` has four instances: two objects with two prototypes (`Flat`), two
objects with two kinds of attributes (`Flagged`), two objects with up to three
properties (`Deep`), and one object with up to five properties (`Long`).

### 7.8 `Properties` and `EsObjects`

Properties of objects and arrays, defined, assigned, deleted and frozen, and the
array methods that move elements. Every operation is run on `objs` as the code
does and on `es` as the standard does. Setters are called and do nothing.

### 7.9 `Proxy`

Traps that answer anything, throw or revoke the proxy; the target is an object or a proxy
itself. `PromisesKept` is about
several operations: what one answer promised (a property that cannot change, a
target that cannot grow) no later answer contradicts. Apply and construct traps,
`isArray`, and `set` without a trap are left out. The answers on which the code differs from
the standard are named and part of the instances: `DescriptorDiffers` (44848), `Writes`
(44958, 44969), `Hidden` (44629: of a target that is a proxy the code reads `extensible` and
does not ask), and an `ownKeys` trap that revokes its own proxy, at which the code throws
where the standard goes on (45095). For each, `TrapsExact` says which results are left
(`last.differs`).

### 7.10 `BinaryObject`

`JS_WriteObject` in one runtime and `JS_ReadObject` in another, whose atoms have
other numbers. A file may lose its end. Byte swapping, `is_rom_data`, reading of
SharedArrayBuffer, and the counts of atoms are left out; main uses the bytecode
flag only. Words have `WordBits` bits and limbs `LimbBytes` bytes.

## 8. Libraries of the engine

### 8.1 `Regexp` and `EsRegexp`

The compiler and the backtracking machine of `libregexp.c`, one action per opcode,
against the matcher semantics of the standard with Annex B. Patterns are all
sequences of a few tokens over several alphabets of tokens; subjects all
sequences over two or three letters. Left out: numeric escapes, `\p`, the
characters of group names, `\k` without named groups, a `lastIndex` inside a
surrogate pair. Known differences that `RegularMatchExact` leaves out: empty
iterations are accepted (`(a?)*`), `(?:(a*)\1)*` runs out of memory, `[é]` with `i`,
groups in repeated alternatives. `MatchingEnds` holds under weak fairness of the
machine: `lre_exec_backtrack` loops until it returns. It is about all patterns but the lazy
repetitions of something that can be empty, for which the compiler emits no check that the
atom advanced (libregexp.c:1601); `EveryMatchingEnds` is about these as well, and the run
`regexp_lazy` shows how one goes round for ever.

### 8.2 `Libbf` and `BfDec`

Binary numbers of arbitrary precision: limb arrays, rounding in seven modes,
subnormal numbers, the four operations, the division by a reciprocal, the
recursive square root, remainders, logic, powers, comparison, conversion. The
reference is the exact rational (or root), rounded once. Limbs of two bits and
low thresholds bring every branch to numbers of a few bits; the threshold of the
division by reciprocal stays at least three, below which the code's recursion
has no end. Left out: multiplication by number theoretic transform, memory
errors, transcendental functions, operands that alias the result, the status of
faithful rounding. `mp_sqrtrem1` is modelled by its contract.

`BfDec` is the same for decimal numbers: limbs of a power of ten, rounding at a
digit, the division with an estimated digit that is corrected, the square root by
`mp_sqrtrem` in the base. Operands of the square root stay inside what one limb of
the base allows, and precisions are at most three there. A quotient that ends is
refused at infinite precision when it has more digits than the code reserves
(1/8 in one limb; the comment at the place says "XXX: check"): the reference says
the same.

## 9. Not modelled

What each module leaves out is said in its section. Left out as a whole: the
interpreter's property and arithmetic opcodes other than through the modules
above, the parser of expressions, scopes and closures, dynamic `import()`,
`import.meta`, SharedArrayBuffer, the transcendental functions of libbf and of the
C math library (numerical analysis, not states), the Unicode tables (generated
data), locale stubs and mocked libc (they return constants).

Liveness under fairness, and what recursive operators compute, stay with TLC:
most of the engine's modules compile, parse and evaluate with recursive operators,
so they have runs and no theorems.

## 10. Differences met while modelling

Five differences are shown by runs of their own: `loader_bytecode`, `spawn_view`,
`statements_switch`, `module_link_cycle` and `regexp_lazy` (section 2.1). The others below were met
while the modules were written and confirmed against the built engine where it
runs on a host; a property names them or states what the code does and says so, or the
instances of the passing runs leave their inputs out, which the section of the module says.

* `src/tools/fs.lua:129`: is_ideal_path looks at the beginning of the path only, and normalize_relative_path removes a leading './' after the check: './../a' passes and is packed as '../a'. The error message of src/tools/fs.lua:142 says such a path is refused: 'Either not a relative path or a relative path referring to ..: '.
* `src/quickjs/qjs.c:140`: A bytecode module in a directory has the empty name, so its './y.js' is resolved against the root of the file system: lib/x.bc imports y.js instead of lib/y.js. src/docs/fs.md:81 says of importing a module that 'the steps are similar, ckb-js-vm will look for `./module.js` or `./module.bc`'.
* `src/quickjs/ckb_module.c:127`: load_tx_hash and load_script_hash fix the length at 32 and the offset at 0 and never read their arguments: load_tx_hash(0) gives the hash, not its length. src/docs/syscalls.md:102 says of both 'Partial loading supported: yes'.
* `src/quickjs/ckb_module.c:318`: syscall_exec_cell ignores what ckb_exec_cell returns ('never reach here') and returns undefined when the cell is not found. src/docs/syscalls.md:40 says 'All of the functions are designed to raise exceptions in the event of an error.'
* `src/quickjs/ckb_module.c:438`: JS_GetTypedArrayBuffer accepts typed arrays only and throws on an ArrayBuffer. src/docs/syscalls.md:372 says 'Arguments: content(an ArrayBuffer contains content)', and src/quickjs/ckb_module.c:347 says of spawn_cell 'argument 1: code_hash, ArrayBuffer'.
* `src/quickjs/qjs.c:140`: compile_from_file gives JS_Eval a buffer of the stack that is not cleared and puts no NUL behind the file, so the parser reads on into older bytes. src/quickjs/quickjs.h:793 says ''input' must be zero terminated i.e. input[input_len] = '\0'.'; run_from_local_file (src/quickjs/qjs.c:234) does terminate it.
* `src/include/c-stdlib/src/stdio_impl.c:274`: fread rounds up: with 3 bytes left, a request for 2 items of 2 bytes writes one item and a half and returns 2. src/include/c-stdlib/src/stdio_impl.c:272 says 'The return value should be the number of items written to the ptr'.
* `src/quickjs/quickjs.c:45635`: map_hash_key hashes an integer n as the double n * 3163 and mixes the tag in, so 1 and the 1.0 that 0.5 + 0.5 leaves on the stack (src/quickjs/quickjs.c:13468 does not turn it into an integer) fall into different chains although map_find_record (src/quickjs/quickjs.c:45661) compares them with js_same_value_zero. src/tests/basic/test_builtin.js:598 asserts of a key in the map 'assert(a.has(o));'.
* `src/quickjs/quickjs.c:45794`: reset_weak_ref unlinks the records of a dead key from their maps and does not take them off record_count, so a WeakMap that keys come and go in doubles its table again and again. src/tests/basic/test_builtin.js:625 says 'should remove the object from the WeakMap too' and :627 'the WeakMap should be empty here'; src/quickjs/quickjs.c:45486 calls the threshold it is compared with 'count at which a hash table resize is needed'.
* `src/quickjs/quickjs.c:25748`: A break without a name leads to the nearest entry with label_break, which a labelled block has too: 'a: { break; }' is accepted, and in a loop it ends the block and not the loop. src/quickjs/quickjs.c:25771 says 'break must be inside loop or switch'.
* `src/quickjs/quickjs.c:19589`: A generator that has ended answers one request and leaves the loop ('goto done'), and the function that settles a return ('resume next case in AWAITING_RETURN state', src/quickjs/quickjs.c:19666) does not call js_async_generator_resume_next: of four calls of next made while the body awaits before it returns, two are never answered, and next called behind return is not either.
* `src/quickjs/quickjs.c:27497`: Two star exports are the same when they end in the same module under the same local name; an import that is exported again ends in the module that hands it on, so one variable that reaches a module by two of them is refused with 'export ... is ambiguous' (src/quickjs/quickjs.c:27563), and so is one namespace that two modules export.
* `src/quickjs/quickjs.c:27498`: All namespace exports have the local name '*': two star exports that end at different 'export * as' entries of one module count as the same and the first one wins, where src/quickjs/quickjs.c:27563 has the error 'export ... is ambiguous'.
* `src/quickjs/quickjs.c:8236`: When a slow array is truncated by more than its number of properties, the properties are deleted in a pass over the shape; a deletion may compact the shape, and the pass goes on at its old position and misses what moved below it: after a[1000] .. a[1019] = ... and a.length = 0 ten elements are left beyond the length. src/quickjs/quickjs.c:8162 says: 'set the array length and remove the array elements if necessary.'
* `src/quickjs/quickjs.c:8872`: Reflect.defineProperty(Object.preventExtensions([1]), 5, {value: 1}) returns false and leaves the length at 6: the length grows before the test that refuses the property. The comment at src/quickjs/quickjs.c:8870 says: 'XXX: should update the length after defining the property'.
* `src/quickjs/quickjs.c:8584`: JS_SetPropertyInternal goes on to the next prototype after one that has a writable property, so the setter or the read-only property of a farther prototype wins over it. JS_SetPropertyGeneric, for Reflect.set, stops at the first object that has the property (src/quickjs/quickjs.c:8360), and the lookup itself does for an element of a fast array (src/quickjs/quickjs.c:8495).
* `src/quickjs/quickjs.c:44958`: With a target property that is writable and not configurable, Reflect.defineProperty(proxy, k, {value: v}) throws 'proxy: inconsistent defineProperty' although the target would accept it: the test asks for the descriptor to say writable, and a descriptor that says writable: true is refused below at line 44969. The comments at src/quickjs/quickjs.c:44958 ('missing-proxy-check feature') and :44968 ('proxy-missing-checks') name the tests of ECMAScript these lines stand for, which accept both.
* `src/quickjs/quickjs.c:44848`: The comment at src/quickjs/quickjs.c:44848 says: 'XXX: not complete check: need to compare value & getter/setter as in defineproperty'. The effect is visible, and one the comment does not name: the flags of the descriptor never include JS_PROP_GETSET (js_obj_to_desc leaves it out), so a trap that answers {get: f, configurable: true} makes Object.getOwnPropertyDescriptor return a data descriptor without f.
* `src/quickjs/quickjs.c:44629`: has, getOwnPropertyDescriptor and defineProperty read p->extensible of the target, which is always true for a target that is itself a proxy, where getPrototypeOf, deleteProperty and ownKeys ask JS_IsExtensible (src/quickjs/quickjs.c:45020, under the comment 'proxy-missing-checks' at :45019): a property of a target that is not extensible can be hidden.
* `src/quickjs/quickjs.c:35015`: JS_ReadFunctionTag copies byte_code_len into the function before its code is read, and byte_code_buf is set only after bc_get_buf succeeds: when the file ends before the code, the failed function is freed and free_bytecode_atoms walks byte_code_len bytes from a null pointer instead of raising 'read after the end of the buffer' (src/quickjs/quickjs.c:34829). The comment at src/quickjs/quickjs.c:35039 says of the error path: 'Note: the atoms will be freed up to this position'.
* `src/quickjs/libregexp.c:1616`: save_reset is emitted once before the loop of a repetition that may be empty, not in it: /(?:(a)|b)*/ on "ab" returns the group "a" of the first iteration although the second did not run it, where the comment at src/quickjs/libregexp.c:1611 says 'need to reset the capture in case the atom is not executed'.
* `src/quickjs/libregexp.c:1147`: Looking for a name ahead, re_parse_captures steps over the character after each other name, and a '(' there is not counted: in /(?<=\k<m>(?<n>(a))(?<m>b))/ the reference goes to group 2 instead of 3; the comment at src/quickjs/libregexp.c:1127 says 'return the capture index corresponding to capture_name'.
* `src/quickjs/libregexp.c:1541`: The order of two counts is checked before the closing brace is looked for: /a{2,1/ is a SyntaxError, where the comment at src/quickjs/libregexp.c:1551 says 'Annex B: normal atom if invalid '{' syntax'.
* `src/quickjs/libregexp.c:892`: After a class escape the dash is read again as the start of what follows, so [\d-a-c] holds the range a-c: the comment at src/quickjs/libregexp.c:892 says 'Annex B: match '-' character', and Annex B takes \d-a as a whole, then - and c.
* `src/quickjs/libregexp.c:266`: cr_canonicalize adds the upper case letters to a class, but with the flag u lre_canonicalize ('canonicalize with the specific JS regexp rules', src/quickjs/libregexp.c:127) turns the subject to lower case: /[A]/iu matches neither A nor a.
* `src/include/c-stdlib/src/printf_impl.c:303`: The comment on snprintf says "Only when the returned value is non-negative and less than count, the string has been completely written." (src/include/c-stdlib/src/printf_impl.c:51). The code takes one or two characters off the digits when their number equals the width, whether they are padding or not: %#1x of 9 writes 0x and returns 2, with room to spare.
* `src/include/c-stdlib/src/printf_impl.c:450`: A half that is rounded up does not roll over: %.1f of 0.95, whose product with 10 is exactly 9.5, gets the fraction 10; the second digit brings the unsigned count (src/include/c-stdlib/src/printf_impl.c:463) below zero, zeros fill the buffer, and the point and the whole part have no room. The comment at src/include/c-stdlib/src/printf_impl.c:443 says of the branch above it 'handle rollover, e.g. case 0.99 with prec 1 is 1.0'.
