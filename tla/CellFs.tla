------------------------------- MODULE CellFs -------------------------------
(***************************************************************************)
(* The Simple File System: tools/fs.lua packs files into an image, which   *)
(* is deployed in a cell; include/ckb_cell_fs.c mounts images in the VM    *)
(* and finds files in them by name.                                        *)
(*                                                                         *)
(* Text is a sequence of tokens: a path element, "/", or a byte of a file. *)
(* An element counts as one byte, so offsets are those of a file system    *)
(* with one-letter names; NUL ends a string as in C.                       *)
(***************************************************************************)
EXTENDS Integers, Sequences, FiniteSets, SequencesExt

CONSTANTS
    Elements,     \* the tokens of paths
    Bytes,        \* the bytes of files, which may be NUL
    ArgLists,     \* the lists of paths fs.lua may be asked to pack
    Disks,        \* the host's files: canonical path |-> contents
    Lookups,      \* the names lookups ask for
    MaxMounts,    \* bound: images mounted at once
    MaxFiles,     \* bound: FSFile objects handed out
    MaxDropped    \* bound: objects given up by ckb_reset_fs

VARIABLES
    disk,         \* the host's files
    outfile,      \* what the output file of fs.lua holds
    dir,          \* the files fs.lua unpacked: name |-> contents
    fs,           \* CELL_FILE_SYSTEM: the mounted nodes, newest first
    allocated,    \* objects ckb_cell_fs.c has allocated and not freed
    handed,       \* FSFile objects given to callers
    dropped,      \* objects that were in the list when it was reset
    packed,       \* history: the paths the output file was packed from
    tree,         \* history: the files the output file should hold
    store         \* history: the files mounted since the last reset

fsVars == <<disk, outfile, dir, fs, allocated, handed, dropped, packed, tree, store>>

-----------------------------------------------------------------------------
NUL == "nul"

ASSUME CellFsAssumption ==
    /\ NUL \notin Elements
    /\ \A args \in ArgLists : args \in Seq(Seq(Elements))
    /\ \A name \in Lookups : name \in Seq(Elements)
    /\ \A d \in Disks : \A path \in DOMAIN d : d[path] \in Seq(Bytes)

(* Two elements of a path have a "/" between them; a file's path ends in   *)
(* the name of the file.                                                   *)
ASSUME PathAssumption ==
    /\ \A args \in ArgLists : \A path \in ToSet(args) :
           \A i \in 1..Len(path) - 1 : path[i] = "/" \/ path[i + 1] = "/"
    /\ \A d \in Disks : \A path \in DOMAIN d : path # <<>> /\ path[Len(path)] # "/"

Unusable == [count |-> -1]
EmptyImage == [count |-> 0, entries |-> <<>>, blob |-> <<>>]
Empty == [n \in {} |-> <<>>]
(* The files of f, and those of g under the names that f does not have.    *)
Over(f, g) == [n \in DOMAIN f \cup DOMAIN g |-> IF n \in DOMAIN f THEN f[n] ELSE g[n]]
StartsWith(s, t) == s # <<>> /\ s[1] = t

(* The file a path names: "." elements do not matter to the host.          *)
Canonical(path) ==
    LET keep(i) == ~(path[i] = "." \/ (path[i] = "/" /\ i > 1 /\ path[i-1] = "."))
        at[i \in 0..Len(path)] ==
            IF i = 0 THEN <<>>
            ELSE IF keep(i) THEN Append(at[i-1], path[i]) ELSE at[i-1]
    IN  at[Len(path)]

-----------------------------------------------------------------------------
(* tools/fs.lua.                                                           *)

is_ideal_path(path) ==
    /\ ~StartsWith(path, "/")
    /\ ~StartsWith(path, "..")
    /\ ~StartsWith(path, "C:")

\* Mutant: only the leading "./" is removed.
normalize_head_only(path) ==
    IF IsPrefix(<<".", "/">>, path) THEN SubSeq(path, 3, Len(path)) ELSE path

(* gsub goes on behind a match: the "/" that ends one cannot begin the     *)
(* next.  skip is what is left of a match.                                 *)
normalize_relative_path(path) ==
    LET p == IF IsPrefix(<<".", "/">>, path) THEN SubSeq(path, 3, Len(path)) ELSE path
        Match(i) == i + 2 <= Len(p) /\ SubSeq(p, i, i + 2) = <<"/", ".", "/">>
        scan[i \in 0..Len(p)] ==
            LET s == scan[i - 1]
            IN  IF i = 0 THEN [text |-> <<>>, skip |-> 0]
                ELSE IF s.skip > 0 THEN [s EXCEPT !.skip = @ - 1]
                ELSE [text |-> Append(s.text, p[i]), skip |-> IF Match(i) THEN 2 ELSE 0]
    IN  scan[Len(p)].text

(* The table of do_pack: a name given twice keeps its last path.           *)
NameTable(args) ==
    LET last(n) == SelectLastInSeq(args, LAMBDA p : normalize_relative_path(p) = n)
    IN  [n \in {normalize_relative_path(p) : p \in ToSet(args)} |-> args[last(n)]]

\* Mutant: the byte behind the contents is not counted.
Extent_unterminated(name, content) == Len(name) + 1 + Len(content)

(* A name and its file, each with the byte that ends it.                   *)
Extent(name, content) == Len(name) + 1 + Len(content) + 1

(* pack: order is the order of the Lua table, the same in both loops;      *)
(* files are the contents by name.                                         *)
pack(order, files) ==
    LET content(i) == files[order[i]]
        start[i \in 1..Len(order) + 1] ==
            IF i = 1 THEN 0
            ELSE start[i - 1] + Extent(order[i - 1], content(i - 1))
        entry(i) ==
            [filename |-> [offset |-> start[i], length |-> Len(order[i]) + 1],
             content |-> [offset |-> start[i] + Len(order[i]) + 1,
                          length |-> Len(content(i))]]
    IN  [count |-> Len(order),
         entries |-> [i \in 1..Len(order) |-> entry(i)],
         blob |-> FlattenSeq([i \in 1..Len(order) |->
                      order[i] \o <<NUL>> \o content(i) \o <<NUL>>])]

(* unpack: the name up to its NUL, the contents by their length.           *)
unpack(image) ==
    LET at(b) == SubSeq(image.blob, b.offset + 1, b.offset + b.length)
        name(e) == LET s == at(e.filename)
                   IN  SubSeq(s, 1, SelectInSeq(s, LAMBDA c : c = NUL) - 1)
        of(n) == CHOOSE i \in 1..image.count :
                     /\ name(image.entries[i]) = n
                     /\ \A j \in i + 1..image.count : name(image.entries[j]) # n
    IN  [n \in {name(image.entries[i]) : i \in 1..image.count} |->
            at(image.entries[of(n)].content)]

-----------------------------------------------------------------------------
(* include/ckb_cell_fs.c.                                                  *)

(* The string at an offset of the blob.                                    *)
CString(blob, offset) ==
    LET end == SelectInSubSeq(blob, offset + 1, Len(blob), LAMBDA c : c = NUL)
    IN  SubSeq(blob, offset + 1, end - 1)

\* Mutant: only the characters of the name asked for are compared.
Matches_prefix(node, name) ==
    {i \in 1..node.count : IsPrefix(name, CString(node.start, node.files[i].filename.offset))}

Matches(node, name) ==
    {i \in 1..node.count : CString(node.start, node.files[i].filename.offset) = name}

NotFound == [found |-> FALSE, content |-> <<>>]

(* The first entry of the newest node that has one.                        *)
get_file(list, name) ==
    LET hits == {k \in 1..Len(list) : Matches(list[k], name) # {}}
        node == list[Min(hits)]
        blob == node.files[Min(Matches(node, name))].content
    IN  IF hits = {} THEN NotFound
        ELSE [found |-> TRUE,
              content |-> SubSeq(node.start, blob.offset + 1, blob.offset + blob.length)]

(* The objects of a mounted node: node, list cell and table of entries.    *)
Objects(node) == IF node.count = 0 THEN 2 ELSE 3
ObjectsOf(list) ==
    LET of[k \in 0..Len(list)] == IF k = 0 THEN 0 ELSE of[k - 1] + Objects(list[k])
    IN  of[Len(list)]

(* What load_fs has allocated when its failing-th allocation cannot be     *)
(* had, and what it frees then: the node, the list cell and the table are  *)
(* allocated in this order, the table not for an empty image.              *)
Obtained(image, failing) ==
    LET all == <<"node", "newfs">> \o IF image.count = 0 THEN <<>> ELSE <<"files">>
    IN  ToSet(IF failing = 0 THEN all ELSE SubSeq(all, 1, failing - 1))

\* Mutant: the list cell not freed when the table cannot be allocated.
Freed_leaky(failing) == IF failing \in {2, 3} THEN {"node"} ELSE {}

Freed(failing) ==
    CASE failing = 2 -> {"node"}
      [] failing = 3 -> {"node", "newfs"}
      [] OTHER -> {}

(* failing is the allocation that fails, 0 for none.                       *)
load_fs(list, image, failing) ==
    LET node == [count |-> image.count, files |-> image.entries, start |-> image.blob]
    IN  [list |-> IF failing = 0 THEN <<node>> \o list ELSE list,
         allocated |-> Cardinality(Obtained(image, failing) \ Freed(failing))]

-----------------------------------------------------------------------------
FsInit ==
    /\ disk \in Disks
    /\ outfile = Unusable /\ dir = Empty /\ fs = <<>>
    /\ allocated = 0 /\ handed = 0 /\ dropped = 0
    /\ packed = {} /\ tree = Empty /\ store = Empty

(* The output file is truncated before the paths are looked at.  With a    *)
(* path that is refused, or none at all, it stays empty; with one that     *)
(* does not exist it ends in the middle of the table of entries.  Either   *)
(* way it holds no image: unpack stops while it reads the table.           *)
do_pack(args) ==
    LET ok == /\ args # <<>>
              /\ \A p \in ToSet(args) : is_ideal_path(p) /\ Canonical(p) \in DOMAIN disk
        path == NameTable(args)
        files == [n \in DOMAIN path |-> disk[Canonical(path[n])]]
    IN  /\ IF ok
           THEN /\ tree' = files /\ packed' = ToSet(args)
                /\ \E order \in SetToSeqs(DOMAIN tree') : outfile' = pack(order, tree')
           ELSE outfile' = Unusable /\ tree' = Empty /\ packed' = {}
        /\ UNCHANGED <<disk, dir, fs, allocated, handed, dropped, store>>

do_unpack ==
    /\ outfile # Unusable
    /\ dir' = Over(unpack(outfile), dir)
    /\ UNCHANGED <<disk, outfile, fs, allocated, handed, dropped, packed, tree, store>>

ckb_load_fs(image, failing) ==
    /\ image # Unusable
    /\ Len(fs) < MaxMounts
    /\ failing = 3 => image.count > 0
    /\ LET r == load_fs(fs, image, failing)
       IN  fs' = r.list /\ allocated' = allocated + r.allocated
    /\ store' = IF failing = 0 /\ image # EmptyImage THEN Over(tree, store) ELSE store
    /\ UNCHANGED <<disk, outfile, dir, handed, dropped, packed, tree>>

(* With a mounted image the FSFile is allocated first, which may fail; a   *)
(* hit hands it out, and no caller frees it; a miss frees it.              *)
ckb_get_file(name, failing) ==
    /\ handed < MaxFiles
    /\ LET opened == fs # <<>> /\ ~failing
           hit == opened /\ get_file(fs, name).found
           got == IF opened THEN 1 ELSE 0
           freed == IF opened /\ ~hit THEN 1 ELSE 0
       IN  /\ handed' = IF hit THEN handed + 1 ELSE handed
           /\ allocated' = allocated + got - freed
    /\ UNCHANGED <<disk, outfile, dir, fs, dropped, packed, tree, store>>

(* Nothing is freed.                                                       *)
ckb_reset_fs ==
    /\ dropped + ObjectsOf(fs) <= MaxDropped
    /\ fs' = <<>> /\ dropped' = dropped + ObjectsOf(fs)
    /\ store' = Empty
    /\ UNCHANGED <<disk, outfile, dir, allocated, handed, packed, tree>>

FsNext ==
    \/ \E args \in ArgLists : do_pack(args)
    \/ do_unpack
    \/ \E image \in {outfile, EmptyImage}, failing \in 0..3 : ckb_load_fs(image, failing)
    \/ \E name \in Lookups, failing \in BOOLEAN : ckb_get_file(name, failing)
    \/ ckb_reset_fs

FsSpec == FsInit /\ [][FsNext]_fsVars

-----------------------------------------------------------------------------
(* Properties.                                                             *)

(* Every path is packed under the name an import asks for: the path with   *)
(* its "." elements removed, as long as no two of them follow each other   *)
(* (fs.lua replaces matches that do not overlap).                          *)
DotsApart(path) == \A i \in 1..Len(path) - 2 : ~(path[i] = "." /\ path[i + 2] = ".")
NamesAreImportable ==
    (\A p \in packed : DotsApart(p)) =>
        DOMAIN tree = {Canonical(p) : p \in packed}

(* Every object allocated is in the mounted list, was handed to a caller   *)
(* or was in the list when it was reset: the failing paths of load_fs and  *)
(* the misses of get_file free what they allocated.                        *)
AllocationsAccounted == allocated = ObjectsOf(fs) + handed + dropped

(* Only names below the packed directory get into an image: what fs.lua    *)
(* says when it refuses a path ("a relative path referring to ..").        *)
NoNameRefersUp == \A n \in DOMAIN tree : ".." \notin ToSet(n)

(* A lookup finds a file exactly when some mounted image was packed with   *)
(* that name, and delivers the contents it was packed with last: names,    *)
(* offsets and lengths written by fs.lua and read by ckb_cell_fs.c agree,  *)
(* newer images hide older ones, a failed mount changes nothing.           *)
LookupExact ==
    \A n \in Lookups :
        get_file(fs, n) = IF n \in DOMAIN store
                          THEN [found |-> TRUE, content |-> store[n]]
                          ELSE NotFound

(* Unpacking an image restores the files it was packed from.               *)
UnpackRestores == [][dir' # dir => dir' = Over(tree, dir)]_fsVars

=============================================================================
