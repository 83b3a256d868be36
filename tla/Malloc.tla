------------------------------- MODULE Malloc -------------------------------
(***************************************************************************)
(* The heap of the VM: include/c-stdlib/src/malloc_impl.c, a boundary-tag  *)
(* allocator with 64 segregated free lists over a region grown by _sbrk.   *)
(* All sizes, alignments and bin boundaries are the ones of the C code.    *)
(*                                                                         *)
(* A chunk is named by the address of its header.  Its header holds the    *)
(* words psize and csize, a free chunk also next and prev; a word is       *)
(* [size, inuse], the C word split at its low bit.  The model keeps the    *)
(* words of current headers only: what lies inside a chunk belongs to the  *)
(* chunk's owner.  The list head of bin i, the C BIN_TO_CHUNK(i), is the   *)
(* address i: bins[i].head and .tail are next[i] and prev[i].              *)
(*                                                                         *)
(* Each C function is an operator from heap to heap; the actions at the    *)
(* end are the calls a client makes.                                       *)
(***************************************************************************)
EXTENDS Integers, FiniteSets, FiniteSetsExt

CONSTANTS
    Requests,     \* the sizes clients ask for
    MaxLive,      \* bound: blocks a client holds at once
    BrkRanges,    \* the pairs <<min, max>> malloc_config may be called with
    SIZE_LIMIT,   \* INT64_MAX - CKB_SIZE_ALIGN - CKB_PAGE_SIZE
    TailBytes     \* values a read past the end of bin_tab may return

VARIABLES
    heap,         \* the allocator's static data and the header words
    live          \* the client's blocks: pointer |-> size asked for

vars == <<heap, live>>

-----------------------------------------------------------------------------
NULL == 0
CKB_SIZE_ALIGN == 32
CKB_OVERHEAD == 16
CKB_DONTCARE == 16
CKB_PAGE_SIZE == 4096
CKB_MMAP_THRESHOLD == 7168 * CKB_SIZE_ALIGN
Bins == 0..63

ASSUME RequestsAssumption == Requests \subseteq Nat
ASSUME MaxLiveAssumption == MaxLive \in Nat
\* The region lies above the addresses that name the bins.
ASSUME BrkAssumption ==
    \A r \in BrkRanges : r[1] \in Nat /\ r[2] \in Nat /\ r[1] > 0
ASSUME LimitAssumption == SIZE_LIMIT \in Nat /\ SIZE_LIMIT >= CKB_MMAP_THRESHOLD
ASSUME TailAssumption == TailBytes \subseteq 0..255 /\ TailBytes # {}

Assign(f, x, v) == [y \in DOMAIN f \cup {x} |-> IF y = x THEN v ELSE f[y]]
Without(f, S) == [y \in DOMAIN f \ S |-> f[y]]
Drop(f, x) == [y \in DOMAIN f \ {x} |-> f[y]]
NoWords == [y \in {} |-> 0]
RoundUp(n, m) == ((n + m - 1) \div m) * m

-----------------------------------------------------------------------------
(* Chunks.                                                                 *)

Word(n, b) == [size |-> n, inuse |-> b]
Headers(h) == DOMAIN h.csize
ChunkSize(h, c) == h.csize[c].size
NextChunk(h, c) == c + h.csize[c].size
PrevChunk(h, c) == c - h.psize[c].size
ToMem(c) == c + CKB_OVERHEAD
ToChunk(p) == p - CKB_OVERHEAD

(* c->csize and the footer in the next header, written together.           *)
Inside(h, c, n) == {d \in Headers(h) : c < d /\ d < c + n}
tag(h, c, n, b) ==
    [h EXCEPT !.csize = Assign(Without(@, Inside(h, c, n)), c, Word(n, b)),
              !.psize = Assign(Without(@, Inside(h, c, n)), c + n, Word(n, b))]

a_crash(h) == [h EXCEPT !.crashed = TRUE]

-----------------------------------------------------------------------------
(* Bins.                                                                   *)

bin_tab == [k \in 0..59 |->
    IF k < 4 THEN 32 + k
    ELSE IF k < 12 THEN 36 + (k - 4) \div 2
    ELSE IF k < 28 THEN 40 + (k - 12) \div 4
    ELSE 44 + (k - 28) \div 8]

\* x / CKB_SIZE_ALIGN - 1 of a size x below CKB_SIZE_ALIGN wraps around.
bin_index(size) ==
    LET x == size \div CKB_SIZE_ALIGN - 1
    IN  IF size < CKB_SIZE_ALIGN \/ x > 7168 THEN 63
        ELSE IF x <= 32 THEN x
        ELSE IF x < 512 THEN bin_tab[x \div 8 - 4]
        ELSE bin_tab[x \div 128 - 4] + 16

\* Mutant: the bin of the size itself, which may hold smaller chunks.
bin_index_same(size) == bin_index(size)

(* The smallest bin all of whose chunks hold size bytes: the value the     *)
(* function returns, or, when it reads past bin_tab, the values it may     *)
(* return.                                                                 *)
bin_index_up(size) ==
    LET x == size \div CKB_SIZE_ALIGN - 1
    IN  IF x <= 32 THEN x
        ELSE IF x - 1 < 512 THEN bin_tab[(x - 1) \div 8 - 4] + 1
        ELSE bin_tab[(x - 1) \div 128 - 4] + 17

PastBinTab(size) == (size \div CKB_SIZE_ALIGN - 2) \div 128 - 4 > 59
bin_index_ups(size) ==
    IF PastBinTab(size) THEN {b + 17 : b \in TailBytes} ELSE {bin_index_up(size)}

(* The list head is set up on first use.  A bin that holds a chunk has    *)
(* been used: lock_bin leaves it alone, and is left out before unbin.      *)
lock_bin(h, i) ==
    IF i \in DOMAIN h.next THEN h
    ELSE [h EXCEPT !.next = Assign(@, i, i), !.prev = Assign(@, i, i)]

\* Mutant: c->next->prev not updated.
unbin_one_way(h, c, i) ==
    [h EXCEPT
        !.binmap = IF h.prev[c] = h.next[c] THEN @ \ {i} ELSE @,
        !.next = Drop(Assign(@, h.prev[c], h.next[c]), c),
        !.prev = Drop(@, c),
        !.csize = Assign(@, c, Word(@[c].size, 1)),
        !.psize = Assign(@, NextChunk(h, c), Word(@[NextChunk(h, c)].size, 1))]

unbin(h, c, i) ==
    [h EXCEPT
        !.binmap = IF h.prev[c] = h.next[c] THEN @ \ {i} ELSE @,
        !.next = Drop(Assign(@, h.prev[c], h.next[c]), c),
        !.prev = Drop(Assign(@, h.next[c], h.prev[c]), c),
        !.csize = Assign(@, c, Word(@[c].size, 1)),
        !.psize = Assign(@, NextChunk(h, c), Word(@[NextChunk(h, c)].size, 1))]

\* Mutant: the binmap bit not set.
bin_chunk_no_bit(h, self, i) ==
    LET tail == h.prev[i]
    IN  [h EXCEPT !.next = Assign(Assign(@, self, i), tail, self),
                  !.prev = Assign(Assign(@, self, tail), i, self)]

bin_chunk(h, self, i) ==
    LET tail == h.prev[i]
    IN  [h EXCEPT
            !.next = Assign(Assign(@, self, i), tail, self),
            !.prev = Assign(Assign(@, self, tail), i, self),
            !.binmap = IF tail = i THEN @ \cup {i} ELSE @]

-----------------------------------------------------------------------------
(* Growing the heap.                                                       *)

\* Mutant: the first break is not rounded to a page.
_sbrk_unrounded(h, incr) ==
    LET brk == IF h.brk = 0 THEN h.brk_min ELSE h.brk
    IN  IF brk + incr > h.brk_max
        THEN [heap |-> [h EXCEPT !.brk = brk], ptr |-> -1]
        ELSE [heap |-> [h EXCEPT !.brk = brk + incr], ptr |-> brk]

_sbrk(h, incr) ==
    LET brk == IF h.brk = 0 THEN RoundUp(h.brk_min, CKB_PAGE_SIZE) ELSE h.brk
    IN  IF brk + incr > h.brk_max
        THEN [heap |-> [h EXCEPT !.brk = brk], ptr |-> -1]
        ELSE [heap |-> [h EXCEPT !.brk = brk + incr], ptr |-> brk]

(* n bytes from header w on become a chunk in use, with a zero-sized      *)
(* header behind it; fresh if w is the first header of a new region, the   *)
(* old end-of-heap header otherwise.                                       *)
new_chunk(h, w, n, fresh) ==
    LET g == IF fresh THEN [h EXCEPT !.psize = Assign(@, w, Word(0, 1))] ELSE h
        t == tag(g, w, n, 1)
    IN  [t EXCEPT !.csize = Assign(@, w + n, Word(0, 1)), !.end = ToMem(w + n)]

expand_heap(h, want) ==
    LET grow == RoundUp(want + CKB_SIZE_ALIGN, CKB_PAGE_SIZE)
        r == _sbrk(h, grow)
        p == r.ptr
    IN  IF p = -1
        THEN [heap |-> r.heap, ptr |-> NULL]
        ELSE IF p = h.end
        THEN [heap |-> new_chunk(r.heap, ToChunk(p), grow, FALSE), ptr |-> ToChunk(p)]
        ELSE [heap |-> new_chunk(r.heap, ToChunk(p + CKB_SIZE_ALIGN),
                                 grow - CKB_SIZE_ALIGN, TRUE),
              ptr |-> ToChunk(p + CKB_SIZE_ALIGN)]

-----------------------------------------------------------------------------
(* malloc, realloc, free.                                                  *)

adjust_size(n) ==
    IF n = 0 THEN CKB_SIZE_ALIGN
    ELSE IF n - 1 > SIZE_LIMIT THEN -1
    ELSE RoundUp(n + CKB_OVERHEAD, CKB_SIZE_ALIGN)

\* Mutant: next->psize not updated.
split_chunk_no_footer(h, self, n, b) ==
    LET t == tag(h, self, n, 1)
    IN  [t EXCEPT !.csize = Assign(@, self + n, Word(ChunkSize(h, self) - n, b)),
                  !.psize = Assign(@, NextChunk(h, self), h.psize[NextChunk(h, self)])]

(* self keeps n bytes; the rest becomes a chunk with in-use bit b.         *)
split_chunk(h, self, n, b) ==
    tag(tag(h, self + n, ChunkSize(h, self) - n, b), self, n, 1)

trim(h, self, n) ==
    LET n1 == ChunkSize(h, self)
        i == bin_index(n1 - n)
    IN  IF n >= n1 - CKB_DONTCARE THEN h
        ELSE bin_chunk(lock_bin(split_chunk(h, self, n, 0), i), self + n, i)

(* The bins malloc may take a chunk from.  A bit of binmap is set by       *)
(* bin_chunk only, on a bin its caller locked, so lock_bin changes nothing *)
(* on the bins malloc visits.                                              *)
NonEmptyBins(h, i) == {j \in h.binmap : j >= i /\ h.next[j] # j}

ExactFit(h, i, n) ==
    /\ i < 63 /\ i \in h.binmap /\ h.next[i] # i
    /\ ChunkSize(h, h.next[i]) - n \in 0..CKB_DONTCARE

malloc(h, req) ==
    LET n == adjust_size(req)
        i == bin_index_up(n)
        j == Min(NonEmptyBins(h, i))
        g == expand_heap(h, n)
    IN  IF n = -1 \/ n >= CKB_MMAP_THRESHOLD
        THEN [heap |-> h, ptr |-> NULL]
        ELSE IF ExactFit(h, i, n)
        THEN [heap |-> unbin(h, h.next[i], i), ptr |-> ToMem(h.next[i])]
        ELSE IF NonEmptyBins(h, i) # {}
        THEN [heap |-> trim(unbin(h, h.next[j], j), h.next[j], n),
              ptr |-> ToMem(h.next[j])]
        ELSE IF g.ptr = NULL
        THEN [heap |-> g.heap, ptr |-> NULL]
        ELSE [heap |-> trim(g.heap, g.ptr, n), ptr |-> ToMem(g.ptr)]

\* Mutant: a free neighbour not looked at.
NeverFree(h, self) == FALSE

(* The C __bin_chunk: merge a chunk with its free neighbours and bin it.   *)
PrevFree(h, self) == h.psize[self].inuse = 0 /\ h.psize[self].size # 0
NextFree(h, self) ==
    LET word == h.csize[NextChunk(h, self)] IN word.inuse = 0 /\ word.size # 0

release_chunk(h, self) ==
    LET next == NextChunk(h, self)
        prevFree == PrevFree(h, self)
        nextFree == NextFree(h, self)
        psize == IF prevFree THEN h.psize[self].size ELSE 0
        nsize == IF nextFree THEN h.csize[next].size ELSE 0
        first == self - psize
        size == psize + ChunkSize(h, self) + nsize
        h1 == IF prevFree THEN unbin(h, first, bin_index(psize)) ELSE h
        h2 == IF nextFree THEN unbin(h1, next, bin_index(nsize)) ELSE h1
        i == bin_index(size)
    IN  IF h.psize[next] # h.csize[self]
        THEN a_crash(h)
        ELSE bin_chunk(tag(lock_bin(h2, i), first, size, 0), first, i)

free(h, p) == IF p = NULL THEN h ELSE release_chunk(h, ToChunk(p))

\* Mutants: the old block not freed; as many bytes copied as the new block has.
copy_realloc_no_free(h, p, n, n0) ==
    LET new == malloc(h, n - CKB_OVERHEAD)
    IN  [heap |-> new.heap, ptr |-> new.ptr,
         kept |-> (IF n < n0 THEN n ELSE n0) - CKB_OVERHEAD]
copy_realloc_new_size(h, p, n, n0) ==
    LET new == malloc(h, n - CKB_OVERHEAD)
    IN  [heap |-> IF new.ptr = NULL THEN new.heap ELSE free(new.heap, p),
         ptr |-> new.ptr, kept |-> n - CKB_OVERHEAD]

(* The last resort of realloc; kept is how many leading bytes of the block *)
(* survive.                                                                *)
copy_realloc(h, p, n, n0) ==
    LET new == malloc(h, n - CKB_OVERHEAD)
    IN  IF new.ptr = NULL
        THEN [heap |-> new.heap, ptr |-> NULL, kept |-> 0]
        ELSE [heap |-> free(new.heap, p), ptr |-> new.ptr,
              kept |-> (IF n < n0 THEN n ELSE n0) - CKB_OVERHEAD]

(* A shrinking block moves when bin up, for its new size, has its bit set. *)
BetterMoved(h, n0, up) == up < bin_index(n0) /\ up \in h.binmap

(* realloc of a non-NULL p.  up is the value of bin_index_up for the       *)
(* adjusted size.                                                          *)
realloc(h, p, req, up) ==
    LET n == adjust_size(req)
        self == ToChunk(p)
        n0 == ChunkSize(h, self)
        next == NextChunk(h, self)
        nsize == IF h.csize[next].inuse = 1 THEN 0 ELSE ChunkSize(h, next)
        inPlace(g, kept) == [heap |-> g, ptr |-> p, kept |-> kept]
        joined == tag(unbin(h, next, bin_index(nsize)), self, n0 + nsize, 1)
        failed(g) == [heap |-> g, ptr |-> NULL, kept |-> 0]
    IN  IF n = -1 THEN failed(h)
        ELSE IF n <= n0 /\ n0 - n <= CKB_DONTCARE
        THEN inPlace(h, n0 - CKB_OVERHEAD)
        ELSE IF h.psize[next] # h.csize[self] THEN failed(a_crash(h))
        ELSE IF n < n0 /\ ~BetterMoved(h, n0, up)
        THEN inPlace(release_chunk(split_chunk(h, self, n, 1), self + n),
                     n - CKB_OVERHEAD)
        ELSE IF n > n0 /\ nsize # 0 /\ n0 + nsize >= n
        THEN inPlace(trim(joined, self, n), n0 - CKB_OVERHEAD)
        ELSE copy_realloc(h, p, n, n0)

-----------------------------------------------------------------------------
(* The calls of a client that frees and resizes only blocks it holds and   *)
(* writes only inside them.                                                *)

Init ==
    /\ \E r \in BrkRanges :
         heap = [csize |-> NoWords, psize |-> NoWords,
                 next |-> NoWords, prev |-> NoWords,
                 binmap |-> {}, brk |-> 0, brk_min |-> r[1], brk_max |-> r[2],
                 end |-> 0, crashed |-> FALSE]
    /\ live = NoWords

(* Meant for the time before the first allocation: the bins survive it.    *)
malloc_config(min, max) ==
    /\ heap.end = 0
    /\ heap' = [heap EXCEPT !.brk_min = min, !.brk_max = max, !.brk = 0]
    /\ UNCHANGED live

Malloc(n) ==
    /\ Cardinality(DOMAIN live) < MaxLive
    /\ \E r \in {malloc(heap, n)} :
           /\ heap' = r.heap
           /\ live' = IF r.ptr = NULL THEN live ELSE Assign(live, r.ptr, n)

Realloc(p, n) ==
    \E r \in {realloc(heap, p, n, up) : up \in bin_index_ups(adjust_size(n))} :
        /\ heap' = r.heap
        /\ live' = IF r.ptr = NULL THEN live ELSE Assign(Drop(live, p), r.ptr, n)

Free(p) ==
    /\ heap' = free(heap, p)
    /\ live' = Drop(live, p)

Next ==
    /\ ~heap.crashed
    /\ \/ \E r \in BrkRanges : malloc_config(r[1], r[2])
       \/ \E n \in Requests : Malloc(n)
       \/ \E p \in DOMAIN live, n \in Requests : Realloc(p, n)
       \/ \E p \in DOMAIN live \cup {NULL} : Free(p)

Spec == Init /\ [][Next]_vars

-----------------------------------------------------------------------------
(* Properties.                                                             *)

FreeChunks(h) == {c \in Headers(h) : h.csize[c].inuse = 0}
UsedChunks(h) == {c \in Headers(h) : h.csize[c].inuse = 1 /\ h.csize[c].size > 0}

WordType == [size : Nat, inuse : {0, 1}]

(* Every field of the allocator's state and every client block is of its   *)
(* type; links exist for free chunks and used bins only.                   *)
TypeOK ==
    /\ heap.csize \in [Headers(heap) -> WordType]
    /\ heap.psize \in [Headers(heap) -> WordType]
    /\ Headers(heap) \subseteq Nat
    /\ DOMAIN heap.next \subseteq FreeChunks(heap) \cup Bins
    /\ heap.next \in [DOMAIN heap.next -> DOMAIN heap.next]
    /\ heap.prev \in [DOMAIN heap.next -> DOMAIN heap.next]
    /\ heap.binmap \subseteq Bins
    /\ {heap.brk, heap.brk_min, heap.brk_max, heap.end} \subseteq Nat
    /\ heap.crashed \in BOOLEAN
    /\ live \in [DOMAIN live -> Nat]

(* Walking csize forward and psize backward gives the same chunks: each    *)
(* footer repeats its header, chunks do not overlap, and the walk ends at  *)
(* the zero-sized header below end.                                        *)
BoundaryTagsAgree ==
    /\ \A c \in Headers(heap) : ChunkSize(heap, c) > 0 =>
         /\ NextChunk(heap, c) \in Headers(heap)
         /\ heap.psize[NextChunk(heap, c)] = heap.csize[c]
    /\ \A c, d \in Headers(heap) : c < d => NextChunk(heap, c) <= d
    /\ \A c \in Headers(heap) :
         ChunkSize(heap, c) = 0 <=> c = ToChunk(heap.end)

(* Blocks handed out are 32-byte aligned, lie between brk_min and the      *)
(* break, and no block reaches into another block or into a header.        *)
BlocksDisjoint ==
    \A p \in DOMAIN live :
        /\ p % CKB_SIZE_ALIGN = 0
        /\ p >= heap.brk_min /\ p + live[p] <= heap.brk
        /\ \A q \in DOMAIN live : p < q => p + live[p] <= ToChunk(q)
        /\ \A c \in Headers(heap) : p <= c => p + live[p] <= c

(* A chunk is in use exactly when the client holds its block: realloc and  *)
(* the failing paths neither lose a chunk nor hand one out twice.          *)
NoLeak == {ToMem(c) : c \in UsedChunks(heap)} = DOMAIN live

(* Free neighbours have been merged.                                       *)
Coalesced ==
    \A c \in FreeChunks(heap) : NextChunk(heap, c) \notin FreeChunks(heap)

(* The chunks on the list of bin i are the free chunks of bin i's sizes,   *)
(* the lists are doubly linked, and binmap has the bits of the bins that   *)
(* hold a chunk.                                                           *)
BinOf(h, c) == IF c \in Bins THEN c ELSE bin_index(ChunkSize(h, c))
FreeListsExact ==
    /\ FreeChunks(heap) = DOMAIN heap.next \ Bins
    /\ \A x \in DOMAIN heap.next :
         /\ heap.prev[heap.next[x]] = x /\ heap.next[heap.prev[x]] = x
         /\ BinOf(heap, heap.next[x]) = BinOf(heap, x)
    /\ heap.binmap = {bin_index(ChunkSize(heap, c)) : c \in FreeChunks(heap)}

(* The footer check of free and realloc never fires on a client that stays *)
(* inside its blocks.                                                      *)
NeverCrashes == ~heap.crashed

(* With no block left, the heap is one free chunk between its first header *)
(* and the zero-sized one below end: no order of calls fragments an empty  *)
(* heap.                                                                   *)
EmptyHeapIsWhole ==
    live = NoWords /\ heap.end # 0 =>
        \E c \in FreeChunks(heap) :
            Headers(heap) = {c, ToChunk(heap.end)} /\ heap.psize[c] = Word(0, 1)

(* The bytes realloc carries over cover what the client could use before   *)
(* and after, and fit both the old and the new chunk.                      *)
KeepsData(p, n, r) ==
    r.ptr # NULL =>
        /\ r.kept >= Min({live[p], n})
        /\ r.kept <= ChunkSize(heap, ToChunk(p)) - CKB_OVERHEAD
        /\ r.kept <= ChunkSize(r.heap, ToChunk(r.ptr)) - CKB_OVERHEAD

(* Shrinking a block below the malloc size limit cannot fail: the copying  *)
(* path of realloc is taken only when a bin holds a chunk for the copy.    *)
ShrinkSucceeds(p, n, r) ==
    n <= live[p] /\ adjust_size(n) < CKB_MMAP_THRESHOLD => r.ptr # NULL

(* malloc gives up on a supported size only when every free chunk is       *)
(* smaller than 5/4 of the chunk wanted and the break cannot be raised far *)
(* enough: the bins hide nothing larger.                                   *)
FirstBreak == IF heap.brk = 0 THEN RoundUp(heap.brk_min, CKB_PAGE_SIZE) ELSE heap.brk
FailsOnlyWhenFull(n, r) ==
    n \in 1..(CKB_MMAP_THRESHOLD - 1) /\ r.ptr = NULL =>
        /\ \A c \in FreeChunks(heap) : 4 * ChunkSize(heap, c) < 5 * n
        /\ FirstBreak + RoundUp(n + CKB_SIZE_ALIGN, CKB_PAGE_SIZE) > heap.brk_max

(* A call that returns NULL leaves the chunks, the lists and the client's  *)
(* block as they were: at most the break has been initialised.             *)
FailureKeepsHeap(r) == r.ptr = NULL => r.heap = [heap EXCEPT !.brk = r.heap.brk]

(* What each call may be relied on for, whatever was called before, every  *)
(* request tried in every state: malloc gives up on a supported size only  *)
(* when the bins and the break leave no other way; realloc carries over    *)
(* all the data that fits; shrinking succeeds; a call that fails leaves    *)
(* the heap as it was; and an empty heap is one chunk again (malloc,       *)
(* realloc, trim, free).                                                   *)
CallsExact ==
    /\ NeverCrashes /\ EmptyHeapIsWhole
    /\ \A n \in Requests :
         /\ \A r \in {malloc(heap, n)} :
              FailsOnlyWhenFull(adjust_size(n), r) /\ FailureKeepsHeap(r)
         /\ \A p \in DOMAIN live, up \in bin_index_ups(adjust_size(n)) :
              \A r \in {realloc(heap, p, n, up)} :
                  KeepsData(p, n, r) /\ ShrinkSucceeds(p, n, r) /\ FailureKeepsHeap(r)

-----------------------------------------------------------------------------
Promise == INSTANCE Allocator WITH blocks <- live

(* malloc, realloc and free implement the abstract allocator: blocks never *)
(* overlap, no call touches a block it does not name, and a failing call   *)
(* touches none.                                                           *)
ImplementsAllocator == Promise!Spec

=============================================================================
