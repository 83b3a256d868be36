------------------------------ MODULE MCMalloc ------------------------------
(***************************************************************************)
(* Malloc for TLC: regions of one page up to most of the heap, each with   *)
(* clients that ask for sizes that make its cases happen.                  *)
(***************************************************************************)
EXTENDS Malloc, Sequences

\* The table as malloc_impl.c spells it out.
BinTabBytes ==
    <<32, 33, 34, 35, 36, 36, 37, 37, 38, 38, 39, 39, 40, 40, 40, 40, 41, 41, 41, 41,
      42, 42, 42, 42, 43, 43, 43, 43, 44, 44, 44, 44, 44, 44, 44, 44, 45, 45, 45, 45,
      45, 45, 45, 45, 46, 46, 46, 46, 46, 46, 46, 46, 47, 47, 47, 47, 47, 47, 47, 47>>
ASSUME BinTabAssumption ==
    Len(BinTabBytes) = 60 /\ \A k \in 0..59 : bin_tab[k] = BinTabBytes[k + 1]

VARIABLE sizes    \* the sizes the client of this behaviour asks for

(* The smallest chunks, where a remainder is as small as a chunk can be; a *)
(* quarter and three quarters of a page in two pages; whole pages in the   *)
(* bins that hold a range of sizes; and sizes around the one malloc        *)
(* refuses, beyond bin_tab and beyond SIZE_LIMIT.                          *)
Tiny == {0, 24}
Quarters == {1008, 3056}
Pages == {4064, 8176, 16368}
Huge == {131056, 262192, 393200, 1000002}

\* A region that starts off a page boundary, and one of a single page.
TwoPages == <<8190, 16384>>
OnePage == <<8192, 12288>>
EightPages == <<8192, 40960>>
MostOfTheHeap == <<8192, 563200>>
Clients ==
    [r \in {OnePage, TwoPages, EightPages, MostOfTheHeap} |->
        CASE r = OnePage -> {Tiny}
          [] r = TwoPages -> {Tiny, Quarters}
          [] r = EightPages -> {Pages}
          [] OTHER -> {Huge}]

AllSizes == Tiny \cup Quarters \cup Pages \cup Huge
AllRanges == DOMAIN Clients

MCInit == Init /\ sizes \in Clients[<<heap.brk_min, heap.brk_max>>]

MCNext ==
    /\ ~heap.crashed
    /\ \/ \E r \in BrkRanges : malloc_config(r[1], r[2]) /\ sizes' \in Clients[r]
       \/ \E n \in sizes : Malloc(n) /\ UNCHANGED sizes
       \/ \E p \in DOMAIN live, n \in sizes : Realloc(p, n) /\ UNCHANGED sizes
       \/ \E p \in DOMAIN live \cup {NULL} : Free(p) /\ UNCHANGED sizes

MCSpec == MCInit /\ [][MCNext]_<<vars, sizes>>
=============================================================================
