---------------------------- MODULE MallocProofs ----------------------------
(***************************************************************************)
(* Proofs about Malloc, for every set of requests, every region and any    *)
(* number of blocks.  The inductive invariant HeapOK speaks of a heap h,   *)
(* and each C function gets a lemma: from HeapOK(h) it makes a heap that   *)
(* is HeapOK again and differs in the chunks it says.                      *)
(***************************************************************************)
EXTENDS Malloc, WellFoundedInduction, TLAPS

-----------------------------------------------------------------------------
(* The invariant, in parts.                                                *)

Fields == {"csize", "psize", "next", "prev", "binmap", "brk", "brk_min",
           "brk_max", "end", "crashed"}
IsRec(h) == h = [f \in Fields |-> h[f]]

Typed(h) ==
    /\ IsRec(h)
    /\ h.csize \in [Headers(h) -> WordType]
    /\ h.psize \in [Headers(h) -> WordType]
    /\ Headers(h) \subseteq Nat
    /\ h.brk \in Nat /\ h.brk_min \in Nat /\ h.brk_max \in Nat /\ h.end \in Nat

\* Each chunk's footer repeats its header...
Forward(h) ==
    \A c \in Headers(h) : ChunkSize(h, c) > 0 =>
        /\ NextChunk(h, c) \in Headers(h)
        /\ h.psize[NextChunk(h, c)] = h.csize[c]

\* ... and each header is the footer of a chunk, except the first.
Backward(h) ==
    \A c \in Headers(h) :
        IF h.psize[c].size = 0 THEN h.psize[c].inuse = 1
        ELSE PrevChunk(h, c) \in Headers(h) /\ h.csize[PrevChunk(h, c)] = h.psize[c]

NoOverlap(h) == \A c, d \in Headers(h) : c < d => NextChunk(h, c) <= d

PlacedAt(h, c) ==
    /\ c % 32 = 16 /\ c > 63 /\ c >= h.brk_min /\ c + 16 <= h.end
    /\ h.csize[c].size % 32 = 0
    /\ h.csize[c].size = 0 <=> c = h.end - 16
    /\ h.csize[c].size = 0 => h.csize[c].inuse = 1
Placed(h) == \A c \in Headers(h) : PlacedAt(h, c)

Region(h) ==
    /\ h.end # 0 => h.end - 16 \in Headers(h) /\ h.brk = h.end
    \* Something lies below the last header.
    /\ h.end # 0 => h.psize[h.end - 16].size > 0
    /\ h.end = 0 => Headers(h) = {}
    /\ h.brk % 4096 = 0
    /\ h.brk # 0 => h.brk >= h.brk_min
    /\ h.brk_min > 0

Shape(h) ==
    Typed(h) /\ Forward(h) /\ Backward(h) /\ NoOverlap(h) /\ Placed(h) /\ Region(h)

\* binmap has the bits of the bins that hold a chunk.
BitsExact(h) == \A i \in Bins \cap DOMAIN h.next : i \in h.binmap <=> h.next[i] # i

\* Along a list ranks grow until it is back at its bin: every cycle of links
\* goes through a bin.
Ranks(next, rank) ==
    /\ rank \in [DOMAIN next -> Nat]
    /\ \A x \in DOMAIN next : next[x] \notin Bins => rank[x] < rank[next[x]]
Ranked(next) == \E rank : Ranks(next, rank)

\* The chunks on the free lists are those of F.
Lists(h, F) ==
    /\ h.next \in [DOMAIN h.next -> DOMAIN h.next]
    /\ h.prev \in [DOMAIN h.next -> DOMAIN h.next]
    /\ \A x : x \in DOMAIN h.next /\ x \notin Bins <=> x \in F
    /\ \A x \in DOMAIN h.next :
         /\ h.prev[h.next[x]] = x /\ h.next[h.prev[x]] = x
         /\ BinOf(h, h.next[x]) = BinOf(h, x)
    /\ h.binmap \subseteq Bins \cap DOMAIN h.next
    /\ BitsExact(h) /\ Ranked(h.next)

Merged(h) ==
    \A c \in Headers(h) : h.csize[c].inuse = 0 => h.csize[NextChunk(h, c)].inuse = 1

HeapOK(h) ==
    Shape(h) /\ Lists(h, FreeChunks(h)) /\ Merged(h) /\ h.crashed = FALSE

-----------------------------------------------------------------------------
(* Steps on the header words.                                              *)

SameRegion(h, g) ==
    /\ g.brk = h.brk /\ g.brk_min = h.brk_min /\ g.brk_max = h.brk_max
    /\ g.end = h.end /\ g.crashed = h.crashed

SameLinks(h, g) == g.next = h.next /\ g.prev = h.prev /\ g.binmap = h.binmap

\* g is h with the chunks from c up to c + n made one chunk.
Retagged(h, g, c, n, b) ==
    /\ Typed(g) /\ SameRegion(h, g)
    /\ \A d : d \in Headers(g) <=> d \in Headers(h) /\ ~(c < d /\ d < c + n)
    /\ \A d \in Headers(g) : g.csize[d] = IF d = c THEN Word(n, b) ELSE h.csize[d]
    /\ \A d \in Headers(g) : g.psize[d] = IF d = c + n THEN Word(n, b) ELSE h.psize[d]

\* g is h with the chunk c cut in two at c + n.
Cut(h, g, c, n, b) ==
    /\ Typed(g) /\ SameRegion(h, g)
    /\ \A d : d \in Headers(g) <=> d \in Headers(h) \/ d = c + n
    /\ \A d \in Headers(g) :
         g.csize[d] = IF d = c THEN Word(n, 1)
                      ELSE IF d = c + n THEN Word(ChunkSize(h, c) - n, b)
                      ELSE h.csize[d]
    /\ \A d \in Headers(g) :
         g.psize[d] = IF d = c + n THEN Word(n, 1)
                      ELSE IF d = NextChunk(h, c) THEN Word(ChunkSize(h, c) - n, b)
                      ELSE h.psize[d]

LEMMA SameSet ==
    ASSUME NEW S, NEW T, \A x : x \in S <=> x \in T
    PROVE  S = T
OBVIOUS

LEMMA WordFacts ==
    ASSUME NEW n \in Nat, NEW b \in {0, 1}
    PROVE  /\ Word(n, b) \in WordType
           /\ Word(n, b).size = n /\ Word(n, b).inuse = b
BY DEF Word, WordType

LEMMA TypedFacts ==
    ASSUME NEW h, Typed(h), NEW c \in Headers(h)
    PROVE  /\ c \in Nat
           /\ h.csize[c] \in WordType /\ h.psize[c] \in WordType
           /\ h.csize[c].size \in Nat /\ h.csize[c].inuse \in {0, 1}
           /\ h.psize[c].size \in Nat /\ h.psize[c].inuse \in {0, 1}
           /\ ChunkSize(h, c) \in Nat /\ ChunkSize(h, c) = h.csize[c].size
           /\ NextChunk(h, c) \in Nat /\ NextChunk(h, c) = c + ChunkSize(h, c)
           /\ h.csize[c] = Word(h.csize[c].size, h.csize[c].inuse)
           /\ h.psize[c] = Word(h.psize[c].size, h.psize[c].inuse)
BY DEF Typed, WordType, ChunkSize, NextChunk, Word

LEMMA TagFields ==
    ASSUME NEW h, IsRec(h), NEW c, NEW n, NEW b
    PROVE  LET g == tag(h, c, n, b)
           IN  /\ IsRec(g) /\ SameRegion(h, g) /\ SameLinks(h, g)
               /\ g.csize = Assign(Without(h.csize, Inside(h, c, n)), c, Word(n, b))
               /\ g.psize = Assign(Without(h.psize, Inside(h, c, n)), c + n, Word(n, b))
BY DEF IsRec, tag, Fields, SameRegion, SameLinks

\* What makes a heap with given words Typed.
LEMMA TypedBy ==
    ASSUME NEW g, NEW H, IsRec(g), H \subseteq Nat,
           DOMAIN g.csize = H, DOMAIN g.psize = H,
           g.csize = [d \in H |-> g.csize[d]], g.psize = [d \in H |-> g.psize[d]],
           \A d \in H : g.csize[d] \in WordType /\ g.psize[d] \in WordType,
           g.brk \in Nat, g.brk_min \in Nat, g.brk_max \in Nat, g.end \in Nat
    PROVE  Typed(g)
<1>1. g.csize \in [H -> WordType] /\ g.psize \in [H -> WordType]
  OBVIOUS
<1> QED BY <1>1 DEF Typed, Headers

LEMMA TagWords ==
    ASSUME NEW h, Typed(h), NEW c \in Headers(h), NEW n \in Nat, n > 0,
           c + n \in Headers(h), NEW b \in {0, 1}
    PROVE  Retagged(h, tag(h, c, n, b), c, n, b)
<1> DEFINE g == tag(h, c, n, b)
           inside == Inside(h, c, n)
           H == Headers(h) \ inside
<1>1. c \in Nat /\ c \notin inside /\ c + n \notin inside /\ H \subseteq Nat
  BY DEF Typed, Inside
<1>2. /\ g.csize = Assign(Without(h.csize, inside), c, Word(n, b))
      /\ g.psize = Assign(Without(h.psize, inside), c + n, Word(n, b))
      /\ IsRec(g) /\ SameRegion(h, g)
  BY TagFields DEF Typed
<1>3. DOMAIN h.psize = Headers(h) /\ DOMAIN h.csize = Headers(h)
  BY DEF Typed, Headers
<1>4. DOMAIN g.csize = H /\ DOMAIN g.psize = H
  BY <1>1, <1>2, <1>3 DEF Assign, Without
<1>5. \A d \in H : g.csize[d] = IF d = c THEN Word(n, b) ELSE h.csize[d]
  BY <1>2, <1>3, <1>4 DEF Assign, Without
<1>6. \A d \in H : g.psize[d] = IF d = c + n THEN Word(n, b) ELSE h.psize[d]
  BY <1>2, <1>3, <1>4 DEF Assign, Without
<1>7. Typed(g)
  <2>1. g.csize = [d \in H |-> g.csize[d]] /\ g.psize = [d \in H |-> g.psize[d]]
    BY <1>2, <1>4 DEF Assign
  <2>2. \A d \in H : g.csize[d] \in WordType /\ g.psize[d] \in WordType
    BY <1>5, <1>6, WordFacts, TypedFacts
  <2>3. g.brk \in Nat /\ g.brk_min \in Nat /\ g.brk_max \in Nat /\ g.end \in Nat
    BY <1>2 DEF SameRegion, Typed
  <2> HIDE DEF H, g
  <2> QED BY <1>1, <1>2, <1>4, <2>1, <2>2, <2>3, TypedBy
<1> HIDE DEF g
<1> QED BY <1>2, <1>4, <1>5, <1>6, <1>7 DEF Retagged, Headers, Inside, g

LEMMA RetagShape ==
    ASSUME NEW h, Shape(h), NEW c \in Headers(h), NEW n \in Nat, n > 0,
           c + n \in Headers(h), NEW b \in {0, 1},
           NEW g, Retagged(h, g, c, n, b)
    PROVE  Shape(g)
<1> USE DEF Shape
<1>1. Typed(h) /\ Typed(g) /\ SameRegion(h, g)
  BY DEF Retagged
<1>2. /\ \A d : d \in Headers(g) <=> d \in Headers(h) /\ ~(c < d /\ d < c + n)
      /\ \A d \in Headers(g) : g.csize[d] = IF d = c THEN Word(n, b) ELSE h.csize[d]
      /\ \A d \in Headers(g) : g.psize[d] = IF d = c + n THEN Word(n, b) ELSE h.psize[d]
  BY DEF Retagged
<1>3. \A d \in Headers(h) : d \in Nat /\ h.csize[d].size \in Nat /\ h.psize[d].size \in Nat
  BY <1>1, TypedFacts
<1>4. Word(n, b).size = n /\ Word(n, b).inuse = b
  BY WordFacts
<1>5. n % 32 = 0 /\ c + n <= h.end - 16 /\ c < h.end - 16 /\ h.end \in Nat
  <2>1. c % 32 = 16 /\ (c + n) % 32 = 16 /\ c + n + 16 <= h.end /\ h.end \in Nat
    BY DEF Placed, PlacedAt, Typed
  <2> QED BY <2>1, <1>3
<1>6. Forward(g)
  BY <1>2, <1>3, <1>4 DEF Forward, NoOverlap, NextChunk, ChunkSize
<1>7. Backward(g)
  <2> SUFFICES ASSUME NEW d \in Headers(g)
               PROVE  IF g.psize[d].size = 0 THEN g.psize[d].inuse = 1
                      ELSE /\ PrevChunk(g, d) \in Headers(g)
                           /\ g.csize[PrevChunk(g, d)] = g.psize[d]
    BY DEF Backward
  <2>1. CASE d = c + n
    <3>1. c \in Nat /\ c \in Headers(g) /\ g.csize[c] = Word(n, b)
      BY <1>2, <1>3
    <3>2. g.psize[d] = Word(n, b) /\ g.psize[d].size = n
      BY <2>1, <1>2, <1>4
    <3>3. PrevChunk(g, d) = c
      BY <2>1, <3>1, <3>2 DEF PrevChunk
    <3> QED BY <3>1, <3>2, <3>3
  <2>2. CASE d # c + n
    <3>1. /\ d \in Headers(h) /\ g.psize[d] = h.psize[d]
          /\ PrevChunk(g, d) = PrevChunk(h, d) /\ ~(c < d /\ d < c + n)
      BY <2>2, <1>2 DEF PrevChunk
    <3>2. CASE h.psize[d].size = 0
      BY <3>1, <3>2 DEF Backward
    <3>3. CASE h.psize[d].size # 0
      <4> DEFINE p == PrevChunk(h, d)
      <4>1. p \in Headers(h) /\ h.csize[p] = h.psize[d]
        BY <3>1, <3>3 DEF Backward
      <4>2. /\ p \in Nat /\ d \in Nat /\ c \in Nat /\ p < d
            /\ p + h.csize[p].size = d
        BY <3>1, <3>3, <4>1, <1>3 DEF PrevChunk
      <4>3. p < c + n => d <= c + n
        BY <4>1, <4>2 DEF NoOverlap, NextChunk
      <4> HIDE DEF p
      <4>4. p # c /\ ~(c < p /\ p < c + n)
        BY <2>2, <3>1, <4>2, <4>3
      <4>5. p \in Headers(g) /\ g.csize[p] = h.csize[p]
        BY <1>2, <4>1, <4>4
      <4> QED BY <3>1, <3>3, <4>1, <4>5 DEF p
    <3> QED BY <3>2, <3>3
  <2> QED BY <2>1, <2>2
<1>8. NoOverlap(g)
  BY <1>2, <1>3, <1>4 DEF NoOverlap, NextChunk
<1>9. Placed(g)
  <2> SUFFICES ASSUME NEW d \in Headers(g) PROVE PlacedAt(g, d)
    BY DEF Placed
  <2>1. PlacedAt(h, d) /\ d \in Nat
    BY <1>2, <1>3 DEF Placed
  <2>2. CASE d = c
    <3>1. g.csize[d].size = n
      BY <2>2, <1>2, <1>4
    <3> QED BY <3>1, <2>1, <2>2, <1>1, <1>5 DEF SameRegion, PlacedAt
  <2>3. CASE d # c
    BY <2>1, <2>3, <1>1, <1>2 DEF PlacedAt, SameRegion
  <2> QED BY <2>2, <2>3
<1>10. Region(g)
  <2>1. h.end # 0 /\ h.end - 16 \in Headers(g)
    <3>1. c \in Nat /\ h.end # 0 /\ h.end - 16 \in Headers(h)
      BY <1>3, <1>5 DEF Region
    <3> QED BY <3>1, <1>2, <1>5
  <2>2. g.psize[h.end - 16].size > 0
    BY <2>1, <1>1, <1>2, <1>4 DEF Region
  <2> QED BY <2>1, <2>2, <1>1 DEF Region, SameRegion
<1> QED BY <1>1, <1>6, <1>7, <1>8, <1>9, <1>10

LEMMA SplitWords ==
    ASSUME NEW h, Shape(h), NEW c \in Headers(h), NEW n \in Nat, n > 0,
           n < ChunkSize(h, c), NEW b \in {0, 1}
    PROVE  /\ Cut(h, split_chunk(h, c, n, b), c, n, b)
           /\ SameLinks(h, split_chunk(h, c, n, b))
<1> DEFINE s == ChunkSize(h, c)
           e == c + n
           m == s - n
           k == tag(h, e, m, b)
           g == split_chunk(h, c, n, b)
           H == Headers(h) \cup {c + n}
<1>1. /\ c \in Nat /\ s \in Nat /\ c + n \in Nat /\ s - n \in Nat
      /\ NextChunk(h, c) = c + s /\ c + s \in Headers(h)
      /\ H \subseteq Nat /\ IsRec(h)
  BY TypedFacts DEF Shape, Typed, Forward
<1>2. \A d \in Headers(h) : c < d => c + s <= d
  BY <1>1 DEF Shape, NoOverlap
<1>3. Inside(h, c + n, s - n) = {} /\ c + n \notin Headers(h)
  BY <1>1, <1>2 DEF Inside
<1>4. DOMAIN h.csize = Headers(h) /\ DOMAIN h.psize = Headers(h)
  BY DEF Shape, Typed, Headers
<1>5. /\ IsRec(k) /\ SameRegion(h, k) /\ SameLinks(h, k)
      /\ k.csize = Assign(Without(h.csize, {}), e, Word(m, b))
      /\ k.psize = Assign(Without(h.psize, {}), e + m, Word(m, b))
  <2>1. Inside(h, e, m) = {} /\ IsRec(h)
    BY <1>1, <1>3
  <2> HIDE DEF e, m
  <2>2. /\ IsRec(k) /\ SameRegion(h, k) /\ SameLinks(h, k)
        /\ k.csize = Assign(Without(h.csize, Inside(h, e, m)), e, Word(m, b))
        /\ k.psize = Assign(Without(h.psize, Inside(h, e, m)), e + m, Word(m, b))
    BY <2>1, TagFields
  <2> QED BY <2>1, <2>2
<1>6. e + m = c + s
  BY <1>1
<1>7. /\ DOMAIN k.csize = H /\ DOMAIN k.psize = Headers(h)
      /\ \A d \in H : k.csize[d] = IF d = e THEN Word(m, b) ELSE h.csize[d]
      /\ \A d \in Headers(h) : k.psize[d] = IF d = c + s THEN Word(m, b) ELSE h.psize[d]
  <2> H = Headers(h) \cup {e}
    OBVIOUS
  <2> HIDE DEF k, e, m, H
  <2> QED BY <1>1, <1>4, <1>5, <1>6 DEF Assign, Without
<1>8. Inside(k, c, n) = {}
  BY <1>1, <1>2, <1>7 DEF Inside, Headers
<1>9. /\ IsRec(g) /\ SameRegion(h, g) /\ SameLinks(h, g)
      /\ g.csize = Assign(Without(k.csize, {}), c, Word(n, 1))
      /\ g.psize = Assign(Without(k.psize, {}), c + n, Word(n, 1))
  <2>1. g = tag(k, c, n, 1)
    BY DEF split_chunk
  <2> HIDE DEF g, k
  <2>2. /\ IsRec(g) /\ SameRegion(k, g) /\ SameLinks(k, g)
        /\ g.csize = Assign(Without(k.csize, Inside(k, c, n)), c, Word(n, 1))
        /\ g.psize = Assign(Without(k.psize, Inside(k, c, n)), c + n, Word(n, 1))
    BY <2>1, <1>5, TagFields
  <2> QED BY <2>2, <1>5, <1>8 DEF SameRegion, SameLinks
<1> HIDE DEF g, k
<1>10. /\ DOMAIN g.csize = H /\ DOMAIN g.psize = H
       /\ \A d \in H : g.csize[d] = IF d = c THEN Word(n, 1) ELSE k.csize[d]
       /\ \A d \in H : g.psize[d] = IF d = c + n THEN Word(n, 1) ELSE k.psize[d]
  BY <1>7, <1>9 DEF Assign, Without
<1>11. Typed(g)
  <2>1. g.csize = [d \in H |-> g.csize[d]] /\ g.psize = [d \in H |-> g.psize[d]]
    BY <1>9, <1>10 DEF Assign
  <2>2. Word(n, 1) \in WordType /\ Word(s - n, b) \in WordType
    BY <1>1, WordFacts
  <2>3. \A d \in Headers(h) : h.csize[d] \in WordType /\ h.psize[d] \in WordType
    BY TypedFacts DEF Shape
  <2>4. \A d \in H : g.csize[d] \in WordType /\ g.psize[d] \in WordType
    BY <2>2, <2>3, <1>7, <1>10
  <2>5. g.brk \in Nat /\ g.brk_min \in Nat /\ g.brk_max \in Nat /\ g.end \in Nat
    BY <1>9 DEF SameRegion, Shape, Typed
  <2> HIDE DEF H
  <2> QED BY <1>1, <1>9, <1>10, <2>1, <2>4, <2>5, TypedBy
<1>12. Headers(g) = H
  BY <1>10 DEF Headers
<1>13. Cut(h, g, c, n, b)
  BY <1>1, <1>3, <1>7, <1>9, <1>10, <1>11, <1>12 DEF Cut
<1> QED BY <1>9, <1>13 DEF g

LEMMA CutShape ==
    ASSUME NEW h, Shape(h), NEW c \in Headers(h), NEW n \in Nat, n > 0,
           n % 32 = 0, n < ChunkSize(h, c), NEW b \in {0, 1},
           NEW g, Cut(h, g, c, n, b)
    PROVE  Shape(g)
<1> DEFINE s == ChunkSize(h, c)
<1> USE DEF Shape
<1>1. Typed(h) /\ Typed(g) /\ SameRegion(h, g)
  BY DEF Cut
<1>2. /\ c \in Nat /\ s \in Nat /\ s = h.csize[c].size /\ NextChunk(h, c) = c + s
      /\ c + s \in Headers(h) /\ h.psize[c + s] = h.csize[c]
      /\ c + n \in Nat /\ s - n \in Nat /\ c + n # c + s
  BY <1>1, TypedFacts DEF Forward
<1>3. /\ \A d : d \in Headers(g) <=> d \in Headers(h) \/ d = c + n
      /\ \A d \in Headers(g) : g.csize[d] = IF d = c THEN Word(n, 1)
                                           ELSE IF d = c + n THEN Word(s - n, b)
                                           ELSE h.csize[d]
      /\ \A d \in Headers(g) : g.psize[d] = IF d = c + n THEN Word(n, 1)
                                           ELSE IF d = c + s THEN Word(s - n, b)
                                           ELSE h.psize[d]
  BY <1>2 DEF Cut
<1>4. \A d \in Headers(h) : d \in Nat /\ h.csize[d].size \in Nat /\ h.psize[d].size \in Nat
  BY <1>1, TypedFacts
<1>5. /\ Word(n, 1).size = n /\ Word(n, 1).inuse = 1
      /\ Word(s - n, b).size = s - n /\ Word(s - n, b).inuse = b
  BY <1>2, WordFacts
<1>6. \A d \in Headers(h) : c < d => c + s <= d
  BY <1>2 DEF NoOverlap
<1> HIDE DEF s
<1>7. Forward(g)
  <2> SUFFICES ASSUME NEW d \in Headers(g), g.csize[d].size > 0
               PROVE  /\ d + g.csize[d].size \in Headers(g)
                      /\ g.psize[d + g.csize[d].size] = g.csize[d]
    BY DEF Forward, ChunkSize, NextChunk
  <2>1. CASE d = c
    BY <2>1, <1>2, <1>3, <1>5
  <2>2. CASE d = c + n
    BY <2>2, <1>2, <1>3, <1>5
  <2>3. CASE d # c /\ d # c + n
    <3>1. /\ d \in Headers(h) /\ g.csize[d] = h.csize[d]
          /\ d + h.csize[d].size \in Headers(h)
          /\ h.psize[d + h.csize[d].size] = h.csize[d]
      BY <2>3, <1>3 DEF Forward, ChunkSize, NextChunk
    <3>2. d + h.csize[d].size # c + n /\ d + h.csize[d].size # c + s
      BY <3>1, <2>3, <1>2, <1>4, <1>6 DEF NoOverlap, NextChunk
    <3> QED BY <3>1, <3>2, <1>3
  <2> QED BY <2>1, <2>2, <2>3
<1>8. Backward(g)
  <2> SUFFICES ASSUME NEW d \in Headers(g)
               PROVE  IF g.psize[d].size = 0 THEN g.psize[d].inuse = 1
                      ELSE /\ d - g.psize[d].size \in Headers(g)
                           /\ g.csize[d - g.psize[d].size] = g.psize[d]
    BY DEF Backward, PrevChunk
  <2>1. CASE d = c + n
    BY <2>1, <1>2, <1>3, <1>5
  <2>2. CASE d = c + s
    BY <2>2, <1>2, <1>3, <1>5
  <2>3. CASE d # c + n /\ d # c + s
    <3>1. d \in Headers(h) /\ g.psize[d] = h.psize[d]
      BY <2>3, <1>3
    <3>2. IF h.psize[d].size = 0 THEN h.psize[d].inuse = 1
          ELSE /\ d - h.psize[d].size \in Headers(h)
               /\ h.csize[d - h.psize[d].size] = h.psize[d]
      BY <3>1 DEF Backward, PrevChunk
    <3>3. CASE h.psize[d].size # 0
      <4>1. d - h.psize[d].size # c
        BY <3>1, <3>2, <3>3, <2>3, <1>2, <1>4
      <4>2. d - h.psize[d].size # c + n
        BY <3>1, <3>2, <3>3, <1>2, <1>6
      <4> QED BY <4>1, <4>2, <3>1, <3>2, <3>3, <1>3
    <3> QED BY <3>1, <3>2, <3>3
  <2> QED BY <2>1, <2>2, <2>3
<1>9. NoOverlap(g)
  BY <1>2, <1>3, <1>4, <1>5, <1>6 DEF NoOverlap, NextChunk
<1>10. Placed(g)
  <2> SUFFICES ASSUME NEW d \in Headers(g) PROVE PlacedAt(g, d)
    BY DEF Placed
  <2>1. PlacedAt(h, c) /\ PlacedAt(h, c + s) /\ h.end \in Nat /\ h.brk_min \in Nat
    BY <1>2 DEF Placed, Typed
  <2>2. CASE d = c
    BY <2>1, <2>2, <1>1, <1>2, <1>3, <1>5 DEF SameRegion, PlacedAt
  <2>3. CASE d = c + n
    <3>1. g.csize[d].size = s - n /\ s - n > 0
      BY <2>3, <1>2, <1>3, <1>5
    <3>2. c % 32 = 16 /\ s % 32 = 0 /\ c > 63 /\ c >= h.brk_min /\ c + s + 16 <= h.end
      BY <2>1, <1>2 DEF PlacedAt
    <3>3. d % 32 = 16 /\ (s - n) % 32 = 0
      BY <3>2, <2>3, <1>2
    <3>4. d > 63 /\ d >= h.brk_min /\ d + 16 < h.end
      BY <3>2, <2>1, <2>3, <1>2
    <3> QED BY <3>1, <3>3, <3>4, <2>1, <2>3, <1>1, <1>2 DEF SameRegion, PlacedAt
  <2>4. CASE d # c /\ d # c + n
    BY <2>4, <1>1, <1>3 DEF Placed, PlacedAt, SameRegion
  <2> QED BY <2>2, <2>3, <2>4
<1>11. Region(g)
  <2>1. h.end # 0 /\ h.end - 16 \in Headers(h) /\ h.end - 16 \in Headers(g)
    BY <1>1, <1>3 DEF Region
  <2>2. Word(n, 1).size > 0 /\ Word(s - n, b).size > 0
    BY <1>2, WordFacts
  <2>3. g.psize[h.end - 16].size > 0
    BY <2>1, <2>2, <1>1, <1>3 DEF Region
  <2> QED BY <2>1, <2>3, <1>1 DEF Region, SameRegion
<1> QED BY <1>1, <1>7, <1>8, <1>9, <1>10, <1>11

-----------------------------------------------------------------------------
(* Steps on the free lists.                                                *)

SameWords(h, g) == g.csize = h.csize /\ g.psize = h.psize

LEMMA LockFields ==
    ASSUME NEW h, IsRec(h), NEW i
    PROVE  LET g == lock_bin(h, i)
           IN  /\ IsRec(g) /\ SameRegion(h, g) /\ SameWords(h, g)
               /\ g.binmap = h.binmap
               /\ IF i \in DOMAIN h.next THEN g = h
                  ELSE g.next = Assign(h.next, i, i) /\ g.prev = Assign(h.prev, i, i)
BY DEF IsRec, lock_bin, Fields, SameRegion, SameWords

\* The binmap after unbin and after bin_chunk.
BitsLess(h, c, i) == IF h.prev[c] = h.next[c] THEN h.binmap \ {i} ELSE h.binmap
BitsMore(h, i) == IF h.prev[i] = i THEN h.binmap \cup {i} ELSE h.binmap

LEMMA UnbinFields ==
    ASSUME NEW h, IsRec(h), NEW c, NEW i
    PROVE  LET g == unbin(h, c, i)
           IN  /\ IsRec(g) /\ SameRegion(h, g)
               /\ g.binmap = BitsLess(h, c, i)
               /\ g.next = Drop(Assign(h.next, h.prev[c], h.next[c]), c)
               /\ g.prev = Drop(Assign(h.prev, h.next[c], h.prev[c]), c)
               /\ g.csize = Assign(h.csize, c, Word(h.csize[c].size, 1))
               /\ g.psize = Assign(h.psize, NextChunk(h, c),
                                   Word(h.psize[NextChunk(h, c)].size, 1))
BY DEF IsRec, unbin, Fields, SameRegion, BitsLess

LEMMA BinChunkFields ==
    ASSUME NEW h, IsRec(h), NEW c, NEW i
    PROVE  LET g == bin_chunk(h, c, i)
           IN  /\ IsRec(g) /\ SameRegion(h, g) /\ SameWords(h, g)
               /\ g.binmap = BitsMore(h, i)
               /\ g.next = Assign(Assign(h.next, c, i), h.prev[i], c)
               /\ g.prev = Assign(Assign(h.prev, c, h.prev[i]), i, c)
BY DEF IsRec, bin_chunk, Fields, SameRegion, SameWords, BitsMore

\* The lists depend on the links and on the sizes of the listed chunks.
LEMMA ListsKept ==
    ASSUME NEW h, NEW g, NEW F, Lists(h, F), SameLinks(h, g),
           \A x \in F : ChunkSize(g, x) = ChunkSize(h, x)
    PROVE  Lists(g, F)
<1>1. \A x \in DOMAIN h.next : BinOf(g, x) = BinOf(h, x)
  BY DEF Lists, BinOf
<1> QED BY <1>1 DEF Lists, SameLinks, BitsExact

LEMMA LockLists ==
    ASSUME NEW h, IsRec(h), NEW F, Lists(h, F), NEW i \in Bins
    PROVE  Lists(lock_bin(h, i), F) /\ i \in DOMAIN lock_bin(h, i).next
<1> DEFINE g == lock_bin(h, i)
<1>1. /\ SameWords(h, g) /\ g.binmap = h.binmap
      /\ i \in DOMAIN h.next => g = h
      /\ i \notin DOMAIN h.next =>
           g.next = Assign(h.next, i, i) /\ g.prev = Assign(h.prev, i, i)
  BY LockFields
<1> HIDE DEF g
<1>2. CASE i \in DOMAIN h.next
  BY <1>1, <1>2 DEF g
<1>3. CASE i \notin DOMAIN h.next
  <2>1. /\ DOMAIN h.prev = DOMAIN h.next
        /\ DOMAIN g.next = DOMAIN h.next \cup {i} /\ DOMAIN g.prev = DOMAIN g.next
        /\ \A x \in DOMAIN g.next : g.next[x] = IF x = i THEN i ELSE h.next[x]
        /\ \A x \in DOMAIN g.next : g.prev[x] = IF x = i THEN i ELSE h.prev[x]
    BY <1>1, <1>3 DEF Lists, Assign
  <2>2. \A x : BinOf(g, x) = BinOf(h, x)
    BY <1>1 DEF BinOf, ChunkSize, SameWords
  <2>3. \A x \in DOMAIN h.next : /\ h.next[x] \in DOMAIN h.next /\ h.prev[x] \in DOMAIN h.next
                                /\ h.prev[h.next[x]] = x /\ h.next[h.prev[x]] = x
                                /\ BinOf(h, h.next[x]) = BinOf(h, x)
    BY DEF Lists
  <2>4. /\ g.next \in [DOMAIN g.next -> DOMAIN g.next]
        /\ g.prev \in [DOMAIN g.next -> DOMAIN g.next]
    <3>1. /\ g.next = [x \in DOMAIN g.next |-> g.next[x]]
          /\ g.prev = [x \in DOMAIN g.next |-> g.prev[x]]
      BY <1>1, <1>3, <2>1 DEF Assign
    <3>2. \A x \in DOMAIN g.next : g.next[x] \in DOMAIN g.next /\ g.prev[x] \in DOMAIN g.next
      BY <2>1, <2>3
    <3> QED BY <3>1, <3>2
  <2>5. \A x \in DOMAIN g.next :
          /\ g.prev[g.next[x]] = x /\ g.next[g.prev[x]] = x
          /\ BinOf(g, g.next[x]) = BinOf(g, x)
    <3> SUFFICES ASSUME NEW x \in DOMAIN g.next
                 PROVE  /\ g.prev[g.next[x]] = x /\ g.next[g.prev[x]] = x
                        /\ BinOf(g, g.next[x]) = BinOf(g, x)
      OBVIOUS
    <3>1. CASE x = i
      BY <3>1, <2>1, <2>2
    <3>2. CASE x # i
      <4>1. /\ x \in DOMAIN h.next /\ g.next[x] = h.next[x] /\ g.prev[x] = h.prev[x]
            /\ h.next[x] \in DOMAIN h.next /\ h.prev[x] \in DOMAIN h.next
        BY <3>2, <2>1, <2>3
      <4> QED BY <4>1, <1>3, <2>1, <2>2, <2>3
    <3> QED BY <3>1, <3>2
  <2>6. \A x : x \in DOMAIN g.next /\ x \notin Bins <=> x \in F
    BY <2>1 DEF Lists
  <2>7. g.binmap \subseteq Bins \cap DOMAIN g.next
    BY <1>1, <2>1 DEF Lists
  <2>8. BitsExact(g)
    <3>1. BitsExact(h) /\ i \notin h.binmap
      BY <1>3 DEF Lists
    <3> QED BY <3>1, <1>1, <2>1 DEF BitsExact
  <2>9. Ranked(g.next)
    <3>1. PICK rank : Ranks(h.next, rank)
      BY DEF Lists, Ranked
    <3> DEFINE new == [x \in DOMAIN g.next |-> IF x = i THEN 0 ELSE rank[x]]
    <3>2. Ranks(g.next, new)
      <4>1. new \in [DOMAIN g.next -> Nat]
        BY <3>1, <2>1 DEF Ranks
      <4> SUFFICES ASSUME NEW x \in DOMAIN g.next, g.next[x] \notin Bins
                   PROVE  new[x] < new[g.next[x]]
        BY <4>1 DEF Ranks
      <4>2. x # i /\ x \in DOMAIN h.next /\ g.next[x] = h.next[x] /\ h.next[x] # i
        BY <2>1
      <4>3. rank[x] < rank[h.next[x]] /\ h.next[x] \in DOMAIN g.next
        BY <4>2, <3>1, <2>1, <2>3 DEF Ranks
      <4> QED BY <4>2, <4>3
    <3> QED BY <3>2 DEF Ranked
  <2> QED BY <2>1, <2>4, <2>5, <2>6, <2>7, <2>8, <2>9 DEF Lists, g
<1> QED BY <1>2, <1>3

LEMMA UnbinLists ==
    ASSUME NEW h, Typed(h), NEW F, Lists(h, F), F \subseteq Headers(h),
           NEW c \in F, NEW i, i = BinOf(h, c)
    PROVE  Lists(unbin(h, c, i), F \ {c})
<1> DEFINE g == unbin(h, c, i)
           p == h.prev[c]
           n == h.next[c]
<1>1. /\ g.binmap = BitsLess(h, c, i)
      /\ g.next = Drop(Assign(h.next, p, n), c)
      /\ g.prev = Drop(Assign(h.prev, n, p), c)
      /\ g.csize = Assign(h.csize, c, Word(h.csize[c].size, 1))
  <2>1. IsRec(h)
    BY DEF Typed
  <2> QED BY <2>1, UnbinFields
<1>2. c \in DOMAIN h.next /\ c \notin Bins /\ p \in DOMAIN h.next /\ n \in DOMAIN h.next
  BY DEF Lists
<1>3. h.next[p] = c /\ h.prev[n] = c /\ DOMAIN h.prev = DOMAIN h.next
  BY <1>2 DEF Lists
<1> HIDE DEF g, p, n
<1>4. /\ DOMAIN g.next = DOMAIN h.next \ {c} /\ DOMAIN g.prev = DOMAIN h.next \ {c}
      /\ \A x \in DOMAIN g.next : g.next[x] = IF x = p THEN n ELSE h.next[x]
      /\ \A x \in DOMAIN g.next : g.prev[x] = IF x = n THEN p ELSE h.prev[x]
  BY <1>1, <1>2, <1>3 DEF Assign, Drop
<1>5. \A x \in DOMAIN h.next : /\ h.next[x] \in DOMAIN h.next /\ h.prev[x] \in DOMAIN h.next
                              /\ h.prev[h.next[x]] = x /\ h.next[h.prev[x]] = x
                              /\ BinOf(h, h.next[x]) = BinOf(h, x)
  BY DEF Lists
<1>6. \A x \in DOMAIN g.next : g.next[x] # c /\ g.prev[x] # c
  <2> SUFFICES ASSUME NEW x \in DOMAIN g.next PROVE g.next[x] # c /\ g.prev[x] # c
    OBVIOUS
  <2>1. x \in DOMAIN h.next /\ x # c /\ p = h.prev[c] /\ n = h.next[c]
    BY <1>4 DEF p, n
  <2>2. g.next[x] # c
    BY <2>1, <1>2, <1>3, <1>4, <1>5
  <2>3. g.prev[x] # c
    BY <2>1, <1>2, <1>3, <1>4, <1>5
  <2> QED BY <2>2, <2>3
<1>7. \A x \in DOMAIN g.next : g.next[x] \in DOMAIN g.next /\ g.prev[x] \in DOMAIN g.next
  BY <1>2, <1>4, <1>5, <1>6
<1>8. /\ g.next \in [DOMAIN g.next -> DOMAIN g.next]
      /\ g.prev \in [DOMAIN g.next -> DOMAIN g.next]
  <2>1. g.next = [x \in DOMAIN g.next |-> g.next[x]] /\ g.prev = [x \in DOMAIN g.next |-> g.prev[x]]
    BY <1>1, <1>4 DEF Drop
  <2> QED BY <2>1, <1>7
<1>9. \A x \in DOMAIN h.next : BinOf(g, x) = BinOf(h, x)
  <2>1. \A x \in DOMAIN h.next : x \in Bins \/ x \in DOMAIN h.csize
    BY DEF Lists, Headers
  <2>2. \A x \in DOMAIN h.csize : g.csize[x].size = h.csize[x].size
    BY <1>1 DEF Assign, Word
  <2> QED BY <2>1, <2>2 DEF BinOf, ChunkSize
<1>10. \A x \in DOMAIN g.next : g.prev[g.next[x]] = x /\ g.next[g.prev[x]] = x
  <2> SUFFICES ASSUME NEW x \in DOMAIN g.next
               PROVE  g.prev[g.next[x]] = x /\ g.next[g.prev[x]] = x
    OBVIOUS
  <2>1. x \in DOMAIN h.next /\ x # c /\ g.next[x] \in DOMAIN g.next /\ g.prev[x] \in DOMAIN g.next
    BY <1>4, <1>7
  <2>2. g.prev[g.next[x]] = x
    BY <2>1, <1>3, <1>4, <1>5
  <2>3. g.next[g.prev[x]] = x
    BY <2>1, <1>3, <1>4, <1>5
  <2> QED BY <2>2, <2>3
<1>11. \A x \in DOMAIN g.next : BinOf(g, g.next[x]) = BinOf(g, x)
  <2> SUFFICES ASSUME NEW x \in DOMAIN g.next PROVE BinOf(g, g.next[x]) = BinOf(g, x)
    OBVIOUS
  <2>1. BinOf(h, n) = BinOf(h, c) /\ BinOf(h, c) = BinOf(h, p)
    BY <1>2, <1>3, <1>5 DEF n
  <2>2. x \in DOMAIN h.next /\ g.next[x] \in DOMAIN h.next
    BY <1>4, <1>7
  <2> QED BY <2>1, <2>2, <1>4, <1>5, <1>9
<1>12. \A x : x \in DOMAIN g.next /\ x \notin Bins <=> x \in F \ {c}
  BY <1>4 DEF Lists
<1>13. g.binmap \subseteq Bins \cap DOMAIN g.next
  BY <1>1, <1>2, <1>4 DEF Lists, BitsLess
<1>14. PICK rank : Ranks(h.next, rank)
  BY DEF Lists, Ranked
<1>15. /\ rank \in [DOMAIN h.next -> Nat]
       /\ \A x \in DOMAIN h.next : h.next[x] \notin Bins => rank[x] < rank[h.next[x]]
  BY <1>14 DEF Ranks
<1>16. n = h.next[c] /\ p = h.prev[c]
  BY DEF n, p
\* A list of c alone starts at its bin.
<1>17. p = n => p = i
  <2> SUFFICES ASSUME p = n, p \notin Bins PROVE FALSE
    BY <1>2, <1>3, <1>5 DEF BinOf
  <2>1. rank[p] < rank[c] /\ rank[c] < rank[p]
    BY <1>2, <1>3, <1>15, <1>16
  <2>2. rank[p] \in Nat /\ rank[c] \in Nat
    BY <1>2, <1>15
  <2> QED BY <2>1, <2>2
<1>18. BitsExact(g)
  <2> SUFFICES ASSUME NEW j \in Bins, j \in DOMAIN g.next
               PROVE  j \in g.binmap <=> g.next[j] # j
    BY DEF BitsExact
  <2>1. j \in DOMAIN h.next /\ (j \in h.binmap <=> h.next[j] # j)
    BY <1>4 DEF Lists, BitsExact
  <2>2. j = p => j = i
    BY <1>2, <1>3, <1>5 DEF BinOf
  <2>3. CASE j = i /\ p = n
    BY <2>3, <1>1, <1>4, <1>16, <1>17 DEF BitsLess
  <2>4. CASE j = i /\ p # n
    <3>1. g.binmap = h.binmap
      BY <2>4, <1>1, <1>16 DEF BitsLess
    <3> QED BY <3>1, <2>1, <2>4, <1>2, <1>3, <1>4
  <2>5. CASE j # i
    <3>1. j \in g.binmap <=> j \in h.binmap
      BY <2>5, <1>1 DEF BitsLess
    <3> QED BY <3>1, <2>1, <2>2, <2>5, <1>4
  <2> QED BY <2>3, <2>4, <2>5
<1>19. Ranked(g.next)
  <2> DEFINE new == [x \in DOMAIN g.next |-> rank[x]]
  <2>1. Ranks(g.next, new)
    <3>1. new \in [DOMAIN g.next -> Nat]
      BY <1>4, <1>15
    <3> SUFFICES ASSUME NEW x \in DOMAIN g.next, g.next[x] \notin Bins
                 PROVE  new[x] < new[g.next[x]]
      BY <3>1 DEF Ranks
    <3>2. x \in DOMAIN h.next /\ g.next[x] \in DOMAIN g.next /\ g.next[x] \in DOMAIN h.next
      BY <1>4, <1>7
    <3>3. rank[x] < rank[g.next[x]]
      <4>1. CASE x = p
        <5>1. rank[p] < rank[c] /\ rank[c] < rank[n]
          BY <4>1, <1>2, <1>3, <1>4, <1>15, <1>16
        <5>2. rank[p] \in Nat /\ rank[c] \in Nat /\ rank[n] \in Nat
          BY <1>2, <1>15
        <5> QED BY <5>1, <5>2, <4>1, <1>4
      <4>2. CASE x # p
        BY <4>2, <3>2, <1>4, <1>15
      <4> QED BY <4>1, <4>2
    <3> QED BY <3>2, <3>3
  <2> QED BY <2>1 DEF Ranked
<1> QED BY <1>8, <1>10, <1>11, <1>12, <1>13, <1>18, <1>19 DEF Lists, g

LEMMA BinChunkLists ==
    ASSUME NEW h, Typed(h), NEW F, Lists(h, F), F \subseteq Headers(h),
           NEW c \in Headers(h), c \notin F, c \notin Bins,
           NEW i \in Bins, i \in DOMAIN h.next, bin_index(ChunkSize(h, c)) = i
    PROVE  Lists(bin_chunk(h, c, i), F \cup {c})
<1> DEFINE g == bin_chunk(h, c, i)
           t == h.prev[i]
<1>1. /\ g.binmap = BitsMore(h, i) /\ SameWords(h, g)
      /\ g.next = Assign(Assign(h.next, c, i), t, c)
      /\ g.prev = Assign(Assign(h.prev, c, t), i, c)
  <2>1. IsRec(h)
    BY DEF Typed
  <2> QED BY <2>1, BinChunkFields
<1>2. /\ c \notin DOMAIN h.next /\ t \in DOMAIN h.next /\ c # i /\ t # c
      /\ h.next[t] = i /\ DOMAIN h.prev = DOMAIN h.next
  BY DEF Lists
<1> HIDE DEF g, t
<1>3. /\ DOMAIN g.next = DOMAIN h.next \cup {c} /\ DOMAIN g.prev = DOMAIN h.next \cup {c}
      /\ \A x \in DOMAIN g.next :
           g.next[x] = IF x = t THEN c ELSE IF x = c THEN i ELSE h.next[x]
      /\ \A x \in DOMAIN g.next :
           g.prev[x] = IF x = i THEN c ELSE IF x = c THEN t ELSE h.prev[x]
  BY <1>1, <1>2 DEF Assign
<1>4. \A x \in DOMAIN h.next : /\ h.next[x] \in DOMAIN h.next /\ h.prev[x] \in DOMAIN h.next
                              /\ h.prev[h.next[x]] = x /\ h.next[h.prev[x]] = x
                              /\ BinOf(h, h.next[x]) = BinOf(h, x)
  BY DEF Lists
<1>5. \A x \in DOMAIN g.next : g.next[x] \in DOMAIN g.next /\ g.prev[x] \in DOMAIN g.next
  BY <1>2, <1>3, <1>4
<1>6. /\ g.next \in [DOMAIN g.next -> DOMAIN g.next]
      /\ g.prev \in [DOMAIN g.next -> DOMAIN g.next]
  <2>1. g.next = [x \in DOMAIN g.next |-> g.next[x]] /\ g.prev = [x \in DOMAIN g.next |-> g.prev[x]]
    BY <1>1, <1>3 DEF Assign
  <2> QED BY <2>1, <1>5
<1>7. \A x : BinOf(g, x) = BinOf(h, x)
  BY <1>1 DEF SameWords, BinOf, ChunkSize
<1>8. BinOf(h, c) = i /\ BinOf(h, i) = i /\ BinOf(h, t) = i
  BY <1>2, <1>4 DEF BinOf
<1>9. \A x \in DOMAIN g.next : g.prev[g.next[x]] = x /\ g.next[g.prev[x]] = x
  <2> SUFFICES ASSUME NEW x \in DOMAIN g.next
               PROVE  g.prev[g.next[x]] = x /\ g.next[g.prev[x]] = x
    OBVIOUS
  <2>1. h.prev[i] = t /\ c \in DOMAIN g.next /\ t \in DOMAIN g.next /\ i \in DOMAIN g.next
    BY <1>2, <1>3 DEF t
  <2>2. CASE x = c
    BY <2>1, <2>2, <1>2, <1>3
  <2>3. CASE x # c
    <3>1. /\ x \in DOMAIN h.next /\ h.next[x] # c /\ h.prev[x] # c
          /\ h.next[x] \in DOMAIN g.next /\ h.prev[x] \in DOMAIN g.next
          /\ h.prev[h.next[x]] = x /\ h.next[h.prev[x]] = x
      BY <2>3, <1>2, <1>3, <1>4
    <3>2. g.prev[g.next[x]] = x
      <4>1. CASE x = t
        BY <4>1, <2>1, <1>2, <1>3
      <4>2. CASE x # t
        <5>1. h.next[x] # i
          BY <4>2, <3>1, <2>1
        <5> QED BY <5>1, <4>2, <3>1, <2>3, <1>3
      <4> QED BY <4>1, <4>2
    <3>3. g.next[g.prev[x]] = x
      <4>1. CASE x = i
        BY <4>1, <2>1, <1>2, <1>3
      <4>2. CASE x # i
        <5>1. h.prev[x] # t
          BY <4>2, <3>1, <1>2
        <5> QED BY <5>1, <4>2, <3>1, <2>3, <1>3
      <4> QED BY <4>1, <4>2
    <3> QED BY <3>2, <3>3
  <2> QED BY <2>2, <2>3
<1>10. \A x \in DOMAIN g.next : BinOf(g, g.next[x]) = BinOf(g, x)
  <2> SUFFICES ASSUME NEW x \in DOMAIN g.next
               PROVE  BinOf(h, g.next[x]) = BinOf(h, x)
    BY <1>7
  <2>1. CASE x = t
    BY <2>1, <1>2, <1>3, <1>8
  <2>2. CASE x # t /\ x = c
    BY <2>2, <1>3, <1>8
  <2>3. CASE x # t /\ x # c
    <3>1. x \in DOMAIN h.next /\ g.next[x] = h.next[x]
      BY <2>3, <1>3
    <3> QED BY <3>1, <1>4
  <2> QED BY <2>1, <2>2, <2>3
<1>11. \A x : x \in DOMAIN g.next /\ x \notin Bins <=> x \in F \cup {c}
  BY <1>3 DEF Lists
<1>12. g.binmap \subseteq Bins \cap DOMAIN g.next
  BY <1>1, <1>3 DEF Lists, BitsMore
<1>13. BitsExact(g)
  <2> SUFFICES ASSUME NEW j \in Bins, j \in DOMAIN g.next
               PROVE  j \in g.binmap <=> g.next[j] # j
    BY DEF BitsExact
  <2>1. j \in DOMAIN h.next /\ (j \in h.binmap <=> h.next[j] # j)
    BY <1>3 DEF Lists, BitsExact
  <2>2. j = t => j = i
    BY <1>8 DEF BinOf
  <2>3. h.prev[i] = t /\ h.next[t] = i
    BY <1>2 DEF t
  <2>4. CASE j = i /\ t = i
    BY <2>4, <1>1, <1>2, <1>3 DEF BitsMore, t
  <2>5. CASE j = i /\ t # i
    <3>1. h.next[i] # i
      BY <2>3, <2>5, <1>4
    <3>2. g.binmap = h.binmap /\ g.next[i] = h.next[i]
      BY <2>1, <2>5, <1>1, <1>2, <1>3 DEF BitsMore, t
    <3> QED BY <3>1, <3>2, <2>1, <2>5
  <2>6. CASE j # i
    <3>1. (j \in g.binmap <=> j \in h.binmap) /\ g.next[j] = h.next[j]
      BY <2>1, <2>2, <2>6, <1>1, <1>2, <1>3 DEF BitsMore
    <3> QED BY <3>1, <2>1
  <2> QED BY <2>4, <2>5, <2>6
<1>14. Ranked(g.next)
  <2>1. PICK rank : Ranks(h.next, rank)
    BY DEF Lists, Ranked
  <2> DEFINE new == [x \in DOMAIN g.next |-> IF x = c THEN rank[t] + 1 ELSE rank[x]]
  <2>2. Ranks(g.next, new)
    <3>1. rank[t] \in Nat /\ new \in [DOMAIN g.next -> Nat]
      BY <2>1, <1>2, <1>3 DEF Ranks
    <3> SUFFICES ASSUME NEW x \in DOMAIN g.next, g.next[x] \notin Bins
                 PROVE  new[x] < new[g.next[x]]
      BY <3>1 DEF Ranks
    <3>2. CASE x = t
      BY <3>1, <3>2, <1>2, <1>3
    <3>3. CASE x # t
      <4>1. x # c /\ x \in DOMAIN h.next /\ g.next[x] = h.next[x] /\ h.next[x] # c
            /\ h.next[x] \in DOMAIN g.next
        <5>1. x # c
          BY <3>3, <1>2, <1>3
        <5>2. x \in DOMAIN h.next /\ g.next[x] = h.next[x]
          BY <3>3, <5>1, <1>3
        <5>3. h.next[x] \in DOMAIN h.next
          BY <5>2, <1>4
        <5> QED BY <5>1, <5>2, <5>3, <1>2, <1>3
      <4>2. rank[x] < rank[h.next[x]]
        BY <4>1, <2>1 DEF Ranks
      <4> QED BY <4>1, <4>2
    <3> QED BY <3>2, <3>3
  <2> QED BY <2>2 DEF Ranked
<1> QED BY <1>6, <1>9, <1>10, <1>11, <1>12, <1>13, <1>14 DEF Lists, g

-----------------------------------------------------------------------------
(* The C functions, bottom up.                                             *)

LEMMA BinIndexType == \A m \in Nat : bin_index(m) \in Bins
BY DEF bin_index, bin_tab, CKB_SIZE_ALIGN, Bins

LEMMA ShapeKept ==
    ASSUME NEW h, Shape(h), NEW g, IsRec(g), SameWords(h, g), SameRegion(h, g)
    PROVE  Shape(g) /\ FreeChunks(g) = FreeChunks(h) /\ Headers(g) = Headers(h)
<1>1. Headers(g) = Headers(h)
  BY DEF SameWords, Headers
<1>2. Typed(g)
  BY <1>1 DEF Shape, Typed, SameWords, SameRegion
<1>3. Forward(g) /\ Backward(g) /\ NoOverlap(g)
  BY <1>1 DEF Shape, Forward, Backward, NoOverlap, SameWords, ChunkSize, NextChunk, PrevChunk
<1>4. Placed(g)
  BY <1>1 DEF Shape, Placed, PlacedAt, SameWords, SameRegion
<1>5. Region(g)
  BY <1>1 DEF Shape, Region, SameRegion, SameWords
<1> QED BY <1>1, <1>2, <1>3, <1>4, <1>5 DEF Shape, FreeChunks, SameWords

LEMMA FreeFacts ==
    ASSUME NEW h, Shape(h), NEW c \in Headers(h)
    PROVE  /\ c \in FreeChunks(h) <=> h.csize[c].inuse = 0
           /\ c \in UsedChunks(h) <=> h.csize[c].inuse = 1 /\ h.csize[c].size > 0
           /\ h.csize[c].inuse = 0 => h.csize[c].size > 0
           /\ h.csize[c].size > 0 =>
                /\ NextChunk(h, c) \in Headers(h) /\ c < NextChunk(h, c)
                /\ h.psize[NextChunk(h, c)] = h.csize[c]
           /\ c \notin Bins /\ FreeChunks(h) \subseteq Headers(h)
<1>1. PlacedAt(h, c) /\ Typed(h)
  BY DEF Shape, Placed
<1>2. c \in Nat /\ h.csize[c].size \in Nat /\ h.csize[c].inuse \in {0, 1}
      /\ NextChunk(h, c) = c + h.csize[c].size /\ ChunkSize(h, c) = h.csize[c].size
  BY <1>1, TypedFacts
<1>3. h.csize[c].inuse = 0 => h.csize[c].size > 0
  BY <1>1, <1>2 DEF PlacedAt
<1>4. c \notin Bins
  BY <1>1, <1>2 DEF PlacedAt, Bins
<1> QED BY <1>2, <1>3, <1>4 DEF FreeChunks, UsedChunks, Shape, Forward

LEMMA UnbinWords ==
    ASSUME NEW h, Shape(h), NEW c \in Headers(h), h.csize[c].size > 0, NEW i
    PROVE  Retagged(h, unbin(h, c, i), c, h.csize[c].size, 1)
<1> DEFINE g == unbin(h, c, i)
           n == h.csize[c].size
           e == NextChunk(h, c)
           H == Headers(h)
<1>1. /\ c \in Nat /\ n \in Nat /\ e \in H /\ e = c + n /\ h.psize[e] = h.csize[c] /\ IsRec(h)
      /\ H \subseteq Nat
  BY TypedFacts, FreeFacts DEF Shape, Typed
<1>2. /\ g.csize = Assign(h.csize, c, Word(n, 1)) /\ g.psize = Assign(h.psize, e, Word(h.psize[e].size, 1))
      /\ IsRec(g) /\ SameRegion(h, g)
  BY <1>1, UnbinFields
<1>3. DOMAIN h.csize = H /\ DOMAIN h.psize = H
  BY DEF Shape, Typed, Headers
<1> HIDE DEF g, n, e, H
<1>4. /\ DOMAIN g.csize = H /\ DOMAIN g.psize = H
      /\ \A d \in H : g.csize[d] = IF d = c THEN Word(n, 1) ELSE h.csize[d]
      /\ \A d \in H : g.psize[d] = IF d = e THEN Word(n, 1) ELSE h.psize[d]
  <2>1. h.psize[e].size = n /\ c \in H
    BY <1>1 DEF n, H
  <2> QED BY <2>1, <1>1, <1>2, <1>3 DEF Assign
<1>5. Typed(g)
  <2>1. g.csize = [d \in H |-> g.csize[d]] /\ g.psize = [d \in H |-> g.psize[d]]
    BY <1>2, <1>4 DEF Assign
  <2>2. \A d \in H : h.csize[d] \in WordType /\ h.psize[d] \in WordType
    BY TypedFacts DEF Shape, H
  <2>3. \A d \in H : g.csize[d] \in WordType /\ g.psize[d] \in WordType
    BY <2>2, <1>1, <1>4, WordFacts
  <2>4. g.brk \in Nat /\ g.brk_min \in Nat /\ g.brk_max \in Nat /\ g.end \in Nat
    BY <1>2 DEF SameRegion, Shape, Typed
  <2> QED BY <1>1, <1>2, <1>4, <2>1, <2>3, <2>4, TypedBy
<1>6. Headers(g) = H
  BY <1>4 DEF Headers
<1>7. \A d \in H : ~(c < d /\ d < c + n)
  BY <1>1 DEF Shape, NoOverlap, H, e
<1> QED BY <1>1, <1>2, <1>4, <1>5, <1>6, <1>7 DEF Retagged, g, n, H

LEMMA LockOK ==
    ASSUME NEW h, Shape(h), NEW F, Lists(h, F), NEW i \in Bins
    PROVE  LET g == lock_bin(h, i)
           IN  /\ Shape(g) /\ Lists(g, F) /\ i \in DOMAIN g.next
               /\ SameWords(h, g) /\ SameRegion(h, g)
               /\ FreeChunks(g) = FreeChunks(h) /\ Headers(g) = Headers(h)
<1> DEFINE g == lock_bin(h, i)
<1>1. IsRec(h)
  BY DEF Shape, Typed
<1>2. IsRec(g) /\ SameWords(h, g) /\ SameRegion(h, g)
  BY <1>1, LockFields
<1>3. Lists(g, F) /\ i \in DOMAIN g.next
  BY <1>1, LockLists
<1> HIDE DEF g
<1> QED BY <1>2, <1>3, ShapeKept DEF g

LEMMA MergedKept ==
    ASSUME NEW h, Merged(h), NEW g, SameWords(h, g)
    PROVE  Merged(g)
BY DEF Merged, SameWords, Headers, NextChunk

\* Putting the one unlisted free chunk on its list.
LEMMA BinOK ==
    ASSUME NEW h, Shape(h), NEW c \in FreeChunks(h), NEW F, Lists(h, F),
           \A d : d \in F <=> d \in FreeChunks(h) /\ d # c,
           Merged(h), h.crashed = FALSE,
           NEW i \in Bins, i \in DOMAIN h.next, i = bin_index(ChunkSize(h, c))
    PROVE  LET g == bin_chunk(h, c, i)
           IN  HeapOK(g) /\ SameWords(h, g) /\ SameRegion(h, g) /\ Headers(g) = Headers(h)
<1> DEFINE g == bin_chunk(h, c, i)
<1>1. IsRec(h) /\ Typed(h)
  BY DEF Shape, Typed
<1>2. IsRec(g) /\ SameWords(h, g) /\ SameRegion(h, g)
  BY <1>1, BinChunkFields
<1>3. c \in Headers(h) /\ FreeChunks(h) \subseteq Headers(h)
  BY DEF FreeChunks
<1>4. Lists(g, F \cup {c})
  <2>1. F \subseteq Headers(h) /\ c \notin F
    BY <1>3
  <2>2. c \notin Bins
    BY <1>3, FreeFacts
  <2> QED BY <2>1, <2>2, <1>1, <1>3, BinChunkLists
<1> HIDE DEF g
<1>5. Shape(g) /\ FreeChunks(g) = FreeChunks(h) /\ Headers(g) = Headers(h)
  BY <1>2, ShapeKept
<1>6. F \cup {c} = FreeChunks(g)
  BY <1>5
<1>7. Merged(g) /\ g.crashed = FALSE
  BY <1>2, MergedKept DEF SameRegion
<1> QED BY <1>2, <1>4, <1>5, <1>6, <1>7 DEF HeapOK, g

\* Chunks in use, from c up to c + n, become one chunk in use.
LEMMA JoinOK ==
    ASSUME NEW h, HeapOK(h), NEW c \in Headers(h), NEW n \in Nat, n > 0,
           c + n \in Headers(h),
           \A d \in Headers(h) : c <= d /\ d < c + n => h.csize[d].inuse = 1
    PROVE  HeapOK(tag(h, c, n, 1)) /\ Retagged(h, tag(h, c, n, 1), c, n, 1)
<1> DEFINE g == tag(h, c, n, 1)
<1>1. Shape(h) /\ Typed(h) /\ IsRec(h)
  BY DEF HeapOK, Shape, Typed
<1>2. Retagged(h, g, c, n, 1) /\ SameLinks(h, g)
  BY <1>1, TagWords, TagFields
<1> HIDE DEF g
<1>3. Shape(g)
  BY <1>1, <1>2, RetagShape
<1>4. /\ \A d : d \in Headers(g) <=> d \in Headers(h) /\ ~(c < d /\ d < c + n)
      /\ \A d \in Headers(g) : g.csize[d] = IF d = c THEN Word(n, 1) ELSE h.csize[d]
      /\ g.crashed = FALSE
  BY <1>2 DEF Retagged, SameRegion, HeapOK
<1>5. Word(n, 1).inuse = 1 /\ c \in Nat /\ \A d \in Headers(h) : d \in Nat
  BY <1>1, WordFacts, TypedFacts
<1>6. FreeChunks(g) = FreeChunks(h)
  <2>1. h.csize[c].inuse = 1 /\ g.csize[c].inuse = 1 /\ c \in Headers(g)
    BY <1>4, <1>5
  <2>2. \A d \in Headers(g) : g.csize[d].inuse = h.csize[d].inuse
    BY <2>1, <1>4
  <2>3. \A d \in Headers(h) : h.csize[d].inuse = 0 => d \in Headers(g)
    BY <1>4, <1>5
  <2> QED BY <2>2, <2>3, <1>4 DEF FreeChunks
<1>7. Lists(g, FreeChunks(g))
  <2>1. \A x \in FreeChunks(h) : ChunkSize(g, x) = ChunkSize(h, x)
    BY <1>4, <1>5, <1>6 DEF FreeChunks, ChunkSize
  <2> QED BY <2>1, <1>2, <1>6, ListsKept DEF HeapOK
<1>8. Merged(g)
  <2> SUFFICES ASSUME NEW d \in Headers(g), g.csize[d].inuse = 0
               PROVE  g.csize[NextChunk(g, d)].inuse = 1
    BY DEF Merged
  <2>1. d \in Headers(h) /\ g.csize[d] = h.csize[d] /\ NextChunk(g, d) = NextChunk(h, d)
    <3>1. d \in Headers(h) /\ d # c
      BY <1>4, <1>5
    <3> QED BY <3>1, <1>4 DEF NextChunk
  <2>2. h.csize[NextChunk(h, d)].inuse = 1
    BY <2>1 DEF HeapOK, Merged
  <2>3. NextChunk(g, d) \in Headers(g)
    BY <1>3, FreeFacts
  <2> QED BY <2>1, <2>2, <2>3, <1>4, <1>5
<1> QED BY <1>2, <1>3, <1>4, <1>7, <1>8 DEF HeapOK, g

LEMMA UnbinOK ==
    ASSUME NEW h, HeapOK(h), NEW c \in FreeChunks(h), NEW i, i = bin_index(ChunkSize(h, c))
    PROVE  LET g == unbin(h, c, i)
           IN  /\ HeapOK(g) /\ SameRegion(h, g) /\ Headers(g) = Headers(h)
               /\ \A d \in Headers(h) :
                    g.csize[d] = IF d = c THEN Word(h.csize[c].size, 1) ELSE h.csize[d]
<1> DEFINE g == unbin(h, c, i)
           n == h.csize[c].size
<1>1. Shape(h) /\ Typed(h) /\ c \in Headers(h) /\ h.csize[c].inuse = 0
  BY DEF HeapOK, Shape, FreeChunks
<1>2. n > 0 /\ n \in Nat /\ c \in Nat /\ c + n \in Headers(h) /\ NextChunk(h, c) = c + n
  BY <1>1, FreeFacts, TypedFacts
<1>3. Retagged(h, g, c, n, 1)
  BY <1>1, <1>2, UnbinWords
<1>4. Lists(g, FreeChunks(h) \ {c})
  <2>1. i = BinOf(h, c)
    BY <1>1, FreeFacts DEF BinOf
  <2> QED BY <2>1, <1>1, UnbinLists DEF HeapOK, FreeChunks
<1> HIDE DEF g, n
<1>5. Shape(g)
  BY <1>1, <1>2, <1>3, RetagShape
<1>6. \A d \in Headers(h) : ~(c < d /\ d < c + n)
  BY <1>1, <1>2 DEF Shape, NoOverlap
<1>7. /\ Headers(g) = Headers(h) /\ SameRegion(h, g)
      /\ \A d \in Headers(h) : g.csize[d] = IF d = c THEN Word(n, 1) ELSE h.csize[d]
  BY <1>3, <1>6 DEF Retagged
<1>8. Word(n, 1).inuse = 1 /\ Word(n, 1).size = n
  BY <1>2, WordFacts
<1>9. FreeChunks(g) = FreeChunks(h) \ {c}
  <2>1. \A d \in Headers(h) : g.csize[d].inuse = 0 <=> h.csize[d].inuse = 0 /\ d # c
    BY <1>7, <1>8
  <2> QED BY <2>1, <1>7 DEF FreeChunks
<1>10. Merged(g)
  <2> SUFFICES ASSUME NEW d \in Headers(g), g.csize[d].inuse = 0
               PROVE  g.csize[NextChunk(g, d)].inuse = 1
    BY DEF Merged
  <2>1. d \in Headers(h) /\ g.csize[d] = h.csize[d] /\ NextChunk(g, d) = NextChunk(h, d)
    <3>1. d \in Headers(h) /\ d # c
      BY <1>7, <1>8
    <3> QED BY <3>1, <1>7 DEF NextChunk
  <2>2. h.csize[NextChunk(h, d)].inuse = 1
    BY <2>1 DEF HeapOK, Merged
  <2>3. NextChunk(g, d) \in Headers(g)
    BY <1>5, FreeFacts
  <2> QED BY <2>1, <2>2, <2>3, <1>7, <1>8
<1>11. g.crashed = FALSE
  BY <1>7 DEF SameRegion, HeapOK
<1> QED BY <1>4, <1>5, <1>7, <1>9, <1>10, <1>11 DEF HeapOK, g, n

\* Cutting a chunk in use; the rest is in use too, or free and not yet listed.
LEMMA SplitOK ==
    ASSUME NEW h, HeapOK(h), NEW c \in UsedChunks(h), NEW n \in Nat, n > 0,
           n % 32 = 0, n < ChunkSize(h, c), NEW b \in {0, 1},
           b = 0 => h.csize[NextChunk(h, c)].inuse = 1
    PROVE  LET g == split_chunk(h, c, n, b)
           IN  /\ Shape(g) /\ Merged(g) /\ Cut(h, g, c, n, b)
               /\ Lists(g, FreeChunks(h)) /\ g.crashed = FALSE
               /\ b = 0 => \A d : d \in FreeChunks(g) <=> d \in FreeChunks(h) \/ d = c + n
               /\ b = 1 => FreeChunks(g) = FreeChunks(h)
               /\ c + n \notin Headers(h)
<1> DEFINE g == split_chunk(h, c, n, b)
           s == ChunkSize(h, c)
<1>1. Shape(h) /\ Typed(h) /\ c \in Headers(h) /\ h.csize[c].inuse = 1
  BY DEF HeapOK, Shape, UsedChunks
<1>2. Cut(h, g, c, n, b) /\ SameLinks(h, g)
  BY <1>1, SplitWords
<1> HIDE DEF g
<1>3. Shape(g)
  BY <1>1, <1>2, CutShape
<1>4. /\ c \in Nat /\ s \in Nat /\ s = h.csize[c].size /\ NextChunk(h, c) = c + s
      /\ c + s \in Headers(h) /\ s - n \in Nat
  BY <1>1, TypedFacts DEF Shape, Forward
<1>5. \A d \in Headers(h) : c < d => c + s <= d
  BY <1>1, <1>4 DEF Shape, NoOverlap
<1>6. c + n \notin Headers(h)
  BY <1>4, <1>5
<1> HIDE DEF s
<1>7. /\ \A d : d \in Headers(g) <=> d \in Headers(h) \/ d = c + n
      /\ \A d \in Headers(g) : g.csize[d] = IF d = c THEN Word(n, 1)
                                           ELSE IF d = c + n THEN Word(s - n, b)
                                           ELSE h.csize[d]
      /\ g.crashed = FALSE
  BY <1>2 DEF Cut, SameRegion, HeapOK, s
<1>8. /\ Word(n, 1).inuse = 1 /\ Word(n, 1).size = n
      /\ Word(s - n, b).inuse = b /\ Word(s - n, b).size = s - n
  BY <1>4, WordFacts
<1>9. /\ b = 0 => \A d : d \in FreeChunks(g) <=> d \in FreeChunks(h) \/ d = c + n
      /\ b = 1 => FreeChunks(g) = FreeChunks(h)
  <2>1. \A d \in Headers(h) : g.csize[d].inuse = h.csize[d].inuse
    BY <1>1, <1>6, <1>7, <1>8
  <2>2. g.csize[c + n].inuse = b /\ c + n \in Headers(g)
    BY <1>4, <1>7, <1>8
  <2> QED BY <2>1, <2>2, <1>6, <1>7 DEF FreeChunks
<1>10. Lists(g, FreeChunks(h))
  <2>1. \A x \in FreeChunks(h) : x \in Headers(g) /\ x # c /\ x # c + n
    BY <1>1, <1>6, <1>7 DEF FreeChunks
  <2>2. \A x \in FreeChunks(h) : ChunkSize(g, x) = ChunkSize(h, x)
    BY <2>1, <1>7 DEF ChunkSize
  <2> QED BY <2>2, <1>2, ListsKept DEF HeapOK
<1>11. Merged(g)
  <2> SUFFICES ASSUME NEW d \in Headers(g), g.csize[d].inuse = 0
               PROVE  g.csize[NextChunk(g, d)].inuse = 1
    BY DEF Merged
  <2>1. d # c /\ NextChunk(g, d) \in Headers(g)
    BY <1>3, <1>7, <1>8, FreeFacts
  <2>2. CASE d = c + n
    <3>1. NextChunk(g, d) = c + s /\ b = 0
      BY <2>2, <1>4, <1>7, <1>8 DEF NextChunk
    <3>2. g.csize[c + s] = h.csize[c + s]
      BY <3>1, <2>1, <1>4, <1>6, <1>7
    <3> QED BY <3>1, <3>2, <1>4
  <2>3. CASE d # c + n
    <3>1. d \in Headers(h) /\ g.csize[d] = h.csize[d] /\ NextChunk(g, d) = NextChunk(h, d)
      BY <2>1, <2>3, <1>7 DEF NextChunk
    <3>2. h.csize[NextChunk(h, d)].inuse = 1 /\ NextChunk(h, d) \in Headers(h)
      BY <3>1, <1>1, FreeFacts DEF HeapOK, Merged
    <3> QED BY <3>1, <3>2, <2>1, <1>6, <1>7, <1>8
  <2> QED BY <2>2, <2>3
<1> QED BY <1>2, <1>3, <1>6, <1>7, <1>9, <1>10, <1>11 DEF g

\* h and g have the same chunks in use, all but c of the same size.
SameUsed(h, g, c) ==
    /\ \A d : d \in UsedChunks(g) <=> d \in UsedChunks(h)
    /\ \A d \in UsedChunks(h) : d # c => g.csize[d] = h.csize[d]

LEMMA TrimOK ==
    ASSUME NEW h, HeapOK(h), NEW c \in UsedChunks(h), NEW n \in Nat, n > 0,
           n % 32 = 0, n <= ChunkSize(h, c), h.csize[NextChunk(h, c)].inuse = 1
    PROVE  LET g == trim(h, c, n)
           IN  /\ HeapOK(g) /\ SameRegion(h, g) /\ SameUsed(h, g, c)
               /\ ChunkSize(g, c) >= n
<1> DEFINE s == ChunkSize(h, c)
           i == bin_index(s - n)
           e == c + n
           k == split_chunk(h, c, n, 0)
           l == lock_bin(k, i)
           g == bin_chunk(l, e, i)
<1>1. s \in Nat /\ Shape(h) /\ c \in Headers(h) /\ h.csize[c].inuse = 1 /\ c \in Nat
  BY TypedFacts DEF HeapOK, Shape, UsedChunks
<1>2. CASE n >= s - CKB_DONTCARE
  BY <1>1, <1>2 DEF trim, SameRegion, SameUsed
<1>3. CASE ~(n >= s - CKB_DONTCARE)
  <2>1. n < s /\ s - n \in Nat /\ i \in Bins
    BY <1>1, <1>3, BinIndexType DEF CKB_DONTCARE
  <2>2. trim(h, c, n) = g
    BY <1>3 DEF trim
  <2>3. /\ Shape(k) /\ Merged(k) /\ Cut(h, k, c, n, 0)
        /\ Lists(k, FreeChunks(h)) /\ k.crashed = FALSE
        /\ \A d : d \in FreeChunks(k) <=> d \in FreeChunks(h) \/ d = e
        /\ e \notin Headers(h)
    BY <2>1, SplitOK
  <2> HIDE DEF k
  <2>4. /\ Shape(l) /\ Lists(l, FreeChunks(h)) /\ i \in DOMAIN l.next
        /\ SameWords(k, l) /\ SameRegion(k, l)
        /\ FreeChunks(l) = FreeChunks(k) /\ Headers(l) = Headers(k)
    BY <2>1, <2>3, LockOK
  <2> HIDE DEF l
  <2>5. Merged(l) /\ l.crashed = FALSE
    BY <2>3, <2>4, MergedKept DEF SameRegion
  <2>6. /\ \A d : d \in Headers(k) <=> d \in Headers(h) \/ d = e
        /\ \A d \in Headers(k) : k.csize[d] = IF d = c THEN Word(n, 1)
                                             ELSE IF d = e THEN Word(s - n, 0)
                                             ELSE h.csize[d]
        /\ SameRegion(h, k)
    BY <2>3 DEF Cut
  <2>7. /\ Word(n, 1).size = n /\ Word(n, 1).inuse = 1
        /\ Word(s - n, 0).size = s - n /\ Word(s - n, 0).inuse = 0
    BY <2>1, WordFacts
  <2>8. e # c /\ e \in FreeChunks(l) /\ e \in Headers(k)
    BY <2>3, <2>4, <2>6, <1>1
  <2>9. i = bin_index(ChunkSize(l, e))
    <3>1. ChunkSize(l, e) = s - n
      BY <2>4, <2>6, <2>7, <2>8 DEF SameWords, ChunkSize
    <3> QED BY <3>1
  <2>10. \A d : d \in FreeChunks(h) <=> d \in FreeChunks(l) /\ d # e
    BY <2>3, <2>4 DEF FreeChunks
  <2> HIDE DEF i, e
  <2>11. HeapOK(g) /\ SameWords(l, g) /\ SameRegion(l, g) /\ Headers(g) = Headers(l)
    BY <2>1, <2>4, <2>5, <2>8, <2>9, <2>10, BinOK
  <2> HIDE DEF g
  <2>12. /\ \A d : d \in Headers(g) <=> d \in Headers(h) \/ d = e
         /\ \A d \in Headers(g) : g.csize[d] = IF d = c THEN Word(n, 1)
                                              ELSE IF d = e THEN Word(s - n, 0)
                                              ELSE h.csize[d]
    BY <2>4, <2>6, <2>11 DEF SameWords
  <2>13. SameUsed(h, g, c)
    <3> HIDE DEF s
    <3>1. \A d : d \in UsedChunks(g) <=> d \in UsedChunks(h)
      <4>1. e \notin UsedChunks(g) /\ e \notin UsedChunks(h) /\ c \in UsedChunks(g)
        BY <2>3, <2>7, <2>8, <2>12, <1>1 DEF UsedChunks
      <4>2. \A d : d # e /\ d # c => (d \in UsedChunks(g) <=> d \in UsedChunks(h))
        BY <2>12 DEF UsedChunks
      <4> QED BY <4>1, <4>2
    <3>2. \A d \in UsedChunks(h) : d # c => g.csize[d] = h.csize[d]
      BY <2>3, <2>12 DEF UsedChunks
    <3> QED BY <3>1, <3>2 DEF SameUsed
  <2>14. ChunkSize(g, c) >= n
    BY <2>7, <2>12, <1>1 DEF ChunkSize
  <2>15. SameRegion(h, g)
    BY <2>4, <2>6, <2>11 DEF SameRegion
  <2> QED BY <2>2, <2>11, <2>13, <2>14, <2>15
<1> QED BY <1>2, <1>3

\* Chunks in use, from c up to c + n, become one free chunk on its list.
LEMMA FreeSpanOK ==
    ASSUME NEW h, HeapOK(h), NEW c \in Headers(h), NEW n \in Nat, n > 0,
           c + n \in Headers(h), h.csize[c + n].inuse = 1, h.psize[c].inuse = 1,
           \A d \in Headers(h) : c <= d /\ d < c + n => h.csize[d].inuse = 1
    PROVE  LET i == bin_index(n)
               g == bin_chunk(tag(lock_bin(h, i), c, n, 0), c, i)
           IN  /\ HeapOK(g) /\ SameRegion(h, g)
               /\ \A d : d \in Headers(g) <=> d \in Headers(h) /\ ~(c < d /\ d < c + n)
               /\ \A d \in Headers(g) : g.csize[d] = IF d = c THEN Word(n, 0) ELSE h.csize[d]
<1> DEFINE i == bin_index(n)
           l == lock_bin(h, i)
           k == tag(l, c, n, 0)
           g == bin_chunk(k, c, i)
<1>1. i \in Bins /\ Shape(h) /\ Lists(h, FreeChunks(h))
  BY BinIndexType DEF HeapOK
<1>2. /\ Shape(l) /\ Lists(l, FreeChunks(h)) /\ i \in DOMAIN l.next
      /\ SameWords(h, l) /\ SameRegion(h, l)
      /\ FreeChunks(l) = FreeChunks(h) /\ Headers(l) = Headers(h)
  BY <1>1, LockOK
<1> HIDE DEF l
<1>3. Retagged(l, k, c, n, 0) /\ SameLinks(l, k)
  <2>1. Typed(l) /\ IsRec(l)
    BY <1>2 DEF Shape, Typed
  <2> QED BY <2>1, <1>2, TagWords, TagFields
<1> HIDE DEF k
<1>4. Shape(k)
  BY <1>2, <1>3, RetagShape
<1>5. /\ \A d : d \in Headers(k) <=> d \in Headers(h) /\ ~(c < d /\ d < c + n)
      /\ \A d \in Headers(k) : k.csize[d] = IF d = c THEN Word(n, 0) ELSE h.csize[d]
      /\ SameRegion(l, k)
  BY <1>2, <1>3 DEF Retagged, SameWords
<1>6. /\ Word(n, 0).inuse = 0 /\ Word(n, 0).size = n /\ c \in Nat
      /\ \A d \in Headers(h) : d \in Nat
  BY <1>1, WordFacts, TypedFacts DEF Shape
<1>7. c \in Headers(k) /\ h.csize[c].inuse = 1 /\ k.csize[c].inuse = 0 /\ c \in FreeChunks(k)
      /\ ChunkSize(k, c) = n
  BY <1>5, <1>6 DEF FreeChunks, ChunkSize
<1>8. \A d : d \in FreeChunks(h) <=> d \in FreeChunks(k) /\ d # c
  <2>1. \A d \in Headers(h) : h.csize[d].inuse = 0 => d \in Headers(k) /\ d # c
    BY <1>5, <1>6, <1>7
  <2> QED BY <2>1, <1>5 DEF FreeChunks
<1>9. Lists(k, FreeChunks(h))
  <2>1. \A x \in FreeChunks(h) : ChunkSize(k, x) = ChunkSize(l, x)
    BY <1>2, <1>5, <1>8 DEF FreeChunks, ChunkSize, SameWords
  <2> QED BY <2>1, <1>2, <1>3, ListsKept
<1>10. Merged(k)
  <2> SUFFICES ASSUME NEW d \in Headers(k), k.csize[d].inuse = 0
               PROVE  k.csize[NextChunk(k, d)].inuse = 1
    BY DEF Merged
  <2>1. NextChunk(k, d) \in Headers(k)
    BY <1>4, FreeFacts
  <2>2. CASE d = c
    BY <2>1, <2>2, <1>5, <1>6 DEF NextChunk
  <2>3. CASE d # c
    <3>1. d \in Headers(h) /\ k.csize[d] = h.csize[d] /\ NextChunk(k, d) = NextChunk(h, d)
      BY <2>3, <1>5 DEF NextChunk
    <3>2. /\ h.csize[NextChunk(h, d)].inuse = 1 /\ NextChunk(h, d) \in Headers(h)
          /\ h.psize[NextChunk(h, d)] = h.csize[d]
      BY <3>1, <1>1, FreeFacts DEF HeapOK, Merged
    <3>3. NextChunk(h, d) # c
      BY <3>1, <3>2
    <3> QED BY <3>1, <3>2, <3>3, <2>1, <1>5
  <2> QED BY <2>2, <2>3
<1>11. k.crashed = FALSE /\ i \in DOMAIN k.next /\ SameRegion(h, k)
  BY <1>2, <1>3, <1>5 DEF SameRegion, SameLinks, HeapOK
<1>12. i = bin_index(ChunkSize(k, c))
  BY <1>7
<1> HIDE DEF i
<1>13. HeapOK(g) /\ SameWords(k, g) /\ SameRegion(k, g) /\ Headers(g) = Headers(k)
  BY <1>1, <1>4, <1>7, <1>8, <1>9, <1>10, <1>11, <1>12, BinOK
<1> HIDE DEF g
<1>14. SameRegion(h, g)
  BY <1>11, <1>13 DEF SameRegion
<1> QED BY <1>5, <1>13, <1>14 DEF SameWords, g, k, l, i

LEMMA RoundUpFacts ==
    \A n \in Nat :
        /\ RoundUp(n, 4096) \in Nat /\ RoundUp(n, 4096) >= n /\ RoundUp(n, 4096) % 4096 = 0
        /\ RoundUp(n, 32) \in Nat /\ RoundUp(n, 32) >= n /\ RoundUp(n, 32) % 32 = 0
BY DEF RoundUp

\* g is h with a chunk of n bytes in use and a new last header added at w.
Extended(h, g, w, n) ==
    /\ Typed(g) /\ SameLinks(h, g) /\ g.end = w + n + 16 /\ g.brk = g.end
    /\ g.brk_min = h.brk_min /\ g.crashed = h.crashed
    /\ \A d : d \in Headers(g) <=> d \in Headers(h) \/ d = w \/ d = w + n
    /\ \A d \in Headers(g) : g.csize[d] = IF d = w THEN Word(n, 1)
                                         ELSE IF d = w + n THEN Word(0, 1)
                                         ELSE h.csize[d]
    /\ \A d \in Headers(g) : g.psize[d] = IF d = w + n THEN Word(n, 1)
                                         ELSE IF d \in Headers(h) THEN h.psize[d]
                                         ELSE Word(0, 1)

LEMMA NewChunkFields ==
    ASSUME NEW h, IsRec(h), NEW w, NEW n
    PROVE  LET g == new_chunk(h, w, n, FALSE)
               t == tag(h, w, n, 1)
           IN  /\ IsRec(g) /\ g.csize = Assign(t.csize, w + n, Word(0, 1))
               /\ g.psize = t.psize /\ g.end = ToMem(w + n)
               /\ SameLinks(t, g) /\ g.brk = t.brk /\ g.brk_min = t.brk_min
               /\ g.brk_max = t.brk_max /\ g.crashed = t.crashed
<1> DEFINE g == new_chunk(h, w, n, FALSE)
           t == tag(h, w, n, 1)
<1>1. IsRec(t)
  BY TagFields
<1>2. g = [t EXCEPT !.csize = Assign(@, w + n, Word(0, 1)), !.end = ToMem(w + n)]
  BY DEF new_chunk
<1> HIDE DEF g, t
<1> QED BY <1>1, <1>2 DEF IsRec, Fields, SameLinks, g, t

\* The words of h end at the header w, the footer of w written.
Room(h, H, w) ==
    /\ IsRec(h) /\ H \subseteq Nat /\ DOMAIN h.csize = H /\ DOMAIN h.psize = H \cup {w}
    /\ \A d \in H : d <= w /\ h.csize[d] \in WordType
    /\ \A d \in H \cup {w} : h.psize[d] \in WordType
    /\ h.brk \in Nat /\ h.brk_min \in Nat /\ h.brk_max \in Nat

Appended(h, g, H, w, n) ==
    /\ Typed(g) /\ SameLinks(h, g) /\ g.end = w + n + 16
    /\ g.brk = h.brk /\ g.brk_min = h.brk_min /\ g.crashed = h.crashed
    /\ \A d : d \in Headers(g) <=> d \in H \/ d = w \/ d = w + n
    /\ \A d \in Headers(g) : g.csize[d] = IF d = w THEN Word(n, 1)
                                         ELSE IF d = w + n THEN Word(0, 1)
                                         ELSE h.csize[d]
    /\ \A d \in Headers(g) : g.psize[d] = IF d = w + n THEN Word(n, 1) ELSE h.psize[d]

LEMMA ExtendWords ==
    ASSUME NEW h, NEW H, NEW w \in Nat, NEW n \in Nat, n > 0, Room(h, H, w)
    PROVE  Appended(h, new_chunk(h, w, n, FALSE), H, w, n)
<1> /\ IsRec(h) /\ H \subseteq Nat /\ DOMAIN h.csize = H /\ DOMAIN h.psize = H \cup {w}
    /\ h.brk \in Nat /\ h.brk_min \in Nat /\ h.brk_max \in Nat
  BY DEF Room
<1> \A d \in H : d <= w /\ h.csize[d] \in WordType
  BY DEF Room
<1> \A d \in H \cup {w} : h.psize[d] \in WordType
  BY DEF Room
<1> DEFINE g == new_chunk(h, w, n, FALSE)
           t == tag(h, w, n, 1)
           e == w + n
           G == H \cup {w, e}
<1>1. Inside(h, w, n) = {} /\ e \notin H /\ e # w /\ e \in Nat
  <2>1. \A d \in H : d \in Nat /\ d <= w
    OBVIOUS
  <2>2. Inside(h, w, n) = {}
    <3>1. Headers(h) = H
      BY DEF Headers
    <3>2. ASSUME NEW d \in Headers(h) PROVE ~(w < d /\ d < w + n)
      <4>1. d \in Nat /\ d <= w
        BY <2>1, <3>1
      <4> QED BY <4>1
    <3> QED BY <3>2 DEF Inside
  <2>3. e \notin H /\ e # w /\ e \in Nat
    BY <2>1
  <2> QED BY <2>2, <2>3
<1>2. /\ SameRegion(h, t) /\ SameLinks(h, t)
      /\ t.csize = Assign(Without(h.csize, Inside(h, w, n)), w, Word(n, 1))
      /\ t.psize = Assign(Without(h.psize, Inside(h, w, n)), e, Word(n, 1))
  BY TagFields
<1>3. /\ IsRec(g) /\ g.csize = Assign(t.csize, e, Word(0, 1))
      /\ g.psize = t.psize /\ g.end = ToMem(e)
      /\ SameLinks(t, g) /\ g.brk = t.brk /\ g.brk_min = t.brk_min
      /\ g.brk_max = t.brk_max /\ g.crashed = t.crashed
  BY NewChunkFields
<1> HIDE DEF g, t, e
<1>4. /\ DOMAIN t.csize = H \cup {w}
      /\ \A d \in H \cup {w} : t.csize[d] = IF d = w THEN Word(n, 1) ELSE h.csize[d]
  BY <1>1, <1>2 DEF Assign, Without
<1>5. /\ DOMAIN g.csize = G
      /\ \A d \in G : g.csize[d] = IF d = w THEN Word(n, 1)
                                 ELSE IF d = e THEN Word(0, 1) ELSE h.csize[d]
  BY <1>1, <1>3, <1>4 DEF Assign
<1>6. /\ DOMAIN g.psize = G
      /\ \A d \in G : g.psize[d] = IF d = e THEN Word(n, 1) ELSE h.psize[d]
  BY <1>1, <1>2, <1>3 DEF Assign, Without
<1>7. Typed(g)
  <2>1. g.csize = [d \in G |-> g.csize[d]] /\ g.psize = [d \in G |-> g.psize[d]]
    BY <1>2, <1>3, <1>5, <1>6 DEF Assign
  <2>2. Word(n, 1) \in WordType /\ Word(0, 1) \in WordType
    BY WordFacts
  <2>3. \A d \in G : g.csize[d] \in WordType /\ g.psize[d] \in WordType
    BY <2>2, <1>5, <1>6
  <2>4. g.brk \in Nat /\ g.brk_min \in Nat /\ g.brk_max \in Nat /\ g.end \in Nat
    BY <1>1, <1>2, <1>3 DEF SameRegion, ToMem, CKB_OVERHEAD
  <2>5. G \subseteq Nat
    BY <1>1
  <2> HIDE DEF G
  <2> QED BY <1>3, <1>5, <1>6, <2>1, <2>3, <2>4, <2>5, TypedBy
<1>8. Headers(g) = G
  BY <1>5 DEF Headers
<1>9. SameLinks(h, g) /\ g.brk = h.brk /\ g.brk_min = h.brk_min /\ g.crashed = h.crashed
  BY <1>2, <1>3 DEF SameLinks, SameRegion
<1>10. g.end = w + n + 16
  BY <1>3 DEF e, ToMem, CKB_OVERHEAD
<1> QED BY <1>5, <1>6, <1>7, <1>8, <1>9, <1>10 DEF g, e, Appended

\* The chunk c of g, at least m bytes, is the one chunk in use that h has not.
Grants(h, g, c, m) ==
    /\ HeapOK(g) /\ c \notin UsedChunks(h)
    /\ \A d : d \in UsedChunks(g) <=> d \in UsedChunks(h) \/ d = c
    /\ \A d \in UsedChunks(h) : g.csize[d] = h.csize[d]
    /\ ChunkSize(g, c) >= m

\* n bytes from w on are where expand_heap may add a chunk to h.
FitsAt(h, w, n) ==
    /\ w \in Nat /\ n \in Nat /\ n > 0 /\ n % 32 = 0
    /\ w % 32 = 16 /\ w > 63 /\ w >= h.brk_min /\ (w + n + 16) % 4096 = 0
    /\ IF h.end = 0 THEN TRUE ELSE w = h.end - 16

LEMMA ExtendedOK ==
    ASSUME NEW h, HeapOK(h), NEW w, NEW n, FitsAt(h, w, n), NEW g, Extended(h, g, w, n)
    PROVE  Grants(h, g, w, n) /\ g.csize[NextChunk(g, w)].inuse = 1
<1> /\ w \in Nat /\ n \in Nat /\ n > 0 /\ n % 32 = 0
    /\ w % 32 = 16 /\ w > 63 /\ w >= h.brk_min /\ (w + n + 16) % 4096 = 0
  BY DEF FitsAt
<1> IF h.end = 0 THEN TRUE ELSE w = h.end - 16
  BY DEF FitsAt
<1> DEFINE e == w + n
<1>1. Shape(h) /\ Typed(h) /\ Typed(g) /\ e \in Nat /\ e # w /\ h.end \in Nat
  BY DEF HeapOK, Shape, Typed, Extended
<1>2. /\ \A d : d \in Headers(g) <=> d \in Headers(h) \/ d = w \/ d = e
      /\ \A d \in Headers(g) : g.csize[d] = IF d = w THEN Word(n, 1)
                                           ELSE IF d = e THEN Word(0, 1)
                                           ELSE h.csize[d]
      /\ \A d \in Headers(g) : g.psize[d] = IF d = e THEN Word(n, 1)
                                           ELSE IF d \in Headers(h) THEN h.psize[d]
                                           ELSE Word(0, 1)
  BY DEF Extended
<1>3. /\ Word(n, 1).size = n /\ Word(n, 1).inuse = 1
      /\ Word(0, 1).size = 0 /\ Word(0, 1).inuse = 1
  BY WordFacts
<1>4. \A d \in Headers(h) : d \in Nat /\ h.csize[d].size \in Nat /\ h.psize[d].size \in Nat
  BY <1>1, TypedFacts
<1>5. \A d \in Headers(h) : d <= w
  <2> SUFFICES ASSUME NEW d \in Headers(h) PROVE d <= w
    OBVIOUS
  <2>1. h.end # 0
    BY <1>1 DEF Shape, Region
  <2>2. d + 16 <= h.end /\ d \in Nat
    BY <1>1, <1>4 DEF Shape, Placed, PlacedAt
  <2> QED BY <2>1, <2>2, <1>1
<1>6. w \in Headers(h) => h.csize[w].size = 0 /\ h.csize[w].inuse = 1
  <2>1. SUFFICES ASSUME w \in Headers(h) PROVE h.csize[w].size = 0 /\ h.csize[w].inuse = 1
    OBVIOUS
  <2>2. w = h.end - 16
    BY <1>1, <2>1 DEF Shape, Region
  <2>3. PlacedAt(h, w)
    BY <1>1, <2>1 DEF Shape, Placed
  <2> QED BY <2>2, <2>3 DEF PlacedAt
<1>7. Headers(h) # {} => w \in Headers(h)
  BY <1>1 DEF Shape, Region
<1>8. e \notin Headers(h) /\ w \in Headers(g) /\ e \in Headers(g)
  <2>1. e \notin Headers(h)
    <3>1. SUFFICES ASSUME e \in Headers(h) PROVE FALSE
      OBVIOUS
    <3>2. e <= w
      BY <1>5, <3>1
    <3> QED BY <3>2
  <2> QED BY <2>1, <1>2
<1>24. \A d \in Headers(h) : d # e /\ d \in Headers(g)
  BY <1>2, <1>8
<1>25. \A d \in Headers(h) : g.psize[d] = h.psize[d]
  BY <1>2, <1>24
<1>26. \A d \in Headers(h) : d # w => g.csize[d] = h.csize[d]
  BY <1>2, <1>24
<1>27. g.csize[w] = Word(n, 1) /\ g.csize[e] = Word(0, 1) /\ g.psize[e] = Word(n, 1)
  BY <1>1, <1>2, <1>8
<1> HIDE DEF e
<1>9. Forward(g)
  <2> SUFFICES ASSUME NEW d \in Headers(g), g.csize[d].size > 0
               PROVE  /\ d + g.csize[d].size \in Headers(g)
                      /\ g.psize[d + g.csize[d].size] = g.csize[d]
    BY DEF Forward, ChunkSize, NextChunk
  <2>1. CASE d = w
    BY <2>1, <1>2, <1>3, <1>8 DEF e
  <2>2. CASE d # w
    <3>1. d \in Headers(h) /\ g.csize[d] = h.csize[d]
      BY <2>2, <1>2, <1>3
    <3>2. d + h.csize[d].size \in Headers(h) /\ h.psize[d + h.csize[d].size] = h.csize[d]
      BY <3>1, <1>1 DEF Shape, Forward, ChunkSize, NextChunk
    <3> QED BY <3>1, <3>2, <1>24, <1>25, <1>26, <1>27
  <2> QED BY <2>1, <2>2
<1>10. Backward(g)
  <2> SUFFICES ASSUME NEW d \in Headers(g)
               PROVE  IF g.psize[d].size = 0 THEN g.psize[d].inuse = 1
                      ELSE /\ d - g.psize[d].size \in Headers(g)
                           /\ g.csize[d - g.psize[d].size] = g.psize[d]
    BY DEF Backward, PrevChunk
  <2>1. CASE d = e
    BY <2>1, <1>2, <1>3, <1>8 DEF e
  <2>2. CASE d # e /\ d \notin Headers(h)
    BY <2>2, <1>2, <1>3
  <2>3. CASE d \in Headers(h)
    <3>1. g.psize[d] = h.psize[d]
      BY <2>3, <1>24, <1>25, <1>26, <1>27
    <3>2. IF h.psize[d].size = 0 THEN h.psize[d].inuse = 1
          ELSE /\ d - h.psize[d].size \in Headers(h)
               /\ h.csize[d - h.psize[d].size] = h.psize[d]
      BY <2>3, <1>1 DEF Shape, Backward, PrevChunk
    <3>3. CASE h.psize[d].size # 0
      <4>1. d - h.psize[d].size # w
        BY <3>2, <3>3, <1>6
      <4> QED BY <4>1, <3>1, <3>2, <3>3, <1>24, <1>25, <1>26, <1>27
    <3> QED BY <3>1, <3>2, <3>3
  <2> QED BY <2>1, <2>2, <2>3
<1>11. NoOverlap(g)
  <2> SUFFICES ASSUME NEW c \in Headers(g), NEW d \in Headers(g), c < d
               PROVE  c + g.csize[c].size <= d
    BY DEF NoOverlap, NextChunk
  <2>1. CASE c = w
    <3>1. d = e
      <4>1. d \notin Headers(h)
        <5>1. SUFFICES ASSUME d \in Headers(h) PROVE FALSE
          OBVIOUS
        <5>2. d <= w /\ d \in Nat
          BY <5>1, <1>4, <1>5
        <5> QED BY <5>2, <2>1
      <4> QED BY <4>1, <2>1, <1>2
    <3> QED BY <3>1, <2>1, <1>2, <1>3 DEF e
  <2>2. CASE c = e
    <3>1. d \in Headers(h) => d \in Nat /\ d <= w
      BY <1>4, <1>5
    <3>2. d \in Headers(h) \/ d = w \/ d = e
      BY <1>2
    <3> QED BY <3>1, <3>2, <2>2, <1>1 DEF e
  <2>3. CASE c # w /\ c # e
    <3>1. /\ c \in Headers(h) /\ g.csize[c] = h.csize[c] /\ w \in Headers(h)
          /\ \A x \in Headers(h) : c < x => c + h.csize[c].size <= x
      BY <2>3, <1>1, <1>2, <1>7 DEF Shape, NoOverlap, NextChunk
    <3>2. c + h.csize[c].size <= w /\ c \in Nat /\ h.csize[c].size \in Nat
      BY <3>1, <2>3, <1>4, <1>5
    <3>3. d \in Headers(h) \/ d = e
      BY <3>1, <1>2
    <3>4. CASE d \in Headers(h)
      <4>1. c + h.csize[c].size <= d
        BY <3>1, <3>4
      <4> QED BY <4>1, <3>1
    <3>5. CASE d = e
      <4>1. c + h.csize[c].size <= e
        BY <3>2, <1>1 DEF e
      <4> QED BY <4>1, <3>1, <3>5
    <3> QED BY <3>3, <3>4, <3>5
  <2> QED BY <2>1, <2>2, <2>3
<1>12. /\ g.end = e + 16 /\ g.brk = e + 16 /\ g.brk_min = h.brk_min /\ g.crashed = FALSE
       /\ h.brk_min \in Nat /\ h.brk_min > 0 /\ SameLinks(h, g)
  BY <1>1 DEF Extended, e, HeapOK, Shape, Region, Typed
<1>13. Placed(g)
  <2> SUFFICES ASSUME NEW d \in Headers(g) PROVE PlacedAt(g, d)
    BY DEF Placed
  <2>1. CASE d = w
    <3>1. g.csize[d].size = n
      BY <2>1, <1>2, <1>3
    <3>2. w + 16 <= g.end /\ w # g.end - 16 /\ w >= g.brk_min
      BY <1>1, <1>12 DEF e
    <3> QED BY <3>1, <3>2, <2>1 DEF PlacedAt
  <2>2. CASE d = e
    <3>1. g.csize[d].size = 0 /\ g.csize[d].inuse = 1
      BY <2>2, <1>1, <1>2, <1>3
    <3>2. e % 32 = 16 /\ e > 63 /\ e >= h.brk_min
      BY <1>12 DEF e
    <3>3. e = g.end - 16 /\ e + 16 <= g.end /\ e >= g.brk_min
      BY <3>2, <1>1, <1>12
    <3> QED BY <3>1, <3>2, <3>3, <2>2 DEF PlacedAt
  <2>3. CASE d # w /\ d # e
    <3>1. d \in Headers(h) /\ g.csize[d] = h.csize[d] /\ PlacedAt(h, d) /\ d \in Nat
      BY <2>3, <1>1, <1>2, <1>4 DEF Shape, Placed
    <3>2. d + 16 <= g.end /\ d # g.end - 16 /\ d >= g.brk_min
      <4>1. d <= w /\ d >= h.brk_min
        BY <3>1, <1>5 DEF PlacedAt
      <4> QED BY <4>1, <3>1, <2>3, <1>1, <1>12 DEF e
    <3>3. h.csize[d].size # 0
      <4>1. w \in Headers(h) /\ h.end - 16 = w
        BY <3>1, <1>1, <1>7 DEF Shape, Region
      <4> QED BY <4>1, <3>1, <2>3 DEF PlacedAt
    <3> QED BY <3>1, <3>2, <3>3 DEF PlacedAt
  <2> QED BY <2>1, <2>2, <2>3
<1>14. Region(g)
  <2>1. e + 16 # 0 /\ e + 16 - 16 = e /\ (e + 16) % 4096 = 0 /\ e + 16 >= h.brk_min
    BY <1>1, <1>12 DEF e
  <2>2. g.psize[e].size > 0
    BY <1>3, <1>27
  <2> QED BY <2>1, <2>2, <1>8, <1>12 DEF Region
<1>15. Shape(g)
  BY <1>1, <1>9, <1>10, <1>11, <1>13, <1>14 DEF Shape
<1>17. FreeChunks(g) = FreeChunks(h)
  <2>1. ASSUME NEW d \in FreeChunks(g) PROVE d \in FreeChunks(h)
    <3>1. d \in Headers(g) /\ g.csize[d].inuse = 0
      BY DEF FreeChunks
    <3>2. d \in Headers(h) /\ d # w
      BY <3>1, <1>2, <1>3, <1>27
    <3> QED BY <3>1, <3>2, <1>26 DEF FreeChunks
  <2>2. ASSUME NEW d \in FreeChunks(h) PROVE d \in FreeChunks(g)
    <3>1. d \in Headers(h) /\ h.csize[d].inuse = 0
      BY DEF FreeChunks
    <3>2. d # w
      BY <3>1, <1>6
    <3> QED BY <3>1, <3>2, <1>24, <1>26 DEF FreeChunks
  <2>3. \A d : d \in FreeChunks(g) <=> d \in FreeChunks(h)
    BY <2>1, <2>2
  <2> QED BY <2>3, SameSet
<1>18. Lists(g, FreeChunks(g))
  <2>1. \A x \in FreeChunks(h) : ChunkSize(g, x) = ChunkSize(h, x)
    BY <1>6, <1>24, <1>25, <1>26, <1>27 DEF FreeChunks, ChunkSize
  <2> QED BY <2>1, <1>12, <1>17, ListsKept DEF HeapOK
<1>19. Merged(g)
  <2> SUFFICES ASSUME NEW d \in Headers(g), g.csize[d].inuse = 0
               PROVE  g.csize[NextChunk(g, d)].inuse = 1
    BY DEF Merged
  <2>1. d \in Headers(h) /\ d # w
    BY <1>2, <1>3, <1>24, <1>25, <1>26, <1>27
  <2>2. g.csize[d] = h.csize[d] /\ NextChunk(g, d) = NextChunk(h, d)
    BY <2>1, <1>24, <1>25, <1>26, <1>27 DEF NextChunk
  <2>3. h.csize[NextChunk(h, d)].inuse = 1 /\ NextChunk(h, d) \in Headers(h)
    BY <2>1, <2>2, <1>1, FreeFacts DEF HeapOK, Merged
  <2> QED BY <2>2, <2>3, <1>3, <1>24, <1>25, <1>26, <1>27
<1>20. HeapOK(g)
  BY <1>12, <1>15, <1>18, <1>19 DEF HeapOK
<1>21. \A d : d \in UsedChunks(g) <=> d \in UsedChunks(h) \/ d = w
  <2>1. w \in UsedChunks(g) /\ e \notin UsedChunks(g) /\ e \notin UsedChunks(h)
    BY <1>3, <1>8, <1>24, <1>25, <1>26, <1>27 DEF UsedChunks
  <2>2. \A d : d # w /\ d # e => (d \in UsedChunks(g) <=> d \in UsedChunks(h))
    BY <1>2, <1>24, <1>25, <1>26, <1>27 DEF UsedChunks
  <2>3. w \notin UsedChunks(h)
    BY <1>6 DEF UsedChunks
  <2> QED BY <2>1, <2>2, <2>3, <1>1
<1>22. w \notin UsedChunks(h) /\ \A d \in UsedChunks(h) : g.csize[d] = h.csize[d]
  BY <1>6, <1>24, <1>25, <1>26, <1>27 DEF UsedChunks
<1>23. ChunkSize(g, w) >= n /\ NextChunk(g, w) = e
  BY <1>3, <1>24, <1>25, <1>26, <1>27 DEF ChunkSize, NextChunk, e
<1> QED BY <1>3, <1>24, <1>25, <1>26, <1>27, <1>20, <1>21, <1>22, <1>23 DEF Grants

\* The chunks in use are the same in h and g, and g is sound.
Keeps(h, g) ==
    /\ HeapOK(g)
    /\ \A d : d \in UsedChunks(g) <=> d \in UsedChunks(h)
    /\ \A d \in UsedChunks(h) : g.csize[d] = h.csize[d]

\* Only the break moves, and not while there are chunks.
LEMMA BreakOK ==
    ASSUME NEW h, HeapOK(h), NEW g, IsRec(g), SameWords(h, g), SameLinks(h, g),
           g.end = h.end, g.crashed = h.crashed, Region(g),
           g.brk \in Nat, g.brk_min \in Nat, g.brk_max \in Nat,
           IF h.end = 0 THEN TRUE ELSE g.brk_min = h.brk_min
    PROVE  Keeps(h, g)
<1>1. Headers(g) = Headers(h) /\ Shape(h)
  BY DEF SameWords, Headers, HeapOK
<1>2. Typed(g)
  BY <1>1 DEF Shape, Typed, SameWords
<1>3. Forward(g) /\ Backward(g) /\ NoOverlap(g)
  BY <1>1 DEF Shape, Forward, Backward, NoOverlap, SameWords, ChunkSize, NextChunk, PrevChunk
<1>4. Placed(g)
  <2> SUFFICES ASSUME NEW d \in Headers(g) PROVE PlacedAt(g, d)
    BY DEF Placed
  <2>1. PlacedAt(h, d) /\ d \in Headers(h) /\ h.end # 0
    BY <1>1 DEF Shape, Placed, Region
  <2> QED BY <2>1 DEF PlacedAt, SameWords
<1>5. FreeChunks(g) = FreeChunks(h)
  BY <1>1 DEF FreeChunks, SameWords
<1>6. Lists(g, FreeChunks(g))
  <2>1. \A x \in FreeChunks(h) : ChunkSize(g, x) = ChunkSize(h, x)
    BY DEF ChunkSize, SameWords
  <2> QED BY <2>1, <1>5, ListsKept DEF HeapOK
<1>7. Merged(g)
  BY MergedKept DEF HeapOK
<1>8. HeapOK(g)
  BY <1>2, <1>3, <1>4, <1>6, <1>7 DEF HeapOK, Shape
<1> QED BY <1>1, <1>8 DEF Keeps, UsedChunks, SameWords

LEMMA BrkFields ==
    ASSUME NEW h, IsRec(h), NEW v
    PROVE  LET g == [h EXCEPT !.brk = v]
           IN  /\ IsRec(g) /\ SameWords(h, g) /\ SameLinks(h, g) /\ g.brk = v
               /\ g.brk_min = h.brk_min /\ g.brk_max = h.brk_max /\ g.end = h.end
               /\ g.crashed = h.crashed
BY DEF IsRec, Fields, SameWords, SameLinks

LEMMA PsizeFields ==
    ASSUME NEW h, IsRec(h), NEW v
    PROVE  LET g == [h EXCEPT !.psize = v]
           IN  /\ IsRec(g) /\ g.csize = h.csize /\ g.psize = v
               /\ SameLinks(h, g) /\ SameRegion(h, g)
BY DEF IsRec, Fields, SameRegion, SameLinks

LEMMA ExpandOK ==
    ASSUME NEW h, HeapOK(h), NEW want \in Nat
    PROVE  LET r == expand_heap(h, want)
           IN  IF r.ptr = NULL THEN Keeps(h, r.heap)
               ELSE Grants(h, r.heap, r.ptr, want)
                    /\ r.heap.csize[NextChunk(r.heap, r.ptr)].inuse = 1
<1> DEFINE grow == RoundUp(want + CKB_SIZE_ALIGN, CKB_PAGE_SIZE)
           brk == IF h.brk = 0 THEN RoundUp(h.brk_min, CKB_PAGE_SIZE) ELSE h.brk
           top == brk + grow
           k0 == [h EXCEPT !.brk = brk]
           k == [h EXCEPT !.brk = top]
           r == expand_heap(h, want)
<1>1. Shape(h) /\ Typed(h) /\ IsRec(h) /\ Region(h)
  BY DEF HeapOK, Shape, Typed
<1>2. grow \in Nat /\ grow >= want + 32 /\ grow % 4096 = 0
  BY RoundUpFacts DEF CKB_SIZE_ALIGN, CKB_PAGE_SIZE
<1>3. brk \in Nat /\ brk >= h.brk_min /\ brk % 4096 = 0 /\ brk > 0
  <2>1. /\ h.brk \in Nat /\ h.brk_min \in Nat /\ h.brk % 4096 = 0 /\ h.brk_min > 0
        /\ h.brk # 0 => h.brk >= h.brk_min
    BY <1>1 DEF Region, Typed
  <2>2. CASE h.brk = 0
    <3>1. brk = RoundUp(h.brk_min, 4096)
      BY <2>2 DEF CKB_PAGE_SIZE
    <3> HIDE DEF brk
    <3> QED BY <3>1, <2>1, RoundUpFacts
  <2>3. CASE h.brk # 0
    <3>1. brk = h.brk
      BY <2>3
    <3> QED BY <3>1, <2>1, <2>3
  <2> QED BY <2>2, <2>3
<1>4. h.end # 0 => brk = h.end
  BY <1>1 DEF Region
<1>5. _sbrk(h, grow) = IF top > h.brk_max THEN [heap |-> k0, ptr |-> -1]
                       ELSE [heap |-> k, ptr |-> brk]
  BY DEF _sbrk
<1> HIDE DEF grow, brk, top
<1>6. /\ IsRec(k) /\ SameWords(h, k) /\ SameLinks(h, k) /\ k.brk = top
      /\ k.brk_min = h.brk_min /\ k.brk_max = h.brk_max /\ k.end = h.end
      /\ k.crashed = h.crashed
  BY <1>1, BrkFields
<1>7. /\ IsRec(k0) /\ SameWords(h, k0) /\ SameLinks(h, k0) /\ k0.brk = brk
      /\ k0.brk_min = h.brk_min /\ k0.brk_max = h.brk_max /\ k0.end = h.end
      /\ k0.crashed = h.crashed
  BY <1>1, BrkFields
<1> HIDE DEF k0, k
<1>11. top = brk + grow /\ top \in Nat /\ (top > h.brk_max) \in BOOLEAN
  BY <1>2, <1>3 DEF top
<1>8. CASE top > h.brk_max
  <2>1. r = [heap |-> k0, ptr |-> NULL]
    BY <1>5, <1>8 DEF expand_heap, grow
  <2>2. Headers(k0) = Headers(h)
    BY <1>7 DEF SameWords, Headers
  <2>3. Region(k0)
    BY <2>2, <1>1, <1>3, <1>4, <1>7 DEF Region, SameWords
  <2>4. h.brk_min \in Nat /\ h.brk_max \in Nat
    BY <1>1 DEF Typed
  <2>5. Keeps(h, k0)
    BY <2>3, <2>4, <1>3, <1>7, BreakOK
  <2> HIDE DEF r
  <2> QED BY <2>1, <2>5 DEF r
<1>9. CASE ~(top > h.brk_max) /\ brk = h.end
  <2> DEFINE w == h.end - 16
             g == new_chunk(k, w, grow, FALSE)
  <2>1. r = [heap |-> g, ptr |-> w]
    <3>1. brk # -1
      BY <1>3
    <3>2. ToChunk(brk) = w
      BY <1>9 DEF ToChunk, CKB_OVERHEAD
    <3> HIDE DEF w, g
    <3>3. _sbrk(h, grow).ptr = brk /\ _sbrk(h, grow).heap = k
      BY <1>5, <1>9
    <3>4. new_chunk(k, w, grow, FALSE) = g
      BY DEF g
    <3> HIDE DEF r
    <3> QED BY <3>1, <3>2, <3>3, <3>4, <1>9 DEF expand_heap, grow, r
  <2>2. w \in Headers(h) /\ h.end # 0 /\ PlacedAt(h, w)
    BY <1>1, <1>3, <1>9 DEF Region, Shape, Placed
  <2>3. w \in Nat /\ w % 32 = 16 /\ w > 63 /\ w >= h.brk_min /\ w + 16 = h.end
    BY <2>2, <1>1, TypedFacts DEF PlacedAt, Typed
  <2>4. \A d \in Headers(h) : d <= w /\ h.csize[d] \in WordType
    <3> SUFFICES ASSUME NEW d \in Headers(h) PROVE d <= w /\ h.csize[d] \in WordType
      OBVIOUS
    <3>1. d + 16 <= h.end /\ d \in Nat /\ h.csize[d] \in WordType
      BY <1>1, TypedFacts DEF Shape, Placed, PlacedAt
    <3> QED BY <3>1, <2>3
  <2>5. DOMAIN k.csize = Headers(h) /\ DOMAIN k.psize = Headers(h) \cup {w}
    BY <2>2, <1>1, <1>6 DEF Typed, SameWords, Headers
  <2>6. \A d \in Headers(h) \cup {w} : k.psize[d] \in WordType
    BY <2>2, <1>1, <1>6, TypedFacts DEF SameWords
  <2>7. \A d \in Headers(h) : d <= w /\ k.csize[d] \in WordType
    BY <2>4, <1>6 DEF SameWords
  <2>8. Headers(h) \subseteq Nat /\ h.brk_min \in Nat /\ h.brk_max \in Nat /\ k.brk \in Nat
    BY <1>1, <1>6, <1>11 DEF Typed
  <2> HIDE DEF w
  <2>9. Appended(k, g, Headers(h), w, grow)
    <3>1. grow > 0 /\ grow \in Nat /\ w \in Nat /\ IsRec(k)
      BY <2>3, <1>2, <1>6
    <3>2. k.brk \in Nat /\ k.brk_min \in Nat /\ k.brk_max \in Nat
      BY <2>8, <1>6
    <3>3. Room(k, Headers(h), w)
      BY <3>1, <3>2, <2>5, <2>6, <2>7, <2>8 DEF Room
    <3> QED BY <3>1, <3>3, ExtendWords
  <2> HIDE DEF g
  <2>10. Extended(h, g, w, grow) /\ Typed(g) /\ w \in Headers(g)
    <3>1. g.brk = g.end /\ g.brk_min = h.brk_min /\ g.crashed = h.crashed
      <4>1. /\ g.end = w + grow + 16 /\ g.brk = k.brk /\ g.brk_min = k.brk_min
            /\ g.crashed = k.crashed
        BY <2>9 DEF Appended
      <4> QED BY <4>1, <2>3, <1>2, <1>6, <1>9, <1>11
    <3>2. SameLinks(h, g)
      BY <2>9, <1>6 DEF SameLinks, Appended
    <3>3. \A d \in Headers(g) : g.csize[d] = IF d = w THEN Word(grow, 1)
                                             ELSE IF d = w + grow THEN Word(0, 1)
                                             ELSE h.csize[d]
      BY <2>9, <1>6 DEF SameWords, Appended
    <3>4. \A d \in Headers(g) : g.psize[d] = IF d = w + grow THEN Word(grow, 1)
                                             ELSE IF d \in Headers(h) THEN h.psize[d]
                                             ELSE Word(0, 1)
      BY <2>2, <2>9, <1>6 DEF SameWords, Appended
    <3> QED BY <2>9, <3>1, <3>2, <3>3, <3>4 DEF Extended, Appended
  <2>11. grow % 32 = 0 /\ (w + grow + 16) % 4096 = 0 /\ grow > 0
    BY <2>3, <1>2, <1>3, <1>9
  <2>12. Grants(h, g, w, grow) /\ g.csize[NextChunk(g, w)].inuse = 1
    <3>1. w \in Nat /\ w % 32 = 16 /\ w > 63 /\ w >= h.brk_min /\ grow \in Nat
      BY <2>3, <1>2
    <3>2. IF h.end = 0 THEN TRUE ELSE w = h.end - 16
      BY DEF w
    <3>3. FitsAt(h, w, grow)
      BY <3>1, <3>2, <2>11 DEF FitsAt
    <3> QED BY <3>3, <2>10, ExtendedOK
  <2>13. Grants(h, g, w, want)
    <3>1. ChunkSize(g, w) \in Nat
      BY <2>10, TypedFacts
    <3> QED BY <3>1, <2>12, <1>2 DEF Grants
  <2>14. w # NULL
    BY <2>3 DEF NULL
  <2> HIDE DEF r
  <2> QED BY <2>1, <2>12, <2>13, <2>14 DEF r
<1>10. CASE ~(top > h.brk_max) /\ brk # h.end
  <2> DEFINE w == brk + 16
             n == grow - 32
             k2 == [k EXCEPT !.psize = Assign(k.psize, w, Word(0, 1))]
             g == new_chunk(k2, w, n, FALSE)
  <2>1. r = [heap |-> g, ptr |-> w]
    <3>1. brk # -1
      BY <1>3
    <3>2. ToChunk(brk + CKB_SIZE_ALIGN) = w /\ grow - CKB_SIZE_ALIGN = n
      BY <1>3 DEF ToChunk, CKB_OVERHEAD, CKB_SIZE_ALIGN
    <3>3. new_chunk(k, w, n, TRUE) = g
      BY DEF new_chunk
    <3> HIDE DEF w, n, g
    <3>4. _sbrk(h, grow).ptr = brk /\ _sbrk(h, grow).heap = k
      BY <1>5, <1>10
    <3> HIDE DEF r
    <3> QED BY <3>1, <3>2, <3>3, <3>4, <1>10 DEF expand_heap, grow, r
  <2>2. h.end = 0 /\ Headers(h) = {}
    BY <1>1, <1>4, <1>10 DEF Region
  <2>3. /\ w \in Nat /\ w % 32 = 16 /\ w > 63 /\ w >= h.brk_min
        /\ n \in Nat /\ n >= want /\ n > 0 /\ n % 32 = 0 /\ (w + n + 16) % 4096 = 0
    <3>1. h.brk_min \in Nat
      BY <1>1 DEF Typed
    <3>2. w \in Nat /\ w % 32 = 16 /\ w > 63 /\ w >= h.brk_min
      BY <3>1, <1>3
    <3>3. n \in Nat /\ n >= want /\ n > 0 /\ n % 32 = 0
      BY <1>2
    <3>4. w + n + 16 = brk + grow
      BY <1>2, <1>3
    <3>5. (w + n + 16) % 4096 = 0
      <4> HIDE DEF w, n
      <4> QED BY <3>4, <1>2, <1>3
    <3> QED BY <3>2, <3>3, <3>5
  <2>4. /\ IsRec(k2) /\ k2.csize = k.csize /\ k2.psize = Assign(k.psize, w, Word(0, 1))
        /\ SameLinks(k, k2) /\ SameRegion(k, k2)
    BY <1>6, PsizeFields
  <2>5. w + n + 16 = brk + grow
    BY <1>2, <1>3
  <2> HIDE DEF k2, w, n
  <2>6. DOMAIN k2.csize = {} /\ DOMAIN k2.psize = {} \cup {w} /\ k2.psize[w] = Word(0, 1)
    BY <2>2, <2>4, <1>1, <1>6 DEF Typed, SameWords, Headers, Assign
  <2>7. \A d \in {} \cup {w} : k2.psize[d] \in WordType
    BY <2>6, WordFacts
  <2>8. k2.brk = brk + grow /\ k2.brk \in Nat /\ k2.brk_min \in Nat /\ k2.brk_max \in Nat
        /\ k2.brk_min = h.brk_min /\ k2.crashed = h.crashed
    BY <2>4, <1>1, <1>2, <1>3, <1>6, <1>11 DEF Typed, SameRegion
  <2>9. Appended(k2, g, {}, w, n)
    <3>1. IsRec(k2) /\ w \in Nat /\ n \in Nat /\ n > 0
      BY <2>3, <2>4
    <3>2. Room(k2, {}, w)
      BY <3>1, <2>6, <2>7, <2>8 DEF Room
    <3> QED BY <3>1, <3>2, ExtendWords
  <2> HIDE DEF g
  <2>10. Extended(h, g, w, n) /\ Typed(g) /\ w \in Headers(g)
    <3>1. g.brk = g.end /\ g.brk_min = h.brk_min /\ g.crashed = h.crashed
      BY <2>5, <2>8, <2>9 DEF Appended
    <3>2. SameLinks(h, g)
      BY <2>4, <2>9, <1>6 DEF SameLinks, Appended
    <3>3. \A d : d \in Headers(g) <=> d \in Headers(h) \/ d = w \/ d = w + n
      BY <2>2, <2>9 DEF Appended
    <3>4. \A d \in Headers(g) : g.csize[d] = IF d = w THEN Word(n, 1)
                                             ELSE IF d = w + n THEN Word(0, 1)
                                             ELSE h.csize[d]
      BY <2>9 DEF Appended
    <3>5. \A d \in Headers(g) : g.psize[d] = IF d = w + n THEN Word(n, 1)
                                             ELSE IF d \in Headers(h) THEN h.psize[d]
                                             ELSE Word(0, 1)
      BY <2>2, <2>6, <2>9 DEF Appended
    <3> QED BY <2>9, <3>1, <3>2, <3>3, <3>4, <3>5 DEF Extended, Appended
  <2>11. Grants(h, g, w, n) /\ g.csize[NextChunk(g, w)].inuse = 1
    <3>1. FitsAt(h, w, n)
      BY <2>2, <2>3 DEF FitsAt
    <3> QED BY <3>1, <2>10, ExtendedOK
  <2>12. Grants(h, g, w, want)
    <3>1. ChunkSize(g, w) \in Nat
      BY <2>10, TypedFacts
    <3> QED BY <3>1, <2>3, <2>11 DEF Grants
  <2>13. w # NULL
    BY <2>3 DEF NULL
  <2> HIDE DEF r
  <2> QED BY <2>1, <2>11, <2>12, <2>13 DEF r
<1> QED BY <1>8, <1>9, <1>10

LEMMA MinFacts ==
    ASSUME NEW S, S \subseteq Nat, S # {}
    PROVE  Min(S) \in S /\ \A y \in S : Min(S) <= y
<1>1. \E x \in S : \A y \in S : ~ (<<y, x>> \in OpToRel(<, Nat))
  BY NatLessThanWellFounded, WFMin
<1>2. PICK x \in S : \A y \in S : ~ (<<y, x>> \in OpToRel(<, Nat))
  BY <1>1
<1>3. ASSUME NEW y \in S PROVE x <= y
  <2>1. ~(y < x)
    <3>1. <<y, x>> \in Nat \X Nat /\ ~(<<y, x>> \in OpToRel(<, Nat))
      BY <1>2
    <3>2. <<y, x>>[1] = y /\ <<y, x>>[2] = x
      OBVIOUS
    <3> QED BY <3>1, <3>2, Zenon DEF OpToRel
  <2> QED BY <2>1
<1> QED BY <1>3 DEF Min

\* What adjust_size returns holds the request and a header.
LEMMA AdjustFacts ==
    ASSUME NEW req \in Nat
    PROVE  \/ adjust_size(req) = -1
           \/ /\ adjust_size(req) \in Nat /\ adjust_size(req) >= req + 16
              /\ adjust_size(req) >= 32 /\ adjust_size(req) % 32 = 0
<1>1. CASE req = 0
  BY <1>1 DEF adjust_size, CKB_SIZE_ALIGN
<1>2. CASE req # 0 /\ req - 1 > SIZE_LIMIT
  BY <1>2 DEF adjust_size
<1>3. CASE req # 0 /\ ~(req - 1 > SIZE_LIMIT)
  <2>1. adjust_size(req) = RoundUp(req + 16, 32)
    BY <1>3 DEF adjust_size, CKB_SIZE_ALIGN, CKB_OVERHEAD
  <2>2. req + 16 \in Nat
    OBVIOUS
  <2>3. /\ RoundUp(req + 16, 32) \in Nat /\ RoundUp(req + 16, 32) >= req + 16
        /\ RoundUp(req + 16, 32) % 32 = 0
    BY <2>2, RoundUpFacts
  <2> QED BY <2>1, <2>3, <1>3
<1> QED BY <1>1, <1>2, <1>3

\* A chunk of a bin at or above bin_index_up(n) holds n bytes.
LEMMA BinFit ==
    ASSUME NEW m \in Nat, NEW n \in Nat, n >= 32, m >= 32, m % 32 = 0, n % 32 = 0,
           n < CKB_MMAP_THRESHOLD, bin_index(m) >= bin_index_up(n)
    PROVE  m >= n
<1>1. m + 31 >= n
  BY DEF bin_index, bin_index_up, bin_tab, CKB_MMAP_THRESHOLD, CKB_SIZE_ALIGN
<1> QED BY <1>1

\* The chunk malloc takes from a bin is free and of the bin's sizes.
LEMMA BinnedIsFree ==
    ASSUME NEW h, HeapOK(h), NEW i \in h.binmap, h.next[i] # i
    PROVE  h.next[i] \in FreeChunks(h) /\ bin_index(ChunkSize(h, h.next[i])) = i
<1>1. /\ i \in Bins /\ i \in DOMAIN h.next /\ h.next[i] \in DOMAIN h.next
      /\ BinOf(h, h.next[i]) = BinOf(h, i)
      /\ \A x : x \in DOMAIN h.next /\ x \notin Bins <=> x \in FreeChunks(h)
  BY DEF HeapOK, Lists
<1>2. h.next[i] \notin Bins
  BY <1>1 DEF BinOf
<1> QED BY <1>1, <1>2 DEF BinOf

LEMMA UnbinGrants ==
    ASSUME NEW h, HeapOK(h), NEW c \in FreeChunks(h), NEW i, i = bin_index(ChunkSize(h, c))
    PROVE  LET g == unbin(h, c, i)
           IN  /\ Grants(h, g, c, ChunkSize(h, c))
               /\ g.csize[NextChunk(g, c)].inuse = 1
<1> DEFINE g == unbin(h, c, i)
           n == h.csize[c].size
<1>1. /\ HeapOK(g) /\ Headers(g) = Headers(h)
      /\ \A d \in Headers(h) : g.csize[d] = IF d = c THEN Word(n, 1) ELSE h.csize[d]
  BY UnbinOK
<1> HIDE DEF g
<1>2. Shape(h) /\ Typed(h) /\ c \in Headers(h) /\ h.csize[c].inuse = 0
  BY DEF HeapOK, Shape, FreeChunks
<1>3. n \in Nat /\ n > 0 /\ NextChunk(h, c) \in Headers(h) /\ NextChunk(h, c) = c + n /\ c \in Nat
  BY <1>2, FreeFacts, TypedFacts
<1>4. Word(n, 1).size = n /\ Word(n, 1).inuse = 1
  BY <1>3, WordFacts
<1>5. g.csize[c] = Word(n, 1)
  BY <1>1, <1>2
<1>6. c \notin UsedChunks(h) /\ c \in UsedChunks(g)
  BY <1>1, <1>2, <1>3, <1>4, <1>5 DEF UsedChunks
<1>7. ASSUME NEW d, d # c PROVE d \in UsedChunks(g) <=> d \in UsedChunks(h)
  BY <1>1, <1>7 DEF UsedChunks
<1>8. \A d \in UsedChunks(h) : g.csize[d] = h.csize[d]
  BY <1>1, <1>6 DEF UsedChunks
<1>9. ChunkSize(g, c) >= ChunkSize(h, c)
  BY <1>3, <1>4, <1>5 DEF ChunkSize
<1>10. Grants(h, g, c, ChunkSize(h, c))
  BY <1>1, <1>6, <1>7, <1>8, <1>9 DEF Grants
<1>11. NextChunk(g, c) = NextChunk(h, c) /\ NextChunk(h, c) # c
  BY <1>3, <1>4, <1>5 DEF NextChunk
<1>12. h.csize[NextChunk(h, c)].inuse = 1
  BY <1>2 DEF HeapOK, Merged
<1>13. g.csize[NextChunk(g, c)].inuse = 1
  BY <1>1, <1>3, <1>11, <1>12
<1> QED BY <1>10, <1>13 DEF g

\* The granted chunk has a size and is in use.
LEMMA GrantFacts ==
    ASSUME NEW h, NEW g, NEW c, NEW m, Grants(h, g, c, m)
    PROVE  HeapOK(g) /\ c \in UsedChunks(g) /\ c \in Nat /\ ChunkSize(g, c) \in Nat /\ c > 63
<1>1. HeapOK(g) /\ c \in UsedChunks(g) /\ c \in Headers(g)
  BY DEF Grants, UsedChunks
<1>2. c \in Nat /\ ChunkSize(g, c) \in Nat /\ PlacedAt(g, c)
  BY <1>1, TypedFacts DEF HeapOK, Shape, Placed
<1> QED BY <1>1, <1>2 DEF PlacedAt

LEMMA TrimGrants ==
    ASSUME NEW h, NEW k, NEW c, NEW m \in Nat, Grants(h, k, c, m),
           k.csize[NextChunk(k, c)].inuse = 1,
           NEW n \in Nat, n > 0, n % 32 = 0, n <= m
    PROVE  Grants(h, trim(k, c, n), c, n)
<1> DEFINE g == trim(k, c, n)
<1>1. HeapOK(k) /\ c \in UsedChunks(k) /\ ChunkSize(k, c) >= m /\ ChunkSize(k, c) \in Nat
  BY GrantFacts DEF Grants
<1>2. n <= ChunkSize(k, c)
  BY <1>1
<1>3. HeapOK(g) /\ SameUsed(k, g, c) /\ ChunkSize(g, c) >= n
  BY <1>1, <1>2, TrimOK
<1> HIDE DEF g
<1>4. \A d : d \in UsedChunks(g) <=> d \in UsedChunks(h) \/ d = c
  BY <1>3 DEF Grants, SameUsed
<1>5. \A d \in UsedChunks(h) : g.csize[d] = h.csize[d]
  BY <1>3 DEF Grants, SameUsed
<1> QED BY <1>3, <1>4, <1>5 DEF Grants, g

LEMMA MallocOK ==
    ASSUME NEW h, HeapOK(h), NEW req \in Nat
    PROVE  LET r == malloc(h, req)
           IN  IF r.ptr = NULL THEN Keeps(h, r.heap)
               ELSE \E c \in Nat : r.ptr = ToMem(c) /\ Grants(h, r.heap, c, req + 16)
<1> DEFINE n == adjust_size(req)
           i == bin_index_up(n)
           S == NonEmptyBins(h, i)
           j == Min(S)
           g == expand_heap(h, n)
           r == malloc(h, req)
           Goal(v) == IF v.ptr = NULL THEN Keeps(h, v.heap)
                      ELSE \E c \in Nat : v.ptr = ToMem(c) /\ Grants(h, v.heap, c, req + 16)
<1>1. Keeps(h, h)
  BY DEF Keeps
<1>2. CASE n = -1 \/ n >= CKB_MMAP_THRESHOLD
  <2>1. r = [heap |-> h, ptr |-> NULL]
    BY <1>2 DEF malloc
  <2> HIDE DEF r
  <2> QED BY <2>1, <1>1 DEF r
<1>3. CASE ~(n = -1 \/ n >= CKB_MMAP_THRESHOLD)
  <2>1. n \in Nat /\ n >= req + 16 /\ n >= 32 /\ n % 32 = 0 /\ n < CKB_MMAP_THRESHOLD
    BY <1>3, AdjustFacts DEF CKB_MMAP_THRESHOLD, CKB_SIZE_ALIGN
  <2> HIDE DEF n
  \* Enough that the chunk granted has n bytes.
  <2>2. ASSUME NEW k, NEW c, NEW m \in Nat, m >= n, Grants(h, k, c, m)
        PROVE  Goal([heap |-> k, ptr |-> ToMem(c)])
    <3>1. c \in Nat /\ c > 63 /\ ChunkSize(k, c) \in Nat
      BY <2>2, GrantFacts
    <3>2. Grants(h, k, c, req + 16)
      BY <3>1, <2>1, <2>2 DEF Grants
    <3>3. ToMem(c) # NULL
      BY <3>1 DEF ToMem, CKB_OVERHEAD, NULL
    <3> QED BY <3>1, <3>2, <3>3
  <2>3. CASE ExactFit(h, i, n)
    <3> DEFINE c == h.next[i]
    <3>1. i \in h.binmap /\ c # i /\ ChunkSize(h, c) - n \in 0..CKB_DONTCARE
      BY <2>3 DEF ExactFit
    <3>2. c \in FreeChunks(h) /\ bin_index(ChunkSize(h, c)) = i
      BY <3>1, BinnedIsFree
    <3>3. r = [heap |-> unbin(h, c, i), ptr |-> ToMem(c)]
      BY <1>3, <2>3 DEF malloc, n
    <3> HIDE DEF c, i, r
    <3>4. ChunkSize(h, c) \in Nat
      BY <3>2, TypedFacts DEF FreeChunks, HeapOK, Shape
    <3>5. ChunkSize(h, c) >= n
      BY <3>1, <3>4, <2>1 DEF CKB_DONTCARE
    <3>6. Grants(h, unbin(h, c, i), c, ChunkSize(h, c))
      BY <3>2, UnbinGrants
    <3>7. Goal(r)
      BY <3>3, <3>4, <3>5, <3>6, <2>2
    <3> QED BY <3>7 DEF r
  <2>4. CASE ~ExactFit(h, i, n) /\ S # {}
    <3> DEFINE c == h.next[j]
               u == unbin(h, c, j)
    <3>1. S \subseteq Nat /\ \A x \in S : x \in h.binmap /\ x >= i /\ h.next[x] # x
      BY DEF NonEmptyBins, HeapOK, Lists, Bins
    <3>2. j \in S
      <4> HIDE DEF S
      <4> QED BY <3>1, <2>4, MinFacts
    <3>3. r = [heap |-> trim(u, c, n), ptr |-> ToMem(c)]
      BY <1>3, <2>4 DEF malloc, n
    <3> HIDE DEF r
    <3>4. j \in h.binmap /\ j >= i /\ c # j
      BY <3>1, <3>2
    <3> HIDE DEF j
    <3>5. c \in FreeChunks(h) /\ bin_index(ChunkSize(h, c)) = j
      BY <3>4, BinnedIsFree
    <3>6. Grants(h, u, c, ChunkSize(h, c)) /\ u.csize[NextChunk(u, c)].inuse = 1
      BY <3>5, UnbinGrants
    <3>7. /\ ChunkSize(h, c) \in Nat /\ ChunkSize(h, c) % 32 = 0 /\ ChunkSize(h, c) > 0
          /\ c \in Headers(h)
      <4>1. c \in Headers(h) /\ Shape(h) /\ h.csize[c].inuse = 0
        BY <3>5 DEF FreeChunks, HeapOK
      <4>2. ChunkSize(h, c) \in Nat /\ ChunkSize(h, c) = h.csize[c].size /\ h.csize[c].size > 0
        BY <4>1, TypedFacts, FreeFacts DEF Shape
      <4> QED BY <4>1, <4>2 DEF Shape, Placed, PlacedAt
    <3> HIDE DEF c, u
    <3>8. ChunkSize(h, c) >= n
      <4> DEFINE m == ChunkSize(h, c)
      <4>1. m \in Nat /\ m % 32 = 0 /\ m >= 32 /\ bin_index(m) >= bin_index_up(n)
        BY <3>4, <3>5, <3>7
      <4> HIDE DEF m
      <4>2. m >= n
        BY <4>1, <2>1, BinFit
      <4> QED BY <4>2 DEF m
    <3>9. Grants(h, trim(u, c, n), c, n)
      BY <3>6, <3>7, <3>8, <2>1, TrimGrants
    <3>10. Goal(r)
      BY <3>3, <3>9, <2>1, <2>2
    <3> QED BY <3>10 DEF r
  <2>5. CASE ~ExactFit(h, i, n) /\ S = {}
    <3>1. IF g.ptr = NULL THEN Keeps(h, g.heap)
          ELSE Grants(h, g.heap, g.ptr, n)
               /\ g.heap.csize[NextChunk(g.heap, g.ptr)].inuse = 1
      BY <2>1, ExpandOK
    <3>2. r = IF g.ptr = NULL THEN [heap |-> g.heap, ptr |-> NULL]
              ELSE [heap |-> trim(g.heap, g.ptr, n), ptr |-> ToMem(g.ptr)]
      BY <1>3, <2>5 DEF malloc, n
    <3> HIDE DEF g, r
    <3>3. CASE g.ptr = NULL
      <4>1. Goal(r)
        BY <3>1, <3>2, <3>3
      <4> QED BY <4>1 DEF r
    <3>4. CASE g.ptr # NULL
      <4>1. Grants(h, trim(g.heap, g.ptr, n), g.ptr, n)
        BY <3>1, <3>4, <2>1, TrimGrants
      <4>2. Goal(r)
        BY <4>1, <3>2, <3>4, <2>1, <2>2
      <4> QED BY <4>2 DEF r
    <3> QED BY <3>3, <3>4
  <2> QED BY <2>3, <2>4, <2>5
<1> QED BY <1>2, <1>3

\* g is h without the chunk in use c.
Releases(h, g, c) ==
    /\ HeapOK(g)
    /\ \A d : d \in UsedChunks(g) <=> d \in UsedChunks(h) /\ d # c
    /\ \A d \in UsedChunks(g) : g.csize[d] = h.csize[d]

\* k is h with the free chunks between the headers a and b off their lists;
\* c is the one chunk in use among them.
Gathered(h, k, c, a, b) ==
    /\ HeapOK(k) /\ Headers(k) = Headers(h) /\ a \in Headers(h) /\ b \in Headers(h)
    /\ a <= c /\ c < b
    /\ \A d \in Headers(h) : a <= d /\ d < b => k.csize[d].inuse = 1
    /\ \A d \in Headers(h) : ~(a <= d /\ d < b) => k.csize[d] = h.csize[d]
    /\ \A d \in UsedChunks(h) : a <= d /\ d < b => d = c

\* Nothing lies between a chunk and the next.
LEMMA NoneBetween ==
    ASSUME NEW h, Shape(h), NEW c \in Headers(h), NEW d \in Headers(h),
           c <= d, d < NextChunk(h, c)
    PROVE  d = c
<1>1. c \in Nat /\ d \in Nat /\ NextChunk(h, c) \in Nat
  BY TypedFacts DEF Shape
<1>2. c < d => NextChunk(h, c) <= d
  BY DEF Shape, NoOverlap
<1> QED BY <1>1, <1>2

LEMMA GatherOne ==
    ASSUME NEW h, HeapOK(h), NEW c \in UsedChunks(h)
    PROVE  Gathered(h, h, c, c, NextChunk(h, c))
<1>1. Shape(h) /\ c \in Headers(h) /\ h.csize[c].inuse = 1 /\ h.csize[c].size > 0
  BY DEF HeapOK, UsedChunks
<1>2. NextChunk(h, c) \in Headers(h) /\ c < NextChunk(h, c) /\ c \in Nat
  BY <1>1, FreeFacts, TypedFacts DEF Shape
<1>3. \A d \in Headers(h) : c <= d /\ d < NextChunk(h, c) => d = c
  BY <1>1, NoneBetween
<1>4. UsedChunks(h) \subseteq Headers(h) /\ c <= c
  BY <1>2 DEF UsedChunks
<1>5. \A d \in UsedChunks(h) : c <= d /\ d < NextChunk(h, c) => d = c
  BY <1>3, <1>4
<1>6. \A d \in Headers(h) : c <= d /\ d < NextChunk(h, c) => h.csize[d].inuse = 1
  BY <1>1, <1>3
<1> QED BY <1>1, <1>2, <1>4, <1>5, <1>6 DEF Gathered

\* Taking a free neighbour e of the span off its list widens the span.
LEMMA GatherFree ==
    ASSUME NEW h, HeapOK(h), NEW k, NEW c, NEW a, NEW b, Gathered(h, k, c, a, b),
           NEW e \in FreeChunks(h), e \in Headers(h), NEW x, NEW y,
           \/ NextChunk(h, e) = a /\ x = e /\ y = b
           \/ e = b /\ x = a /\ y = NextChunk(h, e),
           NEW i, i = bin_index(ChunkSize(h, e)), c \in Nat
    PROVE  Gathered(h, unbin(k, e, i), c, x, y)
<1> DEFINE g == unbin(k, e, i)
<1>1. /\ Shape(h) /\ Typed(h) /\ h.csize[e].inuse = 0 /\ HeapOK(k)
      /\ Headers(k) = Headers(h) /\ a \in Headers(h) /\ b \in Headers(h)
  BY DEF HeapOK, Shape, FreeChunks, Gathered
<1>2. /\ e \in Nat /\ a \in Nat /\ b \in Nat /\ NextChunk(h, e) \in Nat
      /\ e < NextChunk(h, e) /\ NextChunk(h, e) \in Headers(h)
  BY <1>1, TypedFacts, FreeFacts
<1>3. a <= c /\ c < b
  BY DEF Gathered
<1>4. ~(a <= e /\ e < b)
  BY <1>2
<1>5. k.csize[e] = h.csize[e]
  BY <1>4 DEF Gathered
<1>6. e \in FreeChunks(k)
  BY <1>1, <1>5 DEF FreeChunks
<1>7. /\ HeapOK(g) /\ Headers(g) = Headers(k)
      /\ \A d \in Headers(k) :
           g.csize[d] = IF d = e THEN Word(k.csize[e].size, 1) ELSE k.csize[d]
  <2>1. i = bin_index(ChunkSize(k, e))
    BY <1>5 DEF ChunkSize
  <2> QED BY <2>1, <1>1, <1>6, UnbinOK
<1> HIDE DEF g
<1>8. g.csize[e].inuse = 1
  <2>1. k.csize[e].size \in Nat
    BY <1>1, <1>5, TypedFacts
  <2> QED BY <2>1, <1>1, <1>7, WordFacts
<1>9. x \in Headers(h) /\ y \in Headers(h) /\ x <= c /\ c < y
  BY <1>1, <1>2, <1>3
<1>10. \A d \in Headers(h) : e <= d /\ d < NextChunk(h, e) => d = e
  BY <1>1, NoneBetween
<1>11. \A d \in Headers(h) : d \in Nat
  BY <1>1, TypedFacts
<1>12. \A d \in Headers(h) : x <= d /\ d < y <=> d = e \/ (a <= d /\ d < b)
  <2> SUFFICES ASSUME NEW d \in Headers(h)
               PROVE  x <= d /\ d < y <=> d = e \/ (a <= d /\ d < b)
    OBVIOUS
  <2>1. d \in Nat /\ (e <= d /\ d < NextChunk(h, e) => d = e)
    BY <1>10, <1>11
  <2>2. CASE NextChunk(h, e) = a /\ x = e /\ y = b
    BY <2>1, <2>2, <1>2, <1>3
  <2>3. CASE e = b /\ x = a /\ y = NextChunk(h, e)
    BY <2>1, <2>3, <1>2, <1>3
  <2> QED BY <2>2, <2>3
<1>13. \A d \in Headers(h) : x <= d /\ d < y => g.csize[d].inuse = 1
  <2> SUFFICES ASSUME NEW d \in Headers(h), x <= d /\ d < y PROVE g.csize[d].inuse = 1
    OBVIOUS
  <2>1. CASE d = e
    BY <2>1, <1>8
  <2>2. CASE d # e
    <3>1. a <= d /\ d < b
      BY <2>2, <1>12
    <3>2. k.csize[d].inuse = 1 /\ g.csize[d] = k.csize[d]
      BY <3>1, <2>2, <1>1, <1>7 DEF Gathered
    <3> QED BY <3>2
  <2> QED BY <2>1, <2>2
<1>14. \A d \in Headers(h) : ~(x <= d /\ d < y) => g.csize[d] = h.csize[d]
  <2> SUFFICES ASSUME NEW d \in Headers(h), ~(x <= d /\ d < y) PROVE g.csize[d] = h.csize[d]
    OBVIOUS
  <2>1. d # e /\ ~(a <= d /\ d < b)
    BY <1>12
  <2>2. k.csize[d] = h.csize[d] /\ g.csize[d] = k.csize[d]
    BY <2>1, <1>1, <1>7 DEF Gathered
  <2> QED BY <2>2
<1>15. \A d \in UsedChunks(h) : x <= d /\ d < y => d = c
  <2> SUFFICES ASSUME NEW d \in UsedChunks(h), x <= d /\ d < y PROVE d = c
    OBVIOUS
  <2>1. d \in Headers(h) /\ d # e
    BY <1>1 DEF UsedChunks
  <2>2. a <= d /\ d < b
    BY <2>1, <1>12
  <2> QED BY <2>2 DEF Gathered
<1>16. Headers(g) = Headers(h)
  BY <1>1, <1>7
<1> QED BY <1>7, <1>9, <1>13, <1>14, <1>15, <1>16 DEF Gathered, g

\* The gathered span becomes one free chunk.
LEMMA GatheredOK ==
    ASSUME NEW h, HeapOK(h), NEW k, NEW c \in UsedChunks(h), NEW a, NEW b,
           Gathered(h, k, c, a, b), h.csize[b].inuse = 1,
           \/ h.psize[a].inuse = 1 \/ h.psize[a].size = 0 \/ h.csize[a].inuse = 0,
           NEW n, a + n = b, n \in Nat, n > 0
    PROVE  LET i == bin_index(n)
           IN  Releases(h, bin_chunk(tag(lock_bin(k, i), a, n, 0), a, i), c)
<1> DEFINE i == bin_index(n)
           g == bin_chunk(tag(lock_bin(k, i), a, n, 0), a, i)
<1>1. /\ Shape(h) /\ Typed(h) /\ HeapOK(k) /\ Shape(k) /\ Typed(k)
      /\ Headers(k) = Headers(h) /\ a \in Headers(h) /\ b \in Headers(h)
      /\ c \in Headers(h)
  BY DEF HeapOK, Shape, Gathered, UsedChunks
<1>2. a \in Nat /\ b \in Nat /\ c \in Nat /\ a <= c /\ c < b /\ a < b
  <2>1. a \in Nat /\ b \in Nat /\ c \in Nat /\ a <= c /\ c < b
    BY <1>1, TypedFacts DEF Gathered
  <2> QED BY <2>1
<1>3. k.csize[b].inuse = 1
  <2>1. ~(a <= b /\ b < b)
    BY <1>2
  <2> QED BY <2>1, <1>1 DEF Gathered
<1>4. k.psize[a].inuse = 1
  <2>1. CASE k.psize[a].size = 0
    BY <2>1, <1>1 DEF Shape, Backward
  <2>2. CASE k.psize[a].size # 0
    <3> DEFINE d == PrevChunk(k, a)
    <3>1. d \in Headers(h) /\ k.csize[d] = k.psize[a] /\ d = a - k.psize[a].size
      BY <2>2, <1>1 DEF Shape, Backward, PrevChunk
    <3>2. k.psize[a].size \in Nat /\ k.psize[a].inuse \in {0, 1}
      BY <1>1, TypedFacts
    <3> HIDE DEF d
    <3>3. d < a /\ d \in Nat /\ d + k.csize[d].size = a /\ k.csize[d].size > 0
      <4>1. d \in Nat
        BY <3>1, <1>1, TypedFacts
      <4> QED BY <4>1, <3>1, <3>2, <2>2, <1>2
    <3>4. k.csize[d] = h.csize[d]
      <4>1. ~(a <= d /\ d < b)
        BY <3>3, <1>2
      <4> QED BY <4>1, <3>1 DEF Gathered
    <3>5. NextChunk(h, d) = a
      BY <3>3, <3>4 DEF NextChunk
    <3>6. h.psize[a] = h.csize[d]
      BY <3>1, <3>3, <3>4, <3>5, <1>1, FreeFacts
    <3>7. h.csize[d].inuse # 0
      <4>1. SUFFICES ASSUME h.csize[d].inuse = 0 PROVE FALSE
        OBVIOUS
      <4>2. h.csize[a].inuse = 1
        BY <4>1, <3>1, <3>5 DEF HeapOK, Merged
      <4> QED BY <4>1, <4>2, <3>3, <3>4, <3>6
    <3> QED BY <3>1, <3>2, <3>4, <3>7
  <2> QED BY <2>1, <2>2
<1>5. \A d \in Headers(k) : a <= d /\ d < a + n => k.csize[d].inuse = 1
  BY <1>1 DEF Gathered
<1>6. /\ HeapOK(g)
      /\ \A d : d \in Headers(g) <=> d \in Headers(k) /\ ~(a < d /\ d < a + n)
      /\ \A d \in Headers(g) : g.csize[d] = IF d = a THEN Word(n, 0) ELSE k.csize[d]
  <2>1. a \in Headers(k) /\ a + n \in Headers(k) /\ k.csize[a + n].inuse = 1
    BY <1>1, <1>3
  <2> QED BY <2>1, <1>1, <1>4, <1>5, FreeSpanOK
<1> HIDE DEF g
<1>7. Word(n, 0).inuse = 0
  BY WordFacts
<1>8. ASSUME NEW d \in Headers(h), ~(a <= d /\ d < b)
      PROVE  d \in Headers(g) /\ g.csize[d] = h.csize[d]
  <2>4. d \in Nat
    BY <1>1, TypedFacts
  <2>1. d \in Nat /\ d # a
    BY <2>4, <1>2, <1>8
  <2>2. d \in Headers(g)
    BY <2>1, <1>1, <1>2, <1>6, <1>8
  <2>3. k.csize[d] = h.csize[d]
    BY <1>8 DEF Gathered
  <2> QED BY <2>1, <2>2, <2>3, <1>6
<1>9. ASSUME NEW d \in UsedChunks(g) PROVE d \in UsedChunks(h) /\ d # c /\ g.csize[d] = h.csize[d]
  <2>1. d \in Headers(g) /\ g.csize[d].inuse = 1 /\ g.csize[d].size > 0
    BY DEF UsedChunks
  <2>2. d # a /\ d \in Headers(h) /\ ~(a < d /\ d < b)
    BY <2>1, <1>1, <1>6, <1>7
  <2>3. d \in Nat
    BY <2>2, <1>1, TypedFacts
  <2>4. ~(a <= d /\ d < b)
    BY <2>2, <2>3, <1>2
  <2>5. g.csize[d] = h.csize[d]
    BY <2>2, <2>4, <1>8
  <2> QED BY <2>1, <2>2, <2>4, <2>5, <1>2 DEF UsedChunks
<1>10. ASSUME NEW d \in UsedChunks(h), d # c PROVE d \in UsedChunks(g)
  <2>1. d \in Headers(h) /\ h.csize[d].inuse = 1 /\ h.csize[d].size > 0
    BY DEF UsedChunks
  <2>2. ~(a <= d /\ d < b)
    BY <1>10 DEF Gathered
  <2> QED BY <2>1, <2>2, <1>8 DEF UsedChunks
<1> QED BY <1>6, <1>9, <1>10 DEF Releases, g

LEMMA ReleaseOK ==
    ASSUME NEW h, HeapOK(h), NEW c \in UsedChunks(h)
    PROVE  Releases(h, release_chunk(h, c), c)
<1> DEFINE next == NextChunk(h, c)
           prevFree == h.psize[c].inuse = 0 /\ h.psize[c].size # 0
           nextFree == h.csize[next].inuse = 0 /\ h.csize[next].size # 0
           psize == IF prevFree THEN h.psize[c].size ELSE 0
           nsize == IF nextFree THEN h.csize[next].size ELSE 0
           first == c - psize
           last == next + nsize
           size == psize + ChunkSize(h, c) + nsize
           h1 == IF prevFree THEN unbin(h, first, bin_index(psize)) ELSE h
           h2 == IF nextFree THEN unbin(h1, next, bin_index(nsize)) ELSE h1
           i == bin_index(size)
<1>1. /\ Shape(h) /\ Typed(h) /\ c \in Headers(h)
      /\ h.csize[c].inuse = 1 /\ h.csize[c].size > 0
  BY DEF HeapOK, Shape, UsedChunks
<1>2. /\ c \in Nat /\ ChunkSize(h, c) \in Nat /\ ChunkSize(h, c) > 0
      /\ next = c + ChunkSize(h, c) /\ next \in Headers(h)
      /\ h.psize[next] = h.csize[c] /\ h.psize[c].size \in Nat
      /\ h.psize[c].inuse \in {0, 1}
  BY <1>1, TypedFacts, FreeFacts
<1>3. next \in Nat /\ h.csize[next].size \in Nat /\ h.csize[next].inuse \in {0, 1}
  BY <1>1, <1>2, TypedFacts
<1>4. h.csize[next].inuse = 0 => nextFree /\ next \in FreeChunks(h)
  BY <1>1, <1>2, FreeFacts
<1>5. release_chunk(h, c) = bin_chunk(tag(lock_bin(h2, i), first, size, 0), first, i)
  BY <1>2 DEF release_chunk, PrevFree, NextFree
<1>6. Gathered(h, h, c, c, next)
  BY GatherOne
<1> HIDE DEF next
<1>7. Gathered(h, h1, c, first, next)
  <2>1. CASE prevFree
    <3> DEFINE e == PrevChunk(h, c)
    <3>1. e = first /\ e = c - h.psize[c].size
      BY <2>1 DEF PrevChunk
    <3>2. e \in Headers(h) /\ h.csize[e] = h.psize[c]
      BY <2>1, <1>1 DEF Shape, Backward
    <3>3. h1 = unbin(h, e, bin_index(psize))
      BY <2>1, <3>1
    <3> HIDE DEF e, first, h1
    <3>4. e \in Nat
      BY <3>2, <1>1, TypedFacts
    <3>5. NextChunk(h, e) = c
      BY <3>1, <3>2, <3>4, <1>2 DEF NextChunk
    <3>6. e \in FreeChunks(h)
      BY <3>2, <2>1 DEF FreeChunks
    <3>7. bin_index(psize) = bin_index(ChunkSize(h, e))
      BY <3>2, <2>1 DEF ChunkSize
    <3> QED BY <3>1, <3>2, <3>3, <3>5, <3>6, <3>7, <1>2, <1>6, GatherFree
  <2>2. CASE ~prevFree
    <3>1. first = c /\ h1 = h
      BY <2>2, <1>2
    <3> QED BY <3>1, <1>6
  <2> QED BY <2>1, <2>2
<1>8. \/ h.psize[first].inuse = 1 \/ h.psize[first].size = 0 \/ h.csize[first].inuse = 0
  <2>1. CASE prevFree
    <3>1. first = PrevChunk(h, c)
      BY <2>1 DEF PrevChunk
    <3> HIDE DEF first
    <3>2. h.csize[first] = h.psize[c]
      BY <3>1, <2>1, <1>1 DEF Shape, Backward
    <3> QED BY <3>2, <2>1
  <2>2. CASE ~prevFree
    <3>1. first = c
      BY <2>2, <1>2
    <3> QED BY <3>1, <2>2, <1>2
  <2> QED BY <2>1, <2>2
<1>9. psize \in Nat /\ nsize \in Nat /\ first \in Int
  BY <1>2, <1>3
<1> HIDE DEF prevFree, psize, h1
<1>10. Gathered(h, h2, c, first, last) /\ h.csize[last].inuse = 1
  <2>1. CASE nextFree
    <3>1. h2 = unbin(h1, next, bin_index(nsize)) /\ nsize = h.csize[next].size
      BY <2>1
    <3>2. NextChunk(h, next) = last
      BY <3>1 DEF NextChunk
    <3>3. next \in FreeChunks(h)
      BY <2>1, <1>4
    <3>4. h.csize[NextChunk(h, next)].inuse = 1
      BY <2>1, <1>2 DEF HeapOK, Merged
    <3>6. bin_index(nsize) = bin_index(ChunkSize(h, next))
      BY <3>1 DEF ChunkSize
    <3> HIDE DEF h2, last, first, nsize
    <3>5. Gathered(h, h2, c, first, last)
      BY <3>1, <3>2, <3>3, <3>6, <1>2, <1>7, GatherFree
    <3> QED BY <3>2, <3>4, <3>5
  <2>2. CASE ~nextFree
    <3>1. last = next /\ h2 = h1
      BY <2>2, <1>3
    <3>2. h.csize[next].inuse = 1
      BY <2>2, <1>3, <1>4
    <3> QED BY <3>1, <3>2, <1>7
  <2> QED BY <2>1, <2>2
<1>11. first + size = last /\ size \in Nat /\ size > 0
  <2> HIDE DEF nsize
  <2> QED BY <1>2, <1>9
<1> HIDE DEF h2, first, last, size
<1>12. Releases(h, bin_chunk(tag(lock_bin(h2, i), first, size, 0), first, i), c)
  BY <1>8, <1>10, <1>11, GatheredOK
<1> QED BY <1>5, <1>12

\* g is h with the chunk in use c replaced by e, of at least m bytes.
Moves(h, g, c, e, m) ==
    /\ HeapOK(g) /\ (e = c \/ e \notin UsedChunks(h))
    /\ \A d : d \in UsedChunks(g) <=> (d \in UsedChunks(h) /\ d # c) \/ d = e
    /\ \A d \in UsedChunks(h) : d # c => g.csize[d] = h.csize[d]
    /\ ChunkSize(g, e) >= m

\* realloc shrinks a chunk by cutting its tail off and freeing it.
LEMMA ShrinkOK ==
    ASSUME NEW h, HeapOK(h), NEW c \in UsedChunks(h), NEW n \in Nat, n > 0,
           n % 32 = 0, n < ChunkSize(h, c)
    PROVE  Moves(h, release_chunk(split_chunk(h, c, n, 1), c + n), c, c, n)
<1> DEFINE k == split_chunk(h, c, n, 1)
           e == c + n
           s == ChunkSize(h, c)
           g == release_chunk(k, e)
<1>1. /\ Shape(k) /\ Merged(k) /\ Cut(h, k, c, n, 1)
      /\ Lists(k, FreeChunks(h)) /\ k.crashed = FALSE
      /\ FreeChunks(k) = FreeChunks(h) /\ e \notin Headers(h)
  <2> DEFINE b == 1
  <2>1. b \in {0, 1} /\ b = 1 /\ (b = 0 => h.csize[NextChunk(h, c)].inuse = 1)
    OBVIOUS
  <2> HIDE DEF b
  <2>2. LET l == split_chunk(h, c, n, b)
        IN  /\ Shape(l) /\ Merged(l) /\ Cut(h, l, c, n, b)
            /\ Lists(l, FreeChunks(h)) /\ l.crashed = FALSE
            /\ FreeChunks(l) = FreeChunks(h) /\ e \notin Headers(h)
    BY <2>1, SplitOK
  <2> QED BY <2>1, <2>2
<1> HIDE DEF k
<1>2. HeapOK(k)
  BY <1>1 DEF HeapOK
<1>3. c \in Nat /\ s \in Nat /\ c \in Headers(h) /\ h.csize[c].inuse = 1
  BY TypedFacts DEF UsedChunks, HeapOK, Shape
<1>4. s - n \in Nat /\ s - n > 0 /\ e # c
  BY <1>3
<1>5. /\ \A d : d \in Headers(k) <=> d \in Headers(h) \/ d = e
      /\ \A d \in Headers(k) : k.csize[d] = IF d = c THEN Word(n, 1)
                                           ELSE IF d = e THEN Word(s - n, 1)
                                           ELSE h.csize[d]
  BY <1>1 DEF Cut
<1>6. /\ Word(n, 1).size = n /\ Word(n, 1).inuse = 1
      /\ Word(s - n, 1).size = s - n /\ Word(s - n, 1).inuse = 1
  BY <1>4, WordFacts
<1> HIDE DEF e, s
<1>7. k.csize[c] = Word(n, 1) /\ k.csize[e] = Word(s - n, 1) /\ e \in Headers(k) /\ c \in Headers(k)
  BY <1>3, <1>4, <1>5
<1>8. e \in UsedChunks(k) /\ c \in UsedChunks(k) /\ e \notin UsedChunks(h)
  BY <1>1, <1>4, <1>6, <1>7 DEF UsedChunks
<1>9. Releases(k, g, e)
  BY <1>2, <1>8, ReleaseOK
<1> HIDE DEF g
<1>10. \A d : d # c /\ d # e => (d \in UsedChunks(k) <=> d \in UsedChunks(h))
  BY <1>5 DEF UsedChunks
<1>11. \A d : d \in UsedChunks(g) <=> (d \in UsedChunks(h) /\ d # c) \/ d = c
  BY <1>8, <1>9, <1>10, <1>4 DEF Releases
<1>12. \A d \in UsedChunks(h) : d # c => g.csize[d] = h.csize[d]
  <2> SUFFICES ASSUME NEW d \in UsedChunks(h), d # c PROVE g.csize[d] = h.csize[d]
    OBVIOUS
  <2>1. d # e /\ d \in Headers(h)
    BY <1>8 DEF UsedChunks
  <2>2. d \in UsedChunks(g)
    BY <1>11
  <2>3. g.csize[d] = k.csize[d]
    BY <2>2, <1>9 DEF Releases
  <2> QED BY <2>1, <2>3, <1>5
<1>13. ChunkSize(g, c) >= n
  <2>1. c \in UsedChunks(g)
    BY <1>11
  <2>2. g.csize[c] = k.csize[c]
    BY <2>1, <1>9 DEF Releases
  <2>3. ChunkSize(g, c) = n
    BY <2>2, <1>6, <1>7 DEF ChunkSize
  <2> QED BY <2>3
<1> QED BY <1>9, <1>11, <1>12, <1>13 DEF Moves, Releases, g, e, k

\* realloc grows a chunk into its free neighbour.
LEMMA GrowOK ==
    ASSUME NEW h, HeapOK(h), NEW c \in UsedChunks(h), NextChunk(h, c) \in FreeChunks(h),
           NEW i, i = bin_index(ChunkSize(h, NextChunk(h, c))), NEW n \in Nat, n > 0, n % 32 = 0,
           NEW m, m = ChunkSize(h, c) + ChunkSize(h, NextChunk(h, c)), n <= m
    PROVE  Moves(h, trim(tag(unbin(h, NextChunk(h, c), i), c, m, 1), c, n), c, c, n)
<1> DEFINE e == NextChunk(h, c)
           b == NextChunk(h, e)
           u == unbin(h, e, i)
           k == tag(u, c, m, 1)
           g == trim(k, c, n)
<1>1. Shape(h) /\ c \in Headers(h) /\ e \in Headers(h) /\ h.csize[e].inuse = 0
  BY DEF HeapOK, UsedChunks, FreeChunks
<1>2. Gathered(h, h, c, c, e)
  BY GatherOne
<1>3. /\ c \in Nat /\ e \in Nat /\ b \in Nat /\ ChunkSize(h, c) \in Nat
      /\ ChunkSize(h, e) \in Nat /\ e = c + ChunkSize(h, c) /\ b = e + ChunkSize(h, e)
      /\ c < e /\ e < b
  <2>1. /\ c \in Nat /\ ChunkSize(h, c) \in Nat /\ e = c + ChunkSize(h, c) /\ e \in Nat
        /\ c < e
    BY <1>1, TypedFacts, FreeFacts DEF Shape, UsedChunks
  <2>2. e < b /\ b \in Nat /\ ChunkSize(h, e) \in Nat /\ b = e + ChunkSize(h, e)
    <3> HIDE DEF e
    <3> QED BY <1>1, TypedFacts, FreeFacts DEF Shape
  <2> QED BY <2>1, <2>2
<1> HIDE DEF e, b
<1>4. Gathered(h, u, c, c, b)
  BY <1>1, <1>2, <1>3, GatherFree DEF e, b
<1>5. h.csize[b].inuse = 1
  BY <1>1 DEF HeapOK, Merged, b
<1>6. m \in Nat /\ m > 0 /\ c + m = b
  <2>1. m = ChunkSize(h, c) + ChunkSize(h, e)
    BY DEF e
  <2> QED BY <2>1, <1>3
<1>7. HeapOK(k) /\ Retagged(u, k, c, m, 1)
  <2>1. /\ HeapOK(u) /\ c \in Headers(u) /\ c + m \in Headers(u)
        /\ \A d \in Headers(u) : c <= d /\ d < c + m => u.csize[d].inuse = 1
    BY <1>4, <1>6 DEF Gathered
  <2> HIDE DEF u
  <2> QED BY <2>1, <1>6, JoinOK
<1> HIDE DEF u, k
<1>8. /\ Headers(u) = Headers(h)
      /\ \A d \in Headers(h) : ~(c <= d /\ d < b) => u.csize[d] = h.csize[d]
      /\ \A d \in UsedChunks(h) : c <= d /\ d < b => d = c
      /\ b \in Headers(h)
  BY <1>4 DEF Gathered
<1>9. /\ \A d : d \in Headers(k) <=> d \in Headers(h) /\ ~(c < d /\ d < b)
      /\ \A d \in Headers(k) : k.csize[d] = IF d = c THEN Word(m, 1) ELSE u.csize[d]
  BY <1>6, <1>7, <1>8 DEF Retagged
<1>10. Word(m, 1).size = m /\ Word(m, 1).inuse = 1
  BY <1>6, WordFacts
<1>11. c \in Headers(k) /\ k.csize[c] = Word(m, 1) /\ c \in UsedChunks(k)
  <2>1. c \in Headers(k) /\ k.csize[c] = Word(m, 1)
    BY <1>1, <1>3, <1>9
  <2> QED BY <2>1, <1>6, <1>10 DEF UsedChunks
<1>12. ASSUME NEW d \in Headers(h), d # c, ~(c < d /\ d < b)
       PROVE  d \in Headers(k) /\ k.csize[d] = h.csize[d]
  <2>1. d \in Nat
    BY <1>1, TypedFacts DEF Shape
  <2>2. ~(c <= d /\ d < b)
    BY <2>1, <1>3, <1>12
  <2> QED BY <2>2, <1>8, <1>9, <1>12
<1>13. k.csize[NextChunk(k, c)].inuse = 1
  <2>1. NextChunk(k, c) = b
    BY <1>6, <1>10, <1>11 DEF NextChunk
  <2>2. k.csize[b] = h.csize[b]
    BY <1>3, <1>8, <1>12
  <2> QED BY <2>1, <2>2, <1>5
<1>14. ASSUME NEW d, d # c PROVE d \in UsedChunks(k) <=> d \in UsedChunks(h)
  <2>1. ASSUME d \in UsedChunks(k) PROVE d \in UsedChunks(h)
    <3>1. d \in Headers(k) /\ k.csize[d].inuse = 1 /\ k.csize[d].size > 0
      BY <2>1 DEF UsedChunks
    <3>2. d \in Headers(h) /\ ~(c < d /\ d < b)
      BY <3>1, <1>9
    <3> QED BY <3>1, <3>2, <1>12, <1>14 DEF UsedChunks
  <2>2. ASSUME d \in UsedChunks(h) PROVE d \in UsedChunks(k)
    <3>1. d \in Headers(h) /\ h.csize[d].inuse = 1 /\ h.csize[d].size > 0
      BY <2>2 DEF UsedChunks
    <3>2. d \in Nat
      BY <3>1, <1>1, TypedFacts DEF Shape
    <3>3. ~(c < d /\ d < b)
      BY <3>2, <2>2, <1>3, <1>8, <1>14
    <3> QED BY <3>1, <3>3, <1>12, <1>14 DEF UsedChunks
  <2> QED BY <2>1, <2>2
<1>15. \A d \in UsedChunks(h) : d # c => k.csize[d] = h.csize[d]
  <2> SUFFICES ASSUME NEW d \in UsedChunks(h), d # c PROVE k.csize[d] = h.csize[d]
    OBVIOUS
  <2>1. d \in Headers(h)
    BY DEF UsedChunks
  <2>2. d \in Headers(k)
    BY <1>14 DEF UsedChunks
  <2>3. ~(c < d /\ d < b)
    BY <2>2, <1>9
  <2> QED BY <2>1, <2>3, <1>12
<1>16. HeapOK(g) /\ SameUsed(k, g, c) /\ ChunkSize(g, c) >= n
  <2>1. ChunkSize(k, c) = m
    BY <1>10, <1>11 DEF ChunkSize
  <2> QED BY <2>1, <1>7, <1>11, <1>13, TrimOK
<1> HIDE DEF g
<1>17. \A d : d \in UsedChunks(g) <=> (d \in UsedChunks(h) /\ d # c) \/ d = c
  BY <1>11, <1>14, <1>16 DEF SameUsed
<1>18. \A d \in UsedChunks(h) : d # c => g.csize[d] = h.csize[d]
  BY <1>14, <1>15, <1>16 DEF SameUsed
<1> QED BY <1>16, <1>17, <1>18 DEF Moves, g, k, u, e

LEMMA FreeOK ==
    ASSUME NEW h, HeapOK(h), NEW c \in UsedChunks(h)
    PROVE  Releases(h, free(h, ToMem(c)), c)
<1>1. c \in Nat
  BY TypedFacts DEF HeapOK, Shape, UsedChunks
<1>2. ToMem(c) # NULL /\ ToChunk(ToMem(c)) = c
  BY <1>1 DEF ToMem, ToChunk, NULL, CKB_OVERHEAD
<1> QED BY <1>2, ReleaseOK DEF free

LEMMA ReallocOK ==
    ASSUME NEW h, HeapOK(h), NEW c \in UsedChunks(h), NEW req \in Nat, NEW up
    PROVE  LET r == realloc(h, ToMem(c), req, up)
           IN  IF r.ptr = NULL THEN Keeps(h, r.heap)
               ELSE \E e \in Nat : r.ptr = ToMem(e) /\ Moves(h, r.heap, c, e, req + 16)
<1> DEFINE n == adjust_size(req)
           p == ToMem(c)
           n0 == ChunkSize(h, c)
           next == NextChunk(h, c)
           nsize == IF h.csize[next].inuse = 1 THEN 0 ELSE ChunkSize(h, next)
           new == malloc(h, n - CKB_OVERHEAD)
           r == realloc(h, p, req, up)
           Goal == IF r.ptr = NULL THEN Keeps(h, r.heap)
                   ELSE \E e \in Nat : r.ptr = ToMem(e) /\ Moves(h, r.heap, c, e, req + 16)
<1>1. Shape(h) /\ Typed(h) /\ c \in Headers(h) /\ h.csize[c].inuse = 1 /\ h.csize[c].size > 0
  BY DEF HeapOK, Shape, UsedChunks
<1>2. /\ c \in Nat /\ n0 \in Nat /\ n0 > 0 /\ next = c + n0 /\ next \in Headers(h)
      /\ h.psize[next] = h.csize[c]
  BY <1>1, TypedFacts, FreeFacts
<1>3. p # NULL /\ ToChunk(p) = c
  BY <1>2 DEF ToMem, ToChunk, NULL, CKB_OVERHEAD
<1>4. Keeps(h, h)
  BY DEF Keeps
\* Enough that a heap moves the block to a chunk of n bytes.
<1>5. ASSUME NEW g, NEW e \in Nat, NEW m \in Nat, m >= req + 16, Moves(h, g, c, e, m),
             r.heap = g, r.ptr = ToMem(e)
      PROVE  Goal
  <2> HIDE DEF r
  <2>1. ToMem(e) # NULL
    BY DEF ToMem, NULL, CKB_OVERHEAD
  <2>2. HeapOK(g) /\ e \in Headers(g) /\ ChunkSize(g, e) >= m
    BY <1>5 DEF Moves, UsedChunks
  <2>3. ChunkSize(g, e) \in Nat
    BY <2>2, TypedFacts DEF HeapOK, Shape
  <2>4. ChunkSize(g, e) >= req + 16
    BY <2>2, <2>3, <1>5
  <2>5. Moves(h, g, c, e, req + 16)
    BY <2>4, <1>5 DEF Moves
  <2> QED BY <2>1, <2>5, <1>5
<1>6. CASE n = -1
  <2>1. r = [heap |-> h, ptr |-> NULL, kept |-> 0]
    BY <1>6 DEF realloc
  <2> HIDE DEF r
  <2> QED BY <2>1, <1>4 DEF r
<1>7. CASE n # -1
  <2>1. n \in Nat /\ n >= req + 16 /\ n >= 32 /\ n % 32 = 0
    BY <1>7, AdjustFacts
  <2> HIDE DEF n, n0, next, p, Goal
  <2>2. CASE n <= n0 /\ n0 - n <= CKB_DONTCARE
    <3>1. r = [heap |-> h, ptr |-> p, kept |-> n0 - CKB_OVERHEAD]
      BY <1>3, <1>7, <2>2 DEF realloc, n, n0
    <3> HIDE DEF r
    <3>2. Moves(h, h, c, c, n)
      BY <2>2 DEF Moves, n0
    <3>3. r.heap = h /\ r.ptr = ToMem(c)
      BY <3>1 DEF p
    <3>4. Goal
      BY <3>2, <3>3, <2>1, <1>2, <1>5
    <3> QED BY <3>4 DEF Goal, r, p
  <2>3. CASE /\ ~(n <= n0 /\ n0 - n <= CKB_DONTCARE)
             /\ n < n0 /\ ~BetterMoved(h, n0, up)
    <3> DEFINE g == release_chunk(split_chunk(h, c, n, 1), c + n)
    <3>1. r = [heap |-> g, ptr |-> p, kept |-> n - CKB_OVERHEAD]
      BY <1>2, <1>3, <1>7, <2>3 DEF realloc, n, n0, next
    <3>2. Moves(h, g, c, c, n)
      BY <2>1, <2>3, ShrinkOK DEF n0
    <3> HIDE DEF r, g
    <3>3. r.heap = g /\ r.ptr = ToMem(c)
      BY <3>1 DEF p
    <3>4. Goal
      BY <3>2, <3>3, <2>1, <1>2, <1>5
    <3> QED BY <3>4 DEF Goal, r, p
  <2>4. CASE /\ ~(n <= n0 /\ n0 - n <= CKB_DONTCARE)
             /\ ~(n < n0 /\ ~BetterMoved(h, n0, up))
             /\ n > n0 /\ nsize # 0 /\ n0 + nsize >= n
    <3> DEFINE i == bin_index(nsize)
               m == n0 + nsize
               g == trim(tag(unbin(h, next, i), c, m, 1), c, n)
    <3>1. r = [heap |-> g, ptr |-> p, kept |-> n0 - CKB_OVERHEAD]
      BY <1>2, <1>3, <1>7, <2>4 DEF realloc, n, n0, next
    <3>2. h.csize[next].inuse \in {0, 1}
      BY <1>1, <1>2, TypedFacts
    <3>3. h.csize[next].inuse = 0 /\ nsize = ChunkSize(h, next)
      BY <3>2, <2>4
    <3>4. next \in FreeChunks(h)
      BY <3>3, <1>2 DEF FreeChunks
    <3>5. /\ m = ChunkSize(h, c) + ChunkSize(h, NextChunk(h, c)) /\ n <= m
          /\ i = bin_index(ChunkSize(h, NextChunk(h, c)))
      BY <3>3, <2>1, <2>4 DEF n0, next
    <3> HIDE DEF i, m
    <3>6. Moves(h, g, c, c, n)
      BY <3>4, <3>5, <2>1, GrowOK DEF next
    <3> HIDE DEF r, g
    <3>7. r.heap = g /\ r.ptr = ToMem(c)
      BY <3>1 DEF p
    <3>8. Goal
      BY <3>6, <3>7, <2>1, <1>2, <1>5
    <3> QED BY <3>8 DEF Goal, r, p
  <2>5. CASE /\ ~(n <= n0 /\ n0 - n <= CKB_DONTCARE)
             /\ ~(n < n0 /\ ~BetterMoved(h, n0, up))
             /\ ~(n > n0 /\ nsize # 0 /\ n0 + nsize >= n)
    <3>1. r = IF new.ptr = NULL THEN [heap |-> new.heap, ptr |-> NULL, kept |-> 0]
              ELSE [heap |-> free(new.heap, p), ptr |-> new.ptr,
                    kept |-> (IF n < n0 THEN n ELSE n0) - CKB_OVERHEAD]
      BY <1>2, <1>3, <1>7, <2>5 DEF realloc, copy_realloc, n, n0, next
    <3>2. n - CKB_OVERHEAD \in Nat /\ n - CKB_OVERHEAD + 16 = n
      BY <2>1 DEF CKB_OVERHEAD
    <3>3. IF new.ptr = NULL THEN Keeps(h, new.heap)
          ELSE \E e \in Nat : new.ptr = ToMem(e) /\ Grants(h, new.heap, e, n)
      <4> DEFINE q == n - CKB_OVERHEAD
      <4>1. q \in Nat /\ q + 16 = n /\ new = malloc(h, q)
        BY <3>2
      <4> HIDE DEF q, new
      <4>2. IF malloc(h, q).ptr = NULL THEN Keeps(h, malloc(h, q).heap)
            ELSE \E e \in Nat : /\ malloc(h, q).ptr = ToMem(e)
                                /\ Grants(h, malloc(h, q).heap, e, q + 16)
        BY <4>1, MallocOK
      <4> QED BY <4>1, <4>2
    <3> HIDE DEF new, r
    <3>4. CASE new.ptr = NULL
      <4>1. r.heap = new.heap /\ r.ptr = NULL
        BY <3>1, <3>4
      <4>2. Goal
        BY <4>1, <3>3, <3>4 DEF Goal
      <4> QED BY <4>2 DEF Goal, r, p
    <3>5. CASE new.ptr # NULL
      <4>1. PICK e \in Nat : new.ptr = ToMem(e) /\ Grants(h, new.heap, e, n)
        BY <3>3, <3>5
      <4> DEFINE k == new.heap
                 g == free(k, p)
      <4>2. r.heap = g /\ r.ptr = ToMem(e)
        BY <3>1, <3>5, <4>1
      <4>3. /\ HeapOK(k) /\ c \in UsedChunks(k) /\ e # c /\ e \notin UsedChunks(h)
            /\ \A d : d \in UsedChunks(k) <=> d \in UsedChunks(h) \/ d = e
            /\ \A d \in UsedChunks(h) : k.csize[d] = h.csize[d]
            /\ ChunkSize(k, e) >= n
        BY <4>1 DEF Grants
      <4> HIDE DEF k
      <4>4. Releases(k, g, c)
        BY <4>3, FreeOK DEF p
      <4> HIDE DEF g
      <4>5. \A d : d \in UsedChunks(g) <=> (d \in UsedChunks(h) /\ d # c) \/ d = e
        BY <4>3, <4>4 DEF Releases
      <4>6. \A d \in UsedChunks(h) : d # c => g.csize[d] = h.csize[d]
        BY <4>3, <4>4, <4>5 DEF Releases
      <4>7. ChunkSize(g, e) >= n
        <5>1. g.csize[e] = k.csize[e]
          BY <4>4, <4>5 DEF Releases
        <5> QED BY <5>1, <4>3 DEF ChunkSize
      <4>8. Moves(h, g, c, e, n)
        BY <4>3, <4>4, <4>5, <4>6, <4>7 DEF Moves, Releases
      <4>9. Goal
        BY <4>2, <4>8, <2>1, <1>5
      <4> QED BY <4>9 DEF Goal, r, p
    <3> QED BY <3>4, <3>5
  <2> QED BY <2>2, <2>3, <2>4, <2>5
<1> QED BY <1>6, <1>7

-----------------------------------------------------------------------------
(* The specification.                                                      *)

\* The client holds the chunks in use, each large enough for its request.
LiveOK ==
    /\ live \in [DOMAIN live -> Nat]
    /\ \A p \in DOMAIN live : \E c \in UsedChunks(heap) : p = ToMem(c)
    /\ \A c \in UsedChunks(heap) :
         ToMem(c) \in DOMAIN live /\ live[ToMem(c)] + 16 <= ChunkSize(heap, c)

Inv == HeapOK(heap) /\ LiveOK

LEMMA UsedFacts ==
    ASSUME NEW h, HeapOK(h), NEW c \in UsedChunks(h)
    PROVE  /\ c \in Nat /\ ChunkSize(h, c) \in Nat /\ ChunkSize(h, c) = h.csize[c].size
           /\ ToMem(c) = c + 16 /\ ToMem(c) \in Nat /\ ToMem(c) # NULL
           /\ ToChunk(ToMem(c)) = c /\ c \in Headers(h)
<1>1. c \in Headers(h) /\ c \in Nat /\ ChunkSize(h, c) \in Nat /\ ChunkSize(h, c) = h.csize[c].size
  BY TypedFacts DEF HeapOK, Shape, UsedChunks
<1> QED BY <1>1 DEF ToMem, ToChunk, NULL, CKB_OVERHEAD

LEMMA AssignFacts ==
    ASSUME NEW f, NEW x, NEW v
    PROVE  /\ \A y : y \in DOMAIN Assign(f, x, v) <=> y \in DOMAIN f \/ y = x
           /\ \A y \in DOMAIN Assign(f, x, v) :
                Assign(f, x, v)[y] = IF y = x THEN v ELSE f[y]
           /\ Assign(f, x, v) = [y \in DOMAIN Assign(f, x, v) |-> Assign(f, x, v)[y]]
BY DEF Assign

LEMMA DropFacts ==
    ASSUME NEW f, NEW x
    PROVE  /\ \A y : y \in DOMAIN Drop(f, x) <=> y \in DOMAIN f /\ y # x
           /\ \A y \in DOMAIN Drop(f, x) : Drop(f, x)[y] = f[y]
           /\ Drop(f, x) = [y \in DOMAIN Drop(f, x) |-> Drop(f, x)[y]]
BY DEF Drop

LEMMA InitInv == Init => Inv
<1> SUFFICES ASSUME Init PROVE Inv
  OBVIOUS
<1>1. PICK q \in BrkRanges :
        heap = [csize |-> NoWords, psize |-> NoWords,
                next |-> NoWords, prev |-> NoWords,
                binmap |-> {}, brk |-> 0, brk_min |-> q[1], brk_max |-> q[2],
                end |-> 0, crashed |-> FALSE]
  BY DEF Init
<1>2. q[1] \in Nat /\ q[2] \in Nat /\ q[1] > 0
  BY BrkAssumption
<1>3. IsRec(heap)
  BY <1>1 DEF IsRec, Fields
<1>4. /\ heap.csize = NoWords /\ heap.psize = NoWords /\ heap.next = NoWords
      /\ heap.prev = NoWords /\ heap.binmap = {} /\ heap.brk = 0 /\ heap.end = 0
      /\ heap.brk_min = q[1] /\ heap.brk_max = q[2] /\ heap.crashed = FALSE
  BY <1>1
<1>5. Headers(heap) = {} /\ DOMAIN heap.next = {} /\ NoWords \in [{} -> WordType]
      /\ NoWords \in [{} -> {}]
  BY <1>4 DEF Headers, NoWords
<1>6. Typed(heap)
  BY <1>2, <1>3, <1>4, <1>5 DEF Typed
<1>7. Shape(heap) /\ Merged(heap)
  BY <1>2, <1>4, <1>5, <1>6
     DEF Shape, Forward, Backward, NoOverlap, Placed, Region, Merged
<1>8. FreeChunks(heap) = {} /\ UsedChunks(heap) = {}
  BY <1>5 DEF FreeChunks, UsedChunks
<1>9. Lists(heap, FreeChunks(heap))
  <2>1. Ranks(heap.next, NoWords)
    <3>1. NoWords \in [{} -> Nat]
      BY DEF NoWords
    <3> QED BY <3>1, <1>5 DEF Ranks
  <2>2. Ranked(heap.next) /\ BitsExact(heap)
    BY <2>1, <1>5 DEF Ranked, BitsExact
  <2> QED BY <2>2, <1>4, <1>5, <1>8 DEF Lists
<1>10. live = NoWords /\ DOMAIN live = {} /\ live \in [{} -> Nat]
  BY DEF Init, NoWords
<1> QED BY <1>4, <1>7, <1>8, <1>9, <1>10 DEF Inv, HeapOK, LiveOK

\* The client's blocks after a step that keeps the chunks in use.
LEMMA KeepsInv ==
    ASSUME Inv, Keeps(heap, heap'), live' = live
    PROVE  Inv'
<1>1. HeapOK(heap') /\ \A d : d \in UsedChunks(heap') <=> d \in UsedChunks(heap)
  BY DEF Keeps
<1>2. \A d \in UsedChunks(heap) : ChunkSize(heap', d) = ChunkSize(heap, d)
  BY DEF Keeps, ChunkSize
<1>3. LiveOK'
  BY <1>1, <1>2 DEF Inv, LiveOK
<1> QED BY <1>1, <1>3 DEF Inv

LEMMA ConfigInv ==
    ASSUME Inv, NEW q \in BrkRanges, malloc_config(q[1], q[2])
    PROVE  Inv'
<1>1. q[1] \in Nat /\ q[2] \in Nat /\ q[1] > 0
  BY BrkAssumption
<1>2. HeapOK(heap) /\ IsRec(heap) /\ Region(heap) /\ heap.end = 0 /\ Headers(heap) = {}
  BY DEF Inv, HeapOK, Shape, Typed, Region, malloc_config
<1>3. heap' = [heap EXCEPT !.brk_min = q[1], !.brk_max = q[2], !.brk = 0]
  BY DEF malloc_config
<1>4. /\ IsRec(heap') /\ SameWords(heap, heap') /\ SameLinks(heap, heap')
      /\ heap'.end = heap.end /\ heap'.crashed = heap.crashed
      /\ heap'.brk = 0 /\ heap'.brk_min = q[1] /\ heap'.brk_max = q[2]
  BY <1>2, <1>3 DEF IsRec, Fields, SameWords, SameLinks
<1>5. Headers(heap') = {}
  BY <1>2, <1>4 DEF SameWords, Headers
<1>6. Region(heap')
  BY <1>1, <1>2, <1>4, <1>5 DEF Region
<1>7. Keeps(heap, heap')
  BY <1>1, <1>2, <1>4, <1>6, BreakOK
<1> QED BY <1>7, KeepsInv DEF malloc_config

LEMMA MallocInv ==
    ASSUME Inv, NEW n \in Requests, Malloc(n)
    PROVE  Inv'
<1> DEFINE r == malloc(heap, n)
<1>1. n \in Nat /\ HeapOK(heap) /\ LiveOK
  BY RequestsAssumption DEF Inv
<1>2. IF r.ptr = NULL THEN Keeps(heap, r.heap)
      ELSE \E c \in Nat : r.ptr = ToMem(c) /\ Grants(heap, r.heap, c, n + 16)
  BY <1>1, MallocOK
<1>3. heap' = r.heap /\ live' = IF r.ptr = NULL THEN live ELSE Assign(live, r.ptr, n)
  BY DEF Malloc
<1> HIDE DEF r
<1>4. CASE r.ptr = NULL
  BY <1>2, <1>3, <1>4, KeepsInv
<1>5. CASE r.ptr # NULL
  <2>1. PICK c \in Nat : r.ptr = ToMem(c) /\ Grants(heap, heap', c, n + 16)
    BY <1>2, <1>3, <1>5
  <2>2. live' = Assign(live, ToMem(c), n)
    BY <2>1, <1>3, <1>5
  <2>3. /\ HeapOK(heap') /\ c \notin UsedChunks(heap) /\ c \in UsedChunks(heap')
        /\ \A d : d \in UsedChunks(heap') <=> d \in UsedChunks(heap) \/ d = c
        /\ \A d \in UsedChunks(heap) : ChunkSize(heap', d) = ChunkSize(heap, d)
        /\ ChunkSize(heap', c) >= n + 16
    BY <2>1 DEF Grants, ChunkSize
  <2>4. /\ \A y : y \in DOMAIN live' <=> y \in DOMAIN live \/ y = ToMem(c)
        /\ \A y \in DOMAIN live' : live'[y] = IF y = ToMem(c) THEN n ELSE live[y]
        /\ live' = [y \in DOMAIN live' |-> live'[y]]
    BY <2>2, AssignFacts
  <2>5. live' \in [DOMAIN live' -> Nat]
    <3>1. \A y \in DOMAIN live' : live'[y] \in Nat
      BY <2>4, <1>1 DEF LiveOK
    <3> QED BY <3>1, <2>4
  <2>6. \A p \in DOMAIN live' : \E d \in UsedChunks(heap') : p = ToMem(d)
    BY <2>3, <2>4, <1>1 DEF LiveOK
  <2>7. ASSUME NEW d \in UsedChunks(heap')
        PROVE  ToMem(d) \in DOMAIN live' /\ live'[ToMem(d)] + 16 <= ChunkSize(heap', d)
    <3>1. CASE d = c
      <4>1. ChunkSize(heap', c) \in Nat
        BY <2>3, UsedFacts
      <4>2. ToMem(c) \in DOMAIN live' /\ live'[ToMem(c)] = n
        BY <2>4
      <4> QED BY <4>1, <4>2, <3>1, <2>3, <1>1
    <3>2. CASE d # c
      <4>1. d \in UsedChunks(heap) /\ d \in Nat
        BY <3>2, <2>3, <2>7, UsedFacts
      <4>2. ToMem(d) # ToMem(c)
        BY <4>1, <3>2 DEF ToMem, CKB_OVERHEAD
      <4>3. ToMem(d) \in DOMAIN live /\ live[ToMem(d)] + 16 <= ChunkSize(heap, d)
        BY <4>1, <1>1 DEF LiveOK
      <4>4. ToMem(d) \in DOMAIN live' /\ live'[ToMem(d)] = live[ToMem(d)]
        BY <4>2, <4>3, <2>4
      <4>5. ChunkSize(heap', d) = ChunkSize(heap, d)
        BY <4>1, <2>3
      <4> QED BY <4>3, <4>4, <4>5
    <3> QED BY <3>1, <3>2
  <2> QED BY <2>3, <2>5, <2>6, <2>7 DEF Inv, LiveOK
<1> QED BY <1>4, <1>5

LEMMA FreeInv ==
    ASSUME Inv, NEW p \in DOMAIN live \cup {NULL}, Free(p)
    PROVE  Inv'
<1>1. HeapOK(heap) /\ LiveOK /\ heap' = free(heap, p) /\ live' = Drop(live, p)
  BY DEF Inv, Free
<1>2. /\ \A y : y \in DOMAIN live' <=> y \in DOMAIN live /\ y # p
      /\ \A y \in DOMAIN live' : live'[y] = live[y]
      /\ live' = [y \in DOMAIN live' |-> live'[y]]
  BY <1>1, DropFacts
<1>3. live' \in [DOMAIN live' -> Nat]
  <2>1. \A y \in DOMAIN live' : live'[y] \in Nat
    BY <1>1, <1>2 DEF LiveOK
  <2> QED BY <2>1, <1>2
<1>4. CASE p = NULL
  <2>1. heap' = heap
    BY <1>1, <1>4 DEF free
  <2>2. NULL \notin DOMAIN live
    BY <1>1, UsedFacts DEF LiveOK
  <2>3. \A y : y \in DOMAIN live' <=> y \in DOMAIN live
    BY <2>2, <1>2, <1>4
  <2> QED BY <2>1, <2>3, <1>1, <1>2, <1>3 DEF Inv, LiveOK
<1>5. CASE p # NULL
  <2>1. PICK c \in UsedChunks(heap) : p = ToMem(c)
    BY <1>1, <1>5 DEF LiveOK
  <2>2. Releases(heap, heap', c)
    BY <2>1, <1>1, FreeOK
  <2>3. /\ HeapOK(heap') /\ \A d : d \in UsedChunks(heap') <=> d \in UsedChunks(heap) /\ d # c
        /\ \A d \in UsedChunks(heap') : ChunkSize(heap', d) = ChunkSize(heap, d)
    BY <2>2 DEF Releases, ChunkSize
  <2>4. \A d \in UsedChunks(heap) : d # c => ToMem(d) # ToMem(c)
    <3> SUFFICES ASSUME NEW d \in UsedChunks(heap), d # c PROVE ToMem(d) # ToMem(c)
      OBVIOUS
    <3>1. c \in Nat /\ d \in Nat /\ ToMem(c) = c + 16 /\ ToMem(d) = d + 16
      BY <1>1, UsedFacts
    <3> QED BY <3>1
  <2>5. \A y \in DOMAIN live' : \E d \in UsedChunks(heap') : y = ToMem(d)
    BY <2>1, <2>3, <1>1, <1>2 DEF LiveOK
  <2>6. \A d \in UsedChunks(heap') :
          ToMem(d) \in DOMAIN live' /\ live'[ToMem(d)] + 16 <= ChunkSize(heap', d)
    <3> SUFFICES ASSUME NEW d \in UsedChunks(heap')
                 PROVE  ToMem(d) \in DOMAIN live'
                        /\ live'[ToMem(d)] + 16 <= ChunkSize(heap', d)
      OBVIOUS
    <3>1. d \in UsedChunks(heap) /\ ToMem(d) # p /\ ChunkSize(heap', d) = ChunkSize(heap, d)
      BY <2>1, <2>3, <2>4
    <3>2. ToMem(d) \in DOMAIN live /\ live[ToMem(d)] + 16 <= ChunkSize(heap, d)
      BY <3>1, <1>1 DEF LiveOK
    <3> QED BY <3>1, <3>2, <1>2
  <2> QED BY <2>3, <2>5, <2>6, <1>3 DEF Inv, LiveOK
<1> QED BY <1>4, <1>5

LEMMA ReallocInv ==
    ASSUME Inv, NEW p \in DOMAIN live, NEW n \in Requests, Realloc(p, n)
    PROVE  Inv'
<1>1. n \in Nat /\ HeapOK(heap) /\ LiveOK
  BY RequestsAssumption DEF Inv
<1>2. PICK c \in UsedChunks(heap) : p = ToMem(c)
  BY <1>1 DEF LiveOK
<1>3. PICK up \in bin_index_ups(adjust_size(n)) :
        LET r == realloc(heap, p, n, up)
        IN  /\ heap' = r.heap
            /\ live' = IF r.ptr = NULL THEN live ELSE Assign(Drop(live, p), r.ptr, n)
  BY DEF Realloc
<1> DEFINE r == realloc(heap, ToMem(c), n, up)
<1>4. heap' = r.heap /\ live' = IF r.ptr = NULL THEN live ELSE Assign(Drop(live, p), r.ptr, n)
  BY <1>2, <1>3
<1>5. IF r.ptr = NULL THEN Keeps(heap, r.heap)
      ELSE \E e \in Nat : r.ptr = ToMem(e) /\ Moves(heap, r.heap, c, e, n + 16)
  BY <1>1, ReallocOK
<1> HIDE DEF r
<1>6. CASE r.ptr = NULL
  BY <1>4, <1>5, <1>6, KeepsInv
<1>7. CASE r.ptr # NULL
  <2>1. PICK e \in Nat : r.ptr = ToMem(e) /\ Moves(heap, heap', c, e, n + 16)
    BY <1>4, <1>5, <1>7
  <2>2. live' = Assign(Drop(live, p), ToMem(e), n)
    BY <2>1, <1>4, <1>7
  <2>3. /\ HeapOK(heap') /\ e \in UsedChunks(heap')
        /\ \A d : d \in UsedChunks(heap') <=> (d \in UsedChunks(heap) /\ d # c) \/ d = e
        /\ \A d \in UsedChunks(heap) : d # c => ChunkSize(heap', d) = ChunkSize(heap, d)
        /\ ChunkSize(heap', e) >= n + 16
    BY <2>1 DEF Moves, ChunkSize
  <2>4. /\ \A y : y \in DOMAIN live' <=> (y \in DOMAIN live /\ y # p) \/ y = ToMem(e)
        /\ \A y \in DOMAIN live' : live'[y] = IF y = ToMem(e) THEN n ELSE live[y]
        /\ live' = [y \in DOMAIN live' |-> live'[y]]
    <3> DEFINE f == Drop(live, p)
    <3>1. /\ \A y : y \in DOMAIN f <=> y \in DOMAIN live /\ y # p
          /\ \A y \in DOMAIN f : f[y] = live[y]
      BY DropFacts
    <3> HIDE DEF f
    <3>2. /\ \A y : y \in DOMAIN live' <=> y \in DOMAIN f \/ y = ToMem(e)
          /\ \A y \in DOMAIN live' : live'[y] = IF y = ToMem(e) THEN n ELSE f[y]
          /\ live' = [y \in DOMAIN live' |-> live'[y]]
      BY <2>2, AssignFacts DEF f
    <3> QED BY <3>1, <3>2
  <2>5. live' \in [DOMAIN live' -> Nat]
    <3>1. \A y \in DOMAIN live' : live'[y] \in Nat
      BY <2>4, <1>1 DEF LiveOK
    <3> QED BY <3>1, <2>4
  <2>6. ASSUME NEW d \in UsedChunks(heap), d # c PROVE ToMem(d) # p
    <3>1. c \in Nat /\ d \in Nat /\ ToMem(c) = c + 16 /\ ToMem(d) = d + 16
      BY <1>1, UsedFacts
    <3> QED BY <3>1, <2>6, <1>2
  <2>7. \A y \in DOMAIN live' : \E d \in UsedChunks(heap') : y = ToMem(d)
    BY <2>3, <2>4, <1>1, <1>2 DEF LiveOK
  <2>8. ASSUME NEW d \in UsedChunks(heap')
        PROVE  ToMem(d) \in DOMAIN live' /\ live'[ToMem(d)] + 16 <= ChunkSize(heap', d)
    <3>1. CASE d = e
      <4>1. ChunkSize(heap', e) \in Nat
        BY <2>3, UsedFacts
      <4>2. ToMem(e) \in DOMAIN live' /\ live'[ToMem(e)] = n
        BY <2>4
      <4> QED BY <4>1, <4>2, <3>1, <2>3, <1>1
    <3>2. CASE d # e
      <4>1. d \in UsedChunks(heap) /\ d # c
        BY <3>2, <2>3, <2>8
      <4>2. d \in Nat /\ ToMem(d) # ToMem(e) /\ ToMem(d) # p
        <5>1. d \in Nat
          BY <4>1, <1>1, UsedFacts
        <5> QED BY <5>1, <4>1, <3>2, <2>6 DEF ToMem, CKB_OVERHEAD
      <4>3. ToMem(d) \in DOMAIN live /\ live[ToMem(d)] + 16 <= ChunkSize(heap, d)
        BY <4>1, <1>1 DEF LiveOK
      <4>4. ToMem(d) \in DOMAIN live' /\ live'[ToMem(d)] = live[ToMem(d)]
        BY <4>2, <4>3, <2>4
      <4>5. ChunkSize(heap', d) = ChunkSize(heap, d)
        BY <4>1, <2>3
      <4> QED BY <4>3, <4>4, <4>5
    <3> QED BY <3>1, <3>2
  <2> QED BY <2>3, <2>5, <2>7, <2>8 DEF Inv, LiveOK
<1> QED BY <1>6, <1>7

LEMMA NextInv == Inv /\ [Next]_vars => Inv'
<1> SUFFICES ASSUME Inv, [Next]_vars PROVE Inv'
  OBVIOUS
<1>1. CASE UNCHANGED vars
  BY <1>1 DEF vars, Inv, LiveOK
<1>2. CASE Next
  <2>1. CASE \E q \in BrkRanges : malloc_config(q[1], q[2])
    BY <2>1, ConfigInv
  <2>2. CASE \E n \in Requests : Malloc(n)
    BY <2>2, MallocInv
  <2>3. CASE \E p \in DOMAIN live, n \in Requests : Realloc(p, n)
    BY <2>3, ReallocInv
  <2>4. CASE \E p \in DOMAIN live \cup {NULL} : Free(p)
    BY <2>4, FreeInv
  <2> QED BY <1>2, <2>1, <2>2, <2>3, <2>4 DEF Next
<1> QED BY <1>1, <1>2

LEMMA InvHolds == Spec => []Inv
BY InitInv, NextInv, PTL DEF Spec

(* The state of malloc_impl.c keeps its types in every behaviour.          *)
THEOREM TypeCorrect == Spec => []TypeOK
<1>1. ASSUME Inv PROVE TypeOK
  <2>1. Typed(heap) /\ Lists(heap, FreeChunks(heap)) /\ heap.crashed = FALSE
    BY <1>1 DEF Inv, HeapOK, Shape
  <2>2. /\ heap.csize \in [Headers(heap) -> WordType]
        /\ heap.psize \in [Headers(heap) -> WordType] /\ Headers(heap) \subseteq Nat
        /\ {heap.brk, heap.brk_min, heap.brk_max, heap.end} \subseteq Nat
    BY <2>1 DEF Typed
  <2>3. /\ DOMAIN heap.next \subseteq FreeChunks(heap) \cup Bins
        /\ heap.next \in [DOMAIN heap.next -> DOMAIN heap.next]
        /\ heap.prev \in [DOMAIN heap.next -> DOMAIN heap.next]
        /\ heap.binmap \subseteq Bins
    BY <2>1 DEF Lists
  <2> QED BY <2>1, <2>2, <2>3, <1>1 DEF TypeOK, Inv, LiveOK
<1> QED BY <1>1, InvHolds, PTL

(* Every split, merge and expansion of malloc_impl.c keeps headers and     *)
(* footers in agreement.                                                   *)
THEOREM TagsAgree == Spec => []BoundaryTagsAgree
<1>1. ASSUME Inv PROVE BoundaryTagsAgree
  <2>1. Shape(heap)
    BY <1>1 DEF Inv, HeapOK
  <2>2. \A c \in Headers(heap) : ChunkSize(heap, c) = 0 <=> c = ToChunk(heap.end)
    <3> SUFFICES ASSUME NEW c \in Headers(heap)
                 PROVE  ChunkSize(heap, c) = 0 <=> c = ToChunk(heap.end)
      OBVIOUS
    <3>1. PlacedAt(heap, c)
      BY <2>1 DEF Shape, Placed
    <3> QED BY <3>1 DEF PlacedAt, ToChunk, CKB_OVERHEAD, ChunkSize
  <2> QED BY <2>1, <2>2 DEF BoundaryTagsAgree, Shape, Forward, NoOverlap
<1> QED BY <1>1, InvHolds, PTL

LEMMA InvDisjoint == Inv => BlocksDisjoint
<1> SUFFICES ASSUME Inv PROVE BlocksDisjoint
  OBVIOUS
<1> SUFFICES ASSUME NEW p \in DOMAIN live
             PROVE  /\ p % CKB_SIZE_ALIGN = 0
                    /\ p >= heap.brk_min /\ p + live[p] <= heap.brk
                    /\ \A q \in DOMAIN live : p < q => p + live[p] <= ToChunk(q)
                    /\ \A c \in Headers(heap) : p <= c => p + live[p] <= c
  BY DEF BlocksDisjoint
<1>1. HeapOK(heap) /\ LiveOK /\ Shape(heap) /\ Typed(heap) /\ Region(heap)
  BY DEF Inv, HeapOK, Shape
<1>2. PICK c \in UsedChunks(heap) : p = ToMem(c)
  BY <1>1 DEF LiveOK
<1>3. /\ c \in Nat /\ ChunkSize(heap, c) \in Nat /\ p = c + 16 /\ p \in Nat
      /\ c \in Headers(heap)
  BY <1>1, <1>2, UsedFacts
<1>4. live[p] + 16 <= ChunkSize(heap, c) /\ live[p] \in Nat
  BY <1>1, <1>2 DEF LiveOK
<1>5. PlacedAt(heap, c) /\ heap.brk_min \in Nat /\ heap.end \in Nat
  BY <1>1, <1>3 DEF Shape, Placed, Typed
<1>6. p % CKB_SIZE_ALIGN = 0 /\ p >= heap.brk_min
  <2>1. c % 32 = 16 /\ c >= heap.brk_min
    BY <1>5 DEF PlacedAt
  <2> QED BY <2>1, <1>3, <1>5 DEF CKB_SIZE_ALIGN
<1>7. \A d \in Headers(heap) : c < d => p + live[p] <= d
  <2> SUFFICES ASSUME NEW d \in Headers(heap), c < d PROVE p + live[p] <= d
    OBVIOUS
  <2>1. NextChunk(heap, c) <= d /\ NextChunk(heap, c) = c + ChunkSize(heap, c) /\ d \in Nat
    BY <1>1, <1>3, TypedFacts DEF Shape, NoOverlap
  <2> QED BY <2>1, <1>3, <1>4
<1>8. p + live[p] <= heap.brk
  <2>1. NextChunk(heap, c) \in Headers(heap) /\ NextChunk(heap, c) = c + ChunkSize(heap, c)
    BY <1>1, <1>2, <1>3, FreeFacts, TypedFacts DEF UsedChunks
  <2>2. NextChunk(heap, c) + 16 <= heap.end /\ NextChunk(heap, c) \in Nat
    BY <2>1, <1>1, TypedFacts DEF Shape, Placed, PlacedAt
  <2>3. heap.end # 0
    BY <2>1, <1>1 DEF Region
  <2>4. heap.brk = heap.end
    BY <2>3, <1>1 DEF Region
  <2> QED BY <2>1, <2>2, <2>4, <1>3, <1>4, <1>5
<1>9. ASSUME NEW q \in DOMAIN live, p < q PROVE p + live[p] <= ToChunk(q)
  <2>1. PICK d \in UsedChunks(heap) : q = ToMem(d)
    BY <1>1 DEF LiveOK
  <2>2. d \in Nat /\ q = d + 16 /\ ToChunk(q) = d /\ d \in Headers(heap)
    BY <2>1, <1>1, UsedFacts
  <2>3. c < d
    BY <2>2, <1>3, <1>9
  <2> QED BY <2>2, <2>3, <1>7
<1>10. ASSUME NEW d \in Headers(heap), p <= d PROVE p + live[p] <= d
  <2>1. d \in Nat
    BY <1>1, TypedFacts
  <2>2. c < d
    BY <2>1, <1>3, <1>10
  <2> QED BY <2>2, <1>7
<1> QED BY <1>6, <1>8, <1>9, <1>10

(* Blocks handed out by malloc and realloc are aligned, inside the region  *)
(* and disjoint from each other and from every header.                     *)
THEOREM Disjoint == Spec => []BlocksDisjoint
BY InvHolds, InvDisjoint, PTL

(* malloc, realloc and free lose no chunk and hand none out twice.         *)
THEOREM Leakless == Spec => []NoLeak
<1>1. ASSUME Inv PROVE NoLeak
  <2>1. LiveOK
    BY <1>1 DEF Inv
  <2> QED BY <2>1 DEF LiveOK, NoLeak
<1> QED BY <1>1, InvHolds, PTL

(* Two free chunks are never neighbours: __bin_chunk and the tail that     *)
(* trim and realloc cut off always merge.                                  *)
THEOREM AlwaysCoalesced == Spec => []Coalesced
<1>1. ASSUME Inv PROVE Coalesced
  <2>1. Merged(heap)
    BY <1>1 DEF Inv, HeapOK
  <2> QED BY <2>1 DEF Merged, Coalesced, FreeChunks
<1> QED BY <1>1, InvHolds, PTL

\* Some element of T has the lowest rank.
LEMMA LowestRank ==
    ASSUME NEW T, T # {}, NEW rank, \A x \in T : rank[x] \in Nat
    PROVE  \E x \in T : \A y \in T : ~(rank[y] < rank[x])
<1> DEFINE S == {rank[x] : x \in T}
<1>1. S \subseteq Nat /\ S # {}
  OBVIOUS
<1> HIDE DEF S
<1>2. Min(S) \in S /\ \A y \in S : Min(S) <= y
  BY <1>1, MinFacts
<1>3. PICK x \in T : rank[x] = Min(S)
  BY <1>2 DEF S
<1>4. \A y \in T : rank[y] \in S
  BY DEF S
<1>5. \A y \in S : y \in Nat
  BY <1>1
<1> QED BY <1>2, <1>3, <1>4, <1>5

\* The first chunk of a list has the lowest rank, and comes after the bin.
LEMMA BinHasBit ==
    ASSUME NEW h, HeapOK(h), NEW c \in FreeChunks(h)
    PROVE  bin_index(ChunkSize(h, c)) \in h.binmap
<1> DEFINE i == bin_index(ChunkSize(h, c))
           T == {x \in DOMAIN h.next : x \notin Bins /\ BinOf(h, x) = i}
<1>1. /\ \A x \in DOMAIN h.next : /\ h.next[x] \in DOMAIN h.next /\ h.prev[x] \in DOMAIN h.next
                                 /\ h.prev[h.next[x]] = x /\ h.next[h.prev[x]] = x
                                 /\ BinOf(h, h.next[x]) = BinOf(h, x)
      /\ c \in DOMAIN h.next /\ c \notin Bins
      /\ BitsExact(h) /\ Ranked(h.next)
  BY DEF HeapOK, Lists
<1>2. PICK rank : Ranks(h.next, rank)
  BY <1>1 DEF Ranked
<1>3. /\ \A x \in DOMAIN h.next : rank[x] \in Nat
      /\ \A x \in DOMAIN h.next : h.next[x] \notin Bins => rank[x] < rank[h.next[x]]
  BY <1>2 DEF Ranks
<1>4. c \in T
  BY <1>1 DEF BinOf
<1> HIDE DEF i
<1>5. PICK x \in T : \A y \in T : ~(rank[y] < rank[x])
  <2>1. T # {} /\ \A y \in T : rank[y] \in Nat
    BY <1>3, <1>4
  <2> HIDE DEF T
  <2> QED BY <2>1, LowestRank
<1>6. h.prev[x] \in DOMAIN h.next /\ h.next[h.prev[x]] = x /\ BinOf(h, h.prev[x]) = i
  BY <1>1
<1>7. h.prev[x] \in Bins
  <2> SUFFICES ASSUME h.prev[x] \notin Bins PROVE FALSE
    OBVIOUS
  <2> QED BY <1>3, <1>5, <1>6
<1>8. h.prev[x] = i /\ x # i
  BY <1>6, <1>7 DEF BinOf
<1> QED BY <1>1, <1>6, <1>7, <1>8 DEF BitsExact, i

(* The lists of malloc_impl.c and binmap say what is free, whatever was    *)
(* split, merged and handed out before: no free chunk is out of sight.     *)
THEOREM ListsExact == Spec => []FreeListsExact
<1>1. ASSUME Inv PROVE FreeListsExact
  <2>1. HeapOK(heap)
    BY <1>1 DEF Inv
  <2>2. /\ \A x : x \in DOMAIN heap.next /\ x \notin Bins <=> x \in FreeChunks(heap)
        /\ \A x \in DOMAIN heap.next :
             /\ heap.prev[heap.next[x]] = x /\ heap.next[heap.prev[x]] = x
             /\ BinOf(heap, heap.next[x]) = BinOf(heap, x)
        /\ \A i \in heap.binmap : i \in Bins /\ i \in DOMAIN heap.next /\ heap.next[i] # i
    BY <2>1 DEF HeapOK, Lists, BitsExact
  <2>3. FreeChunks(heap) = DOMAIN heap.next \ Bins
    BY <2>2
  <2>4. ASSUME NEW i \in heap.binmap
        PROVE  \E c \in FreeChunks(heap) : i = bin_index(ChunkSize(heap, c))
    BY <2>1, <2>2, BinnedIsFree
  <2>5. heap.binmap = {bin_index(ChunkSize(heap, c)) : c \in FreeChunks(heap)}
    BY <2>1, <2>4, BinHasBit
  <2> QED BY <2>2, <2>3, <2>5 DEF FreeListsExact
<1> QED BY <1>1, InvHolds, PTL

(* The footer check of free and realloc never ends the program.            *)
THEOREM CrashFree == Spec => []NeverCrashes
<1>1. ASSUME Inv PROVE NeverCrashes
  BY <1>1 DEF Inv, HeapOK, NeverCrashes
<1> QED BY <1>1, InvHolds, PTL

\* Two live blocks are apart in the sense of Allocator.
LEMMA PrimedApart ==
    ASSUME Inv', NEW p \in DOMAIN live'
    PROVE  Promise!Apart(live', p)
<1>1. BlocksDisjoint'
  BY InvDisjoint, PTL
<1>2. ASSUME NEW q \in DOMAIN live', q # p
      PROVE  \/ p < q /\ p + live'[p] <= q
             \/ q < p /\ q + live'[q] <= p
  <2>1. \A y \in DOMAIN live' : y \in Nat /\ ToChunk(y) <= y /\ ToChunk(y) \in Int /\ live'[y] \in Nat
    <3> SUFFICES ASSUME NEW y \in DOMAIN live'
                 PROVE  y \in Nat /\ ToChunk(y) <= y /\ ToChunk(y) \in Int /\ live'[y] \in Nat
      OBVIOUS
    <3>1. PICK c \in UsedChunks(heap') : y = ToMem(c)
      BY DEF Inv, LiveOK
    <3>2. c \in Nat /\ y = c + 16 /\ ToChunk(y) = c
      BY <3>1, UsedFacts DEF Inv
    <3> QED BY <3>2 DEF Inv, LiveOK
  <2>2. /\ p < q => p + live'[p] <= ToChunk(q)
        /\ q < p => q + live'[q] <= ToChunk(p)
    BY <1>1, <1>2 DEF BlocksDisjoint
  <2> QED BY <2>1, <2>2, <1>2
<1> QED BY <1>2 DEF Promise!Apart

\* An address that is not in use is not held by the client.
LEMMA FreshAddress ==
    ASSUME Inv, NEW e \in Nat, e \notin UsedChunks(heap)
    PROVE  ToMem(e) \notin DOMAIN live /\ ToMem(e) # 0
<1>1. SUFFICES ASSUME ToMem(e) \in DOMAIN live PROVE FALSE
  BY DEF ToMem, CKB_OVERHEAD
<1>2. PICK c \in UsedChunks(heap) : ToMem(e) = ToMem(c)
  BY <1>1 DEF Inv, LiveOK
<1>3. c \in Nat
  BY <1>2, UsedFacts DEF Inv
<1> QED BY <1>2, <1>3 DEF ToMem, CKB_OVERHEAD

LEMMA MallocImplements ==
    ASSUME Inv, Inv', NEW n \in Requests, Malloc(n)
    PROVE  Promise!Alloc(n) \/ live' = live
<1> DEFINE r == malloc(heap, n)
<1>1. n \in Nat /\ HeapOK(heap)
  BY RequestsAssumption DEF Inv
<1>2. IF r.ptr = NULL THEN Keeps(heap, r.heap)
      ELSE \E c \in Nat : r.ptr = ToMem(c) /\ Grants(heap, r.heap, c, n + 16)
  BY <1>1, MallocOK
<1>3. live' = IF r.ptr = NULL THEN live ELSE Assign(live, r.ptr, n)
  BY DEF Malloc
<1> HIDE DEF r
<1>4. CASE r.ptr # NULL
  <2>1. PICK c \in Nat : r.ptr = ToMem(c) /\ c \notin UsedChunks(heap)
    BY <1>2, <1>4 DEF Grants
  <2> DEFINE p == ToMem(c)
  <2>2. p \notin DOMAIN live /\ p # 0
    BY <2>1, FreshAddress
  <2>3. live' = Assign(live, p, n)
    BY <2>1, <1>3, <1>4
  <2> HIDE DEF p
  <2>4. /\ \A y : y \in DOMAIN live' <=> y \in DOMAIN live \/ y = p
        /\ \A y \in DOMAIN live' : live'[y] = IF y = p THEN n ELSE live[y]
    BY <2>3, AssignFacts
  <2>5. Promise!Holds(live', p, n)
    <3>1. DOMAIN live' = DOMAIN live \cup {p}
      BY <2>4
    <3> QED BY <3>1, <2>4 DEF Promise!Holds
  <2>6. Promise!Apart(live', p) /\ p \in DOMAIN live' \ DOMAIN live
    BY <2>2, <2>4, PrimedApart
  <2> QED BY <2>2, <2>5, <2>6 DEF Promise!Alloc
<1> QED BY <1>3, <1>4

LEMMA ReallocImplements ==
    ASSUME Inv, Inv', NEW p \in DOMAIN live, NEW n \in Requests, Realloc(p, n)
    PROVE  Promise!Resize(p, n) \/ live' = live
<1>1. n \in Nat /\ HeapOK(heap) /\ LiveOK
  BY RequestsAssumption DEF Inv
<1>2. PICK c \in UsedChunks(heap) : p = ToMem(c)
  BY <1>1 DEF LiveOK
<1>3. PICK up \in bin_index_ups(adjust_size(n)) :
        LET r == realloc(heap, p, n, up)
        IN  /\ heap' = r.heap
            /\ live' = IF r.ptr = NULL THEN live ELSE Assign(Drop(live, p), r.ptr, n)
  BY DEF Realloc
<1> DEFINE r == realloc(heap, ToMem(c), n, up)
<1>4. live' = IF r.ptr = NULL THEN live ELSE Assign(Drop(live, p), r.ptr, n)
  BY <1>2, <1>3
<1>5. IF r.ptr = NULL THEN Keeps(heap, r.heap)
      ELSE \E e \in Nat : r.ptr = ToMem(e) /\ Moves(heap, r.heap, c, e, n + 16)
  BY <1>1, ReallocOK
<1> HIDE DEF r
<1>6. CASE r.ptr # NULL
  <2>1. PICK e \in Nat : r.ptr = ToMem(e) /\ (e = c \/ e \notin UsedChunks(heap))
    BY <1>5, <1>6 DEF Moves
  <2> DEFINE q == ToMem(e)
             f == Drop(live, p)
  <2>2. live' = Assign(f, q, n)
    BY <2>1, <1>4, <1>6
  <2>3. /\ \A y : y \in DOMAIN f <=> y \in DOMAIN live /\ y # p
        /\ \A y \in DOMAIN f : f[y] = live[y]
    BY DropFacts
  <2>4. q = p \/ (q \notin DOMAIN live /\ q # 0)
    BY <2>1, <1>2, FreshAddress
  <2> HIDE DEF f, q
  <2>5. /\ \A y : y \in DOMAIN live' <=> y \in DOMAIN f \/ y = q
        /\ \A y \in DOMAIN live' : live'[y] = IF y = q THEN n ELSE f[y]
    BY <2>2, AssignFacts
  <2>6. Promise!Apart(live', q) /\ live'[q] = n /\ q \in DOMAIN live'
    BY <2>5, PrimedApart
  <2>7. \A y \in DOMAIN live \ {p} : y # q => live'[y] = live[y]
    BY <2>3, <2>5
  <2>8. CASE q = p
    <3>1. DOMAIN live' = DOMAIN live \cup {p}
      BY <2>3, <2>5, <2>8
    <3>2. Promise!Holds(live', p, n)
      BY <3>1, <2>6, <2>7, <2>8 DEF Promise!Holds
    <3> QED BY <3>2, <2>6, <2>8 DEF Promise!Resize
  <2>9. CASE q \notin DOMAIN live /\ q # 0
    <3>1. DOMAIN live' = (DOMAIN live \ {p}) \cup {q}
      BY <2>3, <2>5
    <3>2. \A y \in DOMAIN live \ {p} : live'[y] = live[y]
      BY <2>7, <2>9
    <3>3. q \in DOMAIN live' \ DOMAIN live
      BY <2>6, <2>9
    <3> QED BY <3>1, <3>2, <3>3, <2>6, <2>9 DEF Promise!Resize
  <2> QED BY <2>4, <2>8, <2>9
<1> QED BY <1>4, <1>6

LEMMA FreeImplements ==
    ASSUME Inv, NEW p \in DOMAIN live \cup {NULL}, Free(p)
    PROVE  (p \in DOMAIN live /\ Promise!Release(p)) \/ live' = live
<1>1. live' = [y \in DOMAIN live \ {p} |-> live[y]]
  BY DEF Free, Drop
<1>2. CASE p \in DOMAIN live
  BY <1>1, <1>2 DEF Promise!Release
<1>3. CASE p \notin DOMAIN live
  <2>1. DOMAIN live \ {p} = DOMAIN live /\ live = [y \in DOMAIN live |-> live[y]]
    BY <1>3 DEF Inv, LiveOK
  <2> QED BY <1>1, <2>1
<1> QED BY <1>2, <1>3

(* malloc_impl.c implements the abstract allocator.                        *)
THEOREM Implements == Spec => ImplementsAllocator
<1>1. Init => Promise!Init
  BY DEF Init, Promise!Init, NoWords
<1>2. Inv /\ Inv' /\ [Next]_vars => [Promise!Next]_live
  <2> SUFFICES ASSUME Inv, Inv', [Next]_vars PROVE [Promise!Next]_live
    OBVIOUS
  <2>1. CASE UNCHANGED vars
    BY <2>1 DEF vars
  <2>2. CASE Next
    <3>1. CASE \E q \in BrkRanges : malloc_config(q[1], q[2])
      BY <3>1 DEF malloc_config
    <3>2. CASE \E n \in Requests : Malloc(n)
      BY <3>2, MallocImplements DEF Promise!Next
    <3>3. CASE \E p \in DOMAIN live, n \in Requests : Realloc(p, n)
      BY <3>3, ReallocImplements DEF Promise!Next
    <3>4. CASE \E p \in DOMAIN live \cup {NULL} : Free(p)
      BY <3>4, FreeImplements DEF Promise!Next
    <3> QED BY <2>2, <3>1, <3>2, <3>3, <3>4 DEF Next
  <2> QED BY <2>1, <2>2
<1> QED BY <1>1, <1>2, InvHolds, PTL DEF Spec, ImplementsAllocator, Promise!Spec

-----------------------------------------------------------------------------
(* malloc gives up.                                                        *)

\* A free chunk of a bin below bin_index_up(n) is smaller than 5/4 of n.
LEMMA BinMiss ==
    ASSUME NEW m \in Nat, NEW n \in Nat, n >= 32, m >= 32, m % 32 = 0, n % 32 = 0,
           n < CKB_MMAP_THRESHOLD, bin_index(m) < bin_index_up(n)
    PROVE  4 * m < 5 * n
<1> DEFINE x == m \div 32 - 1
           y == n \div 32 - 1
<1>1. x \in Nat /\ y \in Nat /\ m = 32 * x + 32 /\ n = 32 * y + 32 /\ y < 7167
  BY DEF CKB_MMAP_THRESHOLD, CKB_SIZE_ALIGN
<1>2. 4 * x < 5 * y + 1
  BY <1>1 DEF bin_index, bin_index_up, bin_tab, CKB_MMAP_THRESHOLD, CKB_SIZE_ALIGN
<1> QED BY <1>1, <1>2

BreakOf(h) == IF h.brk = 0 THEN RoundUp(h.brk_min, CKB_PAGE_SIZE) ELSE h.brk

\* The break cannot be raised; only its first value is remembered.
LEMMA ExpandFails ==
    ASSUME NEW h, HeapOK(h), NEW want \in Nat, expand_heap(h, want).ptr = NULL
    PROVE  /\ expand_heap(h, want).heap = [h EXCEPT !.brk = BreakOf(h)]
           /\ BreakOf(h) + RoundUp(want + CKB_SIZE_ALIGN, CKB_PAGE_SIZE) > h.brk_max
<1> DEFINE grow == RoundUp(want + CKB_SIZE_ALIGN, CKB_PAGE_SIZE)
           brk == BreakOf(h)
           r == expand_heap(h, want)
<1>1. brk \in Nat /\ brk % 4096 = 0 /\ brk > 0
  <2>1. h.brk \in Nat /\ h.brk_min \in Nat /\ h.brk % 4096 = 0 /\ h.brk_min > 0
    BY DEF HeapOK, Shape, Typed, Region
  <2> QED BY <2>1, RoundUpFacts DEF BreakOf, CKB_PAGE_SIZE
<1>2. CASE brk + grow > h.brk_max
  <2>1. _sbrk(h, grow) = [heap |-> [h EXCEPT !.brk = brk], ptr |-> -1]
    BY <1>2 DEF _sbrk, BreakOf
  <2> HIDE DEF grow, brk
  <2>2. r = [heap |-> [h EXCEPT !.brk = brk], ptr |-> NULL]
    BY <2>1 DEF expand_heap, grow
  <2> QED BY <2>2, <1>2 DEF grow, brk
<1>3. CASE ~(brk + grow > h.brk_max)
  <2>1. _sbrk(h, grow).ptr = brk
    BY <1>3 DEF _sbrk, BreakOf
  <2>2. brk \in Nat /\ brk # -1 /\ brk - 16 # 0 /\ brk + 32 - 16 # 0
    BY <1>1
  <2> DEFINE s == _sbrk(h, grow)
  <2>3. r = IF s.ptr = -1 THEN [heap |-> s.heap, ptr |-> NULL]
            ELSE IF s.ptr = h.end
            THEN [heap |-> new_chunk(s.heap, ToChunk(s.ptr), grow, FALSE), ptr |-> ToChunk(s.ptr)]
            ELSE [heap |-> new_chunk(s.heap, ToChunk(s.ptr + CKB_SIZE_ALIGN),
                                     grow - CKB_SIZE_ALIGN, TRUE),
                  ptr |-> ToChunk(s.ptr + CKB_SIZE_ALIGN)]
    BY DEF expand_heap
  <2> HIDE DEF grow, brk, s, r
  <2>4. s.ptr # -1 /\ ToChunk(s.ptr) # NULL /\ ToChunk(s.ptr + CKB_SIZE_ALIGN) # NULL
    BY <2>1, <2>2 DEF s, ToChunk, NULL, CKB_OVERHEAD, CKB_SIZE_ALIGN
  <2>5. r.ptr # NULL
    BY <2>3, <2>4
  <2> QED BY <2>5 DEF r
<1> QED BY <1>2, <1>3

LEMMA FreeSizes ==
    ASSUME NEW h, HeapOK(h), NEW c \in FreeChunks(h)
    PROVE  /\ c \in Nat /\ ToMem(c) # NULL
           /\ ChunkSize(h, c) \in Nat /\ ChunkSize(h, c) % 32 = 0 /\ ChunkSize(h, c) >= 32
<1>1. c \in Headers(h) /\ Shape(h) /\ h.csize[c].inuse = 0
  BY DEF FreeChunks, HeapOK
<1>2. /\ c \in Nat /\ ChunkSize(h, c) \in Nat /\ ChunkSize(h, c) = h.csize[c].size
      /\ h.csize[c].size > 0 /\ h.csize[c].size % 32 = 0
  BY <1>1, TypedFacts, FreeFacts DEF Shape, Placed, PlacedAt
<1> QED BY <1>2 DEF ToMem, NULL, CKB_OVERHEAD

\* malloc returns NULL only for a size it refuses, or with nothing in the bins
\* it looks at and no room to grow.
LEMMA MallocFails ==
    ASSUME NEW h, HeapOK(h), NEW req \in Nat, malloc(h, req).ptr = NULL
    PROVE  LET n == adjust_size(req)
           IN  /\ malloc(h, req).heap = [h EXCEPT !.brk = malloc(h, req).heap.brk]
               /\ n # -1 /\ n < CKB_MMAP_THRESHOLD =>
                    /\ NonEmptyBins(h, bin_index_up(n)) = {}
                    /\ BreakOf(h) + RoundUp(n + CKB_SIZE_ALIGN, CKB_PAGE_SIZE) > h.brk_max
<1> DEFINE n == adjust_size(req)
           i == bin_index_up(n)
           S == NonEmptyBins(h, i)
           j == Min(S)
           g == expand_heap(h, n)
           r == malloc(h, req)
<1>0. IsRec(h)
  BY DEF HeapOK, Shape, Typed
<1>1. CASE n = -1 \/ n >= CKB_MMAP_THRESHOLD
  <2>1. r = [heap |-> h, ptr |-> NULL]
    BY <1>1 DEF malloc
  <2>2. h = [h EXCEPT !.brk = h.brk]
    BY <1>0 DEF IsRec, Fields
  <2>3. n = -1 \/ ~(n < CKB_MMAP_THRESHOLD)
    BY <1>1, AdjustFacts DEF CKB_MMAP_THRESHOLD, CKB_SIZE_ALIGN
  <2> HIDE DEF r, n
  <2>4. r.heap = [h EXCEPT !.brk = r.heap.brk]
    BY <2>1, <2>2
  <2> QED BY <2>3, <2>4 DEF r, n
<1>2. CASE ~(n = -1 \/ n >= CKB_MMAP_THRESHOLD)
  <2>1. n \in Nat
    BY <1>2, AdjustFacts
  <2>2. ~ExactFit(h, i, n)
    <3> SUFFICES ASSUME ExactFit(h, i, n) PROVE FALSE
      OBVIOUS
    <3>1. h.next[i] \in FreeChunks(h)
      BY BinnedIsFree DEF ExactFit
    <3>2. r = [heap |-> unbin(h, h.next[i], i), ptr |-> ToMem(h.next[i])]
      BY <1>2 DEF malloc
    <3> HIDE DEF r, i, n
    <3>3. r.ptr = ToMem(h.next[i])
      BY <3>2
    <3> QED BY <3>1, <3>3, FreeSizes DEF r
  <2>3. S = {}
    <3> SUFFICES ASSUME S # {} PROVE FALSE
      OBVIOUS
    <3>1. r = [heap |-> trim(unbin(h, h.next[j], j), h.next[j], n), ptr |-> ToMem(h.next[j])]
      BY <1>2, <2>2 DEF malloc
    <3>2. S \subseteq Nat /\ \A x \in S : x \in h.binmap /\ h.next[x] # x
      BY DEF NonEmptyBins, HeapOK, Lists, Bins
    <3>3. j \in S
      <4> HIDE DEF S
      <4> QED BY <3>2, MinFacts
    <3>4. j \in h.binmap /\ h.next[j] # j
      BY <3>2, <3>3
    <3> HIDE DEF r, n, j
    <3>5. h.next[j] \in FreeChunks(h)
      BY <3>4, BinnedIsFree
    <3>6. r.ptr = ToMem(h.next[j])
      BY <3>1
    <3> QED BY <3>5, <3>6, FreeSizes DEF r
  <2>4. r = IF g.ptr = NULL THEN [heap |-> g.heap, ptr |-> NULL]
            ELSE [heap |-> trim(g.heap, g.ptr, n), ptr |-> ToMem(g.ptr)]
    BY <1>2, <2>2, <2>3 DEF malloc
  <2>5. g.ptr = NULL
    <3> SUFFICES ASSUME g.ptr # NULL PROVE FALSE
      OBVIOUS
    <3> HIDE DEF n
    <3>1. Grants(h, g.heap, g.ptr, n)
      BY <2>1, ExpandOK
    <3> HIDE DEF g, r
    <3>2. g.ptr \in Nat /\ r.ptr = ToMem(g.ptr)
      BY <3>1, <2>4, GrantFacts
    <3> QED BY <3>2 DEF r, ToMem, NULL, CKB_OVERHEAD
  <2> HIDE DEF n, S
  <2>6. /\ g.heap = [h EXCEPT !.brk = BreakOf(h)]
        /\ BreakOf(h) + RoundUp(n + CKB_SIZE_ALIGN, CKB_PAGE_SIZE) > h.brk_max
    BY <2>1, <2>5, ExpandFails
  <2> HIDE DEF r, g
  <2>7. r.heap = [h EXCEPT !.brk = BreakOf(h)]
    BY <2>4, <2>5, <2>6
  <2>8. r.heap.brk = BreakOf(h)
    BY <2>7, <1>0, BrkFields
  <2>9. r.heap = [h EXCEPT !.brk = r.heap.brk]
    BY <2>7, <2>8
  <2> QED BY <2>3, <2>6, <2>9 DEF r, n, S
<1> QED BY <1>1, <1>2

LEMMA Below ==
    ASSUME NEW m, NEW k \in Nat, m \in 1..(k - 1)
    PROVE  m # -1 /\ m < k
OBVIOUS

LEMMA MallocExact ==
    ASSUME Inv, NEW req \in Nat
    PROVE  /\ FailsOnlyWhenFull(adjust_size(req), malloc(heap, req))
           /\ FailureKeepsHeap(malloc(heap, req))
<1> DEFINE n == adjust_size(req)
           r == malloc(heap, req)
<1>1. HeapOK(heap)
  BY DEF Inv
<1>2. FailureKeepsHeap(r)
  BY <1>1, MallocFails DEF FailureKeepsHeap
<1>3. ASSUME n \in 1..(CKB_MMAP_THRESHOLD - 1), r.ptr = NULL
      PROVE  /\ \A c \in FreeChunks(heap) : 4 * ChunkSize(heap, c) < 5 * n
             /\ FirstBreak + RoundUp(n + CKB_SIZE_ALIGN, CKB_PAGE_SIZE) > heap.brk_max
  <2>1. /\ n \in Nat /\ n >= 32 /\ n % 32 = 0 /\ n < CKB_MMAP_THRESHOLD /\ n # -1
    <3>1. n # -1 /\ n < CKB_MMAP_THRESHOLD
      <4>1. CKB_MMAP_THRESHOLD \in Nat
        BY DEF CKB_MMAP_THRESHOLD, CKB_SIZE_ALIGN
      <4> QED BY <1>3, <4>1, Below
    <3> QED BY <3>1, AdjustFacts
  <2>2. /\ NonEmptyBins(heap, bin_index_up(n)) = {}
        /\ BreakOf(heap) + RoundUp(n + CKB_SIZE_ALIGN, CKB_PAGE_SIZE) > heap.brk_max
    BY <1>1, <1>3, <2>1, MallocFails
  <2> HIDE DEF n, r
  <2>3. ASSUME NEW c \in FreeChunks(heap) PROVE 4 * ChunkSize(heap, c) < 5 * n
    <3> DEFINE m == ChunkSize(heap, c)
               k == bin_index(m)
    <3>1. m \in Nat /\ m % 32 = 0 /\ m >= 32
      BY <1>1, FreeSizes
    <3>2. k \in heap.binmap
      BY <1>1, BinHasBit
    <3>3. heap.next[k] # k /\ k \in Bins
      BY <3>2, <1>1 DEF HeapOK, Lists, BitsExact
    <3>4. ~(k >= bin_index_up(n))
      BY <2>2, <3>2, <3>3 DEF NonEmptyBins
    <3>5. k \in Int /\ bin_index_up(n) \in Int
      BY <3>3, <2>1 DEF Bins, bin_index_up, bin_tab, CKB_MMAP_THRESHOLD, CKB_SIZE_ALIGN
    <3> HIDE DEF m
    <3>6. bin_index(m) < bin_index_up(n)
      BY <3>4, <3>5
    <3>7. 4 * m < 5 * n
      BY <3>1, <3>6, <2>1, BinMiss
    <3> QED BY <3>7 DEF m
  <2> QED BY <2>2, <2>3 DEF BreakOf, FirstBreak
<1> QED BY <1>2, <1>3 DEF FailsOnlyWhenFull
-----------------------------------------------------------------------------
(* realloc.                                                                *)

\* Whether and where realloc has n bytes, and how many bytes of data survive.
LEMMA ReallocForms ==
    ASSUME NEW h, HeapOK(h), NEW c \in UsedChunks(h), NEW req \in Nat, NEW up
    PROVE  LET n == adjust_size(req)
               n0 == ChunkSize(h, c)
               r == realloc(h, ToMem(c), req, up)
               new == malloc(h, n - CKB_OVERHEAD)
           IN  \/ n = -1 /\ r.ptr = NULL /\ r.heap = h
               \/ /\ n # -1 /\ n <= n0 /\ r.ptr = ToMem(c) /\ r.heap = h
                  /\ r.kept = n0 - CKB_OVERHEAD
               \/ /\ n # -1 /\ r.ptr = ToMem(c)
                  /\ r.kept = (IF n < n0 THEN n ELSE n0) - CKB_OVERHEAD
               \/ /\ n # -1 /\ new.ptr = NULL /\ r.ptr = NULL /\ r.heap = new.heap
                  /\ n <= n0 => BetterMoved(h, n0, up)
               \/ /\ n # -1 /\ r.ptr = new.ptr /\ new.ptr # NULL
                  /\ r.kept = (IF n < n0 THEN n ELSE n0) - CKB_OVERHEAD
<1> DEFINE n == adjust_size(req)
           p == ToMem(c)
           n0 == ChunkSize(h, c)
           next == NextChunk(h, c)
           nsize == IF h.csize[next].inuse = 1 THEN 0 ELSE ChunkSize(h, next)
           new == malloc(h, n - CKB_OVERHEAD)
           r == realloc(h, p, req, up)
<1>1. /\ n0 \in Nat /\ ToChunk(p) = c /\ h.psize[next] = h.csize[c]
  <2>1. c \in Headers(h) /\ h.csize[c].size > 0 /\ Shape(h)
    BY DEF HeapOK, UsedChunks
  <2> QED BY <2>1, UsedFacts, FreeFacts
<1>2. n = -1 \/ n \in Nat
  BY AdjustFacts
<1>3. CASE n = -1
  <2>1. r = [heap |-> h, ptr |-> NULL, kept |-> 0]
    BY <1>3 DEF realloc
  <2> HIDE DEF r
  <2>2. r.ptr = NULL /\ r.heap = h
    BY <2>1
  <2> QED BY <2>2, <1>3 DEF r
<1>4. CASE n # -1 /\ n <= n0 /\ n0 - n <= CKB_DONTCARE
  <2>1. r = [heap |-> h, ptr |-> p, kept |-> n0 - CKB_OVERHEAD]
    BY <1>1, <1>4 DEF realloc
  <2> HIDE DEF r
  <2>2. r.ptr = p /\ r.heap = h /\ r.kept = n0 - CKB_OVERHEAD
    BY <2>1
  <2> QED BY <2>2, <1>4 DEF r
<1>5. CASE /\ n # -1 /\ ~(n <= n0 /\ n0 - n <= CKB_DONTCARE)
           /\ n < n0 /\ ~BetterMoved(h, n0, up)
  <2>1. r = [heap |-> release_chunk(split_chunk(h, c, n, 1), c + n), ptr |-> p,
             kept |-> n - CKB_OVERHEAD]
    BY <1>1, <1>5 DEF realloc
  <2> HIDE DEF r
  <2>2. r.ptr = p /\ r.kept = n - CKB_OVERHEAD
    BY <2>1
  <2> QED BY <2>2, <1>5 DEF r
<1>6. CASE /\ n # -1 /\ ~(n <= n0 /\ n0 - n <= CKB_DONTCARE)
           /\ ~(n < n0 /\ ~BetterMoved(h, n0, up))
           /\ n > n0 /\ nsize # 0 /\ n0 + nsize >= n
  <2>1. r = [heap |-> trim(tag(unbin(h, next, bin_index(nsize)), c, n0 + nsize, 1), c, n),
             ptr |-> p, kept |-> n0 - CKB_OVERHEAD]
    BY <1>1, <1>6 DEF realloc
  <2> HIDE DEF r
  <2>2. r.ptr = p /\ r.kept = n0 - CKB_OVERHEAD
    BY <2>1
  <2>3. ~(n < n0)
    BY <1>1, <1>2, <1>6
  <2> QED BY <2>2, <2>3, <1>6 DEF r
<1>7. CASE /\ n # -1 /\ ~(n <= n0 /\ n0 - n <= CKB_DONTCARE)
           /\ ~(n < n0 /\ ~BetterMoved(h, n0, up))
           /\ ~(n > n0 /\ nsize # 0 /\ n0 + nsize >= n)
  <2>1. r = IF new.ptr = NULL THEN [heap |-> new.heap, ptr |-> NULL, kept |-> 0]
            ELSE [heap |-> free(new.heap, p), ptr |-> new.ptr,
                  kept |-> (IF n < n0 THEN n ELSE n0) - CKB_OVERHEAD]
    BY <1>1, <1>7 DEF realloc, copy_realloc
  <2> HIDE DEF r, new, n, n0
  <2>3. n <= n0 => BetterMoved(h, n0, up)
    BY <1>1, <1>2, <1>7 DEF CKB_DONTCARE
  <2>2. \/ new.ptr = NULL /\ r.ptr = NULL /\ r.heap = new.heap
        \/ /\ r.ptr = new.ptr /\ new.ptr # NULL
           /\ r.kept = (IF n < n0 THEN n ELSE n0) - CKB_OVERHEAD
    BY <2>1
  <2> QED BY <2>2, <2>3, <1>7 DEF r, new, n, n0
<1> QED BY <1>3, <1>4, <1>5, <1>6, <1>7

LEMMA SizesAre32 ==
    ASSUME NEW h, HeapOK(h), NEW c \in UsedChunks(h)
    PROVE  ChunkSize(h, c) \in Nat /\ ChunkSize(h, c) % 32 = 0 /\ ChunkSize(h, c) > 0
<1>1. c \in Headers(h) /\ h.csize[c].size > 0 /\ PlacedAt(h, c)
  BY DEF HeapOK, Shape, Placed, UsedChunks
<1> QED BY <1>1, UsedFacts DEF PlacedAt, ChunkSize

\* A chunk with room for a request has room for the size it is adjusted to.
LEMMA AdjustFits ==
    ASSUME NEW req \in Nat, NEW m \in Nat, m % 32 = 0, m > 0, m >= req + 16,
           adjust_size(req) # -1
    PROVE  m >= adjust_size(req)
<1>1. CASE req = 0
  BY <1>1 DEF adjust_size, CKB_SIZE_ALIGN
<1>2. CASE req # 0
  <2>1. adjust_size(req) = RoundUp(req + 16, 32)
    BY <1>2 DEF adjust_size, CKB_SIZE_ALIGN, CKB_OVERHEAD
  <2> QED BY <2>1 DEF RoundUp
<1> QED BY <1>1, <1>2

\* Adjusting an adjusted size, as copy_realloc does, changes nothing.
LEMMA AdjustTwice ==
    ASSUME NEW n \in Nat, n >= 32, n % 32 = 0, n < CKB_MMAP_THRESHOLD
    PROVE  adjust_size(n - CKB_OVERHEAD) = n
<1>1. SIZE_LIMIT \in Nat /\ SIZE_LIMIT >= CKB_MMAP_THRESHOLD /\ CKB_MMAP_THRESHOLD \in Nat
  BY LimitAssumption DEF CKB_MMAP_THRESHOLD, CKB_SIZE_ALIGN
<1>2. n - 16 # 0 /\ ~(n - 16 - 1 > SIZE_LIMIT)
  BY <1>1
<1>3. RoundUp(n - 16 + 16, 32) = n
  BY DEF RoundUp
<1> QED BY <1>2, <1>3 DEF adjust_size, CKB_OVERHEAD, CKB_SIZE_ALIGN

\* The client holds blocks of supported sizes only.
Served == \A p \in DOMAIN live : adjust_size(live[p]) # -1

LEMMA HeldBlock ==
    ASSUME Inv, NEW p \in DOMAIN live
    PROVE  \E c \in UsedChunks(heap) : p = ToMem(c) /\ live[p] + 16 <= ChunkSize(heap, c)
BY DEF Inv, LiveOK

LEMMA ReallocKeepsData ==
    ASSUME Inv, Served, NEW p \in DOMAIN live, NEW req \in Nat, NEW up
    PROVE  KeepsData(p, req, realloc(heap, p, req, up))
<1> DEFINE n == adjust_size(req)
           r == realloc(heap, p, req, up)
<1>1. HeapOK(heap) /\ live[p] \in Nat
  BY DEF Inv, LiveOK
<1>2. PICK c \in UsedChunks(heap) : p = ToMem(c) /\ live[p] + 16 <= ChunkSize(heap, c)
  BY HeldBlock
<1> DEFINE n0 == ChunkSize(heap, c)
<1>3. n0 \in Nat /\ n0 % 32 = 0 /\ n0 > 0 /\ ToChunk(p) = c /\ p # NULL
  BY <1>1, <1>2, SizesAre32, UsedFacts
<1>4. SUFFICES ASSUME r.ptr # NULL
               PROVE  /\ r.kept >= Min({live[p], req})
                      /\ r.kept <= n0 - CKB_OVERHEAD
                      /\ r.kept <= ChunkSize(r.heap, ToChunk(r.ptr)) - CKB_OVERHEAD
  BY <1>3 DEF KeepsData
<1>5. PICK e \in Nat : r.ptr = ToMem(e) /\ Moves(heap, r.heap, c, e, req + 16)
  BY <1>1, <1>2, <1>4, ReallocOK
<1>6. HeapOK(r.heap) /\ e \in UsedChunks(r.heap) /\ ChunkSize(r.heap, e) >= req + 16
  BY <1>5 DEF Moves
<1>7. /\ n # -1
      /\ \/ n <= n0 /\ r.heap = heap /\ r.ptr = p /\ r.kept = n0 - CKB_OVERHEAD
         \/ r.kept = (IF n < n0 THEN n ELSE n0) - CKB_OVERHEAD
  BY <1>1, <1>2, <1>4, ReallocForms
<1>8. n \in Nat /\ n >= req + 16
  BY <1>7, AdjustFacts
<1>9. ToChunk(r.ptr) = e
  BY <1>5 DEF ToMem, ToChunk, CKB_OVERHEAD
<1> DEFINE m == ChunkSize(r.heap, e)
<1>10. m \in Nat /\ m % 32 = 0 /\ m > 0
  BY <1>6, SizesAre32
<1> HIDE DEF r, n0, m, n
<1>11. m >= n
  <2>1. m >= req + 16
    BY <1>6 DEF m
  <2> QED BY <2>1, <1>7, <1>10, AdjustFits DEF n
<1>12. Min({live[p], req}) <= live[p] /\ Min({live[p], req}) <= req /\ Min({live[p], req}) \in Nat
  <2>1. {live[p], req} \subseteq Nat /\ {live[p], req} # {}
    BY <1>1
  <2> QED BY <2>1, MinFacts
<1>13. live[p] + 16 <= n0
  BY <1>2 DEF n0
<1>14. CASE n <= n0 /\ r.heap = heap /\ r.ptr = p /\ r.kept = n0 - CKB_OVERHEAD
  <2>1. m = n0
    BY <1>3, <1>9, <1>14 DEF m, n0
  <2> QED BY <2>1, <1>1, <1>3, <1>9, <1>12, <1>13, <1>14 DEF CKB_OVERHEAD, m
<1>15. CASE r.kept = (IF n < n0 THEN n ELSE n0) - CKB_OVERHEAD
  <2>1. r.kept = (IF n < n0 THEN n ELSE n0) - 16
    BY <1>15 DEF CKB_OVERHEAD
  <2>2. /\ r.kept \in Int /\ r.kept <= n0 - 16 /\ r.kept <= m - 16
        /\ r.kept >= Min({live[p], req})
    BY <2>1, <1>1, <1>3, <1>8, <1>10, <1>11, <1>12, <1>13
  <2> QED BY <2>2, <1>9 DEF CKB_OVERHEAD, m
<1> QED BY <1>7, <1>14, <1>15

LEMMA ReallocShrinks ==
    ASSUME Inv, Served, NEW p \in DOMAIN live, NEW req \in Nat,
           NEW up \in bin_index_ups(adjust_size(req))
    PROVE  ShrinkSucceeds(p, req, realloc(heap, p, req, up))
<1> DEFINE n == adjust_size(req)
           r == realloc(heap, p, req, up)
<1>1. HeapOK(heap) /\ live[p] \in Nat
  BY DEF Inv, LiveOK
<1>2. PICK c \in UsedChunks(heap) : p = ToMem(c) /\ live[p] + 16 <= ChunkSize(heap, c)
  BY HeldBlock
<1> DEFINE n0 == ChunkSize(heap, c)
           new == malloc(heap, n - CKB_OVERHEAD)
<1>3. n0 \in Nat /\ n0 % 32 = 0 /\ n0 > 0 /\ p # NULL
  BY <1>1, <1>2, SizesAre32, UsedFacts
<1>4. SUFFICES ASSUME req <= live[p], n < CKB_MMAP_THRESHOLD
               PROVE  r.ptr # NULL
  BY DEF ShrinkSucceeds
<1>5. n # -1
  <2>1. adjust_size(live[p]) # -1
    BY DEF Served
  <2>2. live[p] = 0 \/ live[p] - 1 <= SIZE_LIMIT
    BY <2>1, <1>1, LimitAssumption DEF adjust_size
  <2>3. req = 0 \/ ~(req - 1 > SIZE_LIMIT)
    BY <2>2, <1>1, <1>4, LimitAssumption
  <2> QED BY <2>3, RoundUpFacts DEF adjust_size, CKB_SIZE_ALIGN, CKB_OVERHEAD
<1>6. n \in Nat /\ n >= 32 /\ n % 32 = 0
  BY <1>5, AdjustFacts
<1>7. n <= n0
  <2>1. n0 >= req + 16
    BY <1>1, <1>2, <1>3, <1>4
  <2> HIDE DEF n0
  <2>2. n0 >= n
    BY <2>1, <1>3, <1>5, AdjustFits
  <2> QED BY <2>2, <1>3, <1>6
<1>8. SUFFICES ASSUME BetterMoved(heap, n0, up) PROVE new.ptr # NULL
  <2>1. \/ r.ptr = p
        \/ new.ptr = NULL /\ r.ptr = NULL /\ (n <= n0 => BetterMoved(heap, n0, up))
        \/ r.ptr = new.ptr /\ new.ptr # NULL
    BY <1>1, <1>2, <1>5, ReallocForms
  <2> HIDE DEF r, new, n, n0
  <2> QED BY <2>1, <1>3, <1>7
\* The bin whose bit realloc has seen is one malloc looks at.
<1>9. up = bin_index_up(n)
  <2>1. ~PastBinTab(n)
    <3> HIDE DEF n
    <3> QED BY <1>4, <1>6 DEF PastBinTab, CKB_MMAP_THRESHOLD, CKB_SIZE_ALIGN
  <2> QED BY <2>1 DEF bin_index_ups
<1>10. up \in NonEmptyBins(heap, bin_index_up(n))
  <2>1. up \in heap.binmap /\ heap.next[up] # up /\ up \in Nat
    BY <1>1, <1>8 DEF BetterMoved, HeapOK, Lists, BitsExact, Bins
  <2> HIDE DEF n
  <2> QED BY <2>1, <1>9 DEF NonEmptyBins
<1> HIDE DEF n
<1>11. adjust_size(n - CKB_OVERHEAD) = n /\ n - CKB_OVERHEAD \in Nat
  BY <1>4, <1>6, AdjustTwice DEF CKB_OVERHEAD
<1> QED BY <1>1, <1>4, <1>5, <1>10, <1>11, MallocFails

LEMMA ReallocKeepsHeap ==
    ASSUME Inv, NEW p \in DOMAIN live, NEW req \in Nat, NEW up
    PROVE  FailureKeepsHeap(realloc(heap, p, req, up))
<1> DEFINE n == adjust_size(req)
           r == realloc(heap, p, req, up)
           new == malloc(heap, n - CKB_OVERHEAD)
<1>1. HeapOK(heap) /\ IsRec(heap)
  BY DEF Inv, HeapOK, Shape, Typed
<1>2. PICK c \in UsedChunks(heap) : p = ToMem(c)
  BY HeldBlock
<1>3. SUFFICES ASSUME r.ptr = NULL PROVE r.heap = [heap EXCEPT !.brk = r.heap.brk]
  BY DEF FailureKeepsHeap
<1>4. p # NULL
  BY <1>1, <1>2, UsedFacts
<1>5. r.heap = heap \/ (n # -1 /\ new.ptr = NULL /\ r.heap = new.heap)
  BY <1>1, <1>2, <1>3, <1>4, ReallocForms
<1>6. CASE r.heap = heap
  <2> HIDE DEF r
  <2>1. heap = [heap EXCEPT !.brk = heap.brk]
    BY <1>1 DEF IsRec, Fields
  <2> QED BY <2>1, <1>6
<1>7. CASE n # -1 /\ new.ptr = NULL /\ r.heap = new.heap
  <2>1. n - CKB_OVERHEAD \in Nat
    BY <1>7, AdjustFacts DEF CKB_OVERHEAD
  <2> HIDE DEF n, r
  <2>2. new.heap = [heap EXCEPT !.brk = new.heap.brk]
    BY <2>1, <1>1, <1>7, MallocFails
  <2> QED BY <2>2, <1>7
<1> QED BY <1>5, <1>6, <1>7

-----------------------------------------------------------------------------
(* The empty heap.                                                         *)

LEMMA InvWhole == Inv => EmptyHeapIsWhole
<1> SUFFICES ASSUME Inv, live = NoWords, heap.end # 0
             PROVE  \E c \in FreeChunks(heap) :
                        /\ Headers(heap) = {c, ToChunk(heap.end)}
                        /\ heap.psize[c] = Word(0, 1)
  BY DEF EmptyHeapIsWhole
<1> DEFINE last == heap.end - 16
<1>1. HeapOK(heap) /\ Shape(heap) /\ Typed(heap)
  BY DEF Inv, HeapOK, Shape
<1>2. last \in Headers(heap) /\ heap.psize[last].size > 0
  BY <1>1 DEF Shape, Region
<1>3. \A c \in Headers(heap) : c # last => c \in FreeChunks(heap)
  <2> SUFFICES ASSUME NEW c \in Headers(heap), c # last PROVE heap.csize[c].inuse = 0
    BY DEF FreeChunks
  <2>1. c \notin UsedChunks(heap)
    BY DEF Inv, LiveOK, NoWords
  <2>2. heap.csize[c].size > 0
    BY <1>1, TypedFacts DEF Shape, Placed, PlacedAt
  <2> QED BY <2>1, <2>2, <1>1, TypedFacts DEF UsedChunks
<1>4. \A c \in FreeChunks(heap) :
        c \in Headers(heap) /\ NextChunk(heap, c) = last /\ c \in Nat /\ c < last
  <2> SUFFICES ASSUME NEW c \in FreeChunks(heap)
               PROVE  c \in Headers(heap) /\ NextChunk(heap, c) = last /\ c \in Nat /\ c < last
    OBVIOUS
  <2>1. c \in Headers(heap) /\ heap.csize[c].inuse = 0
    BY DEF FreeChunks
  <2>2. NextChunk(heap, c) \in Headers(heap) /\ c < NextChunk(heap, c)
    BY <2>1, <1>1, FreeFacts
  <2>3. heap.csize[NextChunk(heap, c)].inuse = 1
    BY <2>1, <1>1 DEF HeapOK, Merged
  <2>4. NextChunk(heap, c) = last
    BY <2>2, <2>3, <1>3 DEF FreeChunks
  <2> QED BY <2>1, <2>2, <2>4, <1>1, TypedFacts
<1> DEFINE c == PrevChunk(heap, last)
<1>5. c \in Headers(heap) /\ heap.csize[c] = heap.psize[last]
  BY <1>1, <1>2 DEF Shape, Backward
<1>6. c # last
  BY <1>1, <1>2, TypedFacts DEF PrevChunk
<1>7. c \in FreeChunks(heap)
  BY <1>3, <1>5, <1>6
<1> HIDE DEF c, last
<1>8. ASSUME NEW d \in FreeChunks(heap) PROVE d = c
  <2>1. ~(c < d) /\ ~(d < c)
    <3>1. /\ NextChunk(heap, c) = last /\ NextChunk(heap, d) = last
          /\ c < last /\ d < last /\ c \in Nat /\ d \in Nat
      BY <1>4, <1>7
    <3>2. c < d => last <= d
      BY <3>1, <1>1, <1>4, <1>7 DEF Shape, NoOverlap
    <3>3. d < c => last <= c
      BY <3>1, <1>1, <1>4, <1>7 DEF Shape, NoOverlap
    <3>4. last \in Nat
      BY <1>1, <1>2, TypedFacts
    <3> QED BY <3>1, <3>2, <3>3, <3>4
  <2> QED BY <2>1, <1>4, <1>7
<1>9. Headers(heap) = {c, last}
  BY <1>2, <1>3, <1>5, <1>8
<1>10. heap.psize[c] = Word(0, 1)
  <2>1. heap.psize[c].size = 0
    <3> SUFFICES ASSUME heap.psize[c].size # 0 PROVE FALSE
      OBVIOUS
    <3> DEFINE d == PrevChunk(heap, c)
    <3>1. d \in Headers(heap) /\ heap.psize[c].size \in Nat /\ c \in Nat
      BY <1>1, <1>5, TypedFacts DEF Shape, Backward
    <3>2. d < c
      BY <3>1 DEF PrevChunk
    <3>3. c < last /\ last \in Nat
      BY <1>1, <1>2, <1>4, <1>7, TypedFacts
    <3>4. d = c \/ d = last
      BY <3>1, <1>9
    <3> HIDE DEF d
    <3> QED BY <3>1, <3>2, <3>3, <3>4
  <2>2. heap.psize[c].inuse = 1
    BY <2>1, <1>1, <1>5 DEF Shape, Backward
  <2> QED BY <2>1, <2>2, <1>1, <1>5, TypedFacts
<1> QED BY <1>7, <1>9, <1>10 DEF last, ToChunk, CKB_OVERHEAD

-----------------------------------------------------------------------------
(* The specification.                                                      *)

LEMMA MallocRefuses ==
    ASSUME NEW h, NEW req, adjust_size(req) = -1
    PROVE  malloc(h, req).ptr = NULL
<1> DEFINE r == malloc(h, req)
<1>1. r = [heap |-> h, ptr |-> NULL]
  BY DEF malloc
<1> HIDE DEF r
<1>2. r.ptr = NULL
  BY <1>1
<1> QED BY <1>2 DEF r

LEMMA ServedHolds == Spec => []Served
<1>1. Init => Served
  BY DEF Init, NoWords, Served
<1>2. ASSUME Inv, Served, [Next]_vars PROVE Served'
  <2> USE <1>2
  <2>1. SUFFICES ASSUME NEW q \in DOMAIN live' PROVE adjust_size(live'[q]) # -1
    BY DEF Served
  <2>2. \A p \in DOMAIN live : adjust_size(live[p]) # -1
    BY DEF Served
  <2>3. CASE live' = live
    BY <2>2, <2>3
  <2>4. ASSUME NEW n \in Requests, Malloc(n) PROVE adjust_size(live'[q]) # -1
    <3> DEFINE r == malloc(heap, n)
    <3>1. live' = IF r.ptr = NULL THEN live ELSE Assign(live, r.ptr, n)
      BY <2>4 DEF Malloc
    <3>2. r.ptr # NULL => adjust_size(n) # -1
      BY MallocRefuses
    <3> HIDE DEF r
    <3> QED BY <3>1, <3>2, <2>2, AssignFacts
  <2>5. ASSUME NEW p \in DOMAIN live, NEW n \in Requests, Realloc(p, n)
        PROVE  adjust_size(live'[q]) # -1
    <3>1. PICK up \in bin_index_ups(adjust_size(n)) :
            live' = IF realloc(heap, p, n, up).ptr = NULL THEN live
                    ELSE Assign(Drop(live, p), realloc(heap, p, n, up).ptr, n)
      BY <2>5 DEF Realloc
    <3> DEFINE r == realloc(heap, p, n, up)
    <3>2. PICK c \in UsedChunks(heap) : p = ToMem(c)
      BY <2>5, HeldBlock
    <3>3. r.ptr # NULL => adjust_size(n) # -1
      BY <2>5, <3>2, RequestsAssumption, ReallocForms DEF Inv
    <3>4. live' = IF r.ptr = NULL THEN live ELSE Assign(Drop(live, p), r.ptr, n)
      BY <3>1
    <3> HIDE DEF r
    <3> QED BY <3>3, <3>4, <2>2, AssignFacts, DropFacts
  <2>6. ASSUME NEW p, Free(p) PROVE adjust_size(live'[q]) # -1
    BY <2>2, <2>6, DropFacts DEF Free
  <2>7. CASE UNCHANGED vars
    BY <2>3, <2>7 DEF vars
  <2>8. ASSUME NEW a, NEW b, malloc_config(a, b) PROVE adjust_size(live'[q]) # -1
    BY <2>3, <2>8 DEF malloc_config
  <2> QED BY <2>4, <2>5, <2>6, <2>7, <2>8 DEF Next
<1> QED BY <1>1, <1>2, InvHolds, PTL DEF Spec

(* Every call of malloc and realloc, made in any state that calls lead to: *)
(* NULL only when nothing is left, no data lost, no failing shrink, no     *)
(* trace of a failed call; and free makes an empty heap whole.             *)
THEOREM CallsAreExact == Spec => []CallsExact
<1>1. ASSUME Inv, Served PROVE CallsExact
  <2> USE <1>1
  <2>1. NeverCrashes
    BY DEF Inv, HeapOK, NeverCrashes
  <2>2. ASSUME NEW n \in Requests
        PROVE  \A r \in {malloc(heap, n)} :
                   FailsOnlyWhenFull(adjust_size(n), r) /\ FailureKeepsHeap(r)
    <3>1. n \in Nat
      BY RequestsAssumption
    <3> QED BY <3>1, MallocExact
  <2>3. ASSUME NEW n \in Requests, NEW p \in DOMAIN live,
               NEW up \in bin_index_ups(adjust_size(n))
        PROVE  \A r \in {realloc(heap, p, n, up)} :
                   KeepsData(p, n, r) /\ ShrinkSucceeds(p, n, r) /\ FailureKeepsHeap(r)
    <3>1. n \in Nat
      BY RequestsAssumption
    <3> QED BY <3>1, ReallocKeepsData, ReallocShrinks, ReallocKeepsHeap
  <2> QED BY <2>1, <2>2, <2>3, InvWhole DEF CallsExact
<1> QED BY <1>1, InvHolds, ServedHolds, PTL
=============================================================================
