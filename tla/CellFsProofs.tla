---------------------------- MODULE CellFsProofs ----------------------------
(***************************************************************************)
(* Proofs about CellFs, for any directories, any names without a NUL, any  *)
(* contents and any number of images mounted: what fs.lua packs is what    *)
(* ckb_cell_fs.c finds and what fs.lua unpacks, and nothing is leaked by   *)
(* the paths that fail.                                                    *)
(*                                                                         *)
(* The invariant says of the output file that it holds the files it was    *)
(* packed from (Holds): for each of them an entry, with the offset of the  *)
(* name and the NUL that ends it, and of the contents.  The rest is about  *)
(* the offsets: those computed in one loop of pack are the places where    *)
(* the other loop writes (FlattenedAt, PackHolds).                         *)
(***************************************************************************)
EXTENDS CellFs, Induction, FiniteSetTheorems

Text == Elements \cup Bytes \cup {NUL}
Part == [offset : Nat, length : Nat]
Entry == [filename : Part, content : Part]
Image == [count : Nat, entries : Seq(Entry), blob : Seq(Text)]
Node == [count : Nat, files : Seq(Entry), start : Seq(Text)]
Files == UNION {[D -> Seq(Bytes)] : D \in SUBSET Seq(Elements)}

(* t is in s behind its first a elements.                                  *)
Within(s, a, t) ==
    /\ a \in Nat /\ a + Len(t) <= Len(s)
    /\ \A k \in 1..Len(t) : s[a + k] = t[k]

(* The image has an entry for every file, in this order.                   *)
EntryOf(image, i, name, content) ==
    LET e == image.entries[i]
    IN  /\ Within(image.blob, e.filename.offset, Append(name, NUL))
        /\ e.filename.length = Len(name) + 1
        /\ Within(image.blob, e.content.offset, content)
        /\ e.content.length = Len(content)
Holds(image, order, files) ==
    /\ image \in Image /\ files \in Files /\ order \in Seq(DOMAIN files)
    /\ image.count = Len(order) /\ Len(image.entries) = Len(order)
    /\ \A name \in DOMAIN files : \E i \in 1..Len(order) : order[i] = name
    /\ \A i \in 1..Len(order) : EntryOf(image, i, order[i], files[order[i]])

Separated(p) == \A i \in 1..Len(p) - 1 : p[i] = "/" \/ p[i + 1] = "/"
NamesAFile(p) == Canonical(p) # <<>> /\ Canonical(p)[Len(Canonical(p))] # "/"

(* What the files were packed from: paths of files, and the names of those *)
(* in the image are these paths, normalized.                               *)
Packed ==
    /\ DOMAIN tree = {normalize_relative_path(p) : p \in packed}
    /\ \A p \in packed : p \in Seq(Elements) /\ Separated(p) /\ NamesAFile(p)

Inv ==
    /\ disk \in Disks /\ fs \in Seq(Node)
    /\ allocated \in Int /\ handed \in Int /\ dropped \in Int
    /\ outfile # Unusable => \E order : Holds(outfile, order, tree)
    /\ Packed
    /\ AllocationsAccounted
    /\ LookupExact

-----------------------------------------------------------------------------
(* Sequences.                                                              *)

LEMMA SubSeqWithin ==
    ASSUME NEW T, NEW s \in Seq(T), NEW t \in Seq(T), NEW a, Within(s, a, t)
    PROVE  SubSeq(s, a + 1, a + Len(t)) = t
<1> DEFINE r == SubSeq(s, a + 1, a + Len(t))
<1>1. a \in Nat /\ Len(s) \in Nat /\ Len(t) \in Nat /\ a + Len(t) <= Len(s)
  BY DEF Within
<1>2. r \in Seq(T) /\ Len(r) = Len(t)
  BY <1>1
<1>3. \A k \in 1..Len(t) : r[k] = s[a + k]
  BY <1>1
<1>4. \A k \in 1..Len(t) : r[k] = t[k]
  BY <1>3 DEF Within
<1> HIDE DEF r
<1>5. r = t
  BY <1>2, <1>4
<1> QED BY <1>5 DEF r

LEMMA WithinConcat ==
    ASSUME NEW T, NEW s \in Seq(T), NEW r \in Seq(T)
    PROVE  /\ s \o r \in Seq(T) /\ Len(s \o r) = Len(s) + Len(r)
           /\ Within(s \o r, Len(s), r)
           /\ \A a : \A t \in Seq(T) : Within(s, a, t) => Within(s \o r, a, t)
<1> DEFINE sr == s \o r
<1>1. sr \in Seq(T) /\ Len(sr) = Len(s) + Len(r) /\ Len(s) \in Nat /\ Len(r) \in Nat
  OBVIOUS
<1>2. \A k \in 1..Len(s) : sr[k] = s[k]
  BY <1>1
<1>3. \A k \in 1..Len(r) : sr[Len(s) + k] = r[k]
  BY <1>1
<1> HIDE DEF sr
<1>4. Within(sr, Len(s), r)
  BY <1>1, <1>3 DEF Within
<1>5. ASSUME NEW a, NEW t \in Seq(T), Within(s, a, t) PROVE Within(sr, a, t)
  <2>1. a \in Nat /\ Len(t) \in Nat /\ a + Len(t) <= Len(s)
    BY <1>5 DEF Within
  <2>2. \A k \in 1..Len(t) : a + k \in 1..Len(s)
    BY <1>1, <2>1
  <2>3. \A k \in 1..Len(t) : sr[a + k] = t[k]
    BY <1>2, <1>5, <2>2 DEF Within
  <2> QED BY <1>1, <2>1, <2>3 DEF Within
<1> QED BY <1>1, <1>4, <1>5 DEF sr

(* Sequences put one behind the other are where the sum of the lengths of  *)
(* those before them says.                                                 *)
LEMMA ConcatenatedAt ==
    ASSUME NEW T, NEW seqs \in Seq(Seq(T)), NEW start \in [1..(Len(seqs) + 1) -> Nat],
           start[1] = 0, \A i \in 1..Len(seqs) : start[i + 1] = start[i] + Len(seqs[i]),
           NEW f, f[0] = <<>>, \A i \in 1..Len(seqs) : f[i] = f[i - 1] \o seqs[i]
    PROVE  /\ f[Len(seqs)] \in Seq(T)
           /\ \A i \in 1..Len(seqs) : Within(f[Len(seqs)], start[i], seqs[i])
<1> DEFINE At(i) == /\ f[i] \in Seq(T) /\ Len(f[i]) = start[i + 1]
                    /\ \A j \in 1..i : Within(f[i], start[j], seqs[j])
<1>1. PICK n \in Nat : n = Len(seqs)
  OBVIOUS
<1>2. \A i \in 1..n : seqs[i] \in Seq(T)
  BY <1>1
<1>3. At(0)
  <2>1. f[0] \in Seq(T) /\ Len(f[0]) = 0 /\ start[0 + 1] = 0
    OBVIOUS
  <2> QED BY <2>1
<1>4. ASSUME NEW i \in 0..n, At(i), i < n PROVE At(i + 1)
  <2>1. i + 1 \in 1..n /\ (i + 1) - 1 = i /\ i \in Nat
    BY <1>4
  <2> DEFINE s == f[i]
             r == seqs[i + 1]
             a == start[i + 1]
  <2>2. /\ f[i + 1] = s \o r /\ start[(i + 1) + 1] = a + Len(r)
        /\ s \in Seq(T) /\ r \in Seq(T) /\ Len(s) = a
    BY <1>1, <1>2, <1>4, <2>1
  <2>3. \A j \in 1..i : Within(s, start[j], seqs[j]) /\ j \in 1..n
    BY <1>4
  <2> HIDE DEF s, r, a
  <2>4. s \o r \in Seq(T) /\ Len(s \o r) = a + Len(r)
    BY <2>2
  <2>5. Within(s \o r, a, r)
    BY <2>2, WithinConcat
  <2>6. \A j \in 1..i : Within(s \o r, start[j], seqs[j])
    BY <1>2, <2>2, <2>3, WithinConcat
  <2>7. \A j \in 1..(i + 1) : Within(s \o r, start[j], seqs[j])
    <3>1. \A j \in 1..(i + 1) : j \in 1..i \/ j = i + 1
      BY <2>1
    <3>2. Within(s \o r, start[i + 1], seqs[i + 1])
      BY <2>5 DEF a, r
    <3> QED BY <2>6, <3>1, <3>2
  <2> QED BY <2>2, <2>4, <2>7
<1>5. At(n)
  <2> DEFINE Good == {i \in 0..n : At(i)}
  <2> HIDE DEF At
  <2>1. 0 \in Good /\ \A i \in 0..n : i \in Good /\ i < n => i + 1 \in Good
    <3>1. 0 \in 0..n /\ \A i \in 0..n : i < n => i + 1 \in 0..n
      BY <1>1
    <3> QED BY <1>3, <1>4, <3>1
  <2> HIDE DEF Good
  <2>2. \A i \in 0..n : i \in Good
    BY <1>1, <2>1, InductionUpTo
  <2>3. n \in 0..n
    BY <1>1
  <2> QED BY <2>2, <2>3 DEF Good
<1> QED BY <1>1, <1>5

(* Where FlattenSeq puts the i-th of its sequences.                        *)
Laid(seqs, start) ==
    /\ start \in [1..(Len(seqs) + 1) -> Nat] /\ start[1] = 0
    /\ \A i \in 1..Len(seqs) : start[i + 1] = start[i] + Len(seqs[i])
LaidOut(flat, T, seqs, start) ==
    flat \in Seq(T) /\ \A i \in 1..Len(seqs) : Within(flat, start[i], seqs[i])

LEMMA FlattenedAt ==
    ASSUME NEW T, NEW seqs \in Seq(Seq(T)), NEW start, Laid(seqs, start)
    PROVE  LaidOut(FlattenSeq(seqs), T, seqs, start)
<1> USE DEF Laid, LaidOut
<1> DEFINE n == Len(seqs)
           Def(e) == e = [i \in 1..n |-> IF i = 1 THEN seqs[i] ELSE e[i - 1] \o seqs[i]]
           flat == CHOOSE e : Def(e)
<1>1. n \in Nat /\ \A i \in 1..n : seqs[i] \in Seq(T)
  OBVIOUS
<1>2. CASE n = 0
  BY <1>2 DEF FlattenSeq
<1>3. CASE n # 0
  <2>1. FlattenSeq(seqs) = flat[n]
    BY <1>3 DEF FlattenSeq
  <2>2. \E e : Def(e)
    <3> DEFINE step == [i \in 1..n |-> [l \in Seq(T) |-> l \o seqs[i]]]
    <3>1. step \in [1..n -> [Seq(T) -> Seq(T)]] /\ <<>> \in Seq(T)
      BY <1>1
    <3>2. \A i \in 1..n, l \in Seq(T) : step[i][l] = l \o seqs[i]
      OBVIOUS
    <3> HIDE DEF step, n
    <3>3. PICK f : Computes(f, n, Seq(T), <<>>, step)
      BY <1>1, <3>1, RecursionDefines
    <3> DEFINE e == [i \in 1..n |-> f[i]]
    <3>4. ASSUME NEW i \in 1..n PROVE e[i] = IF i = 1 THEN seqs[i] ELSE e[i - 1] \o seqs[i]
      <4>0. i - 1 \in 0..n
        BY <1>1
      <4>1. f[i] = step[i][f[i - 1]] /\ f[i - 1] \in Seq(T) /\ f[0] = <<>>
        BY <3>3, <4>0 DEF Computes
      <4>2. f[i] = f[i - 1] \o seqs[i]
        BY <3>2, <4>1
      <4>3. i = 1 => f[i] = seqs[i]
        <5> SUFFICES ASSUME i = 1 PROVE f[i] = seqs[i]
          OBVIOUS
        <5>1. i - 1 = 0
          OBVIOUS
        <5>2. f[i - 1] = <<>>
          BY <4>1, <5>1
        <5>3. f[i] = <<>> \o seqs[i] /\ seqs[i] \in Seq(T)
          BY <1>1, <4>2, <5>2
        <5> QED BY <5>3
      <4>4. i # 1 => i - 1 \in 1..n
        BY <1>1
      <4> QED BY <4>2, <4>3, <4>4
    <3>5. e = [i \in 1..n |-> IF i = 1 THEN seqs[i] ELSE e[i - 1] \o seqs[i]]
      BY <3>4
    <3> QED BY <3>5
  <2>3. Def(flat)
    BY <2>2
  <2> HIDE DEF flat
  <2>4. \A i \in 1..n : flat[i] = IF i = 1 THEN seqs[i] ELSE flat[i - 1] \o seqs[i]
    BY <2>3
  <2> DEFINE f == [i \in 0..n |-> IF i = 0 THEN <<>> ELSE flat[i]]
  <2>5. f[0] = <<>> /\ f[n] = flat[n]
    BY <1>1, <1>3
  <2>6. ASSUME NEW i \in 1..n PROVE f[i] = f[i - 1] \o seqs[i]
    <3>1. i \in 0..n /\ i # 0 /\ i - 1 \in 0..n
      BY <1>1
    <3>2. f[i] = flat[i]
      BY <3>1
    <3>3. CASE i = 1
      <4>1. f[i - 1] = <<>> /\ flat[i] = seqs[i] /\ seqs[i] \in Seq(T)
        BY <1>1, <2>4, <2>5, <3>3
      <4> HIDE DEF f
      <4>2. <<>> \o seqs[i] = seqs[i]
        BY <4>1
      <4> QED BY <3>2, <4>1, <4>2
    <3>4. CASE i # 1
      <4>1. i - 1 # 0
        BY <3>4
      <4>2. f[i - 1] = flat[i - 1]
        BY <3>1, <4>1
      <4> QED BY <2>4, <3>2, <3>4, <4>2
    <3> QED BY <3>3, <3>4
  <2> HIDE DEF f
  <2>7. f[n] \in Seq(T) /\ \A i \in 1..n : Within(f[n], start[i], seqs[i])
    BY <2>5, <2>6, ConcatenatedAt
  <2> QED BY <2>1, <2>5, <2>7
<1> QED BY <1>2, <1>3

-----------------------------------------------------------------------------
(* tools/fs.lua.                                                           *)

LEMMA TextOf ==
    /\ \A s \in Seq(Elements) : s \in Seq(Text)
    /\ \A s \in Seq(Bytes) : s \in Seq(Text)
    /\ \A files \in Files : /\ DOMAIN files \in SUBSET Seq(Elements)
                            /\ \A name \in DOMAIN files : files[name] \in Seq(Bytes)
<1>1. ASSUME NEW S, S \subseteq Text PROVE \A s \in Seq(S) : s \in Seq(Text)
  BY <1>1
<1>2. Elements \subseteq Text /\ Bytes \subseteq Text
  BY DEF Text
<1>3. \A files \in Files : /\ DOMAIN files \in SUBSET Seq(Elements)
                           /\ \A name \in DOMAIN files : files[name] \in Seq(Bytes)
  BY DEF Files
<1> QED BY <1>1, <1>2, <1>3

(* A name and its file, as they are written.                               *)
Written(name, content) == name \o <<NUL>> \o content \o <<NUL>>

HasFile(part, name, content) ==
    /\ part \in Seq(Text) /\ Len(part) = Extent(name, content)
    /\ Within(part, 0, Append(name, NUL)) /\ Within(part, Len(name) + 1, content)

LEMMA WrittenAt ==
    ASSUME NEW name \in Seq(Text), NEW content \in Seq(Text)
    PROVE  HasFile(Written(name, content), name, content)
<1> DEFINE nul == <<NUL>>
           s == name \o nul
           sc == s \o content
           w == sc \o nul
<1>1. NUL \in Text
  BY DEF Text
<1>2. nul \in Seq(Text) /\ Len(nul) = 1
  BY <1>1
<1>3. Append(name, NUL) = s /\ Append(name, NUL) \in Seq(Text)
  BY <1>1
<1> HIDE DEF nul
<1>4. s \in Seq(Text) /\ Len(s) = Len(name) + 1
  BY <1>2, WithinConcat
<1> HIDE DEF s
<1>5. sc \in Seq(Text) /\ Len(sc) = Len(name) + 1 + Len(content)
  BY <1>4, WithinConcat
<1>6. /\ Within(sc, Len(name) + 1, content)
      /\ \A a : \A t \in Seq(Text) : Within(s, a, t) => Within(sc, a, t)
  BY <1>4, WithinConcat
<1> HIDE DEF sc
<1>7. w \in Seq(Text) /\ Len(w) = Len(sc) + Len(nul)
  BY <1>2, <1>5, WithinConcat
<1>8. \A a : \A t \in Seq(Text) : Within(sc, a, t) => Within(w, a, t)
  BY <1>2, <1>5, WithinConcat
<1>9. Within(s, 0, s)
  BY <1>4 DEF Within
<1>10. Within(w, 0, s) /\ Within(w, Len(name) + 1, content)
  BY <1>4, <1>6, <1>8, <1>9
<1>11. Written(name, content) = w
  BY DEF Written, w, sc, s, nul
<1>12. Len(w) = Extent(name, content)
  BY <1>2, <1>5, <1>7 DEF Extent
<1> HIDE DEF w
<1> QED BY <1>3, <1>7, <1>10, <1>11, <1>12 DEF HasFile

LEMMA WithinWithin ==
    ASSUME NEW T, NEW s \in Seq(T), NEW r \in Seq(T), NEW t \in Seq(T), NEW a, NEW b,
           Within(s, a, r), Within(r, b, t)
    PROVE  Within(s, a + b, t)
<1>1. /\ a \in Nat /\ b \in Nat /\ Len(t) \in Nat /\ Len(r) \in Nat /\ Len(s) \in Nat
      /\ a + Len(r) <= Len(s) /\ b + Len(t) <= Len(r)
  BY DEF Within
<1>2. ASSUME NEW k \in 1..Len(t) PROVE s[(a + b) + k] = t[k]
  <2>1. b + k \in 1..Len(r) /\ r[b + k] = t[k] /\ a + (b + k) = (a + b) + k
    BY <1>1 DEF Within
  <2>2. s[a + (b + k)] = r[b + k]
    BY <2>1 DEF Within
  <2> QED BY <2>1, <2>2
<1> QED BY <1>1, <1>2 DEF Within

(* Where the files begin in the image.                                     *)
Starts(order, files, start) ==
    /\ start \in [1..(Len(order) + 1) -> Nat] /\ start[1] = 0
    /\ \A i \in 1..Len(order) : start[i + 1] = start[i] + Extent(order[i], files[order[i]])

Entries(order, files, start) ==
    [i \in 1..Len(order) |->
        [filename |-> [offset |-> start[i], length |-> Len(order[i]) + 1],
         content |-> [offset |-> start[i] + Len(order[i]) + 1, length |-> Len(files[order[i]])]]]

LEMMA PackStarts ==
    ASSUME NEW files \in Files, NEW order \in Seq(DOMAIN files)
    PROVE  \E start : /\ Starts(order, files, start)
                      /\ pack(order, files).entries = Entries(order, files, start)
<1> DEFINE n == Len(order)
           ext == [i \in 1..n |-> Extent(order[i], files[order[i]])]
           Def(s) == s = [i \in 1..(n + 1) |-> IF i = 1 THEN 0
                                 ELSE s[i - 1] + Extent(order[i - 1], files[order[i - 1]])]
           start == CHOOSE s : Def(s)
<1>1. n \in Nat
  OBVIOUS
<1>2. ASSUME NEW i \in 1..n PROVE ext[i] \in Nat /\ ext[i] = Extent(order[i], files[order[i]])
  <2>0. ext[i] = Extent(order[i], files[order[i]])
    OBVIOUS
  <2> HIDE DEF ext
  <2>1. order[i] \in Seq(Elements) /\ files[order[i]] \in Seq(Bytes)
    BY TextOf
  <2>2. Len(order[i]) \in Nat /\ Len(files[order[i]]) \in Nat
    BY <2>1
  <2>3. PICK a \in Nat, b \in Nat : a = Len(order[i]) /\ b = Len(files[order[i]])
    BY <2>2
  <2>4. Extent(order[i], files[order[i]]) = a + 1 + b + 1
    BY <2>3 DEF Extent
  <2>5. a + 1 + b + 1 \in Nat
    OBVIOUS
  <2> QED BY <2>0, <2>4, <2>5
<1> HIDE DEF ext
<1>3. \E s : Def(s)
  <2> DEFINE step == [i \in 1..n |-> [x \in Nat |-> x + ext[i]]]
  <2>1. step \in [1..n -> [Nat -> Nat]]
    BY <1>2
  <2>2. \A i \in 1..n, x \in Nat : step[i][x] = x + ext[i]
    OBVIOUS
  <2> HIDE DEF step, n
  <2>3. PICK f : Computes(f, n, Nat, 0, step)
    BY <1>1, <2>1, RecursionDefines
  <2> DEFINE s == [i \in 1..(n + 1) |-> f[i - 1]]
  <2>4. ASSUME NEW i \in 1..(n + 1)
        PROVE  s[i] = IF i = 1 THEN 0 ELSE s[i - 1] + Extent(order[i - 1], files[order[i - 1]])
    <3>1. CASE i = 1
      <4>1. s[1] = f[1 - 1]
        BY <1>1
      <4>2. f[0] = 0
        BY <2>3 DEF Computes
      <4> QED BY <3>1, <4>1, <4>2
    <3>2. CASE i # 1
      <4>1. i - 1 \in 1..n /\ i - 1 \in 1..(n + 1) /\ (i - 1) - 1 \in 0..n
        BY <1>1, <3>2
      <4>2. f[i - 1] = step[i - 1][f[(i - 1) - 1]] /\ f[(i - 1) - 1] \in Nat
        BY <2>3, <4>1 DEF Computes
      <4>3. f[i - 1] = f[(i - 1) - 1] + ext[i - 1]
        BY <2>2, <4>1, <4>2
      <4>4. s[i - 1] = f[(i - 1) - 1] /\ s[i] = f[i - 1]
        BY <4>1
      <4> QED BY <1>2, <3>2, <4>1, <4>3, <4>4
    <3> QED BY <3>1, <3>2
  <2>5. s = [i \in 1..(n + 1) |-> IF i = 1 THEN 0
                ELSE s[i - 1] + Extent(order[i - 1], files[order[i - 1]])]
    BY <2>4
  <2> QED BY <2>5
<1>4. Def(start)
  BY <1>3
<1>5. pack(order, files).entries = Entries(order, files, start)
  BY DEF pack, Entries
<1> HIDE DEF start
<1>6. Starts(order, files, start)
  <2>1. start[1] = 0 /\ \A i \in 1..n : start[i + 1] = start[i] + ext[i]
    <3>1. \A i \in 1..n : i + 1 \in 1..(n + 1) /\ i + 1 # 1 /\ (i + 1) - 1 = i
      BY <1>1
    <3>2. 1 \in 1..(n + 1)
      BY <1>1
    <3>3. \A i \in 1..(n + 1) : start[i] = IF i = 1 THEN 0
                                 ELSE start[i - 1] + Extent(order[i - 1], files[order[i - 1]])
      BY <1>4
    <3> QED BY <1>2, <3>1, <3>2, <3>3
  <2> DEFINE Good == {i \in 0..n : start[i + 1] \in Nat}
  <2>2. 0 \in Good /\ \A i \in 0..n : i \in Good /\ i < n => i + 1 \in Good
    <3>1. \A i \in 0..n : i < n => i + 1 \in 1..n /\ i + 1 \in 0..n
      BY <1>1
    <3>2. 0 \in 0..n /\ start[0 + 1] \in Nat
      BY <1>1, <2>1
    <3>3. \A i \in 0..n : start[i + 1] \in Nat /\ i < n => start[(i + 1) + 1] \in Nat
      BY <1>2, <2>1, <3>1
    <3> QED BY <3>1, <3>2, <3>3
  <2> HIDE DEF Good
  <2>3. \A i \in 0..n : i \in Good
    BY <1>1, <2>2, InductionUpTo
  <2>4. \A i \in 1..(n + 1) : start[i] \in Nat
    <3>1. \A i \in 1..(n + 1) : i - 1 \in 0..n /\ (i - 1) + 1 = i
      BY <1>1
    <3> QED BY <2>3, <3>1 DEF Good
  <2>5. start \in [1..(n + 1) -> Nat]
    BY <1>4, <2>4
  <2> QED BY <1>2, <2>1, <2>5 DEF Starts
<1> QED BY <1>5, <1>6

(* An image that pack makes holds the files.                               *)
LEMMA PackHolds ==
    ASSUME NEW files \in Files, NEW order \in Seq(DOMAIN files),
           \A name \in DOMAIN files : \E i \in 1..Len(order) : order[i] = name
    PROVE  Holds(pack(order, files), order, files)
<1> DEFINE parts == [i \in 1..Len(order) |-> Written(order[i], files[order[i]])]
           image == pack(order, files)
<1>1. PICK n \in Nat : n = Len(order)
  OBVIOUS
<1>2. \A i \in 1..n : /\ order[i] \in DOMAIN files /\ order[i] \in Seq(Elements)
                      /\ files[order[i]] \in Seq(Bytes)
                      /\ order[i] \in Seq(Text) /\ files[order[i]] \in Seq(Text)
  BY <1>1, TextOf
<1>3. PICK start : Starts(order, files, start) /\ image.entries = Entries(order, files, start)
  BY PackStarts
<1>4. /\ image = [count |-> image.count, entries |-> image.entries, blob |-> image.blob]
      /\ image.count = n /\ image.blob = FlattenSeq(parts)
  BY <1>1 DEF pack, Written
<1> HIDE DEF image
<1>5. ASSUME NEW i \in 1..n
      PROVE  HasFile(parts[i], order[i], files[order[i]]) /\ parts[i] \in Seq(Text)
  <2>1. parts[i] = Written(order[i], files[order[i]])
    BY <1>1
  <2> HIDE DEF parts
  <2>2. order[i] \in Seq(Text) /\ files[order[i]] \in Seq(Text)
    BY <1>2
  <2>3. HasFile(Written(order[i], files[order[i]]), order[i], files[order[i]])
    BY <2>2, WrittenAt
  <2> QED BY <2>1, <2>3 DEF HasFile
<1>6. parts \in Seq(Seq(Text)) /\ Len(parts) = n
  <2>1. parts \in [1..n -> Seq(Text)]
    BY <1>1, <1>5
  <2>2. \A f \in [1..n -> Seq(Text)] : f \in Seq(Seq(Text)) /\ Len(f) = n
    BY <1>1
  <2> HIDE DEF parts
  <2> QED BY <2>1, <2>2
<1> HIDE DEF parts
<1>7. /\ image.blob \in Seq(Text)
      /\ \A i \in 1..n : Within(image.blob, start[i], parts[i])
  <2>1. Laid(parts, start)
    BY <1>1, <1>3, <1>5, <1>6 DEF Starts, Laid, HasFile
  <2>2. LaidOut(image.blob, Text, parts, start)
    BY <1>4, <1>6, <2>1, FlattenedAt
  <2> QED BY <1>6, <2>2 DEF LaidOut
<1>8. ASSUME NEW i \in 1..n
      PROVE  image.entries[i] \in Entry /\ EntryOf(image, i, order[i], files[order[i]])
  <2>1. PICK name, content, at, e :
            /\ name = order[i] /\ content = files[order[i]]
            /\ at = start[i] /\ e = image.entries[i]
    OBVIOUS
  <2>2. /\ at \in Nat
        /\ e = [filename |-> [offset |-> at, length |-> Len(name) + 1],
                content |-> [offset |-> at + Len(name) + 1, length |-> Len(content)]]
    <3>1. i \in 1..(n + 1)
      BY <1>1
    <3>2. at \in Nat
      BY <1>1, <1>3, <2>1, <3>1 DEF Starts
    <3>3. e = Entries(order, files, start)[i]
      BY <1>3, <2>1
    <3>4. e = [filename |-> [offset |-> start[i], length |-> Len(order[i]) + 1],
               content |-> [offset |-> start[i] + Len(order[i]) + 1, length |-> Len(files[order[i]])]]
      BY <1>1, <3>3 DEF Entries
    <3> QED BY <2>1, <3>2, <3>4
  <2>3. name \in Seq(Text) /\ content \in Seq(Text)
    BY <1>2, <2>1
  <2>4. Append(name, NUL) \in Seq(Text) /\ Len(name) \in Nat /\ Len(content) \in Nat
    BY <2>3 DEF Text
  <2>5. HasFile(parts[i], name, content) /\ Within(image.blob, at, parts[i])
    BY <1>5, <1>7, <2>1
  <2>6. Within(image.blob, at + 0, Append(name, NUL))
    BY <1>7, <2>4, <2>5, WithinWithin DEF HasFile
  <2>7. Within(image.blob, at + (Len(name) + 1), content)
    BY <1>7, <2>3, <2>5, WithinWithin DEF HasFile
  <2>8. at + 0 = at /\ at + (Len(name) + 1) = at + Len(name) + 1
    BY <2>2, <2>4
  <2>9. e \in Entry
    BY <2>2, <2>4 DEF Entry, Part
  <2>10. /\ e.filename.offset = at /\ e.filename.length = Len(name) + 1
         /\ e.content.offset = at + Len(name) + 1 /\ e.content.length = Len(content)
    BY <2>2
  <2>11. EntryOf(image, i, name, content)
    BY <2>1, <2>6, <2>7, <2>8, <2>10 DEF EntryOf
  <2> QED BY <2>1, <2>9, <2>11
<1>9. image.entries \in Seq(Entry) /\ Len(image.entries) = n
  <2>1. image.entries \in [1..n -> Entry]
    BY <1>1, <1>3, <1>8 DEF Entries
  <2>2. \A f \in [1..n -> Entry] : f \in Seq(Entry) /\ Len(f) = n
    BY <1>1
  <2> QED BY <2>1, <2>2
<1>10. image \in Image
  BY <1>4, <1>7, <1>9 DEF Image
<1>11. Holds(image, order, files)
  BY <1>1, <1>4, <1>8, <1>9, <1>10 DEF Holds
<1> QED BY <1>11 DEF image

(* The least and the greatest of numbers.                                  *)
LEMMA MinIs ==
    ASSUME NEW S, S \subseteq Int, NEW x \in S, \A y \in S : x <= y
    PROVE  Min(S) = x
<1>1. \A y \in S : (\A z \in S : y <= z) => y = x
  BY \A y \in S : y \in Int
<1>2. Min(S) \in S /\ \A z \in S : Min(S) <= z
  BY DEF Min
<1> QED BY <1>1, <1>2

LEMMA GreatestExists ==
    ASSUME NEW n \in Nat, NEW S, S \subseteq 1..n, S # {}
    PROVE  \E x \in S : \A y \in S : x >= y
<1> DEFINE D == {n - x : x \in S}
<1>1. D \subseteq Nat /\ D # {}
  <2>1. \A x \in S : n - x \in Nat
    OBVIOUS
  <2> QED BY <2>1
<1>2. PICK d \in D : \A e \in D : d <= e
  BY <1>1, LeastExists
<1>3. PICK x \in S : d = n - x
  BY <1>2
<1>4. ASSUME NEW y \in S PROVE x >= y
  <2>1. n - y \in D /\ x \in 1..n /\ y \in 1..n
    OBVIOUS
  <2> QED BY <1>2, <1>3, <2>1
<1> QED BY <1>3, <1>4

(* A name ends where its NUL is.                                           *)
LEMMA NulEnds ==
    ASSUME NEW s \in Seq(Text), NEW a, NEW name \in Seq(Elements),
           Within(s, a, Append(name, NUL))
    PROVE  /\ Within(s, a, name)
           /\ a + Len(name) + 1 \in a + 1..Len(s) /\ s[a + Len(name) + 1] = NUL
           /\ \A i \in a + 1..Len(s) : s[i] = NUL => a + Len(name) + 1 <= i
<1> DEFINE named == Append(name, NUL)
<1>1. PICK n \in Nat : n = Len(name)
  OBVIOUS
<1>2. PICK m \in Nat : m = Len(s)
  OBVIOUS
<1>3. Len(named) = n + 1 /\ named[n + 1] = NUL /\ \A k \in 1..n : named[k] = name[k]
  BY <1>1
<1> HIDE DEF named
<1>4. a \in Nat /\ a + (n + 1) <= m /\ \A k \in 1..(n + 1) : s[a + k] = named[k]
  BY <1>2, <1>3 DEF Within, named
<1>5. \A k \in 1..n : s[a + k] = name[k] /\ name[k] # NUL
  <2>1. \A k \in 1..n : name[k] \in Elements
    BY <1>1
  <2>2. \A k \in 1..n : k \in 1..(n + 1)
    BY <1>1
  <2> QED BY <1>3, <1>4, <2>1, <2>2, CellFsAssumption
<1>6. Within(s, a, name)
  BY <1>1, <1>2, <1>4, <1>5 DEF Within
<1>7. s[a + (n + 1)] = NUL /\ a + (n + 1) = a + n + 1 /\ a + n + 1 \in a + 1..m
  BY <1>3, <1>4
<1>8. ASSUME NEW i \in a + 1..m, s[i] = NUL PROVE a + n + 1 <= i
  <2>1. i - a \in 1..n \/ a + n + 1 <= i
    BY <1>4
  <2>2. a + (i - a) = i
    BY <1>4
  <2> QED BY <1>5, <1>8, <2>1, <2>2
<1> QED BY <1>1, <1>2, <1>6, <1>7, <1>8

LEMMA CStringFinds ==
    ASSUME NEW s \in Seq(Text), NEW a, NEW name \in Seq(Elements),
           Within(s, a, Append(name, NUL))
    PROVE  CString(s, a) = name
<1> DEFINE I == {i \in a + 1..Len(s) : s[i] = NUL}
           end == a + Len(name) + 1
<1>1. Within(s, a, name) /\ end \in I /\ \A i \in I : end <= i
  BY NulEnds
<1>2. a \in Nat /\ Len(name) \in Nat /\ Len(s) \in Nat
  BY <1>1 DEF Within
<1>3. CString(s, a) = SubSeq(s, a + 1, (IF I # {} THEN Min(I) ELSE 0) - 1)
  BY DEF CString, SelectInSubSeq
<1>4. I \subseteq Int /\ end - 1 = a + Len(name)
  BY <1>2
<1> HIDE DEF I, end
<1>5. Min(I) = end
  BY <1>1, <1>4, MinIs
<1>6. CString(s, a) = SubSeq(s, a + 1, a + Len(name))
  BY <1>1, <1>3, <1>4, <1>5
<1>7. name \in Seq(Text)
  BY TextOf
<1> QED BY <1>1, <1>6, <1>7, SubSeqWithin

(* What unpack takes for the name of a file.                               *)
UnpackedName(s) == SubSeq(s, 1, SelectInSeq(s, LAMBDA c : c = NUL) - 1)

LEMMA UnpackedNameFinds ==
    ASSUME NEW name \in Seq(Elements)
    PROVE  UnpackedName(Append(name, NUL)) = name
<1> DEFINE s == Append(name, NUL)
           I == {i \in 0 + 1..Len(s) : s[i] = NUL}
           end == 0 + Len(name) + 1
<1>1. name \in Seq(Text) /\ s \in Seq(Text) /\ Len(name) \in Nat
  BY TextOf DEF Text
<1>2. Within(s, 0, s)
  BY <1>1 DEF Within
<1> HIDE DEF s
<1>3. Within(s, 0, name) /\ end \in I /\ \A i \in I : end <= i
  BY <1>1, <1>2, NulEnds DEF s
<1>4. UnpackedName(s) = SubSeq(s, 1, (IF I # {} THEN Min(I) ELSE 0) - 1)
  <2>1. I = {i \in 1..Len(s) : s[i] = NUL}
    OBVIOUS
  <2> HIDE DEF I
  <2> QED BY <2>1 DEF UnpackedName, SelectInSeq
<1>5. I \subseteq Int /\ end - 1 = 0 + Len(name) /\ 0 + 1 = 1
  BY <1>1
<1> HIDE DEF I, end
<1>6. Min(I) = end
  BY <1>3, <1>5, MinIs
<1>7. UnpackedName(s) = SubSeq(s, 0 + 1, 0 + Len(name))
  BY <1>3, <1>4, <1>5, <1>6
<1>8. UnpackedName(s) = name
  BY <1>1, <1>3, <1>7, SubSeqWithin
<1> QED BY <1>8 DEF s

(* unpack restores what an image holds.                                    *)
LEMMA UnpackHolds ==
    ASSUME NEW image, NEW order, NEW files, Holds(image, order, files)
    PROVE  unpack(image) = files
<1> DEFINE At(b) == SubSeq(image.blob, b.offset + 1, b.offset + b.length)
           Name(i) == UnpackedName(At(image.entries[i].filename))
           IsLast(n, i) == Name(i) = n /\ \A j \in i + 1..image.count : Name(j) # n
           Of(n) == CHOOSE i \in 1..image.count : IsLast(n, i)
<1>1. unpack(image) = [n \in {Name(i) : i \in 1..image.count} |-> At(image.entries[Of(n)].content)]
  BY DEF unpack, UnpackedName
<1>2. PICK m \in Nat : m = Len(order) /\ m = image.count
  BY DEF Holds
<1>3. ASSUME NEW i \in 1..m
      PROVE  /\ order[i] \in DOMAIN files /\ Name(i) = order[i]
             /\ At(image.entries[i].content) = files[order[i]]
  <2>1. /\ image.blob \in Seq(Text) /\ order[i] \in DOMAIN files
        /\ files \in Files /\ EntryOf(image, i, order[i], files[order[i]])
    BY <1>2 DEF Holds, Image
  <2>2. PICK name, content, blob, e :
            /\ name = order[i] /\ content = files[order[i]]
            /\ blob = image.blob /\ e = image.entries[i]
    OBVIOUS
  <2>3. name \in Seq(Elements) /\ name \in Seq(Text) /\ content \in Seq(Text)
    BY <2>1, <2>2, TextOf
  <2>4. Append(name, NUL) \in Seq(Text) /\ Len(Append(name, NUL)) = Len(name) + 1
    BY <2>3 DEF Text
  <2>5. /\ Within(blob, e.filename.offset, Append(name, NUL)) /\ e.filename.length = Len(name) + 1
        /\ Within(blob, e.content.offset, content) /\ e.content.length = Len(content)
    BY <2>1, <2>2 DEF EntryOf
  <2>6. SubSeq(blob, e.filename.offset + 1, e.filename.offset + e.filename.length) = Append(name, NUL)
    <3>1. blob \in Seq(Text)
      BY <2>1, <2>2
    <3>2. PICK named : named = Append(name, NUL)
      OBVIOUS
    <3>3. /\ named \in Seq(Text) /\ Within(blob, e.filename.offset, named)
          /\ e.filename.length = Len(named)
      BY <2>4, <2>5, <3>2
    <3>4. SubSeq(blob, e.filename.offset + 1, e.filename.offset + Len(named)) = named
      BY <3>1, <3>3, SubSeqWithin
    <3> QED BY <3>2, <3>3, <3>4
  <2>7. SubSeq(blob, e.content.offset + 1, e.content.offset + e.content.length) = content
    <3>1. PICK part : part = e.content
      OBVIOUS
    <3>2. blob \in Seq(Text) /\ Within(blob, part.offset, content) /\ part.length = Len(content)
      BY <2>1, <2>2, <2>5, <3>1
    <3>3. SubSeq(blob, part.offset + 1, part.offset + Len(content)) = content
      BY <2>3, <3>2, SubSeqWithin
    <3> QED BY <3>1, <3>2, <3>3
  <2>8. UnpackedName(Append(name, NUL)) = name
    BY <2>3, UnpackedNameFinds
  <2> QED BY <2>1, <2>2, <2>6, <2>7, <2>8
<1>4. DOMAIN files = {Name(i) : i \in 1..image.count}
  <2>1. \A name \in DOMAIN files : \E i \in 1..m : order[i] = name
    BY <1>2 DEF Holds
  <2>2. \A i \in 1..m : order[i] \in DOMAIN files /\ Name(i) = order[i]
    BY <1>3
  <2> HIDE DEF Name, At
  <2>3. {Name(i) : i \in 1..m} \subseteq DOMAIN files
    BY <2>2
  <2>4. DOMAIN files \subseteq {Name(i) : i \in 1..m}
    BY <2>1, <2>2
  <2> QED BY <1>2, <2>3, <2>4
<1>5. ASSUME NEW n \in DOMAIN files PROVE At(image.entries[Of(n)].content) = files[n]
  <2> DEFINE S == {i \in 1..m : order[i] = n}
  <2>1. S \subseteq 1..m /\ S # {}
    BY <1>2 DEF Holds
  <2>2. PICK i \in S : \A j \in S : i >= j
    BY <2>1, GreatestExists
  <2> HIDE DEF Name, At
  <2>3. i \in 1..image.count /\ IsLast(n, i)
    <3>1. i \in 1..m /\ order[i] = n /\ Name(i) = n
      BY <1>3, <2>2
    <3>2. ASSUME NEW j \in i + 1..m PROVE Name(j) # n
      <4>1. j \in 1..m /\ ~(i >= j)
        BY <2>2
      <4>2. j \notin S
        BY <2>2, <4>1
      <4> QED BY <1>3, <4>1, <4>2
    <3> QED BY <1>2, <3>1, <3>2
  <2> HIDE DEF IsLast
  <2>4. Of(n) \in 1..image.count /\ IsLast(n, Of(n))
    BY <2>3
  <2> HIDE DEF Of
  <2>5. Of(n) \in 1..m /\ Name(Of(n)) = n
    BY <1>2, <2>4 DEF IsLast
  <2> QED BY <1>3, <2>5
<1>6. files = [n \in DOMAIN files |-> files[n]]
  BY DEF Holds, Files
<1> HIDE DEF At, Name, Of
<1> QED BY <1>1, <1>4, <1>5, <1>6

-----------------------------------------------------------------------------
(* include/ckb_cell_fs.c.                                                  *)

NodeOf(image) == [count |-> image.count, files |-> image.entries, start |-> image.blob]
Found(content) == [found |-> TRUE, content |-> content]

(* The least of a set of numbers is in it.                                 *)
LEMMA MinIn ==
    ASSUME NEW S, S \subseteq Nat, S # {}
    PROVE  Min(S) \in S
<1>1. PICK x \in S : \A y \in S : x <= y
  BY LeastExists
<1>2. S \subseteq Int
  OBVIOUS
<1>3. Min(S) = x
  BY <1>1, <1>2, MinIs
<1> QED BY <1>3

LEMMA MatchesHold ==
    ASSUME NEW image, NEW order, NEW files, Holds(image, order, files),
           NEW name \in Seq(Elements)
    PROVE  /\ Matches(NodeOf(image), name) = {i \in 1..Len(order) : order[i] = name}
           /\ Matches(NodeOf(image), name) # {} <=> name \in DOMAIN files
<1>1. PICK m \in Nat : m = Len(order) /\ m = image.count
  BY DEF Holds
<1>2. ASSUME NEW i \in 1..m
      PROVE  CString(image.blob, image.entries[i].filename.offset) = order[i]
  <2>1. PICK own, content, a, s :
            /\ own = order[i] /\ content = files[own]
            /\ s = image.blob /\ a = image.entries[i].filename.offset
    OBVIOUS
  <2>2. own \in Seq(Elements)
    <3>1. own \in DOMAIN files /\ files \in Files
      BY <1>1, <2>1 DEF Holds
    <3> QED BY <3>1, TextOf
  <2>3. s \in Seq(Text) /\ Within(s, a, Append(own, NUL))
    BY <1>1, <2>1 DEF Holds, EntryOf, Image
  <2> QED BY <2>1, <2>2, <2>3, CStringFinds
<1>3. Matches(NodeOf(image), name) =
          {i \in 1..m : CString(image.blob, image.entries[i].filename.offset) = name}
  BY <1>1 DEF Matches, NodeOf
<1>4. Matches(NodeOf(image), name) = {i \in 1..m : order[i] = name}
  BY <1>2, <1>3
<1>5. {i \in 1..m : order[i] = name} # {} <=> name \in DOMAIN files
  BY <1>1 DEF Holds
<1> QED BY <1>1, <1>4, <1>5

(* A node put in front of the list hides the nodes behind it.              *)
LEMMA GetHolds ==
    ASSUME NEW image, NEW order, NEW files, Holds(image, order, files),
           NEW list \in Seq(Node), NEW name \in Seq(Elements)
    PROVE  get_file(<<NodeOf(image)>> \o list, name) =
               IF name \in DOMAIN files THEN Found(files[name]) ELSE get_file(list, name)
<1> DEFINE node == NodeOf(image)
           new == <<node>> \o list
           Hits(l) == {k \in 1..Len(l) : Matches(l[k], name) # {}}
           Hit(n) == n.files[Min(Matches(n, name))].content
           Read(n) == SubSeq(n.start, Hit(n).offset + 1, Hit(n).offset + Hit(n).length)
<1>1. PICK m \in Nat : m = Len(list)
  OBVIOUS
<1>2. node \in Node
  BY DEF NodeOf, Node, Holds, Image
<1>3. Len(new) = m + 1 /\ new[1] = node /\ \A k \in 1..m : new[k + 1] = list[k]
  BY <1>1, <1>2
<1>4. \A l : get_file(l, name) = IF Hits(l) = {} THEN NotFound ELSE Found(Read(l[Min(Hits(l))]))
  BY DEF get_file, Found
<1> HIDE DEF new, node, Read
<1>5. CASE name \in DOMAIN files
  <2>1. Matches(node, name) # {} /\ Matches(node, name) = {i \in 1..Len(order) : order[i] = name}
    BY <1>5, MatchesHold DEF node
  <2>2. 1 \in Hits(new) /\ Hits(new) \subseteq Int /\ \A k \in Hits(new) : 1 <= k
    BY <1>1, <1>3, <2>1
  <2>3. Min(Hits(new)) = 1
    <3> HIDE DEF Hits
    <3> QED BY <2>2, MinIs
  <2>4. PICK i \in 1..Len(order) : i = Min(Matches(node, name)) /\ order[i] = name
    <3>1. PICK M : M = Matches(node, name)
      OBVIOUS
    <3>2. M # {} /\ M = {i \in 1..Len(order) : order[i] = name}
      BY <2>1, <3>1
    <3>3. M \subseteq Nat
      BY <3>2
    <3>4. Min(M) \in M
      BY <3>2, <3>3, MinIn
    <3> QED BY <3>1, <3>2, <3>4
  <2>5. Read(node) = files[name]
    <3>1. PICK content, b, s : content = files[name] /\ s = image.blob /\ b = image.entries[i].content
      OBVIOUS
    <3>2. content \in Seq(Text)
      BY <1>5, <3>1, TextOf DEF Holds
    <3>3. s \in Seq(Text) /\ Within(s, b.offset, content) /\ b.length = Len(content)
      BY <2>4, <3>1 DEF Holds, EntryOf, Image
    <3>4. SubSeq(s, b.offset + 1, b.offset + b.length) = content
      BY <3>2, <3>3, SubSeqWithin
    <3>5. Hit(node) = b /\ node.start = s
      BY <2>4, <3>1 DEF node, NodeOf
    <3> QED BY <3>1, <3>4, <3>5 DEF Read
  <2>6. get_file(new, name) = Found(Read(new[Min(Hits(new))]))
    BY <1>4, <2>2
  <2> HIDE DEF Hits
  <2> QED BY <1>3, <1>5, <2>3, <2>5, <2>6 DEF new, node
<1>6. CASE name \notin DOMAIN files
  <2>1. Matches(node, name) = {}
    BY <1>6, MatchesHold DEF node
  <2>2. \A k : k \in Hits(list) => k \in 1..m /\ k + 1 \in Hits(new)
    BY <1>1, <1>3
  <2>3. ASSUME NEW k \in Hits(new) PROVE k - 1 \in Hits(list)
    <3>1. k \in 1..(m + 1) /\ Matches(new[k], name) # {}
      BY <1>3
    <3>2. k # 1
      BY <1>3, <2>1, <3>1
    <3>3. k - 1 \in 1..m /\ (k - 1) + 1 = k
      BY <3>1, <3>2
    <3>4. new[k] = list[k - 1]
      BY <1>3, <3>3
    <3> QED BY <1>1, <3>1, <3>3, <3>4
  <2>4. Hits(new) \subseteq Nat /\ Hits(list) \subseteq Nat
    BY <1>1, <1>3
  <2> HIDE DEF Hits
  <2>5. CASE Hits(list) = {}
    <3>1. Hits(new) = {}
      BY <2>3, <2>5
    <3> QED BY <1>4, <1>6, <2>5, <3>1 DEF new, node
  <2>6. CASE Hits(list) # {}
    <3>1. PICK k \in Hits(list) : \A j \in Hits(list) : k <= j
      BY <2>4, <2>6, LeastExists
    <3>2. Min(Hits(list)) = k
      BY <2>4, <3>1, MinIs
    <3>3. k \in 1..m /\ k + 1 \in Hits(new) /\ k \in Nat
      BY <2>2, <2>4, <3>1
    <3>4. ASSUME NEW j \in Hits(new) PROVE k + 1 <= j
      <4>1. j \in Nat /\ k <= j - 1
        BY <2>3, <2>4, <3>1
      <4> QED BY <3>3, <4>1
    <3>5. Min(Hits(new)) = k + 1
      BY <2>4, <3>3, <3>4, MinIs
    <3>6. new[k + 1] = list[k] /\ Hits(new) # {}
      BY <1>3, <3>3
    <3>7. /\ get_file(new, name) = Found(Read(new[k + 1]))
          /\ get_file(list, name) = Found(Read(list[k]))
      BY <1>4, <2>6, <3>2, <3>5, <3>6
    <3> QED BY <1>6, <3>6, <3>7 DEF new, node
  <2> QED BY <2>5, <2>6
<1> QED BY <1>5, <1>6

LEMMA EmptyHolds == Holds(EmptyImage, <<>>, Empty)
<1>1. EmptyImage \in Image
  BY DEF EmptyImage, Image
<1>2. Empty \in Files /\ DOMAIN Empty = {}
  <2>1. {} \in SUBSET Seq(Elements) /\ Empty \in [{} -> Seq(Bytes)] /\ DOMAIN Empty = {}
    BY DEF Empty
  <2> QED BY <2>1 DEF Files
<1>3. <<>> \in Seq(DOMAIN Empty) /\ Len(<<>>) = 0
  OBVIOUS
<1>4. EmptyImage.count = 0 /\ EmptyImage.entries = <<>>
  BY DEF EmptyImage
<1> QED BY <1>1, <1>2, <1>3, <1>4 DEF Holds

(* A mounted node adds its objects to those of the list.                   *)
LEMMA ObjectsAdd ==
    ASSUME NEW node \in Node, NEW list \in Seq(Node)
    PROVE  /\ ObjectsOf(<<node>> \o list) = Objects(node) + ObjectsOf(list)
           /\ ObjectsOf(list) \in Nat /\ ObjectsOf(<<>>) = 0
<1> DEFINE Def(l, e) == e = [k \in 0..Len(l) |-> IF k = 0 THEN 0 ELSE e[k - 1] + Objects(l[k])]
           Of(l) == CHOOSE e : Def(l, e)
<1>0. \A l : ObjectsOf(l) = Of(l)[Len(l)]
  BY DEF ObjectsOf
<1>1. ASSUME NEW l \in Seq(Node)
      PROVE  /\ Of(l)[0] = 0 /\ Of(l)[Len(l)] \in Nat
             /\ \A k \in 1..Len(l) : Of(l)[k] = Of(l)[k - 1] + Objects(l[k])
             /\ \A k \in 0..Len(l) : Of(l)[k] \in Nat
  <2>1. PICK n \in Nat : n = Len(l)
    OBVIOUS
  <2>2. \A k \in 1..n : Objects(l[k]) \in Nat
    BY DEF Objects
  <2>3. \E e : Def(l, e)
    <3> DEFINE step == [k \in 1..n |-> [x \in Nat |-> x + Objects(l[k])]]
    <3>1. step \in [1..n -> [Nat -> Nat]]
      BY <2>2
    <3>2. \A k \in 1..n, x \in Nat : step[k][x] = x + Objects(l[k])
      OBVIOUS
    <3> HIDE DEF step
    <3>3. PICK f : Computes(f, n, Nat, 0, step)
      BY <3>1, RecursionDefines
    <3>4. \A k \in 0..n : f[k] = IF k = 0 THEN 0 ELSE f[k - 1] + Objects(l[k])
      <4> SUFFICES ASSUME NEW k \in 0..n, k # 0 PROVE f[k] = f[k - 1] + Objects(l[k])
        BY <3>3 DEF Computes
      <4>1. k \in 1..n /\ k - 1 \in 0..n
        OBVIOUS
      <4>2. f[k] = step[k][f[k - 1]] /\ f[k - 1] \in Nat
        BY <3>3, <4>1 DEF Computes
      <4> QED BY <3>2, <4>1, <4>2
    <3>5. f = [k \in 0..n |-> f[k]]
      BY <3>3 DEF Computes
    <3>6. f = [k \in 0..n |-> IF k = 0 THEN 0 ELSE f[k - 1] + Objects(l[k])]
      BY <3>4, <3>5
    <3> QED BY <2>1, <3>6
  <2>4. Def(l, Of(l))
    BY <2>3
  <2> HIDE DEF Of
  <2>5. PICK e : e = Of(l)
    OBVIOUS
  <2>6. \A k \in 0..n : e[k] = IF k = 0 THEN 0 ELSE e[k - 1] + Objects(l[k])
    BY <2>1, <2>4, <2>5
  <2>7. e[0] = 0 /\ \A k \in 1..n : e[k] = e[k - 1] + Objects(l[k])
    <3>1. 0 \in 0..n /\ \A k \in 1..n : k \in 0..n /\ k # 0
      OBVIOUS
    <3> QED BY <2>6, <3>1
  <2> DEFINE Good == {k \in 0..n : e[k] \in Nat}
  <2>8. 0 \in Good /\ \A k \in 0..n : k \in Good /\ k < n => k + 1 \in Good
    <3>1. \A k \in 0..n : k < n => k + 1 \in 1..n /\ k + 1 \in 0..n /\ (k + 1) - 1 = k
      OBVIOUS
    <3>2. 0 \in 0..n
      OBVIOUS
    <3> QED BY <2>2, <2>7, <3>1, <3>2
  <2> HIDE DEF Good
  <2>9. \A k \in 0..n : k \in Good
    BY <2>8, InductionUpTo
  <2>10. \A k \in 0..n : e[k] \in Nat
    BY <2>9 DEF Good
  <2> QED BY <2>1, <2>5, <2>7, <2>10
<1> HIDE DEF Of
<1>2. PICK n \in Nat : n = Len(list)
  OBVIOUS
<1>3. PICK new : new = <<node>> \o list
  OBVIOUS
<1>4. /\ new \in Seq(Node) /\ Len(new) = n + 1 /\ new[1] = node
      /\ \A k \in 1..n : new[k + 1] = list[k]
  BY <1>2, <1>3
<1>5. PICK f, g, o : f = Of(list) /\ g = Of(new) /\ o = Objects(node)
  OBVIOUS
<1>6. /\ f[0] = 0 /\ \A k \in 1..n : f[k] = f[k - 1] + Objects(list[k])
      /\ \A k \in 0..n : f[k] \in Nat
  BY <1>1, <1>2, <1>5
<1>7. g[0] = 0 /\ \A k \in 1..(n + 1) : g[k] = g[k - 1] + Objects(new[k])
  BY <1>1, <1>4, <1>5
<1>8. o \in Nat
  BY <1>5 DEF Objects
<1>9. \A k \in 0..n : g[k + 1] = o + f[k]
  <2> DEFINE Good == {k \in 0..n : g[k + 1] = o + f[k]}
  <2>1. 0 \in Good
    <3>1. 0 \in 0..n /\ 1 \in 1..(n + 1)
      OBVIOUS
    <3>2. g[1] = g[1 - 1] + Objects(new[1])
      BY <1>7, <3>1
    <3>3. g[0 + 1] = o
      BY <1>4, <1>5, <1>7, <1>8, <3>2
    <3> QED BY <1>6, <1>8, <3>1, <3>3
  <2>2. ASSUME NEW k \in 0..n, k \in Good, k < n PROVE k + 1 \in Good
    <3>1. /\ k + 1 \in 1..n /\ (k + 1) + 1 \in 1..(n + 1) /\ k + 1 \in 0..n
          /\ ((k + 1) + 1) - 1 = k + 1 /\ (k + 1) - 1 = k
      BY <2>2
    <3>2. PICK x \in Nat : x = Objects(list[k + 1])
      BY DEF Objects
    <3>3. g[(k + 1) + 1] = g[k + 1] + x
      BY <1>4, <1>7, <3>1, <3>2
    <3>4. f[k + 1] = f[k] + x /\ f[k] \in Nat
      BY <1>6, <3>1, <3>2
    <3> QED BY <1>8, <2>2, <3>1, <3>3, <3>4
  <2> HIDE DEF Good
  <2>3. \A k \in 0..n : k \in Good
    BY <2>1, <2>2, InductionUpTo
  <2> QED BY <2>3 DEF Good
<1>10. g[n + 1] = o + f[n] /\ f[n] \in Nat
  BY <1>6, <1>9
<1>11. ObjectsOf(<<>>) = 0
  <2>1. <<>> \in Seq(Node) /\ Len(<<>>) = 0
    OBVIOUS
  <2> QED BY <1>0, <1>1, <2>1
<1>12. ObjectsOf(new) = g[n + 1] /\ ObjectsOf(list) = f[n]
  BY <1>0, <1>2, <1>4, <1>5
<1> QED BY <1>3, <1>5, <1>10, <1>11, <1>12

(* load_fs keeps what it has allocated when it mounts, and nothing when an *)
(* allocation fails.                                                       *)
LEMMA LoadAllocates ==
    ASSUME NEW image \in Image, NEW failing \in 0..3, failing = 3 => image.count > 0
    PROVE  Cardinality(Obtained(image, failing) \ Freed(failing)) =
               IF failing = 0 THEN Objects(NodeOf(image)) ELSE 0
<1> DEFINE S == Obtained(image, failing) \ Freed(failing)
<1>0. /\ Cardinality({"node", "newfs"}) = 2
      /\ Cardinality({"node", "newfs", "files"}) = 3
  <2>1. PICK a, b : a = {"node"} /\ b = {"node", "newfs"}
    OBVIOUS
  <2>2. IsFiniteSet(a) /\ Cardinality(a) = 1
    BY <2>1, FS_Singleton
  <2>3. b = a \cup {"newfs"} /\ "newfs" \notin a
    BY <2>1
  <2>4. IsFiniteSet(b) /\ Cardinality(b) = Cardinality(a) + 1
    BY <2>2, <2>3, FS_AddElement
  <2>5. {"node", "newfs", "files"} = b \cup {"files"} /\ "files" \notin b
    BY <2>1
  <2>6. Cardinality({"node", "newfs", "files"}) = Cardinality(b) + 1
    BY <2>4, <2>5, FS_AddElement
  <2> QED BY <2>1, <2>2, <2>4, <2>6
<1>1. CASE failing = 0 /\ image.count = 0
  <2>1. S = {"node", "newfs"}
    BY <1>1 DEF Obtained, Freed, ToSet
  <2>2. Cardinality({"node", "newfs"}) = 2
    BY <1>0
  <2> QED BY <1>1, <2>1, <2>2 DEF Objects, NodeOf
<1>2. CASE failing = 0 /\ image.count # 0
  <2>1. S = {"node", "newfs", "files"}
    BY <1>2 DEF Obtained, Freed, ToSet
  <2>2. Cardinality({"node", "newfs", "files"}) = 3
    BY <1>0
  <2> QED BY <1>2, <2>1, <2>2 DEF Objects, NodeOf
<1>3. CASE failing # 0
  <2>1. S = {}
    BY <1>3 DEF Obtained, Freed, ToSet
  <2> QED BY <1>3, <2>1, FS_EmptySet
<1> QED BY <1>1, <1>2, <1>3

-----------------------------------------------------------------------------
(* The names of the files that are packed.                                 *)

(* normalize_relative_path without the "./" it begins with, the places     *)
(* where it removes another one, and a step of its scan.                   *)
Stripped(path) == IF IsPrefix(<<".", "/">>, path) THEN SubSeq(path, 3, Len(path)) ELSE path
DotAt(p, i) == i + 2 <= Len(p) /\ SubSeq(p, i, i + 2) = <<"/", ".", "/">>
Scans == [text : Seq(Elements), skip : Nat]
Unscanned == [text |-> <<>>, skip |-> 0]
ScanStep(p, s, i) ==
    IF s.skip > 0 THEN [s EXCEPT !.skip = @ - 1]
    ELSE [text |-> Append(s.text, p[i]), skip |-> IF DotAt(p, i) THEN 2 ELSE 0]

(* The tokens that Canonical keeps.                                        *)
Kept(path, i) == ~(path[i] = "." \/ (path[i] = "/" /\ i > 1 /\ path[i - 1] = "."))

LEMMA NormalizedSteps ==
    ASSUME NEW path \in Seq(Elements), NEW p, p = Stripped(path), NEW n \in Nat, n = Len(p)
    PROVE  /\ p \in Seq(Elements)
           /\ \E scan \in [0..n -> Scans] :
                 /\ normalize_relative_path(path) = scan[n].text
                 /\ \A i \in 0..n :
                        scan[i] = IF i = 0 THEN Unscanned ELSE ScanStep(p, scan[i - 1], i)
<1> DEFINE Def(e) ==
        e = [i \in 0..Len(p) |-> IF i = 0 THEN Unscanned ELSE ScanStep(p, e[i - 1], i)]
           scan == CHOOSE e : Def(e)
<1>1. normalize_relative_path(path) = scan[Len(p)].text
  BY DEF normalize_relative_path, Stripped, ScanStep, DotAt, Unscanned
<1>2. p \in Seq(Elements)
  <2>1. SubSeq(path, 3, Len(path)) \in Seq(Elements)
    OBVIOUS
  <2> QED BY <2>1 DEF Stripped
<1>4. ASSUME NEW s \in Scans, NEW i \in 1..n PROVE ScanStep(p, s, i) \in Scans
  <2>1. s.text \in Seq(Elements) /\ s.skip \in Nat /\ p[i] \in Elements
    BY <1>2 DEF Scans
  <2>2. s = [text |-> s.text, skip |-> s.skip]
    BY DEF Scans
  <2>3. CASE s.skip > 0
    <3>1. [s EXCEPT !.skip = @ - 1] = [text |-> s.text, skip |-> s.skip - 1]
      BY <2>2
    <3>2. s.skip - 1 \in Nat
      BY <2>1, <2>3
    <3> QED BY <2>1, <2>3, <3>1, <3>2 DEF Scans, ScanStep
  <2>4. CASE ~(s.skip > 0)
    <3>1. Append(s.text, p[i]) \in Seq(Elements)
      BY <2>1
    <3> QED BY <2>4, <3>1 DEF Scans, ScanStep
  <2> QED BY <2>3, <2>4
<1>5. Unscanned \in Scans
  BY DEF Unscanned, Scans
<1>6. \E e : Def(e)
  <2> DEFINE step == [i \in 1..n |-> [s \in Scans |-> ScanStep(p, s, i)]]
  <2>1. step \in [1..n -> [Scans -> Scans]]
    BY <1>4
  <2>2. \A i \in 1..n, s \in Scans : step[i][s] = ScanStep(p, s, i)
    OBVIOUS
  <2> HIDE DEF step
  <2>3. PICK f : Computes(f, n, Scans, Unscanned, step)
    BY <1>5, <2>1, RecursionDefines
  <2>4. ASSUME NEW i \in 0..n
        PROVE  f[i] = IF i = 0 THEN Unscanned ELSE ScanStep(p, f[i - 1], i)
    <3>1. CASE i = 0
      BY <2>3, <3>1 DEF Computes
    <3>2. CASE i # 0
      <4>1. i \in 1..n /\ i - 1 \in 0..n
        BY <3>2
      <4>2. f[i] = step[i][f[i - 1]] /\ f[i - 1] \in Scans
        BY <2>3, <4>1 DEF Computes
      <4> QED BY <2>2, <3>2, <4>1, <4>2
    <3> QED BY <3>1, <3>2
  <2>5. f = [i \in 0..n |-> f[i]]
    BY <2>3 DEF Computes
  <2>6. f = [i \in 0..n |-> IF i = 0 THEN Unscanned ELSE ScanStep(p, f[i - 1], i)]
    BY <2>4, <2>5
  <2> QED BY <2>6
<1>7. Def(scan)
  BY <1>6
<1> HIDE DEF scan
<1>8. \A i \in 0..n : scan[i] = IF i = 0 THEN Unscanned ELSE ScanStep(p, scan[i - 1], i)
  BY <1>7
<1>9. \A i \in 0..n : scan[i] \in Scans
  <2> DEFINE Good == {i \in 0..n : scan[i] \in Scans}
  <2>1. 0 \in Good
    BY <1>5, <1>8
  <2>2. ASSUME NEW k \in 0..n, k \in Good, k < n PROVE k + 1 \in Good
    <3>1. k + 1 \in 1..n /\ k + 1 \in 0..n /\ k + 1 # 0 /\ (k + 1) - 1 = k
      BY <2>2
    <3>2. scan[k + 1] = ScanStep(p, scan[k], k + 1) /\ scan[k] \in Scans
      BY <1>8, <2>2, <3>1
    <3> QED BY <1>4, <3>1, <3>2
  <2> HIDE DEF Good
  <2>3. \A k \in 0..n : k \in Good
    BY <2>1, <2>2, InductionUpTo
  <2> QED BY <2>3 DEF Good
<1>10. scan \in [0..n -> Scans]
  <2>1. scan = [i \in 0..n |-> IF i = 0 THEN Unscanned ELSE ScanStep(p, scan[i - 1], i)]
    BY <1>7
  <2>2. \E F : scan = [i \in 0..n |-> F[i]]
    <3> DEFINE F == [i \in 0..n |-> IF i = 0 THEN Unscanned ELSE ScanStep(p, scan[i - 1], i)]
    <3>1. scan = [i \in 0..n |-> F[i]]
      BY <2>1
    <3> QED BY <3>1
  <2> QED BY <1>9, <2>2
<1> QED BY <1>1, <1>2, <1>8, <1>10

LEMMA NormalizedText ==
    ASSUME NEW path \in Seq(Elements)
    PROVE  normalize_relative_path(path) \in Seq(Elements)
<1>1. PICK p \in Seq(Elements), n \in Nat : p = Stripped(path) /\ n = Len(p)
  <2>1. PICK p : p = Stripped(path)
    OBVIOUS
  <2>2. p \in Seq(Elements)
    <3>1. SubSeq(path, 3, Len(path)) \in Seq(Elements)
      OBVIOUS
    <3> QED BY <2>1, <3>1 DEF Stripped
  <2>3. Len(p) \in Nat
    BY <2>2
  <2> QED BY <2>1, <2>2, <2>3
<1>2. PICK scan \in [0..n -> Scans] : normalize_relative_path(path) = scan[n].text
  BY <1>1, NormalizedSteps
<1>3. scan[n] \in Scans
  OBVIOUS
<1> QED BY <1>2, <1>3 DEF Scans

LEMMA CanonicalSteps ==
    ASSUME NEW path \in Seq(Elements), NEW n \in Nat, n = Len(path)
    PROVE  \E at \in [0..n -> Seq(Elements)] :
              /\ Canonical(path) = at[n] /\ at[0] = <<>>
              /\ \A i \in 1..n :
                     at[i] = IF Kept(path, i) THEN Append(at[i - 1], path[i]) ELSE at[i - 1]
<1> DEFINE Go(t, i) == IF Kept(path, i) THEN Append(t, path[i]) ELSE t
           V == Seq(Elements)
           Def(e) == e = [i \in 0..Len(path) |-> IF i = 0 THEN <<>> ELSE Go(e[i - 1], i)]
           at == CHOOSE e : Def(e)
<1>1. Canonical(path) = at[Len(path)]
  BY DEF Canonical, Kept
<1>2. ASSUME NEW t \in V, NEW i \in 1..n PROVE Go(t, i) \in V
  <2>1. path[i] \in Elements
    OBVIOUS
  <2>2. Append(t, path[i]) \in V
    BY <2>1
  <2> QED BY <2>2
<1>3. <<>> \in V
  OBVIOUS
<1> HIDE DEF V, Go
<1>4. PICK f : /\ f \in [0..n -> V] /\ f[0] = <<>>
               /\ \A i \in 1..n : f[i] = Go(f[i - 1], i)
  <2> DEFINE step == [i \in 1..n |-> [t \in V |-> Go(t, i)]]
  <2>1. step \in [1..n -> [V -> V]]
    BY <1>2
  <2>2. \A i \in 1..n, t \in V : step[i][t] = Go(t, i)
    OBVIOUS
  <2> HIDE DEF step
  <2>3. PICK f : Computes(f, n, V, <<>>, step)
    BY <1>3, <2>1, RecursionDefines
  <2>4. ASSUME NEW i \in 1..n PROVE f[i] = Go(f[i - 1], i)
    <3>1. f[i] = step[i][f[i - 1]] /\ f[i - 1] \in V
      BY <2>3 DEF Computes
    <3> QED BY <2>2, <3>1
  <2> QED BY <2>3, <2>4 DEF Computes
<1>5. Def(f)
  <2>1. f = [i \in 0..n |-> f[i]]
    BY <1>4
  <2>2. \A i \in 0..n : f[i] = IF i = 0 THEN <<>> ELSE Go(f[i - 1], i)
    BY <1>4
  <2>3. f = [i \in 0..n |-> IF i = 0 THEN <<>> ELSE Go(f[i - 1], i)]
    BY <2>1, <2>2
  <2> QED BY <2>3
<1>6. Def(at)
  BY <1>5
<1> HIDE DEF at
<1>7. \A i \in 0..n : at[i] = IF i = 0 THEN <<>> ELSE Go(at[i - 1], i)
  BY <1>6
<1>8. \A i \in 0..n : at[i] = f[i]
  <2> DEFINE Good == {i \in 0..n : at[i] = f[i]}
  <2>1. 0 \in Good
    BY <1>4, <1>7
  <2>2. ASSUME NEW k \in 0..n, k \in Good, k < n PROVE k + 1 \in Good
    <3>1. k + 1 \in 1..n /\ k + 1 \in 0..n /\ k + 1 # 0 /\ (k + 1) - 1 = k
      BY <2>2
    <3>2. at[k + 1] = Go(at[k], k + 1) /\ f[k + 1] = Go(f[k], k + 1) /\ at[k] = f[k]
      BY <1>4, <1>7, <2>2, <3>1
    <3> QED BY <3>1, <3>2
  <2> HIDE DEF Good
  <2>3. \A k \in 0..n : k \in Good
    BY <2>1, <2>2, InductionUpTo
  <2> QED BY <2>3 DEF Good
<1>9. Canonical(path) = f[n]
  BY <1>1, <1>8
<1> QED BY <1>4, <1>9 DEF Go, V

(* Of a path that neither begins nor ends with a ".", both take the same.  *)
LEMMA ScanIsCanonical ==
    ASSUME NEW p \in Seq(Elements), NEW n \in Nat, n = Len(p), Separated(p), DotsApart(p),
           n > 0 => p[1] # "." /\ p[n] # ".",
           NEW scan \in [0..n -> Scans], NEW at \in [0..n -> Seq(Elements)],
           \A i \in 0..n : scan[i] = IF i = 0 THEN Unscanned ELSE ScanStep(p, scan[i - 1], i),
           at[0] = <<>>,
           \A i \in 1..n : at[i] = IF Kept(p, i) THEN Append(at[i - 1], p[i]) ELSE at[i - 1]
    PROVE  scan[n].text = at[n]
<1> DEFINE Before(i) == IF i = 0 \/ i = n THEN FALSE ELSE p[i] # "." /\ p[i + 1] = "."
           Left(i) == IF i > 0 /\ p[i] = "." THEN 1 ELSE IF Before(i) THEN 2 ELSE 0
           Good == {i \in 0..n : scan[i].text = at[i] /\ scan[i].skip = Left(i)}
<1>1. 0 \in Good
  <2>1. scan[0] = Unscanned
    OBVIOUS
  <2>2. scan[0].text = <<>> /\ scan[0].skip = 0
    BY <2>1 DEF Unscanned
  <2> QED BY <2>2
<1>2. \A i \in 1..n : i < n => p[i] = "/" \/ p[i + 1] = "/"
  BY DEF Separated
<1>3. \A i \in 1..n : i + 2 <= n => ~(p[i] = "." /\ p[i + 2] = ".")
  <2>1. \A i \in 1..n : i + 2 <= n => i \in 1..n - 2
    OBVIOUS
  <2> QED BY <2>1 DEF DotsApart
<1>4. ASSUME NEW i \in 1..n, p[i] # "." PROVE DotAt(p, i) <=> Before(i)
  <2>1. CASE i + 2 <= n
    <3>1. PICK w : w = SubSeq(p, i, i + 2)
      OBVIOUS
    <3>2. w \in Seq(Elements) /\ Len(w) = 3 /\ w[1] = p[i] /\ w[2] = p[i + 1] /\ w[3] = p[i + 2]
      BY <2>1, <3>1
    <3>3. w = <<"/", ".", "/">> <=> w[1] = "/" /\ w[2] = "." /\ w[3] = "/"
      BY <3>2
    <3>4. DotAt(p, i) <=> p[i] = "/" /\ p[i + 1] = "." /\ p[i + 2] = "/"
      BY <2>1, <3>1, <3>2, <3>3 DEF DotAt
    <3>5. i + 1 \in 1..n /\ i < n /\ i + 1 < n /\ (i + 1) + 1 = i + 2
      BY <2>1
    <3>6. p[i + 1] = "." => p[i] = "/" /\ p[i + 2] = "/"
      BY <1>2, <3>5
    <3> QED BY <1>4, <3>4, <3>5, <3>6
  <2>2. CASE ~(i + 2 <= n)
    <3>1. ~DotAt(p, i)
      BY <2>2 DEF DotAt
    <3>2. i = n \/ i + 1 = n
      BY <2>2
    <3>3. ~Before(i)
      BY <3>2
    <3> QED BY <3>1, <3>3
  <2> QED BY <2>1, <2>2
<1>5. ASSUME NEW k \in 0..n, k \in Good, k < n PROVE k + 1 \in Good
  <2>1. PICK i \in 1..n : i = k + 1
    BY <1>5
  <2>2. k = i - 1 /\ k \in 0..n
    BY <2>1
  <2>3. /\ scan[i] = ScanStep(p, scan[k], i) /\ scan[k].text = at[k] /\ scan[k].skip = Left(k)
        /\ at[i] = IF Kept(p, i) THEN Append(at[k], p[i]) ELSE at[k]
    BY <1>5, <2>1, <2>2
  <2>4. PICK s \in Scans : s = scan[k]
    BY <2>2
  <2>5. CASE p[i] = "."
    <3>1. i > 1 /\ k > 0 /\ k # n /\ k \in 1..n /\ k < n /\ k + 1 = i
      BY <2>1, <2>2, <2>5
    <3>2. p[k] = "/"
      <4>1. p[k] = "/" \/ p[k + 1] = "/"
        BY <1>2, <3>1
      <4>2. p[k] = "/" \/ p[i] = "/"
        BY <3>1, <4>1
      <4> QED BY <2>5, <4>2
    <3>3. Left(k) = 2
      BY <2>5, <3>1, <3>2
    <3>4. s.skip > 0 /\ ~Kept(p, i)
      BY <2>3, <2>4, <2>5, <3>3 DEF Kept
    <3>5. scan[i] = [s EXCEPT !.skip = @ - 1]
      BY <2>3, <2>4, <3>4 DEF ScanStep
    <3>6. scan[i].text = s.text /\ scan[i].skip = s.skip - 1
      BY <3>5 DEF Scans
    <3>7. Left(i) = 1
      BY <2>5
    <3> QED BY <2>1, <2>3, <2>4, <3>3, <3>4, <3>6, <3>7
  <2>6. CASE p[i] # "." /\ k > 0 /\ p[k] = "."
    <3>1. k \in 1..n /\ k < n /\ k + 1 = i
      BY <2>1, <2>2, <2>6
    <3>2. p[i] = "/"
      BY <1>2, <2>6, <3>1
    <3>3. Left(k) = 1
      BY <2>6
    <3>4. i > 1 /\ i - 1 = k
      BY <2>2, <2>6
    <3>5. s.skip > 0 /\ ~Kept(p, i)
      BY <2>3, <2>4, <2>6, <3>2, <3>3, <3>4 DEF Kept
    <3>6. scan[i] = [s EXCEPT !.skip = @ - 1]
      BY <2>3, <2>4, <3>5 DEF ScanStep
    <3>7. scan[i].text = s.text /\ scan[i].skip = s.skip - 1
      BY <3>6 DEF Scans
    <3>8. ~Before(i)
      <4>1. i # n => k + 2 <= n /\ k + 2 = i + 1
        BY <3>1
      <4> QED BY <1>3, <2>6, <3>1, <4>1
    <3>9. Left(i) = 0
      BY <2>6, <3>8
    <3> QED BY <2>1, <2>3, <2>4, <3>3, <3>5, <3>7, <3>9
  <2>7. CASE p[i] # "." /\ ~(k > 0 /\ p[k] = ".")
    <3>1. ~Before(k)
      <4>1. k + 1 = i
        BY <2>1
      <4> QED BY <2>7, <4>1
    <3>2. Left(k) = 0
      BY <2>7, <3>1
    <3>3. Kept(p, i)
      <4>1. i > 1 => k > 0 /\ i - 1 = k
        BY <2>2
      <4> QED BY <2>7, <4>1 DEF Kept
    <3>4. scan[i] = [text |-> Append(s.text, p[i]), skip |-> IF DotAt(p, i) THEN 2 ELSE 0]
      <4>1. s.skip = 0 /\ scan[i] = ScanStep(p, s, i)
        BY <2>3, <2>4, <3>2
      <4>2. ~(s.skip > 0)
        BY <4>1
      <4> QED BY <4>1, <4>2, Zenon DEF ScanStep
    <3>5. scan[i].text = Append(s.text, p[i]) /\ scan[i].skip = IF DotAt(p, i) THEN 2 ELSE 0
      BY <3>4
    <3>6. Left(i) = IF DotAt(p, i) THEN 2 ELSE 0
      BY <1>4, <2>7
    <3>7. at[i] = Append(s.text, p[i])
      BY <2>3, <2>4, <3>3
    <3>8. scan[i].text = at[i] /\ scan[i].skip = Left(i)
      BY <3>5, <3>6, <3>7
    <3> QED BY <2>1, <3>8
  <2> QED BY <2>5, <2>6, <2>7
<1> HIDE DEF Good
<1>6. \A k \in 0..n : k \in Good
  BY <1>1, <1>5, InductionUpTo
<1> QED BY <1>6 DEF Good

(* The "./" a path begins with makes no difference to the file it names.   *)
LEMMA StrippedNames ==
    ASSUME NEW path \in Seq(Elements), NEW p, p = Stripped(path), path[1] # "." \/ Len(path) > 1,
           Separated(path), DotsApart(path)
    PROVE  /\ p \in Seq(Elements) /\ Separated(p) /\ DotsApart(p)
           /\ Len(p) > 0 => p[1] # "."
           /\ Canonical(p) = Canonical(path)
<1>1. PICK m \in Nat : m = Len(path)
  OBVIOUS
<1>2. IsPrefix(<<".", "/">>, path) <=> m >= 2 /\ path[1] = "." /\ path[2] = "/"
  BY <1>1 DEF IsPrefix
<1>3. CASE ~IsPrefix(<<".", "/">>, path)
  <2>1. p = path
    BY <1>3 DEF Stripped
  <2>2. ASSUME m > 0, path[1] = "." PROVE FALSE
    <3>1. m >= 2 /\ 1 \in 1..m - 1
      BY <1>1, <2>2
    <3>2. path[1] = "/" \/ path[1 + 1] = "/"
      BY <1>1, <3>1 DEF Separated
    <3> QED BY <1>2, <1>3, <2>2, <3>1, <3>2
  <2> QED BY <1>1, <2>1, <2>2
<1>4. CASE IsPrefix(<<".", "/">>, path)
  <2>1. m >= 2 /\ path[1] = "." /\ path[2] = "/" /\ p = SubSeq(path, 3, m)
    BY <1>1, <1>2, <1>4 DEF Stripped
  <2>2. PICK n \in Nat : n + 2 = m
    <3>1. m - 2 \in Nat /\ (m - 2) + 2 = m
      BY <2>1
    <3> QED BY <3>1
  <2>3. p \in Seq(Elements) /\ Len(p) = n /\ \A i \in 1..n : p[i] = path[i + 2]
    BY <1>1, <2>1, <2>2
  <2>4. Separated(p)
    <3>1. ASSUME NEW i \in 1..n - 1 PROVE p[i] = "/" \/ p[i + 1] = "/"
      <4>1. i + 2 \in 1..m - 1 /\ (i + 2) + 1 = (i + 1) + 2 /\ i \in 1..n /\ i + 1 \in 1..n
        BY <2>2
      <4>2. path[i + 2] = "/" \/ path[(i + 2) + 1] = "/"
        BY <1>1, <4>1 DEF Separated
      <4> QED BY <2>3, <4>1, <4>2
    <3> QED BY <2>3, <3>1 DEF Separated
  <2>5. DotsApart(p)
    <3>1. ASSUME NEW i \in 1..n - 2 PROVE ~(p[i] = "." /\ p[i + 2] = ".")
      <4>1. i + 2 \in 1..m - 2 /\ (i + 2) + 2 = (i + 2) + 2 /\ i \in 1..n /\ i + 2 \in 1..n
        BY <2>2
      <4>2. ~(path[i + 2] = "." /\ path[(i + 2) + 2] = ".")
        BY <1>1, <4>1 DEF DotsApart
      <4> QED BY <2>3, <4>1, <4>2
    <3> QED BY <2>3, <3>1 DEF DotsApart
  <2>6. n > 0 => p[1] # "."
    <3>1. n > 0 => 1 \in 1..m - 2 /\ 1 \in 1..n /\ 1 + 2 = 3
      BY <2>2
    <3>2. n > 0 => ~(path[1] = "." /\ path[1 + 2] = ".")
      BY <1>1, <3>1 DEF DotsApart
    <3> QED BY <2>1, <2>3, <3>1, <3>2
  <2>7. PICK f \in [0..m -> Seq(Elements)] :
            /\ Canonical(path) = f[m] /\ f[0] = <<>>
            /\ \A i \in 1..m :
                   f[i] = IF Kept(path, i) THEN Append(f[i - 1], path[i]) ELSE f[i - 1]
    BY <1>1, CanonicalSteps
  <2>8. PICK g \in [0..n -> Seq(Elements)] :
            /\ Canonical(p) = g[n] /\ g[0] = <<>>
            /\ \A i \in 1..n : g[i] = IF Kept(p, i) THEN Append(g[i - 1], p[i]) ELSE g[i - 1]
    BY <2>3, CanonicalSteps
  <2> DEFINE Good == {i \in 0..n : f[i + 2] = g[i]}
  <2>9. 0 \in Good
    <3>1. ~Kept(path, 1) /\ ~Kept(path, 2)
      BY <2>1 DEF Kept
    <3>2. 1 \in 1..m /\ 2 \in 1..m /\ 1 - 1 = 0 /\ 2 - 1 = 1 /\ 0 + 2 = 2
      BY <2>2
    <3>3. f[1] = <<>>
      BY <2>7, <3>1, <3>2
    <3>4. f[2] = <<>>
      BY <2>7, <3>1, <3>2, <3>3
    <3> QED BY <2>8, <3>2, <3>4
  <2>10. ASSUME NEW k \in 0..n, k \in Good, k < n PROVE k + 1 \in Good
    <3>1. PICK i \in 1..n : i = k + 1
      BY <2>10
    <3>2. i + 2 \in 1..m /\ (i + 2) - 1 = k + 2 /\ i - 1 = k /\ k + 1 \in 0..n
      BY <2>2, <3>1
    <3>3. p[i] = path[i + 2]
      BY <2>3
    <3>4. Kept(path, i + 2) <=> Kept(p, i)
      <4>1. CASE i = 1
        <5>1. i + 2 = 3 /\ 3 - 1 = 2 /\ 3 > 1 /\ ~(1 > 1)
          BY <4>1
        <5>2. path[(i + 2) - 1] # "."
          BY <2>1, <5>1
        <5> QED BY <3>3, <4>1, <5>1, <5>2 DEF Kept
      <4>2. CASE i # 1
        <5>1. i > 1 /\ i + 2 > 1 /\ i - 1 \in 1..n /\ (i - 1) + 2 = (i + 2) - 1
          BY <4>2
        <5>2. p[i - 1] = path[(i + 2) - 1]
          BY <2>3, <5>1
        <5> QED BY <3>3, <5>1, <5>2 DEF Kept
      <4> QED BY <4>1, <4>2
    <3>5. f[i + 2] = IF Kept(path, i + 2) THEN Append(f[k + 2], path[i + 2]) ELSE f[k + 2]
      BY <2>7, <3>2
    <3>6. g[i] = IF Kept(p, i) THEN Append(g[k], p[i]) ELSE g[k]
      BY <2>8, <3>2
    <3>7. f[k + 2] = g[k]
      BY <2>10
    <3> QED BY <3>1, <3>2, <3>3, <3>4, <3>5, <3>6, <3>7
  <2> HIDE DEF Good
  <2>11. \A k \in 0..n : k \in Good
    BY <2>9, <2>10, InductionUpTo
  <2>12. f[m] = g[n]
    BY <2>2, <2>11 DEF Good
  <2> QED BY <2>3, <2>4, <2>5, <2>6, <2>7, <2>8, <2>12
<1> QED BY <1>3, <1>4

(* The path of a file, its dots apart, is normalized to the name that an   *)
(* import asks for.                                                        *)
LEMMA NormalizedIsCanonical ==
    ASSUME NEW path \in Seq(Elements), Separated(path), DotsApart(path), NamesAFile(path)
    PROVE  normalize_relative_path(path) = Canonical(path)
<1>0. PICK name, k : name = Canonical(path) /\ k = Len(name) /\ name # <<>> /\ name[k] # "/"
  BY DEF NamesAFile
<1>1. path[1] # "." \/ Len(path) > 1
  <2> SUFFICES ASSUME path[1] = ".", Len(path) <= 1 PROVE FALSE
    OBVIOUS
  <2>1. PICK m \in Nat : m = Len(path) /\ (m = 0 \/ m = 1)
    <3>1. PICK m \in Nat : m = Len(path)
      OBVIOUS
    <3>2. m = 0 \/ m = 1
      BY <3>1
    <3> QED BY <3>1, <3>2
  <2>2. PICK f \in [0..m -> Seq(Elements)] :
            /\ Canonical(path) = f[m] /\ f[0] = <<>>
            /\ \A i \in 1..m :
                   f[i] = IF Kept(path, i) THEN Append(f[i - 1], path[i]) ELSE f[i - 1]
    BY <2>1, CanonicalSteps
  <2>3. f[m] = <<>>
    <3>1. CASE m = 0
      BY <2>2, <3>1
    <3>2. CASE m = 1
      <4>1. ~Kept(path, 1) /\ 1 \in 1..m /\ 1 - 1 = 0
        BY <3>2 DEF Kept
      <4> QED BY <2>2, <3>2, <4>1
    <3> QED BY <2>1, <3>1, <3>2
  <2> QED BY <1>0, <2>2, <2>3
<1>2. PICK p : p = Stripped(path)
  OBVIOUS
<1>3. /\ p \in Seq(Elements) /\ Separated(p) /\ DotsApart(p)
      /\ Len(p) > 0 => p[1] # "."
      /\ Canonical(p) = name
  BY <1>0, <1>1, <1>2, StrippedNames
<1>4. PICK n \in Nat : n = Len(p)
  BY <1>3
<1>5. PICK f \in [0..n -> Seq(Elements)] :
          /\ name = f[n] /\ f[0] = <<>>
          /\ \A i \in 1..n : f[i] = IF Kept(p, i) THEN Append(f[i - 1], p[i]) ELSE f[i - 1]
  <2>1. p \in Seq(Elements)
    BY <1>3
  <2>2. PICK f \in [0..n -> Seq(Elements)] :
            /\ Canonical(p) = f[n] /\ f[0] = <<>>
            /\ \A i \in 1..n : f[i] = IF Kept(p, i) THEN Append(f[i - 1], p[i]) ELSE f[i - 1]
    BY <1>4, <2>1, CanonicalSteps
  <2> QED BY <1>3, <2>2
<1>6. ASSUME n > 0, p[n] = "." PROVE FALSE
  <2>1. n > 1
    BY <1>3, <1>4, <1>6
  <2>2. PICK j \in 1..n : j + 1 = n
    <3>1. n - 1 \in 1..n /\ (n - 1) + 1 = n
      BY <2>1
    <3> QED BY <3>1
  <2>3. p[j] = "/"
    <3>1. j \in 1..Len(p) - 1
      BY <1>4, <2>2
    <3> QED BY <1>3, <1>6, <2>2, <3>1 DEF Separated
  <2>4. Kept(p, j)
    <3>1. ASSUME j > 1, p[j - 1] = "." PROVE FALSE
      <4>1. j - 1 \in 1..Len(p) - 2 /\ (j - 1) + 2 = n
        BY <1>4, <2>2, <3>1
      <4> QED BY <1>3, <1>6, <3>1, <4>1 DEF DotsApart
    <3> QED BY <2>3, <3>1 DEF Kept
  <2>5. ~Kept(p, n) /\ n - 1 = j /\ n \in 1..n /\ j - 1 \in 0..n
    BY <1>6, <2>2 DEF Kept
  <2>6. PICK t \in Seq(Elements) : t = f[j - 1]
    BY <2>5
  <2>7. f[n] = Append(t, p[j])
    BY <1>5, <2>4, <2>5, <2>6
  <2>8. p[j] \in Elements
    BY <1>3, <1>4
  <2>9. Append(t, p[j])[Len(Append(t, p[j]))] = p[j]
    BY <2>8
  <2> QED BY <1>0, <1>5, <2>3, <2>7, <2>9
<1>7. PICK scan \in [0..n -> Scans] :
          /\ normalize_relative_path(path) = scan[n].text
          /\ \A i \in 0..n :
                 scan[i] = IF i = 0 THEN Unscanned ELSE ScanStep(p, scan[i - 1], i)
  BY <1>2, <1>4, NormalizedSteps
<1>8. scan[n].text = f[n]
  BY <1>3, <1>4, <1>5, <1>6, <1>7, ScanIsCanonical
<1> QED BY <1>0, <1>5, <1>7, <1>8

(* SetToSeqs of a finite set has the sequences that name all of it.        *)
LEMMA OrderNamesAll ==
    ASSUME NEW S, IsFiniteSet(S), NEW order \in SetToSeqs(S)
    PROVE  order \in Seq(S) /\ \A x \in S : \E i \in 1..Len(order) : order[i] = x
<1>1. PICK n \in Nat : n = Cardinality(S)
  BY FS_CardinalityType
<1>2. order \in [1..n -> S] /\ \A i, j \in 1..n : i # j => order[i] # order[j]
  BY <1>1 DEF SetToSeqs
<1>3. \A f \in [1..n -> S] : f \in Seq(S) /\ Len(f) = n
  OBVIOUS
<1>4. order \in Injection(1..n, S)
  BY <1>2 DEF Injection, IsInjective
<1>5. IsFiniteSet(1..n) /\ Cardinality(1..n) = n
  BY FS_Interval
<1>6. order \in Surjection(1..n, S)
  BY <1>1, <1>4, <1>5, FS_Injection
<1>7. \A x \in S : \E i \in 1..n : order[i] = x
  BY <1>6 DEF Surjection
<1> QED BY <1>2, <1>3, <1>7

LEMMA MaxIn ==
    ASSUME NEW n \in Nat, NEW S, S \subseteq 1..n, S # {}
    PROVE  Max(S) \in S
<1>1. PICK x \in S : \A y \in S : x >= y
  BY GreatestExists
<1> QED BY <1>1 DEF Max

(* Every name of the table stands for a path that was given.               *)
LEMMA NameTableFrom ==
    ASSUME NEW args \in Seq(Seq(Elements))
    PROVE  /\ IsFiniteSet(DOMAIN NameTable(args))
           /\ \A n \in DOMAIN NameTable(args) :
                  n \in Seq(Elements) /\ NameTable(args)[n] \in ToSet(args)
<1> DEFINE N == {normalize_relative_path(p) : p \in ToSet(args)}
           I(n) == {i \in 1..Len(args) : normalize_relative_path(args[i]) = n}
           LastOf(n) == IF I(n) # {} THEN Max(I(n)) ELSE 0
<1>1. NameTable(args) = [n \in N |-> args[LastOf(n)]]
  BY DEF NameTable, SelectLastInSeq
<1>2. PICK m \in Nat : m = Len(args)
  OBVIOUS
<1>3. ToSet(args) = {args[i] : i \in 1..m} /\ \A i \in 1..m : args[i] \in Seq(Elements)
  <2>1. DOMAIN args = 1..m /\ \A i \in 1..m : args[i] \in Seq(Elements)
    BY <1>2
  <2> QED BY <2>1 DEF ToSet
<1>4. IsFiniteSet(N)
  <2> DEFINE f == [i \in 1..m |-> normalize_relative_path(args[i])]
  <2>1. f \in [1..m -> N]
    BY <1>3
  <2>2. \A n \in N : \E i \in 1..m : f[i] = n
    BY <1>3
  <2> HIDE DEF f, N
  <2>3. f \in Surjection(1..m, N)
    BY <2>1, <2>2 DEF Surjection
  <2>4. IsFiniteSet(1..m)
    BY FS_Interval
  <2> QED BY <2>3, <2>4, FS_Surjection
<1>5. ASSUME NEW n \in N PROVE n \in Seq(Elements) /\ args[LastOf(n)] \in ToSet(args)
  <2>1. PICK i \in 1..m : n = normalize_relative_path(args[i])
    BY <1>3
  <2>2. n \in Seq(Elements)
    BY <1>3, <2>1, NormalizedText
  <2>3. i \in I(n) /\ I(n) \subseteq 1..m
    BY <1>2, <2>1
  <2> HIDE DEF I
  <2>4. Max(I(n)) \in I(n)
    BY <2>3, MaxIn
  <2>5. LastOf(n) \in 1..m
    BY <2>3, <2>4
  <2> HIDE DEF LastOf
  <2> QED BY <1>3, <2>2, <2>5
<1> HIDE DEF N, LastOf
<1> QED BY <1>1, <1>4, <1>5

-----------------------------------------------------------------------------
(* The invariant.                                                          *)

LEMMA InitInv == FsInit => Inv
<1> SUFFICES ASSUME FsInit PROVE Inv
  OBVIOUS
<1>1. fs \in Seq(Node) /\ ObjectsOf(fs) = 0
  <2>1. fs = <<>> /\ <<>> \in Seq(Node)
    BY DEF FsInit
  <2>2. \A node \in Node, list \in Seq(Node) : ObjectsOf(<<>>) = 0
    BY ObjectsAdd
  <2>3. NodeOf(EmptyImage) \in Node
    BY DEF NodeOf, Node, EmptyImage
  <2> QED BY <2>1, <2>2, <2>3
<1>2. \A n : get_file(<<>>, n) = NotFound
  BY DEF get_file
<1>3. LookupExact
  BY <1>2 DEF FsInit, LookupExact, Empty
<1>4. AllocationsAccounted
  BY <1>1 DEF FsInit, AllocationsAccounted
<1>5. Packed
  BY DEF FsInit, Packed, Empty
<1> QED BY <1>1, <1>3, <1>4, <1>5 DEF FsInit, Inv

(* Packing: the output file holds what it was packed from, or nothing.     *)
LEMMA PackInv ==
    ASSUME Inv, NEW args \in ArgLists, do_pack(args)
    PROVE  Inv'
<1> DEFINE ok == /\ args # <<>>
                 /\ \A p \in ToSet(args) : is_ideal_path(p) /\ Canonical(p) \in DOMAIN disk
           path == NameTable(args)
           files == [n \in DOMAIN path |-> disk[Canonical(path[n])]]
<1>1. /\ UNCHANGED <<disk, fs, allocated, handed, dropped, store>>
      /\ ok => /\ tree' = files
               /\ \E order \in SetToSeqs(DOMAIN tree') : outfile' = pack(order, tree')
      /\ ~ok => outfile' = Unusable
  BY DEF do_pack
<1>2. LookupExact' /\ AllocationsAccounted'
  BY <1>1 DEF Inv, LookupExact, AllocationsAccounted
<1>3. ASSUME outfile' # Unusable PROVE \E order : Holds(outfile', order, tree')
  <2>1. ok
    BY <1>1, <1>3
  <2>2. args \in Seq(Seq(Elements)) /\ \A p \in DOMAIN disk : disk[p] \in Seq(Bytes)
    BY CellFsAssumption DEF Inv
  <2>3. /\ IsFiniteSet(DOMAIN path)
        /\ \A n \in DOMAIN path : n \in Seq(Elements) /\ path[n] \in ToSet(args)
    BY <2>2, NameTableFrom
  <2> HIDE DEF path
  <2>4. DOMAIN files \in SUBSET Seq(Elements) /\ files \in [DOMAIN files -> Seq(Bytes)]
    BY <2>1, <2>2, <2>3
  <2>5. files \in Files /\ IsFiniteSet(DOMAIN files)
    BY <2>3, <2>4 DEF Files
  <2>6. PICK f, order : f = tree' /\ order \in SetToSeqs(DOMAIN f) /\ outfile' = pack(order, f)
    BY <1>1, <2>1
  <2>7. f \in Files /\ IsFiniteSet(DOMAIN f)
    BY <1>1, <2>1, <2>5, <2>6
  <2>8. order \in Seq(DOMAIN f) /\ \A x \in DOMAIN f : \E i \in 1..Len(order) : order[i] = x
    BY <2>6, <2>7, OrderNamesAll
  <2>9. Holds(pack(order, f), order, f)
    BY <2>7, <2>8, PackHolds
  <2> QED BY <2>6, <2>9
<1>4. Packed'
  <2>1. CASE ok
    <3>1. tree' = files /\ packed' = ToSet(args)
      BY <2>1 DEF do_pack
    <3>2. DOMAIN path = {normalize_relative_path(p) : p \in ToSet(args)}
      BY DEF NameTable
    <3> HIDE DEF path
    <3>3. DOMAIN tree' = {normalize_relative_path(p) : p \in packed'}
      BY <3>1, <3>2
    <3>4. ASSUME NEW p \in packed'
          PROVE  p \in Seq(Elements) /\ Separated(p) /\ NamesAFile(p)
      <4>1. p \in ToSet(args)
        BY <3>1
      <4>2. args \in Seq(Seq(Elements)) /\ disk \in Disks
        BY CellFsAssumption DEF Inv
      <4>3. p \in Seq(Elements)
        BY <4>1, <4>2 DEF ToSet
      <4>4. Separated(p)
        BY <4>1, PathAssumption DEF Separated
      <4>5. Canonical(p) \in DOMAIN disk
        BY <2>1, <4>1
      <4>6. NamesAFile(p)
        BY <4>2, <4>5, PathAssumption DEF NamesAFile
      <4> QED BY <4>3, <4>4, <4>6
    <3> QED BY <3>3, <3>4 DEF Packed
  <2>2. CASE ~ok
    <3>1. tree' = Empty /\ packed' = {}
      BY <2>2 DEF do_pack
    <3> QED BY <3>1 DEF Packed, Empty
  <2> QED BY <2>1, <2>2
<1> QED BY <1>1, <1>2, <1>3, <1>4 DEF Inv

(* The image serves these files.                                           *)
Serves(image, files) == \E order : Holds(image, order, files)

LEMMA MountInv ==
    ASSUME Inv, NEW image \in {outfile, EmptyImage}, NEW failing \in 0..3,
           ckb_load_fs(image, failing)
    PROVE  Inv'
<1>1. PICK files : /\ Serves(image, files)
                   /\ \A n : failing = 0 =>
                        /\ n \in DOMAIN store' <=> n \in DOMAIN files \/ n \in DOMAIN store
                        /\ n \in DOMAIN files => store'[n] = files[n]
                        /\ n \notin DOMAIN files /\ n \in DOMAIN store => store'[n] = store[n]
  <2>1. CASE image = EmptyImage
    <3>1. store' = store
      BY <2>1 DEF ckb_load_fs
    <3>2. Serves(image, Empty)
      BY <2>1, EmptyHolds DEF Serves
    <3>3. DOMAIN Empty = {}
      BY DEF Empty
    <3> QED BY <3>1, <3>2, <3>3
  <2>2. CASE image # EmptyImage
    <3>1. Serves(image, tree)
      BY <2>2 DEF ckb_load_fs, Inv, Serves
    <3>2. failing = 0 => store' = Over(tree, store)
      BY <2>2 DEF ckb_load_fs
    <3> QED BY <3>1, <3>2 DEF Over
  <2> QED BY <2>1, <2>2
<1>2. PICK order : Holds(image, order, files)
  BY <1>1 DEF Serves
<1>3. image \in Image
  BY <1>2 DEF Holds
<1>4. PICK node : node = NodeOf(image)
  OBVIOUS
<1>5. node \in Node
  BY <1>3, <1>4 DEF NodeOf, Node, Image
<1>6. /\ fs' = IF failing = 0 THEN <<node>> \o fs ELSE fs
      /\ allocated' = allocated + Cardinality(Obtained(image, failing) \ Freed(failing))
      /\ failing = 3 => image.count > 0
      /\ failing # 0 => store' = store
      /\ UNCHANGED <<disk, outfile, handed, dropped, packed, tree>>
  BY <1>4 DEF ckb_load_fs, load_fs, NodeOf
<1>7. /\ fs \in Seq(Node) /\ allocated \in Int /\ handed \in Int /\ dropped \in Int
      /\ allocated = ObjectsOf(fs) + handed + dropped
  BY DEF Inv, AllocationsAccounted
<1>8. PICK o, m \in Nat : o = Objects(node) /\ m = ObjectsOf(fs)
  <2>1. Objects(node) \in Nat
    BY DEF Objects
  <2> QED BY <1>5, <1>7, <2>1, ObjectsAdd
<1>9. Cardinality(Obtained(image, failing) \ Freed(failing)) = IF failing = 0 THEN o ELSE 0
  BY <1>3, <1>4, <1>6, <1>8, LoadAllocates
<1>10. fs' \in Seq(Node) /\ ObjectsOf(fs') = IF failing = 0 THEN o + m ELSE m
  <2>1. PICK list, new : list = fs /\ new = <<node>> \o list
    OBVIOUS
  <2>2. new \in Seq(Node) /\ ObjectsOf(new) = o + m
    BY <1>5, <1>7, <1>8, <2>1, ObjectsAdd
  <2>3. PICK l : l = fs'
    OBVIOUS
  <2>4. l = IF failing = 0 THEN new ELSE list
    BY <1>6, <2>1, <2>3
  <2>5. l \in Seq(Node) /\ ObjectsOf(l) = IF failing = 0 THEN o + m ELSE m
    BY <1>7, <1>8, <2>1, <2>2, <2>4
  <2> QED BY <2>3, <2>5
<1>11. allocated' \in Int /\ AllocationsAccounted'
  <2>1. PICK h, d \in Int : h = handed /\ d = dropped /\ h = handed' /\ d = dropped'
    BY <1>6, <1>7
  <2>2. CASE failing = 0
    <3>1. allocated' = (m + h + d) + o /\ ObjectsOf(fs') = o + m
      BY <1>6, <1>7, <1>8, <1>9, <1>10, <2>1, <2>2
    <3>2. allocated' = ObjectsOf(fs') + h + d /\ allocated' \in Int
      BY <1>8, <3>1
    <3> QED BY <2>1, <3>2 DEF AllocationsAccounted
  <2>3. CASE failing # 0
    <3>1. allocated' = (m + h + d) + 0 /\ ObjectsOf(fs') = m
      BY <1>6, <1>7, <1>8, <1>9, <1>10, <2>1, <2>3
    <3>2. allocated' = ObjectsOf(fs') + h + d /\ allocated' \in Int
      BY <1>8, <3>1
    <3> QED BY <2>1, <3>2 DEF AllocationsAccounted
  <2> QED BY <2>2, <2>3
<1>12. LookupExact'
  <2>1. SUFFICES ASSUME NEW n \in Lookups
                 PROVE  get_file(fs', n) = IF n \in DOMAIN store' THEN Found(store'[n]) ELSE NotFound
    BY DEF LookupExact, Found
  <2>2. n \in Seq(Elements)
    BY CellFsAssumption
  <2>3. get_file(fs, n) = IF n \in DOMAIN store THEN Found(store[n]) ELSE NotFound
    BY DEF Inv, LookupExact, Found
  <2>4. CASE failing = 0
    <3>1. get_file(<<node>> \o fs, n) = IF n \in DOMAIN files THEN Found(files[n]) ELSE get_file(fs, n)
      BY <1>2, <1>4, <1>7, <2>2, GetHolds
    <3> QED BY <1>1, <1>6, <2>3, <2>4, <3>1
  <2>5. CASE failing # 0
    BY <1>6, <2>3, <2>5
  <2> QED BY <2>4, <2>5
<1> QED BY <1>6, <1>7, <1>10, <1>11, <1>12 DEF Inv, Packed

LEMMA NextInv == Inv /\ [FsNext]_fsVars => Inv'
<1> SUFFICES ASSUME Inv, [FsNext]_fsVars PROVE Inv'
  OBVIOUS
<1>1. CASE UNCHANGED fsVars
  BY <1>1 DEF fsVars, Inv, Packed, AllocationsAccounted, LookupExact
<1>2. ASSUME NEW args \in ArgLists, do_pack(args) PROVE Inv'
  BY <1>2, PackInv
<1>3. CASE do_unpack
  BY <1>3 DEF do_unpack, Inv, Packed, AllocationsAccounted, LookupExact
<1>4. ASSUME NEW image \in {outfile, EmptyImage}, NEW failing \in 0..3, ckb_load_fs(image, failing)
      PROVE  Inv'
  BY <1>4, MountInv
<1>5. ASSUME NEW name \in Lookups, NEW failing \in BOOLEAN, ckb_get_file(name, failing) PROVE Inv'
  <2>1. PICK got, freed, hit :
            /\ got \in {0, 1} /\ freed = IF got = 1 /\ ~hit THEN 1 ELSE 0
            /\ hit \in BOOLEAN /\ (hit => got = 1)
            /\ handed' = IF hit THEN handed + 1 ELSE handed
            /\ allocated' = allocated + got - freed
    <3> DEFINE opened == fs # <<>> /\ ~failing
               Hit == opened /\ get_file(fs, name).found
    <3>1. /\ handed' = IF Hit THEN handed + 1 ELSE handed
          /\ allocated' = allocated + (IF opened THEN 1 ELSE 0)
                              - (IF opened /\ ~Hit THEN 1 ELSE 0)
      BY <1>5 DEF ckb_get_file
    <3>2. Hit \in BOOLEAN /\ (Hit => opened)
      OBVIOUS
    <3> HIDE DEF opened, Hit
    <3>3. CASE opened
      BY <3>1, <3>2, <3>3
    <3>4. CASE ~opened
      BY <3>1, <3>2, <3>4
    <3> QED BY <3>3, <3>4
  <2>2. UNCHANGED <<disk, outfile, fs, dropped, packed, tree, store>>
    BY <1>5 DEF ckb_get_file
  <2>3. PICK m \in Int : m = ObjectsOf(fs)
    <3>1. NodeOf(EmptyImage) \in Node
      BY DEF NodeOf, Node, EmptyImage
    <3>2. ObjectsOf(fs) \in Nat
      BY <3>1, ObjectsAdd DEF Inv
    <3> QED BY <3>2
  <2>4. allocated = m + handed + dropped /\ handed \in Int /\ dropped \in Int
    BY <2>3 DEF Inv, AllocationsAccounted
  <2>5. allocated' = m + handed' + dropped /\ handed' \in Int /\ allocated' \in Int
    BY <2>1, <2>4
  <2>6. AllocationsAccounted'
    BY <2>2, <2>3, <2>5 DEF AllocationsAccounted
  <2>7. LookupExact'
    BY <2>2 DEF Inv, LookupExact
  <2> QED BY <2>2, <2>5, <2>6, <2>7 DEF Inv, Packed
<1>6. CASE ckb_reset_fs
  <2>1. /\ fs' = <<>> /\ store' = Empty /\ dropped' = dropped + ObjectsOf(fs)
        /\ UNCHANGED <<disk, outfile, allocated, handed, packed, tree>>
    BY <1>6 DEF ckb_reset_fs
  <2>2. ObjectsOf(fs) \in Nat /\ ObjectsOf(<<>>) = 0
    <3>1. NodeOf(EmptyImage) \in Node
      BY DEF NodeOf, Node, EmptyImage
    <3> QED BY <3>1, ObjectsAdd DEF Inv
  <2>3. PICK m \in Int : m = ObjectsOf(fs)
    BY <2>2
  <2>4. allocated' = 0 + handed' + dropped' /\ dropped' \in Int
    BY <2>1, <2>3 DEF Inv, AllocationsAccounted
  <2>5. AllocationsAccounted'
    BY <2>1, <2>2, <2>4 DEF AllocationsAccounted
  <2>6. LookupExact'
    <3>1. \A n : get_file(<<>>, n) = NotFound
      BY DEF get_file
    <3> QED BY <2>1, <3>1 DEF LookupExact, Empty
  <2>7. fs' \in Seq(Node)
    BY <2>1
  <2> QED BY <2>1, <2>4, <2>5, <2>6, <2>7 DEF Inv, Packed
<1> QED BY <1>1, <1>2, <1>3, <1>4, <1>5, <1>6 DEF FsNext

LEMMA InvHolds == FsSpec => []Inv
<1> QED BY InitInv, NextInv, PTL DEF FsSpec

(* Every object ckb_cell_fs.c allocates is in the list, with a caller or   *)
(* was dropped by a reset: no path that fails leaks one (load_fs,          *)
(* ckb_get_file).                                                          *)
THEOREM ObjectsAccounted == FsSpec => []AllocationsAccounted
<1>1. Inv => AllocationsAccounted
  BY DEF Inv
<1> QED BY <1>1, InvHolds, PTL

(* ckb_get_file finds what fs.lua has packed: a file is found exactly when *)
(* a mounted image was packed with its name, with the contents it was      *)
(* packed with last.                                                       *)
THEOREM LookupsAreExact == FsSpec => []LookupExact
<1>1. Inv => LookupExact
  BY DEF Inv
<1> QED BY <1>1, InvHolds, PTL

(* fs.lua packs every path, its dots apart, under the name an import asks  *)
(* for: no two paths of one file give two entries, and no entry has a name *)
(* that a lookup cannot ask for (normalize_relative_path).                 *)
THEOREM PackedNamesAreImportable == FsSpec => []NamesAreImportable
<1>1. Inv => NamesAreImportable
  <2> SUFFICES ASSUME Packed, \A p \in packed : DotsApart(p)
               PROVE  DOMAIN tree = {Canonical(p) : p \in packed}
    BY DEF Inv, NamesAreImportable
  <2>1. \A p \in packed : normalize_relative_path(p) = Canonical(p)
    BY NormalizedIsCanonical DEF Packed
  <2> QED BY <2>1 DEF Packed
<1> QED BY <1>1, InvHolds, PTL

(* fs.lua unpacks the files it has packed.                                 *)
THEOREM UnpackIsExact == FsSpec => UnpackRestores
<1>1. Inv /\ [FsNext]_fsVars => [dir' # dir => dir' = Over(tree, dir)]_fsVars
  <2> SUFFICES ASSUME Inv, FsNext, dir' # dir PROVE dir' = Over(tree, dir)
    BY DEF fsVars
  <2>1. do_unpack
    BY DEF FsNext, do_pack, ckb_load_fs, ckb_get_file, ckb_reset_fs
  <2>2. outfile # Unusable /\ dir' = Over(unpack(outfile), dir)
    BY <2>1 DEF do_unpack
  <2>3. PICK order : Holds(outfile, order, tree)
    BY <2>2 DEF Inv
  <2>4. unpack(outfile) = tree
    BY <2>3, UnpackHolds
  <2> QED BY <2>2, <2>4
<1> QED BY <1>1, InvHolds, PTL DEF FsSpec, UnpackRestores
=============================================================================
