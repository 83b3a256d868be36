--------------------------- MODULE SyscallLoadProofs --------------------------
(***************************************************************************)
(* What the load_* functions of ckb_module.c deliver, for every word size, *)
(* item, length and offset: proofs of PartialLoadExact and                 *)
(* LossExplained.  Both follow from one step, so that the invariant is     *)
(* the types of the heap and the buffers; the work is what a call gives.   *)
(***************************************************************************)
EXTENDS SyscallLoad, Induction, SequenceTheorems

-----------------------------------------------------------------------------
(* Words.                                                                  *)

Word == 2^Width

LEMMA SizesFit ==
    ASSUME LoadAssumption
    PROVE  /\ NO_VALUE = Word - 1 /\ Word \in Nat \ {0}
           /\ \A n \in Nat : n < NO_VALUE => SizeT(n) = n
           /\ \A n \in Int : SizeT(n) \in Nat
<1>1. Word \in Nat \ {0}
  BY DEF LoadAssumption, Word
<1>2. \A k \in Nat \ {0} : (-1) % k = k - 1 /\ \A n \in Int : n % k \in Nat
  OBVIOUS
<1>3. \A k \in Nat \ {0} : \A n \in Nat : n < k - 1 => n % k = n
  OBVIOUS
<1>4. \A n : SizeT(n) = n % Word
  BY DEF SizeT, Word
<1>5. NO_VALUE = Word - 1
  BY <1>1, <1>2, <1>4 DEF NO_VALUE
<1> QED BY <1>1, <1>2, <1>3, <1>4, <1>5

-----------------------------------------------------------------------------
(* The system call.                                                        *)

IsItem(item) == item = {} \/ \E d : IsText(d) /\ item = {d}

LEMMA TextFacts ==
    ASSUME NEW d, IsText(d)
    PROVE  /\ Len(d) \in Nat /\ DOMAIN d = 1..Len(d)
           /\ \A i \in 1..Len(d) : d[i] \in {d[k] : k \in DOMAIN d}
<1> DEFINE S == {d[k] : k \in DOMAIN d}
<1>1. d \in Seq(S)
  BY DEF IsText
<1> HIDE DEF S
<1>2. Len(d) \in Nat /\ DOMAIN d = 1..Len(d) /\ \A i \in 1..Len(d) : d[i] \in S
  BY <1>1
<1> QED BY <1>2 DEF S

LEMMA PartOf ==
    ASSUME NEW d, IsText(d), NEW m \in Nat, NEW n \in Nat, m + n <= Len(d)
    PROVE  SubSeq(d, m + 1, m + n) = [i \in 1..n |-> d[m + i]]
<1> DEFINE S == {d[k] : k \in DOMAIN d}
           s == SubSeq(d, m + 1, m + n)
<1>1. d \in Seq(S)
  BY DEF IsText
<1>2. \A i \in (m + 1)..(m + n) : i \in 1..Len(d) /\ d[i] \in S
  BY TextFacts
<1> HIDE DEF S
<1>3. /\ s \in Seq(S) /\ Len(s) = IF m + 1 <= m + n THEN m + n - (m + 1) + 1 ELSE 0
      /\ \A i \in 1..(m + n - (m + 1) + 1) : s[i] = d[m + 1 + i - 1]
  BY <1>1, <1>2, SubSeqProperties, Z3
<1> HIDE DEF s
<1>4. Len(s) = n /\ \A i \in 1..n : s[i] = d[m + i]
  BY <1>3
<1>5. s = [i \in 1..n |-> s[i]]
  BY <1>3, <1>4
<1>6. s = [i \in 1..n |-> d[m + i]]
  BY <1>4, <1>5
<1> QED BY <1>6 DEF s

\* What is there from an offset on, at most want bytes of it.
Cut(d, want, offset, from, n) ==
    from = SmallerOf(offset, Len(d)) /\ n = SmallerOf(want, Len(d) - from)

LEMMA CutFacts ==
    ASSUME NEW d, IsText(d), NEW want \in Nat, NEW offset \in Nat, NEW from, NEW n,
           Cut(d, want, offset, from, n)
    PROVE  from \in Nat /\ n \in Nat /\ from + n <= Len(d) /\ n <= want
<1>1. PICK size \in Nat : size = Len(d)
  BY TextFacts
<1>2. from = SmallerOf(offset, size) /\ n = SmallerOf(want, size - from)
  BY <1>1 DEF Cut
<1>3. from \in Nat /\ from <= size
  BY <1>2 DEF SmallerOf
<1>4. PICK left \in Nat : left = size - from
  BY <1>3
<1>5. n = SmallerOf(want, left)
  BY <1>2, <1>4
<1>6. n \in Nat /\ n <= want /\ n <= left
  BY <1>5 DEF SmallerOf
<1> QED BY <1>1, <1>3, <1>4, <1>6

LEMMA LoadedFacts ==
    ASSUME NEW d, IsText(d), NEW want \in Nat, NEW offset \in Nat, NEW from, NEW n,
           Cut(d, want, offset, from, n)
    PROVE  /\ Loaded(d, want, offset).len = Len(d) - from
           /\ Len(Loaded(d, want, offset).bytes) = n
           /\ Loaded(d, want, offset).bytes = [i \in 1..n |-> d[from + i]]
<1>1. from \in Nat /\ n \in Nat /\ from + n <= Len(d)
  BY CutFacts
<1>2. SubSeq(d, from + 1, from + n) = [i \in 1..n |-> d[from + i]]
  BY <1>1, PartOf
<1>3. Len([i \in 1..n |-> d[from + i]]) = n
  BY <1>1
<1>4. Loaded(d, want, offset) = [len |-> Len(d) - from, bytes |-> SubSeq(d, from + 1, from + n)]
  BY DEF Loaded, Cut
<1>5. PICK size, bytes : size = Len(d) - from /\ bytes = [i \in 1..n |-> d[from + i]]
  OBVIOUS
<1>6. Loaded(d, want, offset) = [len |-> size, bytes |-> bytes]
  BY <1>2, <1>4, <1>5
<1>7. Loaded(d, want, offset).len = size /\ Loaded(d, want, offset).bytes = bytes
  BY <1>6
<1>8. Len(bytes) = n
  BY <1>3, <1>5
<1> QED BY <1>5, <1>7, <1>8

\* The same bytes, as the document counts them.
There(d, from) == SubSeq(d, from + 1, Len(d))

LEMMA ThereFacts ==
    ASSUME NEW d, IsText(d), NEW want \in Nat, NEW offset \in Nat, NEW from, NEW n,
           Cut(d, want, offset, from, n), NEW there, there = There(d, from)
    PROVE  /\ Len(there) = Len(d) - from
           /\ SubSeq(there, 1, SmallerOf(want, Len(there))) = [i \in 1..n |-> d[from + i]]
           /\ there = [i \in 1..(Len(d) - from) |-> d[from + i]]
<1>1. from \in Nat /\ n \in Nat /\ from + n <= Len(d) /\ n <= want
  BY CutFacts
<1>2. PICK size \in Nat : size = Len(d) - from /\ from + size = Len(d) /\ n <= size
  <2>1. PICK all \in Nat : all = Len(d)
    BY TextFacts
  <2>2. all - from \in Nat /\ from + (all - from) = all /\ n <= all - from
    BY <1>1, <2>1
  <2> QED BY <2>1, <2>2
<1>3. there = [i \in 1..size |-> d[from + i]]
  BY <1>1, <1>2, PartOf DEF There
<1>4. Len(there) = size
  BY <1>3
<1>5. SmallerOf(want, Len(there)) = n
  BY <1>2, <1>4 DEF Cut
<1>6. DOMAIN there = 1..size /\ \A i \in 1..size : there[i] = d[from + i]
  BY <1>3
<1>7. IsText(there)
  <2> DEFINE S == {there[i] : i \in DOMAIN there}
  <2>1. there \in [1..size -> S]
    BY <1>3, <1>6
  <2> HIDE DEF S
  <2>2. there \in Seq(S)
    BY <2>1
  <2> QED BY <2>2 DEF IsText, S
<1>8. SubSeq(there, 0 + 1, 0 + n) = [i \in 1..n |-> there[0 + i]]
  BY <1>1, <1>2, <1>4, <1>7, PartOf
<1>9. [i \in 1..n |-> there[0 + i]] = [i \in 1..n |-> d[from + i]]
  BY <1>1, <1>2, <1>6
<1>10. 0 + 1 = 1 /\ 0 + n = n
  BY <1>1
<1>11. SubSeq(there, 1, n) = [i \in 1..n |-> d[from + i]]
  BY <1>8, <1>9, <1>10
<1> QED BY <1>2, <1>3, <1>4, <1>5, <1>11

-----------------------------------------------------------------------------
(* The JavaScript call.                                                    *)

Start(offset0) == IF offset0 = NO_VALUE THEN 0 ELSE offset0

\* The bytes a call asks the system for.
Wants(d, length0, offset, want) ==
    want = IF length0 = NO_VALUE THEN probe(d, offset) ELSE length0

LEMMA BytesGiven ==
    ASSUME NEW d, IsText(d), NEW want \in Nat, NEW offset \in Nat, NEW from, NEW n,
           Cut(d, want, offset, from, n)
    PROVE  Received(Loaded(d, want, offset), want) = [i \in 1..n |-> d[from + i]]
<1>1. from \in Nat /\ n \in Nat /\ from + n <= Len(d) /\ n <= want
  BY CutFacts
<1>2. PICK got : got = Loaded(d, want, offset)
  OBVIOUS
<1>3. got.len = Len(d) - from /\ Len(got.bytes) = n /\ got.bytes = [i \in 1..n |-> d[from + i]]
  BY <1>2, LoadedFacts
<1>4. PICK size \in Nat : size = Len(d) - from
  BY <1>1, TextFacts
<1>5. n = SmallerOf(want, size) /\ got.len = size
  BY <1>3, <1>4 DEF Cut
<1>6. real_len(got.len, want) = n
  BY <1>5 DEF real_len, SmallerOf
<1>7. PICK bytes : bytes = got.bytes
  OBVIOUS
<1>8. Len(bytes) = n /\ \A i \in 1..n : bytes[i] = d[from + i]
  BY <1>1, <1>3, <1>7
<1>9. [i \in 1..n |-> IF i <= Len(bytes) THEN bytes[i] ELSE "stale"] = [i \in 1..n |-> d[from + i]]
  BY <1>1, <1>8
<1>10. Received(got, want) = [i \in 1..n |-> IF i <= Len(bytes) THEN bytes[i] ELSE "stale"]
  BY <1>6, <1>7 DEF Received
<1> QED BY <1>2, <1>9, <1>10

LEMMA OnlyItem ==
    ASSUME NEW d
    PROVE  (CHOOSE e \in {d} : TRUE) = d /\ {d} # {}
  OBVIOUS

LEMMA ProbeFacts ==
    ASSUME NEW d, IsText(d), NEW offset \in Nat
    PROVE  probe(d, offset) = Len(d) - SmallerOf(offset, Len(d))
<1>1. PICK from, n : Cut(d, 0, offset, from, n)
  BY DEF Cut
<1>2. Loaded(d, 0, offset).len = Len(d) - from
  BY <1>1, LoadedFacts
<1> QED BY <1>1, <1>2 DEF probe, Cut

\* What a call returns that asks for bytes of an item that exists.
LEMMA BufferReturned ==
    ASSUME NEW d, IsText(d), NEW length0, length0 # 0, NEW offset0,
           NEW want \in Nat, Wants(d, length0, Start(offset0), want), Start(offset0) \in Nat,
           NEW from, NEW n, Cut(d, want, Start(offset0), from, n)
    PROVE  syscall_load({d}, length0, offset0)
             = IF want > avail THEN Failed
               ELSE [ret |-> Buffer([i \in 1..n |-> d[from + i]]), took |-> want]
<1>1. Received(Loaded(d, want, Start(offset0)), want) = [i \in 1..n |-> d[from + i]]
  BY BytesGiven
<1>2. syscall_load({d}, length0, offset0)
        = IF want > avail THEN Failed
          ELSE [ret |-> Buffer(Received(Loaded(d, want, Start(offset0)), want)), took |-> want]
  BY OnlyItem DEF syscall_load, Start, Wants
<1> QED BY <1>1, <1>2

-----------------------------------------------------------------------------
(* What the document promises.                                             *)

Exact(item, rest, room, ret) ==
    Natural(rest) =>
        IF item = {} THEN ret = Throw
        ELSE LET data == CHOOSE d \in item : TRUE
                 wanted == IF rest = <<>> THEN Len(data) ELSE rest[1].n
             IN  ret = IF wanted > room THEN Throw ELSE Promised(data, rest)

IsList(rest) ==
    rest \in Seq({rest[i] : i \in DOMAIN rest}) /\ \A i \in DOMAIN rest : IsArgument(rest[i])

\* length0 and offset0 are what parse_args makes of rest.
Parsed(rest, length0, offset0) ==
    /\ length0 = IF Len(rest) >= 1 THEN ToSize(rest[1]) ELSE NO_VALUE
    /\ offset0 = IF Len(rest) >= 2 THEN ToSize(rest[2]) ELSE NO_VALUE

LEMMA ListFacts ==
    ASSUME LoadAssumption, NEW rest, IsList(rest), Natural(rest),
           NEW length0, NEW offset0, Parsed(rest, length0, offset0)
    PROVE  /\ rest = <<>> => length0 = NO_VALUE /\ Start(offset0) = 0
           /\ rest # <<>> =>
                 Len(rest) >= 1 /\ length0 = rest[1].n /\ length0 # NO_VALUE /\ length0 \in Nat
           /\ Start(offset0) = IF Len(rest) >= 2 THEN rest[2].n ELSE 0
           /\ Start(offset0) \in Nat
<1>1. Len(rest) \in Nat /\ DOMAIN rest = 1..Len(rest) /\ (rest = <<>> <=> Len(rest) = 0)
  <2> DEFINE S == {rest[i] : i \in DOMAIN rest}
  <2>1. rest \in Seq(S)
    BY DEF IsList
  <2> HIDE DEF S
  <2> QED BY <2>1, EmptySeq
<1>2. \A i \in 1..Len(rest) :
         rest[i].type = "number" /\ rest[i].n \in Nat /\ rest[i].n < NO_VALUE
  BY <1>1 DEF IsList, IsArgument, Natural
<1>3. \A i \in 1..Len(rest) : ToSize(rest[i]) = rest[i].n
  BY <1>2, SizesFit DEF ToSize
<1>4. NO_VALUE \in Nat
  BY SizesFit
<1>5. PICK k \in Nat : k = Len(rest)
  BY <1>1
<1>6. rest = <<>> => length0 = NO_VALUE /\ Start(offset0) = 0
  BY <1>1, <1>4, <1>5 DEF Parsed, Start
<1>7. rest # <<>> => Len(rest) >= 1 /\ length0 = rest[1].n /\ length0 # NO_VALUE /\ length0 \in Nat
  <2>1. SUFFICES ASSUME rest # <<>>
                 PROVE  k >= 1 /\ length0 = rest[1].n /\ length0 # NO_VALUE /\ length0 \in Nat
    BY <1>5
  <2>2. k >= 1 /\ 1 \in 1..Len(rest)
    BY <1>1, <1>5, <2>1
  <2>3. length0 = rest[1].n
    BY <1>3, <1>5, <2>2 DEF Parsed
  <2> QED BY <1>2, <1>4, <2>2, <2>3
<1>8. Start(offset0) = (IF k >= 2 THEN rest[2].n ELSE 0) /\ Start(offset0) \in Nat
  <2>1. CASE k >= 2
    <3>1. 2 \in 1..Len(rest)
      BY <1>5, <2>1
    <3>2. offset0 = rest[2].n
      BY <1>3, <1>5, <2>1, <3>1 DEF Parsed
    <3> QED BY <1>2, <1>4, <2>1, <3>1, <3>2 DEF Start
  <2>2. CASE ~(k >= 2)
    BY <1>5, <2>2 DEF Parsed, Start
  <2> QED BY <2>1, <2>2
<1> QED BY <1>5, <1>6, <1>7, <1>8

LEMMA NoItem ==
    ASSUME NEW length0, NEW offset0
    PROVE  syscall_load({}, length0, offset0).ret = Throw
  BY DEF syscall_load, Failed

LEMMA PromisedFrom ==
    ASSUME NEW d, NEW rest, NEW offset, NEW from, NEW there,
           offset = IF Len(rest) >= 2 THEN rest[2].n ELSE 0,
           offset = 0 => from = 0, from = SmallerOf(offset, Len(d)),
           there = There(d, from)
    PROVE  Promised(d, rest) = IF rest = <<>> THEN Buffer(there)
                               ELSE IF rest[1].n = 0 THEN Length(Len(there))
                               ELSE Buffer(SubSeq(there, 1, SmallerOf(rest[1].n, Len(there))))
<1>1. (IF Len(rest) >= 2 THEN SmallerOf(rest[2].n, Len(d)) ELSE 0) = from
  OBVIOUS
<1> QED BY <1>1, Zenon DEF Promised, There

LEMMA CallIsExact ==
    ASSUME LoadAssumption, avail \in Nat, NEW item, IsItem(item),
           NEW rest, IsList(rest), NEW length0, NEW offset0, Parsed(rest, length0, offset0)
    PROVE  Exact(item, rest, avail, syscall_load(item, length0, offset0).ret)
<1> SUFFICES ASSUME Natural(rest)
             PROVE  Exact(item, rest, avail, syscall_load(item, length0, offset0).ret)
  BY DEF Exact
<1>1. CASE item = {}
  BY <1>1, NoItem DEF Exact
<1>2. CASE item # {}
  <2>1. PICK d : IsText(d) /\ item = {d}
    BY <1>2 DEF IsItem
  <2>2. PICK offset \in Nat : offset = Start(offset0)
    BY ListFacts
  <2>3. PICK from : from = SmallerOf(offset, Len(d))
    OBVIOUS
  <2>4. offset = IF Len(rest) >= 2 THEN rest[2].n ELSE 0
    BY <2>2, ListFacts
  <2>5. Len(d) \in Nat
    BY <2>1, TextFacts
  <2>6. offset = 0 => from = 0
    BY <2>3, <2>5 DEF SmallerOf
  <2>7. PICK there : there = There(d, from)
    OBVIOUS
  <2>8. Promised(d, rest) = IF rest = <<>> THEN Buffer(there)
                            ELSE IF rest[1].n = 0 THEN Length(Len(there))
                            ELSE Buffer(SubSeq(there, 1, SmallerOf(rest[1].n, Len(there))))
    BY <2>3, <2>4, <2>6, <2>7, PromisedFrom
  <2>9. \A want \in Nat : \E n : Cut(d, want, offset, from, n)
    BY <2>3 DEF Cut
  <2>10. probe(d, offset) = Len(d) - from
    BY <2>1, <2>3, ProbeFacts
  <2>11. ASSUME NEW ret,
                ret = IF (IF rest = <<>> THEN Len(d) ELSE rest[1].n) > avail THEN Throw
                      ELSE Promised(d, rest)
         PROVE  Exact(item, rest, avail, ret)
    BY <2>1, <2>11, OnlyItem DEF Exact
  <2>12. CASE rest = <<>>
    <3>1. length0 = NO_VALUE /\ Start(offset0) = 0 /\ offset = 0 /\ from = 0
      BY <2>2, <2>6, <2>12, ListFacts
    <3>2. length0 # 0
      BY <3>1, SizesFit DEF LoadAssumption, Word
    <3>3. PICK want \in Nat : want = Len(d)
      BY <2>5
    <3>4. Wants(d, length0, Start(offset0), want) /\ Start(offset0) \in Nat
      BY <2>2, <2>10, <3>1, <3>3 DEF Wants
    <3>5. PICK n : Cut(d, want, Start(offset0), from, n)
      BY <2>2, <2>9
    <3>6. n = want
      BY <3>1, <3>3, <3>5 DEF Cut, SmallerOf
    <3>7. there = [i \in 1..n |-> d[from + i]]
      <4>1. there = [i \in 1..(Len(d) - from) |-> d[from + i]]
        BY <2>1, <2>2, <2>7, <3>5, ThereFacts
      <4>2. Len(d) - from = n
        BY <3>1, <3>3, <3>6
      <4> QED BY <4>1, <4>2
    <3>8. syscall_load(item, length0, offset0)
            = IF want > avail THEN Failed
              ELSE [ret |-> Buffer([i \in 1..n |-> d[from + i]]), took |-> want]
      BY <2>1, <3>2, <3>4, <3>5, BufferReturned
    <3>9. syscall_load(item, length0, offset0).ret = IF want > avail THEN Throw ELSE Buffer(there)
      BY <3>7, <3>8 DEF Failed
    <3> QED BY <2>8, <2>11, <2>12, <3>3, <3>9
  <2>13. CASE rest # <<>> /\ rest[1].n = 0
    <3>1. length0 = 0
      BY <2>13, ListFacts
    <3>2. syscall_load(item, length0, offset0).ret = Length(probe(d, offset))
      BY <2>1, <2>2, <3>1, OnlyItem DEF syscall_load, Start
    <3>3. PICK n : Cut(d, 0, offset, from, n)
      BY <2>9
    <3>4. Len(there) = Len(d) - from
      BY <2>1, <2>7, <3>3, ThereFacts
    <3>5. ~(rest[1].n > avail)
      BY <2>13
    <3> QED BY <2>8, <2>10, <2>11, <2>13, <3>2, <3>4, <3>5
  <2>14. CASE rest # <<>> /\ rest[1].n # 0
    <3>1. PICK want \in Nat : want = rest[1].n
      BY <2>14, ListFacts
    <3>2. length0 = want /\ length0 # 0 /\ length0 # NO_VALUE
      BY <2>14, <3>1, ListFacts
    <3>3. Wants(d, length0, Start(offset0), want) /\ Start(offset0) \in Nat
      BY <2>2, <3>2 DEF Wants
    <3>4. PICK n : Cut(d, want, Start(offset0), from, n)
      BY <2>2, <2>9
    <3>5. SubSeq(there, 1, SmallerOf(want, Len(there))) = [i \in 1..n |-> d[from + i]]
      BY <2>1, <2>2, <2>7, <3>4, ThereFacts
    <3>6. syscall_load(item, length0, offset0)
            = IF want > avail THEN Failed
              ELSE [ret |-> Buffer([i \in 1..n |-> d[from + i]]), took |-> want]
      BY <2>1, <3>2, <3>3, <3>4, BufferReturned
    <3>7. syscall_load(item, length0, offset0).ret
            = IF want > avail THEN Throw ELSE Buffer([i \in 1..n |-> d[from + i]])
      BY <3>6 DEF Failed
    <3>8. Promised(d, rest) = Buffer([i \in 1..n |-> d[from + i]])
      BY <2>8, <2>14, <3>1, <3>5
    <3> QED BY <2>11, <2>14, <3>1, <3>7, <3>8
  <2> QED BY <2>12, <2>13, <2>14
<1> QED BY <1>1, <1>2

-----------------------------------------------------------------------------
(* The memory that the buffers hold.                                       *)

Sums(f, sizes) ==
    f = [n \in 0..Len(sizes) |-> IF n = 0 THEN 0 ELSE f[n - 1] + sizes[n]]

LEMMA SumsExist ==
    ASSUME NEW sizes \in Seq(Nat)
    PROVE  \E f : Sums(f, sizes)
<1>1. PICK n \in Nat : n = Len(sizes)
  OBVIOUS
<1>2. \A i \in 1..n : sizes[i] \in Nat
  BY <1>1
<1> DEFINE step == [i \in 1..n |-> [x \in Nat |-> x + sizes[i]]]
<1>3. step \in [1..n -> [Nat -> Nat]]
  BY <1>2
<1>4. \A i \in 1..n : \A x \in Nat : step[i][x] = x + sizes[i]
  OBVIOUS
<1> HIDE DEF step
<1>5. PICK f : Computes(f, n, Nat, 0, step)
  BY <1>3, RecursionDefines
<1>6. f \in [0..n -> Nat] /\ f[0] = 0 /\ \A i \in 1..n : f[i] = step[i][f[i - 1]]
  BY <1>5 DEF Computes
<1>7. \A i \in 1..n : f[i] = f[i - 1] + sizes[i]
  <2> SUFFICES ASSUME NEW i \in 1..n PROVE f[i] = f[i - 1] + sizes[i]
    OBVIOUS
  <2>1. f[i - 1] \in Nat
    BY <1>6
  <2> QED BY <1>4, <1>6, <2>1
<1>8. f = [i \in 0..n |-> IF i = 0 THEN 0 ELSE f[i - 1] + sizes[i]]
  BY <1>6, <1>7
<1> QED BY <1>1, <1>8 DEF Sums

LEMMA SumsValues ==
    ASSUME NEW sizes \in Seq(Nat), NEW f, Sums(f, sizes)
    PROVE  /\ f[0] = 0 /\ \A n \in 1..Len(sizes) : f[n] = f[n - 1] + sizes[n]
           /\ \A n \in 0..Len(sizes) : f[n] \in Nat
<1>1. PICK k \in Nat : k = Len(sizes)
  OBVIOUS
<1>2. \A i \in 1..k : sizes[i] \in Nat
  BY <1>1
<1>3. f = [n \in 0..k |-> IF n = 0 THEN 0 ELSE f[n - 1] + sizes[n]]
  BY <1>1 DEF Sums
<1>4. f[0] = 0 /\ \A n \in 1..k : f[n] = f[n - 1] + sizes[n]
  BY <1>3
<1> DEFINE S == {n \in 0..k : f[n] \in Nat}
<1>5. 0 \in S
  BY <1>4
<1>6. \A n \in 0..k : n \in S /\ n < k => n + 1 \in S
  BY <1>2, <1>4
<1> HIDE DEF S
<1>7. \A n \in 0..k : n \in S
  BY <1>5, <1>6, InductionUpTo
<1> QED BY <1>1, <1>4, <1>7 DEF S

LEMMA TotalIs ==
    ASSUME NEW sizes \in Seq(Nat)
    PROVE  \E f : Sums(f, sizes) /\ Total(sizes) = f[Len(sizes)]
<1> DEFINE f == CHOOSE g : Sums(g, sizes)
<1>1. Sums(f, sizes)
  BY SumsExist
<1>2. Total(sizes) = f[Len(sizes)]
  BY DEF Total, Sums
<1> QED BY <1>1, <1>2

LEMMA TotalAppend ==
    ASSUME NEW sizes \in Seq(Nat), NEW x \in Nat
    PROVE  Append(sizes, x) \in Seq(Nat) /\ Total(Append(sizes, x)) = Total(sizes) + x
<1>1. PICK k \in Nat : k = Len(sizes)
  OBVIOUS
<1>2. PICK more : more = Append(sizes, x)
  OBVIOUS
<1>3. /\ more \in Seq(Nat) /\ Len(more) = k + 1 /\ more[k + 1] = x
      /\ \A i \in 1..k : more[i] = sizes[i]
  BY <1>1, <1>2
<1>4. PICK f : Sums(f, sizes) /\ Total(sizes) = f[k]
  BY <1>1, TotalIs
<1>5. PICK g : Sums(g, more) /\ Total(more) = g[k + 1]
  BY <1>3, TotalIs
<1>6. f[0] = 0 /\ \A n \in 1..k : f[n] = f[n - 1] + sizes[n]
  BY <1>1, <1>4, SumsValues
<1>7. g[0] = 0 /\ \A n \in 1..(k + 1) : g[n] = g[n - 1] + more[n]
  BY <1>3, <1>5, SumsValues
<1> DEFINE S == {n \in 0..k : g[n] = f[n]}
<1>8. 0 \in S
  BY <1>6, <1>7
<1>9. \A n \in 0..k : n \in S /\ n < k => n + 1 \in S
  <2> SUFFICES ASSUME NEW n \in 0..k, g[n] = f[n], n < k PROVE g[n + 1] = f[n + 1]
    OBVIOUS
  <2>1. n + 1 \in 1..k /\ n + 1 \in 1..(k + 1) /\ (n + 1) - 1 = n
    OBVIOUS
  <2>2. f[n + 1] = f[n] + sizes[n + 1] /\ g[n + 1] = g[n] + more[n + 1]
    BY <1>6, <1>7, <2>1
  <2> QED BY <1>3, <2>1, <2>2
<1> HIDE DEF S
<1>10. \A n \in 0..k : n \in S
  BY <1>8, <1>9, InductionUpTo
<1>11. g[k + 1] = g[k] + x
  <2>1. k + 1 \in 1..(k + 1) /\ (k + 1) - 1 = k
    OBVIOUS
  <2> QED BY <1>3, <1>7, <2>1
<1> QED BY <1>2, <1>3, <1>4, <1>5, <1>10, <1>11 DEF S

Without(sizes, i) == SubSeq(sizes, 1, i - 1) \o SubSeq(sizes, i + 1, Len(sizes))

LEMMA WithoutFacts ==
    ASSUME NEW sizes \in Seq(Nat), NEW i \in 1..Len(sizes)
    PROVE  /\ Without(sizes, i) \in Seq(Nat) /\ Len(Without(sizes, i)) = Len(sizes) - 1
           /\ \A n \in 1..(Len(sizes) - 1) :
                 Without(sizes, i)[n] = IF n < i THEN sizes[n] ELSE sizes[n + 1]
<1>1. PICK k \in Nat : k = Len(sizes)
  OBVIOUS
<1>2. PICK a, b : a = SubSeq(sizes, 1, i - 1) /\ b = SubSeq(sizes, i + 1, k)
  OBVIOUS
<1>3. i \in 1..k /\ \A n \in 1..k : sizes[n] \in Nat
  BY <1>1
<1>4. a \in Seq(Nat) /\ Len(a) = i - 1 /\ \A n \in 1..(i - 1) : a[n] = sizes[n]
  BY <1>1, <1>2, <1>3
<1>5. b \in Seq(Nat) /\ Len(b) = k - i /\ \A n \in 1..(k - i) : b[n] = sizes[i + n]
  BY <1>1, <1>2, <1>3
<1>6. PICK c : c = a \o b
  OBVIOUS
<1>7. /\ c \in Seq(Nat) /\ Len(c) = k - 1
      /\ \A n \in 1..(k - 1) : c[n] = IF n <= i - 1 THEN a[n] ELSE b[n - (i - 1)]
  <2>1. /\ a \o b \in Seq(Nat) /\ Len(a \o b) = Len(a) + Len(b)
        /\ \A n \in 1..(Len(a) + Len(b)) :
              (a \o b)[n] = IF n <= Len(a) THEN a[n] ELSE b[n - Len(a)]
    BY <1>4, <1>5, ConcatProperties
  <2>2. /\ c \in Seq(Nat) /\ Len(c) = Len(a) + Len(b)
        /\ \A n \in 1..(Len(a) + Len(b)) : c[n] = IF n <= Len(a) THEN a[n] ELSE b[n - Len(a)]
    BY <1>6, <2>1, Zenon
  <2>3. Len(a) + Len(b) = k - 1
    BY <1>3, <1>4, <1>5
  <2> QED BY <1>4, <2>2, <2>3, Zenon
<1>8. ASSUME NEW n \in 1..(k - 1) PROVE c[n] = IF n < i THEN sizes[n] ELSE sizes[n + 1]
  <2>1. CASE n < i
    BY <1>3, <1>4, <1>7, <2>1
  <2>2. CASE ~(n < i)
    <3>1. n - (i - 1) \in 1..(k - i) /\ i + (n - (i - 1)) = n + 1 /\ ~(n <= i - 1)
      BY <1>3, <2>2
    <3>2. b[n - (i - 1)] = sizes[n + 1]
      BY <1>5, <3>1
    <3> QED BY <1>7, <2>2, <3>1, <3>2
  <2> QED BY <2>1, <2>2
<1>9. Without(sizes, i) = c
  BY <1>1, <1>2, <1>6 DEF Without
<1> QED BY <1>1, <1>7, <1>8, <1>9

LEMMA TotalWithout ==
    ASSUME NEW sizes \in Seq(Nat), NEW i \in 1..Len(sizes)
    PROVE  Total(Without(sizes, i)) = Total(sizes) - sizes[i] /\ Total(sizes) \in Nat
<1>1. PICK k \in Nat : k = Len(sizes)
  OBVIOUS
<1>2. PICK less : less = Without(sizes, i)
  OBVIOUS
<1>3. /\ less \in Seq(Nat) /\ Len(less) = k - 1 /\ i \in 1..k /\ k - 1 \in Nat
      /\ \A n \in 1..(k - 1) : less[n] = IF n < i THEN sizes[n] ELSE sizes[n + 1]
  <2>1. /\ less \in Seq(Nat) /\ Len(less) = Len(sizes) - 1
        /\ \A n \in 1..(Len(sizes) - 1) : less[n] = IF n < i THEN sizes[n] ELSE sizes[n + 1]
    BY <1>2, WithoutFacts
  <2>2. i \in 1..k /\ k - 1 \in Nat
    BY <1>1
  <2> QED BY <1>1, <2>1, <2>2
<1>4. PICK f : Sums(f, sizes) /\ Total(sizes) = f[k]
  BY <1>1, TotalIs
<1>5. PICK g : Sums(g, less) /\ Total(less) = g[k - 1]
  BY <1>3, TotalIs
<1>6. /\ f[0] = 0 /\ \A n \in 1..k : f[n] = f[n - 1] + sizes[n]
      /\ \A n \in 0..k : f[n] \in Nat
  BY <1>1, <1>4, SumsValues
<1>7. g[0] = 0 /\ \A n \in 1..(k - 1) : g[n] = g[n - 1] + less[n]
  BY <1>3, <1>5, SumsValues
<1>8. \A n \in 1..k : sizes[n] \in Nat
  BY <1>1
<1> DEFINE S == {n \in 0..(k - 1) : g[n] = IF n < i THEN f[n] ELSE f[n + 1] - sizes[i]}
<1>9. 0 \in S
  BY <1>3, <1>6, <1>7
<1>10. ASSUME NEW n \in 0..(k - 1), n \in S, n < k - 1 PROVE n + 1 \in S
  <2>1. n + 1 \in 1..(k - 1) /\ n + 1 \in 1..k /\ n + 2 \in 1..k
        /\ (n + 1) - 1 = n /\ (n + 2) - 1 = n + 1 /\ (n + 1) + 1 = n + 2
    BY <1>3, <1>10
  <2>2. /\ g[n + 1] = g[n] + less[n + 1] /\ f[n + 1] = f[n] + sizes[n + 1]
        /\ f[n + 2] = f[n + 1] + sizes[n + 2]
        /\ less[n + 1] = IF n + 1 < i THEN sizes[n + 1] ELSE sizes[n + 2]
    BY <1>3, <1>6, <1>7, <2>1
  <2>3. g[n] = IF n < i THEN f[n] ELSE f[n + 1] - sizes[i]
    BY <1>10
  <2>4. /\ f[n] \in Nat /\ f[n + 1] \in Nat /\ f[n + 2] \in Nat
        /\ sizes[i] \in Nat /\ sizes[n + 1] \in Nat /\ sizes[n + 2] \in Nat
    <3>1. n \in 0..k /\ n + 1 \in 0..k /\ n + 2 \in 0..k
      BY <2>1
    <3>2. f[n] \in Nat /\ f[n + 1] \in Nat /\ f[n + 2] \in Nat
      BY <1>6, <3>1, Zenon
    <3>3. sizes[i] \in Nat /\ sizes[n + 1] \in Nat /\ sizes[n + 2] \in Nat
      BY <1>3, <1>8, <2>1, Zenon
    <3> QED BY <3>2, <3>3
  <2>5. g[n + 1] = IF n + 1 < i THEN f[n + 1] ELSE f[n + 2] - sizes[i]
    <3>1. CASE n + 1 < i
      BY <2>2, <2>3, <3>1
    <3>2. CASE n + 1 = i
      <4>1. g[n] = f[n] /\ less[n + 1] = sizes[n + 2] /\ sizes[i] = sizes[n + 1]
        BY <2>2, <2>3, <3>2
      <4>2. PICK x \in Nat, y \in Nat, z \in Nat :
               x = f[n] /\ y = sizes[n + 1] /\ z = sizes[n + 2]
        BY <2>4
      <4>3. g[n + 1] = x + z /\ f[n + 2] = x + y + z
        BY <2>2, <4>1, <4>2
      <4>4. g[n + 1] = f[n + 2] - sizes[i]
        <5>1. sizes[i] = y
          BY <4>1, <4>2, Zenon
        <5>2. (x + y + z) - y = x + z
          OBVIOUS
        <5>3. PICK v : v = f[n + 2]
          OBVIOUS
        <5>4. v = x + y + z
          BY <4>3, <5>3
        <5>5. g[n + 1] = v - y
          BY <4>3, <5>2, <5>4
        <5> QED BY <5>1, <5>3, <5>5
      <4> QED BY <3>2, <4>4
    <3>3. CASE n + 1 > i
      <4>1. g[n] = f[n + 1] - sizes[i] /\ less[n + 1] = sizes[n + 2]
        BY <1>3, <2>2, <2>3, <3>3
      <4>2. PICK x \in Nat, y \in Nat, z \in Nat :
               x = f[n + 1] /\ y = sizes[i] /\ z = sizes[n + 2]
        BY <2>4
      <4>3. g[n + 1] = (x - y) + z /\ f[n + 2] = x + z
        BY <2>2, <4>1, <4>2
      <4>4. g[n + 1] = f[n + 2] - sizes[i]
        <5>1. (x - y) + z = (x + z) - y
          OBVIOUS
        <5>2. PICK v : v = f[n + 2]
          OBVIOUS
        <5>3. v = x + z
          BY <4>3, <5>2
        <5>4. g[n + 1] = v - y
          BY <4>3, <5>1, <5>3
        <5>5. sizes[i] = y
          BY <4>2, Zenon
        <5> QED BY <5>2, <5>4, <5>5
      <4> QED BY <1>3, <3>3, <4>4
    <3> QED BY <1>3, <3>1, <3>2, <3>3
  <2> QED BY <2>1, <2>5
<1> HIDE DEF S
<1>11. \A n \in 0..(k - 1) : n \in S
  BY <1>3, <1>9, <1>10, InductionUpTo
<1>12. g[k - 1] = f[k] - sizes[i]
  <2>1. k - 1 \in 0..(k - 1) /\ (k - 1) + 1 = k
    BY <1>3
  <2>2. g[k - 1] = IF k - 1 < i THEN f[k - 1] ELSE f[k] - sizes[i]
    BY <1>11, <2>1 DEF S
  <2>3. CASE k - 1 < i
    <3>1. k = i /\ f[k] = f[k - 1] + sizes[k] /\ sizes[k] \in Nat /\ f[k - 1] \in Nat
      BY <1>3, <1>6, <1>8, <2>3
    <3> QED BY <2>2, <2>3, <3>1
  <2> QED BY <2>2, <2>3
<1>13. f[k] \in Nat
  BY <1>6
<1> QED BY <1>2, <1>4, <1>5, <1>12, <1>13

-----------------------------------------------------------------------------
(* The calls.                                                              *)

Typed ==
    avail \in Nat /\ live \in Seq(Nat)

\* What a call took is its buffer's, or lost on an item that does not exist.
Accounted(r, item, rest) ==
    /\ r.took \in Nat /\ r.took <= avail
    /\ r.ret.type = "buffer" \/ r.took = 0 \/ (item = {} /\ rest # <<>>)

LEMMA TookFacts ==
    ASSUME LoadAssumption, Typed, NEW item, IsItem(item), NEW length0 \in Nat, NEW offset0 \in Nat,
           NEW rest, item = {} => length0 = NO_VALUE \/ rest # <<>>
    PROVE  Accounted(syscall_load(item, length0, offset0), item, rest)
<1>1. Start(offset0) \in Nat
  BY DEF Start
<1>2. CASE item = {}
  <2>1. CASE length0 = 0 \/ length0 = NO_VALUE
    BY <1>2, <2>1 DEF syscall_load, Accounted, Failed, Typed, Throw
  <2>2. CASE length0 # 0 /\ length0 # NO_VALUE
    <3>1. syscall_load(item, length0, offset0)
            = IF length0 > avail THEN Failed ELSE [ret |-> Throw, took |-> length0]
      BY <1>2, <2>2 DEF syscall_load
    <3>2. rest # <<>>
      BY <1>2, <2>2
    <3> QED BY <1>2, <3>1, <3>2 DEF Accounted, Failed, Typed
  <2> QED BY <2>1, <2>2
<1>3. CASE item # {}
  <2>1. PICK d : IsText(d) /\ item = {d}
    BY <1>3 DEF IsItem
  <2>2. CASE length0 = 0
    <3>1. syscall_load(item, length0, offset0).took = 0
      BY <2>2 DEF syscall_load
    <3> QED BY <3>1 DEF Accounted, Typed
  <2>3. CASE length0 # 0
    <3>1. probe(d, Start(offset0)) \in Nat
      BY <1>1, <2>1, ProbeFacts, TextFacts DEF SmallerOf
    <3>2. PICK want \in Nat : Wants(d, length0, Start(offset0), want)
      BY <3>1 DEF Wants
    <3>3. PICK from, n : Cut(d, want, Start(offset0), from, n)
      BY DEF Cut
    <3>4. PICK bytes : bytes = [i \in 1..n |-> d[from + i]]
      OBVIOUS
    <3>5. syscall_load(item, length0, offset0)
            = IF want > avail THEN Failed ELSE [ret |-> Buffer(bytes), took |-> want]
      BY <1>1, <2>1, <2>3, <3>2, <3>3, <3>4, BufferReturned
    <3> QED BY <3>5 DEF Accounted, Failed, Typed, Buffer
  <2> QED BY <2>2, <2>3
<1> QED BY <1>2, <1>3

LEMMA ParsedFacts ==
    ASSUME LoadAssumption, NEW rest, IsList(rest), NEW length0, NEW offset0,
           Parsed(rest, length0, offset0)
    PROVE  /\ length0 \in Nat /\ offset0 \in Nat /\ (rest = <<>> => length0 = NO_VALUE)
<1>1. Len(rest) \in Nat /\ DOMAIN rest = 1..Len(rest) /\ (rest = <<>> => Len(rest) = 0)
  <2> DEFINE S == {rest[i] : i \in DOMAIN rest}
  <2>1. rest \in Seq(S)
    BY DEF IsList
  <2> HIDE DEF S
  <2> QED BY <2>1, EmptySeq
<1>2. \A i \in 1..Len(rest) : ToSize(rest[i]) \in Nat
  BY <1>1, SizesFit DEF IsList, IsArgument, ToSize
<1>3. NO_VALUE \in Nat
  BY SizesFit
<1>4. PICK k \in Nat : k = Len(rest)
  BY <1>1
<1>5. (k >= 1 => ToSize(rest[1]) \in Nat) /\ (k >= 2 => ToSize(rest[2]) \in Nat)
  BY <1>2, <1>4
<1> QED BY <1>1, <1>3, <1>4, <1>5 DEF Parsed

LEMMA DataFacts ==
    ASSUME LoadAssumption, NEW key
    PROVE  IsItem(Data(key))
<1>1. CASE key \in DOMAIN Items
  <2>1. Data(key) = {Items[key]}
    BY <1>1 DEF Data
  <2>2. IsText(Items[key])
    BY <1>1 DEF LoadAssumption
  <2> QED BY <2>1, <2>2 DEF IsItem
<1>2. CASE key \notin DOMAIN Items
  BY <1>2 DEF Data, IsItem
<1> QED BY <1>1, <1>2

\* What a step establishes that makes a call.
Made(r, item, rest) ==
    /\ Accounted(r, item, rest)
    /\ Exact(item, rest, avail, r.ret)
    /\ Finish(r, item, rest)

LEMMA FailedFacts ==
    ASSUME Typed, NEW item, NEW rest, item = {} \/ ~Natural(rest)
    PROVE  Accounted(Failed, item, rest) /\ Exact(item, rest, avail, Failed.ret)
  BY DEF Accounted, Exact, Failed, Typed

LEMMA ParseFacts ==
    ASSUME NEW rest, NEW k, Len(rest) = k
    PROVE  /\ parse_args(FALSE, rest).ok <=> \A i \in 1..SmallerOf(k, 2) : rest[i].type # "symbol"
           /\ parse_args(FALSE, rest).length = IF 1 <= k THEN ToSize(rest[1]) ELSE NO_VALUE
           /\ parse_args(FALSE, rest).offset = IF 2 <= k THEN ToSize(rest[2]) ELSE NO_VALUE
           /\ parse_args(TRUE, rest).ok <=> \A i \in 1..SmallerOf(k, 3) : rest[i].type # "symbol"
           /\ parse_args(TRUE, rest).field = IF 1 <= k THEN ToSize(rest[1]) ELSE NO_VALUE
           /\ parse_args(TRUE, rest).length = IF 2 <= k THEN ToSize(rest[2]) ELSE NO_VALUE
           /\ parse_args(TRUE, rest).offset = IF 3 <= k THEN ToSize(rest[3]) ELSE NO_VALUE
  BY DEF parse_args

LEMMA LoadMakes ==
    ASSUME LoadAssumption, Typed, NEW index, NEW rest \in Rests, load(index, rest)
    PROVE  \E r, item, given : Made(r, item, given)
<1>1. IsList(rest)
  BY DEF LoadAssumption, IsList
<1>2. PICK a : a = parse_args(FALSE, rest)
  OBVIOUS
<1>3. PICK item : item = Data(<<index, NO_VALUE>>)
  OBVIOUS
<1>4. IsItem(item)
  BY <1>3, DataFacts
<1>5. Finish(IF a.ok THEN syscall_load(item, a.length, a.offset) ELSE Failed, item, rest)
  BY <1>2, <1>3 DEF load
<1>6. a.length = (IF 1 <= Len(rest) THEN ToSize(rest[1]) ELSE NO_VALUE)
      /\ a.offset = (IF 2 <= Len(rest) THEN ToSize(rest[2]) ELSE NO_VALUE)
      /\ (a.ok <=> \A i \in 1..SmallerOf(Len(rest), 2) : rest[i].type # "symbol")
  BY <1>1, <1>2, ParseFacts
<1>7. PICK length0, offset0 : length0 = a.length /\ offset0 = a.offset
  OBVIOUS
<1>8. Len(rest) \in Nat /\ DOMAIN rest = 1..Len(rest)
  <2> DEFINE S == {rest[i] : i \in DOMAIN rest}
  <2>1. rest \in Seq(S)
    BY <1>1 DEF IsList
  <2> HIDE DEF S
  <2> QED BY <2>1
<1>9. Parsed(rest, length0, offset0)
  BY <1>6, <1>7, <1>8 DEF Parsed
<1>10. CASE a.ok
  <2>1. Accounted(syscall_load(item, length0, offset0), item, rest)
    BY <1>1, <1>4, <1>9, ParsedFacts, TookFacts
  <2>2. Exact(item, rest, avail, syscall_load(item, length0, offset0).ret)
    BY <1>1, <1>4, <1>9, CallIsExact DEF Typed
  <2> QED BY <1>5, <1>7, <1>10, <2>1, <2>2 DEF Made
<1>11. CASE ~a.ok
  <2>1. ~Natural(rest)
    <3>1. PICK i \in 1..SmallerOf(Len(rest), 2) : rest[i].type = "symbol"
      BY <1>6, <1>11
    <3>2. i \in 1..Len(rest)
      BY <1>8, <3>1 DEF SmallerOf
    <3> QED BY <3>1, <3>2 DEF Natural
  <2>2. Accounted(Failed, item, rest) /\ Exact(item, rest, avail, Failed.ret)
    BY <2>1, FailedFacts
  <2> QED BY <1>5, <1>11, <2>2 DEF Made
<1> QED BY <1>10, <1>11

\* The arguments after the field.
Given(rest) == IF rest = <<>> THEN rest ELSE Tail(rest)

LEMMA GivenFacts ==
    ASSUME NEW rest, IsList(rest)
    PROVE  /\ IsList(Given(rest))
           /\ Len(Given(rest)) = IF Len(rest) = 0 THEN 0 ELSE Len(rest) - 1
           /\ \A i \in 1..Len(Given(rest)) : Given(rest)[i] = rest[i + 1]
           /\ Len(rest) \in Nat
<1> DEFINE S == {rest[i] : i \in DOMAIN rest}
<1>1. rest \in Seq(S)
  BY DEF IsList
<1>2. \A v \in S : IsArgument(v)
  BY DEF IsList
<1> HIDE DEF S
<1>3. PICK k \in Nat : k = Len(rest)
  BY <1>1
<1>4. rest = <<>> => k = 0
  BY <1>3
<1>5. CASE rest = <<>>
  BY <1>3, <1>4, <1>5 DEF Given, IsList
<1>6. CASE rest # <<>>
  <2>1. k # 0
    BY <1>1, <1>3, <1>6, EmptySeq
  <2>2. PICK t : t = Tail(rest)
    OBVIOUS
  <2>3. t \in Seq(S) /\ Len(t) = k - 1 /\ \A i \in 1..(k - 1) : t[i] = rest[i + 1]
    BY <1>1, <1>3, <1>6, <2>2, HeadTailProperties
  <2>4. DOMAIN t = 1..(k - 1) /\ \A i \in 1..(k - 1) : t[i] \in S
    BY <2>3
  <2>5. IsList(t)
    <3> DEFINE T == {t[i] : i \in DOMAIN t}
    <3>1. t \in [1..(k - 1) -> T] /\ k - 1 \in Nat
      BY <2>1, <2>3, <2>4
    <3> HIDE DEF T
    <3>2. t \in Seq(T)
      BY <3>1
    <3>3. \A i \in DOMAIN t : IsArgument(t[i])
      BY <1>2, <2>4
    <3> QED BY <3>2, <3>3 DEF IsList, T
  <2>6. Given(rest) = t
    BY <1>6, <2>2 DEF Given
  <2> QED BY <1>3, <2>1, <2>3, <2>5, <2>6
<1> QED BY <1>5, <1>6

LEMMA LoadByFieldMakes ==
    ASSUME LoadAssumption, Typed, NEW index, NEW rest \in Rests, load_by_field(index, rest)
    PROVE  \E r, item, given : Made(r, item, given)
<1>1. IsList(rest)
  BY DEF LoadAssumption, IsList
<1>2. PICK a : a = parse_args(TRUE, rest)
  OBVIOUS
<1>3. PICK item : item = IF ~a.ok \/ a.field = NO_VALUE THEN {} ELSE Data(<<index, a.field>>)
  OBVIOUS
<1>4. IsItem(item)
  BY <1>3, DataFacts DEF IsItem
<1>5. PICK given : given = Given(rest)
  OBVIOUS
<1>6. Finish(IF a.ok THEN syscall_load(item, a.length, a.offset) ELSE Failed, item, given)
  BY <1>2, <1>3, <1>5 DEF load_by_field, Given
<1>7. PICK k \in Nat : k = Len(rest)
  BY <1>1, GivenFacts
<1>8. IsList(given) /\ Len(given) = (IF k = 0 THEN 0 ELSE k - 1)
      /\ \A i \in 1..Len(given) : given[i] = rest[i + 1]
  BY <1>1, <1>5, <1>7, GivenFacts
<1>9. PICK length0, offset0 : length0 = a.length /\ offset0 = a.offset
  OBVIOUS
<1>10. /\ length0 = IF 2 <= k THEN ToSize(rest[2]) ELSE NO_VALUE
       /\ offset0 = IF 3 <= k THEN ToSize(rest[3]) ELSE NO_VALUE
  BY <1>2, <1>7, <1>9, ParseFacts
<1>11. /\ 2 <= k => given[1] = rest[2]
       /\ 3 <= k => given[2] = rest[3]
  <2>1. 2 <= k => 1 \in 1..Len(given) /\ 1 + 1 = 2
    BY <1>8
  <2>2. 3 <= k => 2 \in 1..Len(given) /\ 2 + 1 = 3
    BY <1>8
  <2> QED BY <1>8, <2>1, <2>2
<1>12. (2 <= k <=> Len(given) >= 1) /\ (3 <= k <=> Len(given) >= 2)
  BY <1>8
<1>13. Parsed(given, length0, offset0)
  BY <1>10, <1>11, <1>12 DEF Parsed
<1>14. CASE a.ok
  <2>1. Accounted(syscall_load(item, length0, offset0), item, given)
    BY <1>4, <1>8, <1>13, ParsedFacts, TookFacts
  <2>2. Exact(item, given, avail, syscall_load(item, length0, offset0).ret)
    BY <1>4, <1>8, <1>13, CallIsExact DEF Typed
  <2> QED BY <1>6, <1>9, <1>14, <2>1, <2>2 DEF Made
<1>15. CASE ~a.ok
  <2>1. Accounted(Failed, item, given) /\ Exact(item, given, avail, Failed.ret)
    BY <1>3, <1>15, FailedFacts
  <2> QED BY <1>6, <1>15, <2>1 DEF Made
<1> QED BY <1>14, <1>15

LEMMA LoadHashMakes ==
    ASSUME LoadAssumption, Typed, load_hash(<<>>)
    PROVE  \E r, item, given : Made(r, item, given)
<1>1. IsText(HashBytes) /\ HashBytes # <<>> /\ IsItem({HashBytes}) /\ Len(HashBytes) < NO_VALUE
  BY DEF LoadAssumption, IsItem
<1>2. PICK want \in Nat : want = Len(HashBytes)
  BY <1>1, TextFacts
<1>3. want # 0 /\ want # NO_VALUE
  <2> DEFINE S == {HashBytes[k] : k \in DOMAIN HashBytes}
  <2>1. HashBytes \in Seq(S)
    BY <1>1 DEF IsText
  <2> HIDE DEF S
  <2>2. Len(HashBytes) # 0
    BY <1>1, <2>1, EmptySeq
  <2> QED BY <1>1, <1>2, <2>2, SizesFit
<1>4. Start(0) = 0
  BY DEF Start
<1>5. Wants(HashBytes, want, Start(0), want)
  BY <1>3 DEF Wants
<1>6. PICK from, n : Cut(HashBytes, want, 0, from, n)
  BY DEF Cut
<1>7. from = 0 /\ n = want
  BY <1>2, <1>6 DEF Cut, SmallerOf
<1>8. PICK there : there = There(HashBytes, from)
  OBVIOUS
<1>9. there = [i \in 1..n |-> HashBytes[from + i]]
  <2>1. there = [i \in 1..(Len(HashBytes) - from) |-> HashBytes[from + i]]
    BY <1>1, <1>6, <1>8, ThereFacts
  <2>2. Len(HashBytes) - from = n
    BY <1>2, <1>7
  <2> QED BY <2>1, <2>2
<1>10. syscall_load({HashBytes}, want, 0)
         = IF want > avail THEN Failed
           ELSE [ret |-> Buffer([i \in 1..n |-> HashBytes[from + i]]), took |-> want]
  BY <1>1, <1>3, <1>4, <1>5, <1>6, BufferReturned
<1>11. Promised(HashBytes, <<>>) = Buffer(there)
  BY <1>7, <1>8 DEF Promised, There
<1>12. Accounted(syscall_load({HashBytes}, want, 0), {HashBytes}, <<>>)
  BY <1>1, TookFacts
<1>13. syscall_load({HashBytes}, want, 0).ret = IF want > avail THEN Throw ELSE Buffer(there)
  <2>1. PICK result : result = Buffer(there)
    OBVIOUS
  <2>2. syscall_load({HashBytes}, want, 0)
          = IF want > avail THEN Failed ELSE [ret |-> result, took |-> want]
    BY <1>9, <1>10, <2>1
  <2> QED BY <2>1, <2>2 DEF Failed
<1>14. Exact({HashBytes}, <<>>, avail, syscall_load({HashBytes}, want, 0).ret)
  BY <1>2, <1>11, <1>13, OnlyItem DEF Exact
<1>15. Finish(syscall_load({HashBytes}, want, 0), {HashBytes}, <<>>)
  BY <1>2 DEF load_hash
<1> QED BY <1>12, <1>14, <1>15 DEF Made

-----------------------------------------------------------------------------
(* The theorems.                                                           *)

LEMMA MadeKeeps ==
    ASSUME LoadAssumption, Typed, NEW r, NEW item, NEW given, Made(r, item, given)
    PROVE  Typed' /\ PartialLoadExact' /\ LossExplained
<1>1. /\ avail' = avail - r.took
      /\ live' = IF r.ret.type = "buffer" THEN Append(live, r.took) ELSE live
      /\ last' = [item |-> item, rest |-> given, room |-> avail, ret |-> r.ret]
  BY DEF Made, Finish
<1>2. r.took \in Nat /\ r.took <= avail
      /\ (r.ret.type = "buffer" \/ r.took = 0 \/ (item = {} /\ given # <<>>))
  BY DEF Made, Accounted
<1>3. Typed'
  BY <1>1, <1>2 DEF Typed
<1>4. PartialLoadExact'
  BY <1>1 DEF PartialLoadExact, Made, Exact
<1>5. LossExplained
  <2>1. PICK took \in Nat : took = r.took
    BY <1>2
  <2>2. PICK total \in Nat : total = Total(live)
    <3>1. PICK f : Sums(f, live) /\ Total(live) = f[Len(live)]
      BY TotalIs DEF Typed
    <3>2. Len(live) \in 0..Len(live)
      BY DEF Typed
    <3> QED BY <3>1, <3>2, SumsValues DEF Typed
  <2>3. CASE r.ret.type = "buffer"
    <3>1. Total(live') = total + took
      BY <1>1, <2>1, <2>2, <2>3, TotalAppend DEF Typed
    <3>2. Lost' = HeapSize - (avail - took) - (total + took)
      BY <1>1, <2>1, <3>1 DEF Lost
    <3>3. PICK room \in Nat, heap \in Nat : room = avail /\ heap = HeapSize
      BY DEF Typed, LoadAssumption
    <3>4. heap - (room - took) - (total + took) = heap - room - total
      OBVIOUS
    <3>5. Lost = heap - room - total /\ Lost' = heap - (room - took) - (total + took)
      BY <2>2, <3>2, <3>3 DEF Lost
    <3> QED BY <3>4, <3>5 DEF LossExplained
  <2>4. CASE r.ret.type # "buffer"
    <3>1. live' = live
      BY <1>1, <2>4
    <3>2. CASE r.took = 0
      BY <1>1, <3>1, <3>2 DEF Lost, LossExplained, Typed
    <3>3. CASE item = {} /\ given # <<>>
      BY <1>1, <3>3 DEF LossExplained
    <3> QED BY <1>2, <2>4, <3>2, <3>3
  <2> QED BY <2>3, <2>4
<1> QED BY <1>3, <1>4, <1>5

LEMMA FreeKeeps ==
    ASSUME LoadAssumption, Typed, PartialLoadExact, NEW i \in 1..Len(live), my_free(i)
    PROVE  Typed' /\ PartialLoadExact' /\ LossExplained
<1>1. avail' = avail + live[i] /\ live' = Without(live, i) /\ last' = last
  BY DEF my_free, Without
<1>2. PICK size \in Nat : size = live[i]
  BY DEF Typed
<1>3. Typed'
  <2>1. Without(live, i) \in Seq(Nat)
    BY WithoutFacts DEF Typed
  <2>2. avail + size \in Nat
    BY DEF Typed
  <2> QED BY <1>1, <1>2, <2>1, <2>2 DEF Typed
<1>4. Total(live') = Total(live) - size /\ Total(live) \in Nat
  BY <1>1, <1>2, TotalWithout DEF Typed
<1>5. PICK room \in Nat, heap \in Nat, total \in Nat :
         room = avail /\ heap = HeapSize /\ total = Total(live)
  BY <1>4 DEF Typed, LoadAssumption
<1>6. avail' = room + size /\ Total(live') = total - size
  BY <1>1, <1>2, <1>4, <1>5
<1>7. Lost' = heap - (room + size) - (total - size) /\ Lost = heap - room - total
  BY <1>5, <1>6 DEF Lost
<1>8. heap - (room + size) - (total - size) = heap - room - total
  OBVIOUS
<1> QED BY <1>1, <1>3, <1>7, <1>8 DEF PartialLoadExact, LossExplained

LEMMA StepKeeps ==
    ASSUME LoadAssumption, Typed, PartialLoadExact, [LoadNext]_loadVars
    PROVE  Typed' /\ PartialLoadExact' /\ [LossExplained]_loadVars
<1>1. CASE UNCHANGED loadVars
  BY <1>1 DEF loadVars, Typed, PartialLoadExact
<1>2. ASSUME NEW index \in Indexes, NEW rest \in Rests, load(index, rest)
      PROVE  Typed' /\ PartialLoadExact' /\ LossExplained
  BY <1>2, LoadMakes, MadeKeeps
<1>3. ASSUME NEW index \in Indexes, NEW rest \in Rests, load_by_field(index, rest)
      PROVE  Typed' /\ PartialLoadExact' /\ LossExplained
  BY <1>3, LoadByFieldMakes, MadeKeeps
<1>4. CASE load_hash(<<>>)
  BY <1>4, LoadHashMakes, MadeKeeps
<1>5. ASSUME NEW i \in 1..Len(live), my_free(i)
      PROVE  Typed' /\ PartialLoadExact' /\ LossExplained
  BY <1>5, FreeKeeps
<1> QED BY <1>1, <1>2, <1>3, <1>4, <1>5 DEF LoadNext

LEMMA InitHolds ==
    ASSUME LoadAssumption, LoadInit
    PROVE  Typed /\ PartialLoadExact
<1>1. Typed
  BY DEF LoadInit, Typed, LoadAssumption
<1>2. last.item = {} /\ last.ret = Throw
  BY DEF LoadInit
<1> QED BY <1>1, <1>2 DEF PartialLoadExact

(* Every load with natural length and offset gives what docs/syscalls.md   *)
(* promises, and throws exactly when there is no such item or no room for  *)
(* it (syscall_load, parse_args); and memory is lost only by asking, with  *)
(* a length, for an item that does not exist (the CHECK after malloc,      *)
(* which frees nothing): for any word size, items, arguments and heap.     *)
THEOREM LoadsArePromised == LoadSpec => []PartialLoadExact /\ LoadsAsPromised
<1>1. LoadInit => Typed /\ PartialLoadExact
  BY InitHolds, LoadAssumed
<1>2. Typed /\ PartialLoadExact /\ [LoadNext]_loadVars
        => Typed' /\ PartialLoadExact' /\ [PartialLoadExact' /\ LossExplained]_loadVars
  BY StepKeeps, LoadAssumed
<1> QED BY <1>1, <1>2, PTL DEF LoadSpec, LoadsAsPromised
=============================================================================
