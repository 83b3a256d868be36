------------------------- MODULE ModuleLoaderProofs -------------------------
(***************************************************************************)
(* Proofs about ModuleLoader, for any file systems: whatever the modules   *)
(* import, whatever cycles there are and whatever is missing or faulty.    *)
(*                                                                         *)
(* Each of the three recursions is a depth-first search: its invariant     *)
(* says of every import of a module that was entered that it has been      *)
(* dealt with, or that a frame of the stack has not come to it yet         *)
(* (Pending, Linking, Evaluating).  When the stack is empty nothing is     *)
(* left; and since every module but the first is imported by an older one  *)
(* (Creation), what is closed under imports and has the first has all.     *)
(***************************************************************************)
EXTENDS ModuleLoader, Induction, FiniteSetTheorems

Frame == [m : Nat, i : Nat]
IsSeq(s) == \E S : s \in Seq(S)
Cnt(m) == Len(Imports(m))
LinkOf(m, i) == mods[m].links[i]
Record(r, fs, n) ==
    r \in [file : DOMAIN fs, name : {r.name}, links : [1..Len(fs[r.file].imports) -> 0..n],
           func_created : BOOLEAN, instantiated : BOOLEAN,
           eval_mark : BOOLEAN, evaluated : BOOLEAN]

ModsTyped ==
    /\ files \in FileSystems
    /\ IsSeq(mods) /\ \A m \in Modules : Record(mods[m], files, Len(mods))
FramesOver(s, M, c) ==
    /\ s \in Seq(Frame)
    /\ \A j \in 1..Len(s) : s[j].m \in M /\ s[j].i \in 1..(c[s[j].m] + 1)
Counts == [m \in Modules |-> Cnt(m)]
FramesTyped == FramesOver(stack, Modules, Counts)
RanTyped == ran \in Seq(Nat) /\ \A a \in 1..Len(ran) : ran[a] \in Modules
TypeInv == ModsTyped /\ FramesTyped /\ RanTyped

(* Every module but the first is imported by an older one.                 *)
Imported ==
    \A k \in Modules : k = 1 \/ \E j \in Modules : j < k /\ \E i \in 1..Cnt(j) : LinkOf(j, i) = k
Creation == Imported /\ (phase \in {"resolve", "link", "evaluate"} => 1 \in Modules)

(* Source modules are named as they were asked for, and no two alike.      *)
IsSource(m) == files[mods[m].file].kind # "bytecode"
Naming ==
    /\ \A m \in Modules : IsSource(m) => mods[m].file = mods[m].name \/ mods[m].file.ext = "bc"
    /\ \A m, k \in Modules : IsSource(m) /\ IsSource(k) /\ mods[m].name = mods[k].name => m = k

(* The frame at module m has not come to its i-th import yet.              *)
Ahead(m, i) == \E j \in 1..Len(stack) : stack[j].m = m /\ stack[j].i <= i

OnceOnStack == \A j, l \in 1..Len(stack) : stack[j].m = stack[l].m => j = l
Unrun == ran = <<>> /\ \A m \in Modules : ~mods[m].eval_mark /\ ~mods[m].evaluated
Pending ==
    /\ phase = "start" => mods = <<>> /\ ran = <<>> /\ stack = <<>>
    /\ phase \in {"resolve", "link"} => Unrun
    /\ phase = "resolve" =>
           /\ OnceOnStack
           /\ \A m \in Modules : \A i \in 1..Cnt(m) : LinkOf(m, i) = 0 <=> Ahead(m, i)

Resolved ==
    \A m \in Modules : mods[m].func_created /\ \A i \in 1..Cnt(m) : LinkOf(m, i) \in Modules
AllInstantiated == \A m \in Modules : mods[m].instantiated
Linking ==
    /\ phase \in {"link", "evaluate"} \/ ran # <<>> => Resolved
    /\ phase = "evaluate" \/ ran # <<>> => AllInstantiated
    /\ phase = "link" =>
           /\ mods[1].instantiated
           /\ \A m, k \in Modules : \A i \in 1..Cnt(m) :
                  mods[m].instantiated /\ LinkOf(m, i) = k => mods[k].instantiated \/ Ahead(m, i)

Ran(m) == \E a \in 1..Len(ran) : ran[a] = m
OnStack(m, j) == \E l \in 1..j : stack[l].m = m
Entered(m) == \E l \in 1..Len(stack) : stack[l].m = m
Chained ==
    /\ OnceOnStack
    /\ \A j \in 1..(Len(stack) - 1) : \A m, k \in Modules :
           stack[j].m = m /\ stack[j + 1].m = k => \E i \in 1..Cnt(m) : LinkOf(m, i) = k
Marked ==
    \A m \in Modules :
        /\ mods[m].eval_mark <=> Entered(m)
        /\ mods[m].evaluated <=> Ran(m)
        /\ ~(Entered(m) /\ Ran(m))
(* What a frame has passed is evaluated, or being evaluated below it; or   *)
(* it is the frame above.                                                  *)
Passed ==
    /\ \A j \in 1..Len(stack) : \A m, k \in Modules : \A i \in 1..Cnt(m) :
           stack[j].m = m /\ i < stack[j].i /\ LinkOf(m, i) = k =>
               Ran(k) \/ OnStack(k, j) \/ (j < Len(stack) /\ k = stack[j + 1].m)
    /\ \A m, k \in Modules : \A i \in 1..Cnt(m) :
           Ran(m) /\ LinkOf(m, i) = k => Ran(k) \/ Entered(k)
    /\ Ran(1) \/ Entered(1)
Evaluating == phase = "evaluate" => Chained /\ Marked /\ Passed

(* A way from module k to module m along imports.                          *)
Path(k, m) ==
    \E p \in Seq(Modules) :
        /\ Len(p) \in 1..Len(mods) /\ p[1] = k /\ p[Len(p)] = m
        /\ \A x \in 1..(Len(p) - 1) : \E i \in 1..Cnt(p[x]) : LinkOf(p[x], i) = p[x + 1]
Ordered ==
    /\ \A m, k \in Modules : \A i \in 1..Cnt(m) :
           Ran(m) /\ LinkOf(m, i) = k => Precedes(k, m) \/ Path(k, m)
    /\ EachRunsOnce

Inv == TypeInv /\ Creation /\ Naming /\ Pending /\ Linking /\ Evaluating /\ Ordered

-----------------------------------------------------------------------------
(* Sequences and frames.                                                   *)

LEMMA FunctionIsSeq ==
    ASSUME NEW n \in Nat, NEW R, NEW f \in [1..n -> R]
    PROVE  f \in Seq(R) /\ Len(f) = n
OBVIOUS

LEMMA Appended ==
    ASSUME NEW s, IsSeq(s), NEW x
    PROVE  /\ IsSeq(Append(s, x)) /\ Len(Append(s, x)) = Len(s) + 1 /\ Len(s) \in Nat
           /\ Append(s, x)[Len(s) + 1] = x
           /\ \A k \in 1..Len(s) : Append(s, x)[k] = s[k]
<1>1. PICK S : s \in Seq(S)
  BY DEF IsSeq
<1>2. PICK T : T = S \cup {x}
  OBVIOUS
<1>3. s \in Seq(T) /\ x \in T
  BY <1>1, <1>2
<1>4. Append(s, x) \in Seq(T) /\ Len(Append(s, x)) = Len(s) + 1 /\ Len(s) \in Nat
  BY <1>3
<1>5. Append(s, x)[Len(s) + 1] = x /\ \A k \in 1..Len(s) : Append(s, x)[k] = s[k]
  BY <1>3
<1> QED BY <1>4, <1>5 DEF IsSeq

Popped(t) ==
    /\ t \in Seq(Frame) /\ Len(t) = Len(stack) - 1
    /\ \A j \in 1..(Len(stack) - 1) : t[j] = stack[j]
Stepped(t) ==
    /\ t \in Seq(Frame) /\ Len(t) = Len(stack)
    /\ \A j \in 1..(Len(stack) - 1) : t[j] = stack[j]
    /\ t[Len(stack)] = [m |-> Top.m, i |-> Top.i + 1]
Pushed(t, k) ==
    /\ t \in Seq(Frame) /\ Len(t) = Len(stack) + 1
    /\ \A j \in 1..(Len(stack) - 1) : t[j] = stack[j]
    /\ t[Len(stack)] = [m |-> Top.m, i |-> Top.i + 1]
    /\ t[Len(stack) + 1] = [m |-> k, i |-> 1]

LEMMA Frames ==
    ASSUME stack \in Seq(Frame), stack # <<>>
    PROVE  /\ Len(stack) \in Nat /\ Len(stack) >= 1 /\ Top = stack[Len(stack)]
           /\ Top.m \in Nat /\ Top.i \in Nat
           /\ Popped(Pop) /\ Stepped(Advanced)
           /\ \A k \in Nat : Pushed(Advanced \o Enter(k), k)
<1>1. PICK s, n : s = stack /\ n = Len(stack)
  OBVIOUS
<1>2. s \in Seq(Frame) /\ n \in Nat /\ n >= 1 /\ Len(s) = n /\ s[n] \in Frame
  BY <1>1
<1>3. PICK p, t : p = SubSeq(s, 1, n - 1) /\ t = [s[n] EXCEPT !.i = @ + 1]
  OBVIOUS
<1>4. p \in Seq(Frame) /\ Len(p) = n - 1 /\ \A j \in 1..(n - 1) : p[j] = s[j]
  BY <1>2, <1>3
<1>5. t = [m |-> s[n].m, i |-> s[n].i + 1] /\ s[n].m \in Nat /\ s[n].i \in Nat
  BY <1>2, <1>3 DEF Frame
<1>6. t \in Frame
  BY <1>5 DEF Frame
<1>7. PICK q : q = Append(p, t)
  OBVIOUS
<1>8. q \in Seq(Frame) /\ Len(q) = n /\ q[n] = t /\ \A j \in 1..(n - 1) : q[j] = s[j]
  <2>1. q \in Seq(Frame) /\ Len(q) = Len(p) + 1 /\ q[Len(p) + 1] = t
    BY <1>4, <1>6, <1>7
  <2>2. \A j \in 1..Len(p) : q[j] = p[j]
    BY <1>4, <1>6, <1>7
  <2>3. Len(p) + 1 = n
    BY <1>2, <1>4
  <2> QED BY <1>4, <2>1, <2>2, <2>3
<1>9. ASSUME NEW k \in Nat PROVE Pushed(q \o Enter(k), k)
  <2>1. PICK f : f = [m |-> k, i |-> 1]
    OBVIOUS
  <2>2. f \in Frame /\ Enter(k) = <<f>>
    BY <2>1 DEF Frame, Enter
  <2>3. PICK r : r = q \o <<f>>
    OBVIOUS
  <2>4. r \in Seq(Frame) /\ Len(r) = n + 1 /\ r[n + 1] = f /\ \A j \in 1..n : r[j] = q[j]
    BY <1>2, <1>8, <2>2, <2>3
  <2>5. n \in 1..n /\ \A j \in 1..(n - 1) : j \in 1..n
    BY <1>2
  <2>6. Pushed(r, k)
    BY <1>1, <1>5, <1>8, <2>1, <2>4, <2>5 DEF Pushed, Top
  <2> QED BY <2>2, <2>3, <2>6
<1>10. Pop = p /\ Advanced = q /\ Top = s[n]
  BY <1>1, <1>3, <1>7 DEF Pop, Advanced, Top
<1>11. Popped(p) /\ Stepped(q)
  BY <1>1, <1>4, <1>5, <1>8 DEF Popped, Stepped, Top
<1> QED BY <1>1, <1>2, <1>5, <1>9, <1>10, <1>11

-----------------------------------------------------------------------------
(* The list of modules.                                                    *)

Replaced(u, s, k, x) == u = [s EXCEPT ![k] = x]
LEMMA Updated ==
    ASSUME NEW s, IsSeq(s), NEW k \in 1..Len(s), NEW x, NEW u, Replaced(u, s, k, x)
    PROVE  /\ IsSeq(u) /\ Len(u) = Len(s) /\ u[k] = x
           /\ \A j \in 1..Len(s) : j # k => u[j] = s[j]
<1>1. PICK S : s \in Seq(S)
  BY DEF IsSeq
<1>2. PICK T, n : T = S \cup {x} /\ n = Len(s)
  OBVIOUS
<1>3. n \in Nat /\ s \in [1..n -> T]
  BY <1>1, <1>2
<1>5. u \in [1..n -> T] /\ u[k] = x /\ \A j \in 1..n : j # k => u[j] = s[j]
  BY <1>2, <1>3 DEF Replaced
<1>6. u \in Seq(T) /\ Len(u) = n
  BY <1>3, <1>5, FunctionIsSeq
<1> QED BY <1>2, <1>5, <1>6 DEF IsSeq

SameNames(q, r) == q.file = r.file /\ q.name = r.name
SameFlags(q, r) ==
    /\ q.func_created = r.func_created /\ q.instantiated = r.instantiated
    /\ q.eval_mark = r.eval_mark /\ q.evaluated = r.evaluated

LEMMA RecordOf ==
    ASSUME NEW D, NEW N, NEW L, NEW B, NEW f \in D, NEW n \in N, NEW l \in L,
           NEW b1 \in B, NEW b2 \in B, NEW b3 \in B, NEW b4 \in B
    PROVE  [file |-> f, name |-> n, links |-> l, func_created |-> b1, instantiated |-> b2,
            eval_mark |-> b3, evaluated |-> b4] \in
           [file : D, name : N, links : L, func_created : B, instantiated : B,
            eval_mark : B, evaluated : B]
OBVIOUS

Built(q, f, nm, l, fc, in, em, ev) ==
    q = [file |-> f, name |-> nm, links |-> l, func_created |-> fc, instantiated |-> in,
         eval_mark |-> em, evaluated |-> ev]
Flagged(q, fc, in, em, ev) ==
    q.func_created = fc /\ q.instantiated = in /\ q.eval_mark = em /\ q.evaluated = ev
Fits(fs, n, f, l, fc, in, em, ev) ==
    /\ f \in DOMAIN fs /\ l \in [1..Len(fs[f].imports) -> 0..n]
    /\ fc \in BOOLEAN /\ in \in BOOLEAN /\ em \in BOOLEAN /\ ev \in BOOLEAN
LEMMA RecordBuilt ==
    ASSUME NEW fs, NEW n, NEW f, NEW nm, NEW l, NEW fc, NEW in, NEW em, NEW ev,
           Fits(fs, n, f, l, fc, in, em, ev),
           NEW q, Built(q, f, nm, l, fc, in, em, ev)
    PROVE  /\ Record(q, fs, n) /\ q.file = f /\ q.name = nm /\ q.links = l
           /\ Flagged(q, fc, in, em, ev)
<1>1. q = [file |-> f, name |-> nm, links |-> l, func_created |-> fc, instantiated |-> in,
           eval_mark |-> em, evaluated |-> ev]
  BY DEF Built
<1>2. q.file = f /\ q.name = nm /\ q.links = l
  BY <1>1
<1>3. Flagged(q, fc, in, em, ev)
  BY <1>1, Zenon DEF Flagged
<1>4. PICK N, B, L, D :
          N = {nm} /\ B = BOOLEAN /\ L = [1..Len(fs[f].imports) -> 0..n] /\ D = DOMAIN fs
  OBVIOUS
<1>5. f \in D /\ nm \in N /\ l \in L /\ fc \in B /\ in \in B /\ em \in B /\ ev \in B
  BY <1>4, Zenon DEF Fits
<1>6. [file |-> f, name |-> nm, links |-> l, func_created |-> fc, instantiated |-> in,
       eval_mark |-> em, evaluated |-> ev] \in
      [file : D, name : N, links : L, func_created : B, instantiated : B,
       eval_mark : B, evaluated : B]
  BY <1>5, RecordOf
<1>7. q \in [file : DOMAIN fs, name : {q.name}, links : [1..Len(fs[q.file].imports) -> 0..n],
             func_created : BOOLEAN, instantiated : BOOLEAN,
             eval_mark : BOOLEAN, evaluated : BOOLEAN]
  BY <1>1, <1>2, <1>4, <1>6, Zenon
<1> QED BY <1>2, <1>3, <1>7 DEF Record

LEMMA RecordParts ==
    ASSUME NEW r, NEW fs, NEW n, Record(r, fs, n)
    PROVE  /\ Built(r, r.file, r.name, r.links, r.func_created, r.instantiated,
                    r.eval_mark, r.evaluated)
           /\ Fits(fs, n, r.file, r.links, r.func_created, r.instantiated,
                   r.eval_mark, r.evaluated)
BY DEF Record, Built, Fits

LinkSet(q, r, i, k) == q = [r EXCEPT !.links[i] = k]
LEMMA LinkRecord ==
    ASSUME NEW r, NEW fs, NEW n \in Nat, NEW n2 \in Nat, n <= n2, Record(r, fs, n),
           NEW c, c = Len(fs[r.file].imports), NEW i \in 1..c, NEW k \in 0..n2,
           NEW q, LinkSet(q, r, i, k)
    PROVE  /\ Record(q, fs, n2) /\ SameNames(q, r) /\ SameFlags(q, r)
           /\ \A j \in 1..c : q.links[j] = IF j = i THEN k ELSE r.links[j]
<1>1. PICK l : l = [r.links EXCEPT ![i] = k]
  OBVIOUS
<1>2. r.links \in [1..c -> 0..n]
  BY DEF Record
<1>3. \A j \in 1..c : l[j] = IF j = i THEN k ELSE r.links[j]
  BY <1>1, <1>2
<1>4. l \in [1..c -> 0..n2]
  <2>1. 0..n \subseteq 0..n2
    OBVIOUS
  <2>2. l \in [1..c -> 0..n \cup 0..n2]
    BY <1>1, <1>2
  <2> QED BY <2>1, <2>2
<1>5. Built(q, r.file, r.name, l, r.func_created, r.instantiated, r.eval_mark, r.evaluated)
  <2>1. q = [r EXCEPT !.links = l]
    BY <1>1 DEF LinkSet
  <2> QED BY <2>1 DEF Record, Built
<1>6. /\ Record(q, fs, n2) /\ q.file = r.file /\ q.name = r.name /\ q.links = l
      /\ Flagged(q, r.func_created, r.instantiated, r.eval_mark, r.evaluated)
  <2>1. PICK f, nm, fc, in, em, ev :
            f = r.file /\ nm = r.name /\ fc = r.func_created /\ in = r.instantiated /\
            em = r.eval_mark /\ ev = r.evaluated
    OBVIOUS
  <2>2. Fits(fs, n, f, r.links, fc, in, em, ev)
    BY <2>1, RecordParts
  <2>3. Fits(fs, n2, f, l, fc, in, em, ev)
    BY <1>4, <2>1, <2>2, Zenon DEF Fits
  <2>4. Built(q, f, nm, l, fc, in, em, ev)
    BY <1>5, <2>1
  <2>5. Record(q, fs, n2) /\ q.file = f /\ q.name = nm /\ q.links = l /\ Flagged(q, fc, in, em, ev)
    BY <2>3, <2>4, RecordBuilt
  <2> QED BY <2>1, <2>5
<1> QED BY <1>3, <1>6 DEF SameNames, SameFlags, Flagged

LEMMA FlagRecord ==
    ASSUME NEW r, NEW fs, NEW n, Record(r, fs, n),
           NEW fc \in BOOLEAN, NEW in \in BOOLEAN, NEW em \in BOOLEAN, NEW ev \in BOOLEAN,
           NEW q, Built(q, r.file, r.name, r.links, fc, in, em, ev)
    PROVE  /\ Record(q, fs, n) /\ SameNames(q, r) /\ q.links = r.links
           /\ Flagged(q, fc, in, em, ev)
<1>1. PICK f, nm, l : f = r.file /\ nm = r.name /\ l = r.links
  OBVIOUS
<1>2. Fits(fs, n, f, l, fc, in, em, ev)
  BY <1>1, RecordParts, Zenon DEF Fits
<1>3. Built(q, f, nm, l, fc, in, em, ev)
  BY <1>1
<1>4. Record(q, fs, n) /\ q.file = f /\ q.name = nm /\ q.links = l /\ Flagged(q, fc, in, em, ev)
  BY <1>2, <1>3, RecordBuilt
<1> QED BY <1>1, <1>4 DEF SameNames

(* The next import of the top frame linked to k, among n modules.          *)
Relinked(ms, k, n) ==
    /\ IsSeq(ms) /\ Len(ms) = Len(mods)
    /\ \A m \in Modules :
           /\ Record(ms[m], files, n) /\ SameNames(ms[m], mods[m]) /\ SameFlags(ms[m], mods[m])
           /\ \A i \in 1..Cnt(m) :
                  ms[m].links[i] = IF m = Top.m /\ i = Top.i THEN k ELSE LinkOf(m, i)

LEMMA RecordGrows ==
    ASSUME NEW r, NEW fs, NEW n \in Nat, NEW n2 \in Nat, n <= n2, Record(r, fs, n)
    PROVE  Record(r, fs, n2)
<1>1. 0..n \subseteq 0..n2
  OBVIOUS
<1>2. r.links \in [1..Len(fs[r.file].imports) -> 0..n2]
  BY <1>1 DEF Record
<1> QED BY <1>2 DEF Record

LEMMA Basics ==
    ASSUME ModsTyped
    PROVE  /\ Len(mods) \in Nat /\ \A m \in Modules : m \in Nat /\ Cnt(m) \in Nat
           /\ \A m \in Modules : \A i \in 1..Cnt(m) : LinkOf(m, i) \in 0..Len(mods)
           /\ \A m \in Modules : DOMAIN mods[m].links = 1..Cnt(m)
<1>1. Len(mods) \in Nat
  BY DEF ModsTyped, IsSeq
<1>2. ASSUME NEW m \in Modules
      PROVE  m \in Nat /\ Cnt(m) \in Nat /\ mods[m].links \in [1..Cnt(m) -> 0..Len(mods)]
  <2>1. Record(mods[m], files, Len(mods))
    BY DEF ModsTyped
  <2>2. mods[m].file \in DOMAIN files /\ mods[m].links \in [1..Cnt(m) -> 0..Len(mods)]
    BY <2>1 DEF Record, Cnt, Imports
  <2>3. files[mods[m].file].imports \in Seq(Names)
    BY <2>2, FilesAssumption DEF ModsTyped
  <2> QED BY <1>1, <2>2, <2>3 DEF Cnt, Imports, Modules
<1> QED BY <1>1, <1>2 DEF LinkOf

LEMMA TopFacts ==
    ASSUME ModsTyped, FramesTyped
    PROVE  /\ stack \in Seq(Frame) /\ Len(stack) \in Nat
           /\ \A j \in 1..Len(stack) :
                  /\ stack[j].m \in Modules /\ stack[j].m \in Nat /\ stack[j].i \in Nat
                  /\ stack[j].i \in 1..(Cnt(stack[j].m) + 1)
           /\ stack # <<>> =>
                  /\ Len(stack) >= 1 /\ Top = stack[Len(stack)] /\ Top.m \in Modules
                  /\ Cnt(Top.m) \in Nat /\ Top.i \in 1..(Cnt(Top.m) + 1)
                  /\ (AtEnd <=> Top.i > Cnt(Top.m)) /\ (~AtEnd => Top.i \in 1..Cnt(Top.m))
<1>1. stack \in Seq(Frame) /\ Len(stack) \in Nat
  BY DEF FramesTyped, FramesOver
<1>2. ASSUME NEW j \in 1..Len(stack)
      PROVE  /\ stack[j].m \in Modules /\ stack[j].m \in Nat /\ stack[j].i \in Nat
             /\ stack[j].i \in 1..(Cnt(stack[j].m) + 1)
  <2>1. PICK x : x = stack[j]
    OBVIOUS
  <2>2. x.m \in Modules /\ x.i \in 1..(Counts[x.m] + 1) /\ x.i \in Nat
    BY <1>1, <2>1 DEF FramesTyped, FramesOver, Frame
  <2>3. Counts[x.m] = Cnt(x.m) /\ x.m \in Nat
    BY <2>2, Basics DEF Counts
  <2> QED BY <2>1, <2>2, <2>3
<1>3. ASSUME stack # <<>>
      PROVE  /\ Len(stack) >= 1 /\ Top = stack[Len(stack)] /\ Top.m \in Modules
             /\ Cnt(Top.m) \in Nat /\ Top.i \in 1..(Cnt(Top.m) + 1)
             /\ (AtEnd <=> Top.i > Cnt(Top.m)) /\ (~AtEnd => Top.i \in 1..Cnt(Top.m))
  <2>1. Len(stack) >= 1 /\ Top = stack[Len(stack)]
    BY <1>1, <1>3 DEF Top
  <2>2. PICK t, i, c : t = Top.m /\ i = Top.i /\ c = Cnt(t)
    OBVIOUS
  <2>3. t \in Modules /\ i \in 1..(c + 1)
    BY <1>1, <1>2, <2>1, <2>2
  <2>4. c \in Nat
    BY <2>2, <2>3, Basics
  <2>5. AtEnd <=> i > c
    BY <2>2 DEF AtEnd, Cnt
  <2>6. ~(i > c) => i \in 1..c
    BY <2>3, <2>4
  <2> QED BY <2>1, <2>2, <2>3, <2>4, <2>5, <2>6
<1> QED BY <1>1, <1>2, <1>3

LinkAt(ms, k) == ms = [mods EXCEPT ![Top.m].links[Top.i] = k]
LEMMA Relinks ==
    ASSUME ModsTyped, FramesTyped, stack # <<>>, ~AtEnd,
           NEW n \in Nat, Len(mods) <= n, NEW k \in 0..n, NEW ms, LinkAt(ms, k)
    PROVE  Relinked(ms, k, n)
<1>2. PICK t, i, c : t = Top.m /\ i = Top.i /\ c = Cnt(t)
  OBVIOUS
<1>4. t \in Modules /\ c \in Nat /\ i \in 1..c
  BY <1>2, TopFacts
<1>5. PICK r, q : r = mods[t] /\ q = [r EXCEPT !.links[i] = k]
  OBVIOUS
<1>6. Record(r, files, Len(mods)) /\ c = Len(files[r.file].imports) /\ Len(mods) \in Nat
  BY <1>2, <1>4, <1>5, Basics DEF ModsTyped, Cnt, Imports
<1>7. /\ Record(q, files, n) /\ SameNames(q, r) /\ SameFlags(q, r)
      /\ \A j \in 1..c : q.links[j] = IF j = i THEN k ELSE r.links[j]
  <2>1. LinkSet(q, r, i, k)
    BY <1>5 DEF LinkSet
  <2> QED BY <1>4, <1>6, <2>1, LinkRecord
<1>8. ms = [mods EXCEPT ![t] = q]
  BY <1>2, <1>5 DEF LinkAt
<1>9. /\ IsSeq(ms) /\ Len(ms) = Len(mods) /\ ms[t] = q
      /\ \A m \in Modules : m # t => ms[m] = mods[m]
  <2>1. IsSeq(mods) /\ t \in 1..Len(mods)
    BY <1>4 DEF ModsTyped, Modules
  <2>2. /\ IsSeq(ms) /\ Len(ms) = Len(mods) /\ ms[t] = q
        /\ \A m \in 1..Len(mods) : m # t => ms[m] = mods[m]
    <3>1. Replaced(ms, mods, t, q)
      BY <1>8 DEF Replaced
    <3> QED BY <2>1, <3>1, Updated
  <2> QED BY <2>2 DEF Modules
<1>10. ASSUME NEW m \in Modules
       PROVE  /\ Record(ms[m], files, n) /\ SameNames(ms[m], mods[m]) /\ SameFlags(ms[m], mods[m])
              /\ \A j \in 1..Cnt(m) : ms[m].links[j] = IF m = t /\ j = i THEN k ELSE LinkOf(m, j)
  <2>1. CASE m = t
    <3>1. ms[m] = q /\ mods[m] = r /\ Cnt(m) = c
      BY <1>2, <1>5, <1>9, <2>1
    <3>2. \A j \in 1..c : q.links[j] = IF j = i THEN k ELSE LinkOf(m, j)
      BY <1>7, <3>1 DEF LinkOf
    <3> QED BY <1>7, <2>1, <3>1, <3>2
  <2>2. CASE m # t
    <3>1. Record(mods[m], files, Len(mods)) /\ ms[m] = mods[m]
      BY <1>9, <2>2 DEF ModsTyped
    <3>2. Record(mods[m], files, n)
      BY <1>6, <3>1, RecordGrows
    <3> QED BY <2>2, <3>1, <3>2 DEF SameNames, SameFlags, LinkOf
  <2> QED BY <2>1, <2>2
<1> QED BY <1>2, <1>9, <1>10 DEF Relinked

(* The modules, their names and their links stay; flags may change.        *)
Kept ==
    /\ files' = files /\ IsSeq(mods') /\ Len(mods') = Len(mods)
    /\ \A m \in Modules :
           /\ Record(mods'[m], files, Len(mods)) /\ SameNames(mods'[m], mods[m])
           /\ mods'[m].links = mods[m].links

LEMMA Unchanged ==
    ASSUME ModsTyped, UNCHANGED <<files, mods>>
    PROVE  Kept
BY DEF ModsTyped, Kept, SameNames

LEMMA Reflags ==
    ASSUME ModsTyped, NEW t \in Modules, NEW q,
           NEW fc \in BOOLEAN, NEW in \in BOOLEAN, NEW em \in BOOLEAN, NEW ev \in BOOLEAN,
           Built(q, mods[t].file, mods[t].name, mods[t].links, fc, in, em, ev),
           files' = files, Replaced(mods', mods, t, q)
    PROVE  /\ Kept /\ Flagged(mods'[t], fc, in, em, ev)
           /\ \A m \in Modules : m # t => SameFlags(mods'[m], mods[m])
<1>1. PICK ms, r, n : ms = mods' /\ r = mods[t] /\ n = Len(mods)
  OBVIOUS
<1>2. Record(r, files, n) /\ Built(q, r.file, r.name, r.links, fc, in, em, ev)
  BY <1>1 DEF ModsTyped
<1>3. /\ Record(q, files, n) /\ SameNames(q, r) /\ q.links = r.links
      /\ Flagged(q, fc, in, em, ev)
  BY <1>2, FlagRecord
<1>4. IsSeq(mods) /\ t \in 1..Len(mods) /\ Replaced(ms, mods, t, q)
  BY <1>1 DEF ModsTyped, Modules
<1>5. /\ IsSeq(ms) /\ Len(ms) = Len(mods) /\ ms[t] = q
      /\ \A m \in 1..Len(mods) : m # t => ms[m] = mods[m]
  BY <1>4, Updated
<1>6. ASSUME NEW m \in Modules
      PROVE  /\ Record(ms[m], files, n) /\ SameNames(ms[m], mods[m])
             /\ ms[m].links = mods[m].links
  <2>1. CASE m = t
    BY <1>1, <1>3, <1>5, <2>1
  <2>2. CASE m # t
    <3>1. ms[m] = mods[m] /\ Record(mods[m], files, n)
      BY <1>1, <1>5, <2>2 DEF ModsTyped, Modules
    <3> QED BY <3>1 DEF SameNames
  <2> QED BY <2>1, <2>2
<1>7. Kept
  BY <1>1, <1>5, <1>6 DEF Kept
<1>8. \A m \in Modules : m # t => SameFlags(ms[m], mods[m])
  BY <1>5 DEF SameFlags, Modules
<1> QED BY <1>1, <1>3, <1>5, <1>7, <1>8

LEMMA ReflagsAll ==
    ASSUME ModsTyped, files' = files,
           NEW fc \in [Modules -> BOOLEAN], NEW in \in [Modules -> BOOLEAN],
           NEW em \in [Modules -> BOOLEAN], NEW ev \in [Modules -> BOOLEAN],
           mods' = [m \in Modules |-> mods'[m]],
           \A m \in Modules : Built(mods'[m], mods[m].file, mods[m].name, mods[m].links,
                                    fc[m], in[m], em[m], ev[m])
    PROVE  Kept /\ \A m \in Modules : Flagged(mods'[m], fc[m], in[m], em[m], ev[m])
<1>1. PICK ms, n : ms = mods' /\ n = Len(mods)
  OBVIOUS
<1>2. n \in Nat /\ Modules = 1..n
  BY <1>1, Basics DEF Modules
<1>3. IsSeq(ms) /\ Len(ms) = n
  <2>1. PICK T : T = {ms[m] : m \in Modules}
    OBVIOUS
  <2>2. ms \in [1..n -> T]
    <3>1. ms = [m \in Modules |-> ms[m]]
      BY <1>1
    <3> QED BY <1>2, <2>1, <3>1
  <2>3. ms \in Seq(T) /\ Len(ms) = n
    BY <1>2, <2>2, FunctionIsSeq
  <2> QED BY <2>3 DEF IsSeq
<1>4. ASSUME NEW m \in Modules
      PROVE  /\ Record(ms[m], files, n) /\ SameNames(ms[m], mods[m])
             /\ ms[m].links = mods[m].links /\ Flagged(ms[m], fc[m], in[m], em[m], ev[m])
  <2>1. PICK r, q, b1, b2, b3, b4 :
            r = mods[m] /\ q = ms[m] /\ b1 = fc[m] /\ b2 = in[m] /\ b3 = em[m] /\ b4 = ev[m]
    OBVIOUS
  <2>2. Record(r, files, n) /\ Built(q, r.file, r.name, r.links, b1, b2, b3, b4)
    BY <1>1, <2>1 DEF ModsTyped
  <2>3. b1 \in BOOLEAN /\ b2 \in BOOLEAN /\ b3 \in BOOLEAN /\ b4 \in BOOLEAN
    BY <2>1, Zenon
  <2>4. /\ Record(q, files, n) /\ SameNames(q, r) /\ q.links = r.links
        /\ Flagged(q, b1, b2, b3, b4)
    BY <2>2, <2>3, FlagRecord
  <2> QED BY <2>1, <2>4
<1> QED BY <1>1, <1>3, <1>4 DEF Kept

LEMMA KeptFacts ==
    ASSUME ModsTyped, Kept
    PROVE  /\ ModsTyped' /\ Modules' = Modules
           /\ \A m \in Modules : Cnt(m)' = Cnt(m) /\ mods'[m].file = mods[m].file
           /\ \A m \in Modules : \A i \in 1..Cnt(m) : LinkOf(m, i)' = LinkOf(m, i)
           /\ Imported => Imported'
           /\ Naming => Naming'
           /\ \A k, m : Path(k, m) => Path(k, m)'
<1>1. Modules' = Modules
  BY DEF Kept, Modules
<1>2. \A m \in Modules : mods'[m].file = mods[m].file /\ mods'[m].name = mods[m].name
  BY DEF Kept, SameNames
<1>3. \A m \in Modules : Cnt(m)' = Cnt(m) /\ IsSource(m)' = IsSource(m)
  BY <1>2 DEF Kept, Cnt, Imports, IsSource
<1>4. \A m \in Modules : \A i \in 1..Cnt(m) : LinkOf(m, i)' = LinkOf(m, i)
  BY DEF Kept, LinkOf
<1>5. ModsTyped'
  BY <1>1 DEF Kept, ModsTyped
<1>6. Imported => Imported'
  BY <1>1, <1>3, <1>4 DEF Imported
<1>7. Naming => Naming'
  BY <1>1, <1>2, <1>3 DEF Naming
<1>8. ASSUME NEW k, NEW m, Path(k, m) PROVE Path(k, m)'
  <2>1. PICK p \in Seq(Modules) :
            /\ Len(p) \in 1..Len(mods) /\ p[1] = k /\ p[Len(p)] = m
            /\ \A x \in 1..(Len(p) - 1) : \E i \in 1..Cnt(p[x]) : LinkOf(p[x], i) = p[x + 1]
    BY <1>8 DEF Path
  <2>2. \A x \in 1..(Len(p) - 1) : p[x] \in Modules
    BY <2>1
  <2>3. \A x \in 1..(Len(p) - 1) : \E i \in 1..Cnt(p[x])' : LinkOf(p[x], i)' = p[x + 1]
    BY <1>3, <1>4, <2>1, <2>2
  <2>4. p \in Seq(Modules') /\ Len(p) \in 1..Len(mods')
    BY <1>1, <2>1 DEF Kept
  <2> QED BY <2>1, <2>3, <2>4 DEF Path
<1> QED BY <1>1, <1>2, <1>3, <1>4, <1>5, <1>6, <1>7, <1>8

LEMMA FramesMove ==
    ASSUME NEW M, NEW c, NEW M2, NEW c2, M \subseteq M2, \A m \in M : c2[m] = c[m] /\ c[m] \in Nat,
           FramesOver(stack, M, c), NEW s
    PROVE  /\ stack # <<>> /\ Popped(s) => FramesOver(s, M2, c2)
           /\ stack # <<>> /\ ~(Top.i > c[Top.m]) /\ Stepped(s) => FramesOver(s, M2, c2)
           /\ \A k \in M2 : /\ stack # <<>> /\ ~(Top.i > c[Top.m])
                            /\ Pushed(s, k) /\ c2[k] \in Nat
                            => FramesOver(s, M2, c2)
           /\ \A k \in M2 : k \in Nat /\ s = Enter(k) /\ c2[k] \in Nat => FramesOver(s, M2, c2)
<1>1. PICK n : n = Len(stack)
  OBVIOUS
<1> DEFINE Good(j) == s[j].m \in M2 /\ s[j].i \in 1..(c2[s[j].m] + 1)
<1>2. n \in Nat /\ \A j \in 1..n : s[j] = stack[j] => Good(j)
  BY <1>1 DEF FramesOver
<1>3. s \in Seq(Frame) /\ (\A j \in 1..Len(s) : Good(j)) => FramesOver(s, M2, c2)
  BY DEF FramesOver
<1>4. ASSUME stack # <<>>, ~(Top.i > c[Top.m])
      PROVE  n >= 1 /\ Top.m \in M2 /\ Top.i \in Nat /\ Top.i + 1 \in 1..(c2[Top.m] + 1)
  <2>1. n >= 1 /\ Top = stack[n] /\ Top.i \in Nat
    BY <1>1, <1>4, Frames DEF FramesOver
  <2>2. Top.m \in M /\ Top.i \in 1..(c[Top.m] + 1)
    BY <1>1, <2>1 DEF FramesOver
  <2> QED BY <1>4, <2>1, <2>2
<1>6. ASSUME stack # <<>>, Popped(s) PROVE FramesOver(s, M2, c2)
  <2>1. s \in Seq(Frame) /\ Len(s) = n - 1 /\ \A j \in 1..(n - 1) : s[j] = stack[j]
    BY <1>1, <1>6 DEF Popped
  <2>2. \A j \in 1..Len(s) : j \in 1..n /\ s[j] = stack[j]
    BY <1>2, <2>1
  <2> HIDE DEF Good
  <2> QED BY <1>2, <1>3, <2>1, <2>2
<1>7. ASSUME stack # <<>>, ~(Top.i > c[Top.m]), Stepped(s) PROVE FramesOver(s, M2, c2)
  <2>1. /\ s \in Seq(Frame) /\ Len(s) = n /\ \A j \in 1..(n - 1) : s[j] = stack[j]
        /\ s[n] = [m |-> Top.m, i |-> Top.i + 1]
    BY <1>1, <1>7 DEF Stepped
  <2>2. Good(n)
    <3>1. s[n].m = Top.m /\ s[n].i = Top.i + 1
      BY <2>1
    <3> QED BY <1>4, <1>7, <3>1
  <2>3. \A j \in 1..n : j = n \/ j \in 1..(n - 1)
    BY <1>2
  <2> HIDE DEF Good
  <2>4. \A j \in 1..n : Good(j)
    BY <1>2, <2>1, <2>2, <2>3
  <2> QED BY <1>3, <2>1, <2>4
<1>8. ASSUME NEW k \in M2, stack # <<>>, ~(Top.i > c[Top.m]), Pushed(s, k), c2[k] \in Nat
      PROVE  FramesOver(s, M2, c2)
  <2>1. /\ s \in Seq(Frame) /\ Len(s) = n + 1 /\ \A j \in 1..(n - 1) : s[j] = stack[j]
        /\ s[n] = [m |-> Top.m, i |-> Top.i + 1] /\ s[n + 1] = [m |-> k, i |-> 1]
    BY <1>1, <1>8 DEF Pushed
  <2>2. Good(n)
    <3>1. s[n].m = Top.m /\ s[n].i = Top.i + 1
      BY <2>1
    <3> QED BY <1>4, <1>8, <3>1
  <2>3. Good(n + 1)
    <3>1. s[n + 1].m = k /\ s[n + 1].i = 1
      BY <2>1
    <3> QED BY <1>8, <3>1
  <2>4. \A j \in 1..(n + 1) : j = n + 1 \/ j = n \/ (j \in 1..(n - 1) /\ j \in 1..n)
    BY <1>2
  <2> HIDE DEF Good
  <2>5. \A j \in 1..(n + 1) : Good(j)
    BY <1>2, <2>1, <2>2, <2>3, <2>4
  <2> QED BY <1>3, <2>1, <2>5
<1>9. ASSUME NEW k \in M2, k \in Nat, s = Enter(k), c2[k] \in Nat
      PROVE  FramesOver(s, M2, c2)
  <2>1. PICK f : f = [m |-> k, i |-> 1]
    OBVIOUS
  <2>2. f \in Frame /\ f.m = k /\ f.i = 1
    BY <1>9, <2>1 DEF Frame
  <2>3. s = <<f>>
    BY <1>9, <2>1 DEF Enter
  <2>4. s \in Seq(Frame) /\ Len(s) = 1 /\ s[1] = f
    BY <2>2, <2>3
  <2>5. Good(1)
    BY <1>9, <2>2, <2>4
  <2>6. \A j \in 1..Len(s) : j = 1
    BY <2>4
  <2> HIDE DEF Good
  <2> QED BY <1>3, <2>4, <2>5, <2>6
<1> QED BY <1>6, <1>7, <1>8, <1>9

LEMMA Moves ==
    ASSUME ModsTyped, FramesTyped, Modules \subseteq Modules',
           \A m \in Modules : Cnt(m)' = Cnt(m)
    PROVE  /\ stack' = <<>> => FramesTyped'
           /\ stack # <<>> /\ Popped(stack') => FramesTyped'
           /\ stack # <<>> /\ ~AtEnd /\ Stepped(stack') => FramesTyped'
           /\ \A k \in Modules' : stack # <<>> /\ ~AtEnd /\ Pushed(stack', k) /\ Counts'[k] \in Nat
                  => FramesTyped'
           /\ \A k \in Modules' : k \in Nat /\ stack' = Enter(k) /\ Counts'[k] \in Nat
                  => FramesTyped'
<1>1. PICK M, c, M2, c2, s :
          M = Modules /\ c = Counts /\ M2 = Modules' /\ c2 = Counts' /\ s = stack'
  OBVIOUS
<1>2. \A m \in M : c[m] = Cnt(m) /\ c[m] \in Nat
  BY <1>1, Basics DEF Counts
<1>3. \A m \in M2 : c2[m] = Cnt(m)'
  BY <1>1 DEF Counts
<1>4. M \subseteq M2 /\ \A m \in M : c2[m] = c[m] /\ c[m] \in Nat
  BY <1>1, <1>2, <1>3
<1>5. FramesOver(stack, M, c) /\ (FramesOver(s, M2, c2) => FramesTyped')
  BY <1>1 DEF FramesTyped
<1>6. stack # <<>> /\ ~AtEnd => ~(Top.i > c[Top.m])
  BY <1>1, <1>2, TopFacts
<1>7. /\ stack # <<>> /\ Popped(s) => FramesOver(s, M2, c2)
      /\ stack # <<>> /\ ~(Top.i > c[Top.m]) /\ Stepped(s) => FramesOver(s, M2, c2)
      /\ \A k \in M2 : /\ stack # <<>> /\ ~(Top.i > c[Top.m])
                       /\ Pushed(s, k) /\ c2[k] \in Nat
                       => FramesOver(s, M2, c2)
      /\ \A k \in M2 : k \in Nat /\ s = Enter(k) /\ c2[k] \in Nat => FramesOver(s, M2, c2)
  BY <1>4, <1>5, FramesMove
<1>8. s = <<>> => FramesOver(s, M2, c2)
  BY DEF FramesOver
<1> QED BY <1>1, <1>5, <1>6, <1>7, <1>8

LEMMA RanStays ==
    ASSUME RanTyped, UNCHANGED ran, Modules \subseteq Modules'
    PROVE  RanTyped'
BY DEF RanTyped

-----------------------------------------------------------------------------
(* What is reached along imports.                                          *)

Closed == \A m \in Modules : \A i \in 1..Cnt(m) : LinkOf(m, i) \in Modules

LEMMA ClosedIsAll ==
    ASSUME ModsTyped, Imported, NEW S, 1 \in S,
           \A m \in Modules : m \in S => \A i \in 1..Cnt(m) : LinkOf(m, i) \in S
    PROVE  Modules \subseteq S
<1> DEFINE Bad == {k \in Modules : k \notin S}
<1>1. SUFFICES ASSUME Bad # {} PROVE FALSE
  OBVIOUS
<1>2. Bad \subseteq Nat
  BY Basics
<1> HIDE DEF Bad
<1>3. PICK k \in Bad : \A j \in Bad : k <= j
  BY <1>1, <1>2, LeastExists
<1>4. k \in Modules /\ k \notin S /\ k \in Nat
  BY <1>2 DEF Bad
<1>5. PICK j \in Modules : j < k /\ \E i \in 1..Cnt(j) : LinkOf(j, i) = k
  BY <1>4 DEF Imported
<1>6. j \in S
  <2>1. j \in Nat
    BY Basics
  <2>2. ~(k <= j)
    BY <1>4, <1>5, <2>1
  <2> QED BY <1>3, <2>2 DEF Bad
<1> QED BY <1>4, <1>5, <1>6

LEMMA LinkedOf ==
    ASSUME ModsTyped, NEW S, S \subseteq Modules
    PROVE  \A x : x \in Linked(S) <=> \E m \in S : \E i \in 1..Cnt(m) : x = LinkOf(m, i)
<1> DEFINE its(m) == {LinkOf(m, i) : i \in 1..Cnt(m)}
<1>1. \A m \in S : {mods[m].links[i] : i \in DOMAIN mods[m].links} = its(m)
  BY Basics DEF LinkOf
<1>3. ASSUME NEW x
      PROVE  x \in Linked(S) <=> \E m \in S : \E i \in 1..Cnt(m) : x = LinkOf(m, i)
  <2>1. x \in Linked(S) <=>
            \E m \in S : x \in {mods[m].links[i] : i \in DOMAIN mods[m].links}
    BY Zenon DEF Linked
  <2> HIDE DEF its
  <2>2. x \in Linked(S) <=> \E m \in S : x \in its(m)
    BY <1>1, <2>1, Zenon
  <2> QED BY <2>2, Zenon DEF its
<1> QED BY <1>3

Reach(f, k) ==
    f = [n \in 0..Len(mods) |-> IF n = 0 THEN {k} ELSE f[n - 1] \cup Linked(f[n - 1])]

LEMMA ReachExists ==
    ASSUME ModsTyped, Closed, NEW k \in Modules
    PROVE  \E f : Reach(f, k)
<1>1. PICK n, V : n = Len(mods) /\ V = SUBSET Modules
  OBVIOUS
<1>2. n \in Nat /\ {k} \in V
  BY <1>1, Basics
<1> DEFINE step == [i \in 1..n |-> [S \in V |-> S \cup Linked(S)]]
<1>3. ASSUME NEW S \in V PROVE S \cup Linked(S) \in V
  <2>1. S \subseteq Modules
    BY <1>1
  <2>2. Linked(S) \subseteq Modules
    BY <2>1, LinkedOf DEF Closed
  <2> QED BY <1>1, <2>1, <2>2
<1>4. step \in [1..n -> [V -> V]]
  BY <1>3
<1>5. \A i \in 1..n : \A S \in V : step[i][S] = S \cup Linked(S)
  OBVIOUS
<1> HIDE DEF step
<1>6. PICK f : Computes(f, n, V, {k}, step)
  BY <1>2, <1>4, RecursionDefines
<1>7. f \in [0..n -> V] /\ f[0] = {k} /\ \A i \in 1..n : f[i] = step[i][f[i - 1]]
  BY <1>6 DEF Computes
<1>8. ASSUME NEW i \in 1..n PROVE f[i] = f[i - 1] \cup Linked(f[i - 1])
  <2>1. i - 1 \in 0..n
    BY <1>2
  <2> QED BY <1>5, <1>7, <2>1
<1>9. ASSUME NEW i \in 0..n
      PROVE  f[i] = IF i = 0 THEN {k} ELSE f[i - 1] \cup Linked(f[i - 1])
  <2>1. i = 0 \/ i \in 1..n
    BY <1>2
  <2> QED BY <1>7, <1>8, <2>1
<1>10. f = [i \in 0..n |-> f[i]]
  BY <1>7
<1>11. Reach(f, k)
  BY <1>1, <1>9, <1>10, Zenon DEF Reach
<1> QED BY <1>11

LEMMA ReachSteps ==
    ASSUME ModsTyped, NEW k \in Modules, NEW f, Reach(f, k)
    PROVE  /\ f[0] = {k}
           /\ \A n \in 1..Len(mods) : f[n] = f[n - 1] \cup Linked(f[n - 1])
<1>1. PICK c : c = Len(mods) /\ c \in Nat
  BY Basics
<1>2. f = [n \in 0..c |-> IF n = 0 THEN {k} ELSE f[n - 1] \cup Linked(f[n - 1])]
  BY <1>1, Zenon DEF Reach
<1>3. \A n \in 0..c : f[n] = IF n = 0 THEN {k} ELSE f[n - 1] \cup Linked(f[n - 1])
  BY <1>2, Zenon
<1>4. 0 \in 0..c /\ \A n \in 1..c : n \in 0..c /\ n # 0
  BY <1>1
<1> QED BY <1>1, <1>3, <1>4

LEMMA ReachWithin ==
    ASSUME ModsTyped, Closed, NEW k \in Modules, NEW f, Reach(f, k)
    PROVE  \A n \in 0..Len(mods) : f[n] \subseteq Modules
<1>1. PICK c : c = Len(mods) /\ c \in Nat
  BY Basics
<1> DEFINE Good == {n \in 0..c : f[n] \subseteq Modules}
<1>2. f[0] = {k} /\ \A n \in 1..c : f[n] = f[n - 1] \cup Linked(f[n - 1])
  BY <1>1, ReachSteps
<1>3. 0 \in Good
  BY <1>1, <1>2
<1>4. ASSUME NEW n \in 0..c, n \in Good, n < c PROVE n + 1 \in Good
  <2>1. n + 1 \in 1..c /\ n + 1 \in 0..c /\ (n + 1) - 1 = n
    BY <1>1, <1>4
  <2>2. f[n] \subseteq Modules
    BY <1>4
  <2>3. Linked(f[n]) \subseteq Modules
    BY <2>2, LinkedOf DEF Closed
  <2>4. f[n + 1] = f[n] \cup Linked(f[n])
    BY <1>2, <2>1
  <2> QED BY <2>1, <2>2, <2>3, <2>4
<1> HIDE DEF Good
<1>5. \A n \in 0..c : n \in Good
  BY <1>1, <1>3, <1>4, InductionUpTo
<1> QED BY <1>1, <1>5 DEF Good

(* The whole list is reached from its first module.                        *)
LEMMA ReachedFromIs ==
    ASSUME ModsTyped, Closed, NEW k \in Modules
    PROVE  \E f : Reach(f, k) /\ ReachedFrom(k) = f[Len(mods)]
<1> DEFINE reach == CHOOSE f : Reach(f, k)
<1>1. ReachedFrom(k) = reach[Len(mods)]
  BY DEF ReachedFrom, Reach
<1>2. \E f : Reach(f, k)
  BY ReachExists
<1>3. Reach(reach, k)
  BY <1>2
<1> HIDE DEF reach
<1> QED BY <1>1, <1>3

LEMMA AllReached ==
    ASSUME ModsTyped, Imported, Closed, 1 \in Modules
    PROVE  Modules \subseteq ReachedFrom(1)
<1>0. PICK f : Reach(f, 1) /\ ReachedFrom(1) = f[Len(mods)]
  BY ReachedFromIs
<1>1. PICK c : c = Len(mods) /\ c \in Nat /\ Modules = 1..c
  BY Basics DEF Modules
<1> DEFINE Good == {n \in 0..c : \A k \in 1..c : k <= n + 1 => k \in f[n]}
<1>2. f[0] = {1} /\ \A n \in 1..c : f[n] = f[n - 1] \cup Linked(f[n - 1])
  BY <1>0, <1>1, ReachSteps
<1>3. 0 \in Good
  BY <1>1, <1>2
<1>4. ASSUME NEW n \in 0..c, n \in Good, n < c PROVE n + 1 \in Good
  <2>1. n + 1 \in 1..c /\ n + 1 \in 0..c /\ (n + 1) - 1 = n
    BY <1>1, <1>4
  <2>2. f[n] \subseteq Modules /\ f[n + 1] = f[n] \cup Linked(f[n])
    BY <1>0, <1>1, <1>2, <2>1, ReachWithin
  <2>3. ASSUME NEW k \in 1..c, k <= (n + 1) + 1 PROVE k \in f[n + 1]
    <3>1. CASE k = 1
      <4>1. 1 \in f[n]
        BY <1>1, <1>4, <3>1
      <4> QED BY <2>2, <3>1, <4>1
    <3>2. CASE k # 1
      <4>1. PICK j \in Modules : j < k /\ \E i \in 1..Cnt(j) : LinkOf(j, i) = k
        BY <1>1, <3>2 DEF Imported
      <4>2. j \in 1..c /\ j <= n + 1
        BY <1>1, <2>3, <4>1
      <4>3. j \in f[n]
        BY <1>4, <4>2
      <4>4. k \in Linked(f[n])
        BY <2>2, <4>1, <4>3, LinkedOf
      <4> QED BY <2>2, <4>4
    <3> QED BY <3>1, <3>2
  <2> QED BY <2>1, <2>3
<1> HIDE DEF Good
<1>5. \A n \in 0..c : n \in Good
  BY <1>1, <1>3, <1>4, InductionUpTo
<1>6. c \in Good /\ \A k \in 1..c : k <= c + 1
  BY <1>1, <1>5
<1> QED BY <1>0, <1>1, <1>6 DEF Good

(* So is whatever a path leads to.                                         *)
LEMMA PathReaches ==
    ASSUME ModsTyped, Closed, NEW k \in Modules, NEW m, Path(k, m)
    PROVE  m \in ReachedFrom(k)
<1>0. PICK f : Reach(f, k) /\ ReachedFrom(k) = f[Len(mods)]
  BY ReachedFromIs
<1>1. PICK p \in Seq(Modules) :
          /\ Len(p) \in 1..Len(mods) /\ p[1] = k /\ p[Len(p)] = m
          /\ \A x \in 1..(Len(p) - 1) : \E i \in 1..Cnt(p[x]) : LinkOf(p[x], i) = p[x + 1]
  BY DEF Path
<1>2. PICK c, l : c = Len(mods) /\ l = Len(p)
  OBVIOUS
<1>3. c \in Nat /\ l \in 1..c /\ \A x \in 1..l : p[x] \in Modules
  BY <1>1, <1>2, Basics
<1>4. f[0] = {k} /\ \A n \in 1..c : f[n] = f[n - 1] \cup Linked(f[n - 1])
  BY <1>0, <1>2, ReachSteps
<1> DEFINE Good == {n \in 0..c : \A x \in 1..l : x <= n + 1 => p[x] \in f[n]}
<1>5. 0 \in Good
  BY <1>1, <1>3, <1>4
<1>6. ASSUME NEW n \in 0..c, n \in Good, n < c PROVE n + 1 \in Good
  <2>1. n + 1 \in 1..c /\ n + 1 \in 0..c /\ (n + 1) - 1 = n
    BY <1>3, <1>6
  <2>2. f[n] \subseteq Modules /\ f[n + 1] = f[n] \cup Linked(f[n])
    BY <1>0, <1>2, <1>4, <2>1, ReachWithin
  <2>3. ASSUME NEW x \in 1..l, x <= (n + 1) + 1 PROVE p[x] \in f[n + 1]
    <3>1. CASE x <= n + 1
      BY <1>6, <2>2, <3>1
    <3>2. CASE ~(x <= n + 1)
      <4>1. x - 1 \in 1..(l - 1) /\ x - 1 \in 1..l /\ x - 1 <= n + 1 /\ (x - 1) + 1 = x
        BY <1>3, <2>1, <2>3, <3>2
      <4>2. PICK i \in 1..Cnt(p[x - 1]) : LinkOf(p[x - 1], i) = p[x]
        BY <1>1, <1>2, <4>1
      <4>3. p[x - 1] \in f[n]
        BY <1>6, <4>1
      <4>4. p[x] \in Linked(f[n])
        BY <2>2, <4>2, <4>3, LinkedOf
      <4> QED BY <2>2, <4>4
    <3> QED BY <3>1, <3>2
  <2> QED BY <2>1, <2>3
<1> HIDE DEF Good
<1>7. \A n \in 0..c : n \in Good
  BY <1>3, <1>5, <1>6, InductionUpTo
<1>8. c \in Good /\ l \in 1..l /\ l <= c + 1
  BY <1>3, <1>7
<1> QED BY <1>0, <1>1, <1>2, <1>8 DEF Good

-----------------------------------------------------------------------------
(* The initial states, and the steps that only move on the stack.          *)

LEMMA KeptSteps ==
    ASSUME ModsTyped, FramesTyped, Kept
    PROVE  /\ stack' = <<>> => FramesTyped'
           /\ stack # <<>> /\ stack' = Pop => FramesTyped' /\ Popped(stack')
           /\ stack # <<>> /\ ~AtEnd /\ stack' = Advanced => FramesTyped' /\ Stepped(stack')
           /\ \A k \in Modules :
                  stack # <<>> /\ ~AtEnd /\ stack' = Advanced \o Enter(k)
                  => FramesTyped' /\ Pushed(stack', k)
           /\ \A k \in Modules : stack' = Enter(k) => FramesTyped'
<1>1. Modules' = Modules /\ \A m \in Modules : Cnt(m)' = Cnt(m)
  BY KeptFacts
<1>2. \A k \in Modules : k \in Nat /\ k \in Modules' /\ Counts'[k] \in Nat
  BY <1>1, Basics DEF Counts
<1>3. stack \in Seq(Frame)
  BY TopFacts
<1>4. /\ stack' = <<>> => FramesTyped'
      /\ stack # <<>> /\ Popped(stack') => FramesTyped'
      /\ stack # <<>> /\ ~AtEnd /\ Stepped(stack') => FramesTyped'
      /\ \A k \in Modules : stack # <<>> /\ ~AtEnd /\ Pushed(stack', k) => FramesTyped'
      /\ \A k \in Modules : stack' = Enter(k) => FramesTyped'
  BY <1>1, <1>2, Moves
<1>5. stack # <<>> =>
          /\ Popped(Pop) /\ Stepped(Advanced)
          /\ \A k \in Nat : Pushed(Advanced \o Enter(k), k)
  BY <1>3, Frames
<1>6. stack # <<>> /\ stack' = Pop => Popped(stack')
  BY <1>5
<1>7. stack # <<>> /\ stack' = Advanced => Stepped(stack')
  BY <1>5
<1>8. \A k \in Modules : stack # <<>> /\ stack' = Advanced \o Enter(k) => Pushed(stack', k)
  BY <1>2, <1>5
<1> QED BY <1>4, <1>6, <1>7, <1>8

LEMMA OrderedStays ==
    ASSUME ModsTyped, Kept, Ordered, UNCHANGED ran, phase' # "done" \/ err' # 0
    PROVE  Ordered'
<1>1. /\ Modules' = Modules
      /\ \A m \in Modules : Cnt(m)' = Cnt(m)
      /\ \A m \in Modules : \A i \in 1..Cnt(m) : LinkOf(m, i)' = LinkOf(m, i)
      /\ \A k, m : Path(k, m) => Path(k, m)'
  BY KeptFacts
<1>2. \A k, m : Precedes(k, m) => Precedes(k, m)'
  BY DEF Precedes
<1>3. \A m : Ran(m)' => Ran(m)
  BY DEF Ran
<1>4. EachRunsOnce'
  BY DEF Ordered, EachRunsOnce
<1>5. ASSUME NEW m \in Modules', NEW k \in Modules', NEW i \in 1..Cnt(m)',
             Ran(m)', LinkOf(m, i)' = k
      PROVE  Precedes(k, m)' \/ Path(k, m)'
  <2>1. m \in Modules /\ k \in Modules /\ i \in 1..Cnt(m) /\ Ran(m) /\ LinkOf(m, i) = k
    BY <1>1, <1>3, <1>5
  <2>2. Precedes(k, m) \/ Path(k, m)
    BY <2>1 DEF Ordered
  <2> QED BY <1>1, <1>2, <2>2
<1> QED BY <1>4, <1>5 DEF Ordered

LEMMA Fails ==
    ASSUME Inv, Fail, UNCHANGED <<files, mods, ran>>
    PROVE  Inv'
<1>1. ModsTyped /\ FramesTyped /\ RanTyped /\ Imported
  BY DEF Inv, TypeInv, Creation
<1>2. Kept
  BY <1>1, Unchanged
<1>3. phase' = "done" /\ err' = -1 /\ stack' = <<>>
  BY DEF Fail
<1>4. ModsTyped' /\ Modules' = Modules /\ Imported' /\ Naming'
  BY <1>1, <1>2, KeptFacts DEF Inv
<1>5. FramesTyped' /\ RanTyped'
  BY <1>1, <1>2, <1>3, <1>4, KeptSteps, RanStays
<1>6. Ordered'
  BY <1>1, <1>2, <1>3, OrderedStays DEF Inv
<1>7. Linking'
  <2>1. Resolved => Resolved'
    BY DEF Resolved, Modules, Cnt, Imports, LinkOf
  <2>2. AllInstantiated => AllInstantiated'
    BY DEF AllInstantiated, Modules
  <2> QED BY <1>3, <2>1, <2>2 DEF Inv, Linking
<1>8. Pending' /\ Evaluating' /\ Creation'
  BY <1>3, <1>4 DEF Pending, Evaluating, Creation
<1> QED BY <1>4, <1>5, <1>6, <1>7, <1>8 DEF Inv, TypeInv

LEMMA InitInv ==
    ASSUME Init
    PROVE  Inv
<1>1. mods = <<>> /\ stack = <<>> /\ ran = <<>> /\ phase = "start" /\ files \in FileSystems
  BY DEF Init
<1>2. Modules = {} /\ Len(stack) = 0 /\ Len(ran) = 0
  BY <1>1 DEF Modules
<1>3. TypeInv
  <2>1. IsSeq(mods)
    <3>1. <<>> \in Seq({})
      OBVIOUS
    <3> QED BY <1>1, <3>1 DEF IsSeq
  <2>2. ModsTyped
    BY <1>1, <1>2, <2>1 DEF ModsTyped
  <2>3. FramesTyped /\ RanTyped
    BY <1>1, <1>2 DEF FramesTyped, FramesOver, RanTyped
  <2> QED BY <2>2, <2>3 DEF TypeInv
<1>4. Creation /\ Naming
  BY <1>1, <1>2 DEF Creation, Imported, Naming
<1>5. Pending /\ Linking /\ Evaluating
  BY <1>1 DEF Pending, Linking, Evaluating
<1>6. Ordered
  BY <1>1, <1>2 DEF Ordered, EachRunsOnce
<1> QED BY <1>3, <1>4, <1>5, <1>6 DEF Inv

MadeOf(q, f, name) == q = NewModule(f, name)
Fresh(q, f, name, n) ==
    /\ Record(q, files, n) /\ q.file = f /\ Len(files[f].imports) \in Nat
    /\ files[f].kind = "bytecode" \/ q.name = name
    /\ \A i \in 1..Len(files[f].imports) : q.links[i] = 0
    /\ q.eval_mark = FALSE /\ q.evaluated = FALSE
LEMMA NewModuleIs ==
    ASSUME files \in FileSystems, NEW f \in DOMAIN files, NEW name, NEW n \in Nat,
           NEW q, MadeOf(q, f, name)
    PROVE  Fresh(q, f, name, n)
<1>1. PICK nm, l, c : /\ nm = (IF files[f].kind = "bytecode" THEN NoName ELSE name)
                      /\ c = Len(files[f].imports) /\ l = [i \in 1..c |-> 0]
  OBVIOUS
<1>2. c \in Nat
  <2>1. files[f].imports \in Seq(Names)
    BY FilesAssumption
  <2> QED BY <1>1, <2>1
<1>3. l \in [1..c -> 0..n] /\ \A i \in 1..c : l[i] = 0
  BY <1>1
<1>4. Fits(files, n, f, l, FALSE, FALSE, FALSE, FALSE)
  BY <1>1, <1>3 DEF Fits
<1>5. Built(q, f, nm, l, FALSE, FALSE, FALSE, FALSE)
  BY <1>1 DEF MadeOf, NewModule, Built
<1>6. /\ Record(q, files, n) /\ q.file = f /\ q.name = nm /\ q.links = l
      /\ Flagged(q, FALSE, FALSE, FALSE, FALSE)
  BY <1>4, <1>5, RecordBuilt
<1> QED BY <1>1, <1>2, <1>3, <1>6 DEF Flagged, Fresh

LEMMA Starts ==
    ASSUME Inv, run_from_file_system_buf
    PROVE  Inv'
<1>1. PICK main : main = IF MAIN_FILE_NAME \in DOMAIN files THEN MAIN_FILE_NAME
                         ELSE Bc(MAIN_FILE_NAME)
  OBVIOUS
<1>2. phase = "start" /\ files' = files /\ ran' = ran
  BY DEF run_from_file_system_buf
<1>3. CASE ~(Loadable(main) /\ files[main].fault # "parse")
  <2>1. Fail /\ mods' = mods
    BY <1>1, <1>3 DEF run_from_file_system_buf
  <2> QED BY <1>2, <2>1, Fails
<1>4. CASE Loadable(main) /\ files[main].fault # "parse"
  <2>1. PICK q : MadeOf(q, main, MAIN_FILE_NAME)
    BY DEF MadeOf
  <2>2. mods' = <<q>> /\ phase' = "resolve" /\ stack' = Enter(1)
    BY <1>1, <1>4, <2>1 DEF run_from_file_system_buf, MadeOf
  <2>3. files \in FileSystems /\ ModsTyped /\ FramesTyped /\ ran = <<>> /\ mods = <<>>
    BY <1>2 DEF Inv, TypeInv, ModsTyped, Pending
  <2>4. main \in DOMAIN files /\ (main = MAIN_FILE_NAME \/ main.ext = "bc")
    BY <1>1, <1>4 DEF Loadable, Bc, MAIN_FILE_NAME, Js
  <2>5. /\ Record(q, files, 1) /\ q.file = main /\ Len(files[main].imports) \in Nat
        /\ files[main].kind = "bytecode" \/ q.name = MAIN_FILE_NAME
        /\ \A i \in 1..Len(files[main].imports) : q.links[i] = 0
        /\ q.eval_mark = FALSE /\ q.evaluated = FALSE
    <3>1. Fresh(q, main, MAIN_FILE_NAME, 1)
      BY <2>1, <2>3, <2>4, NewModuleIs
    <3> QED BY <3>1 DEF Fresh
  <2>6. IsSeq(mods') /\ Len(mods') = 1 /\ mods'[1] = q
    <3>1. <<q>> \in Seq({q})
      OBVIOUS
    <3> QED BY <2>2, <3>1 DEF IsSeq
  <2>7. Modules' = {1}
    BY <2>6 DEF Modules
  <2>8. ModsTyped'
    BY <1>2, <2>3, <2>5, <2>6, <2>7 DEF ModsTyped
  <2>9. Cnt(1)' = Len(files[main].imports)
    BY <1>2, <2>5, <2>6 DEF Cnt, Imports
  <2>10. \A i \in 1..Cnt(1)' : LinkOf(1, i)' = 0
    BY <2>5, <2>6, <2>9 DEF LinkOf
  <2>11. FramesTyped'
    <3>1. Modules = {}
      BY <2>3 DEF Modules
    <3>2. 1 \in Modules' /\ Counts'[1] \in Nat
      BY <2>5, <2>7, <2>9 DEF Counts
    <3> QED BY <2>2, <2>3, <3>1, <3>2, Moves
  <2>12. RanTyped'
    BY <1>2, <2>3 DEF RanTyped
  <2>13. Creation'
    BY <2>7 DEF Creation, Imported
  <2>14. Naming'
    <3>1. IsSource(1)' => files[main].kind # "bytecode"
      BY <1>2, <2>5, <2>6 DEF IsSource
    <3>2. IsSource(1)' => mods'[1].file = mods'[1].name \/ mods'[1].file.ext = "bc"
      BY <2>4, <2>5, <2>6, <3>1
    <3> QED BY <2>7, <3>2 DEF Naming
  <2>15. Pending'
    <3>1. Len(stack') = 1 /\ stack'[1].m = 1 /\ stack'[1].i = 1
      BY <2>2 DEF Enter
    <3>2. OnceOnStack'
      BY <3>1 DEF OnceOnStack
    <3>3. Unrun'
      BY <1>2, <2>3, <2>5, <2>6, <2>7 DEF Unrun
    <3>4. \A i \in 1..Cnt(1)' : LinkOf(1, i)' = 0 /\ Ahead(1, i)'
      <4>1. ASSUME NEW i \in 1..Cnt(1)' PROVE Ahead(1, i)'
        <5>1. 1 <= i
          BY <2>5, <2>9
        <5> QED BY <3>1, <5>1 DEF Ahead
      <4> QED BY <2>10, <4>1
    <3> QED BY <2>2, <2>7, <3>2, <3>3, <3>4 DEF Pending
  <2>16. Linking' /\ Evaluating'
    BY <1>2, <2>2, <2>3 DEF Linking, Evaluating
  <2>17. Ordered'
    <3>1. Len(ran') = 0
      BY <1>2, <2>3
    <3>2. \A m : ~Ran(m)'
      BY <3>1 DEF Ran
    <3>3. EachRunsOnce'
      BY <2>2, <3>1 DEF EachRunsOnce
    <3> QED BY <3>2, <3>3 DEF Ordered
  <2> QED BY <2>8, <2>11, <2>12, <2>13, <2>14, <2>15, <2>16, <2>17 DEF Inv, TypeInv
<1> QED BY <1>3, <1>4

-----------------------------------------------------------------------------
(* Resolving.                                                              *)

(* The next import of the top frame is linked to k; modules may be added.  *)
LinkedTo(k) ==
    /\ files' = files /\ Modules \subseteq Modules'
    /\ \A m \in Modules :
           /\ SameNames(mods'[m], mods[m]) /\ SameFlags(mods'[m], mods[m])
           /\ \A i \in 1..Cnt(m) :
                  mods'[m].links[i] = IF m = Top.m /\ i = Top.i THEN k ELSE LinkOf(m, i)

LEMMA RelinkedIsLinked ==
    ASSUME NEW ms, NEW k, NEW n, Relinked(ms, k, n), Modules \subseteq Modules', files' = files,
           \A m \in Modules : mods'[m] = ms[m]
    PROVE  LinkedTo(k)
<1>1. \A m \in Modules :
          /\ SameNames(ms[m], mods[m]) /\ SameFlags(ms[m], mods[m])
          /\ \A i \in 1..Cnt(m) :
                 ms[m].links[i] = IF m = Top.m /\ i = Top.i THEN k ELSE LinkOf(m, i)
  BY Zenon DEF Relinked
<1>2. ASSUME NEW m \in Modules
      PROVE  /\ SameNames(mods'[m], mods[m]) /\ SameFlags(mods'[m], mods[m])
             /\ \A i \in 1..Cnt(m) :
                    mods'[m].links[i] = IF m = Top.m /\ i = Top.i THEN k ELSE LinkOf(m, i)
  <2>1. mods'[m] = ms[m]
    OBVIOUS
  <2> QED BY <1>1, <2>1, Zenon
<1> QED BY <1>2, Zenon DEF LinkedTo

LEMMA LinkedToFacts ==
    ASSUME Inv, phase = "resolve", stack # <<>>, ~AtEnd, NEW k \in Nat, k # 0, LinkedTo(k)
    PROVE  /\ \A m \in Modules :
                  /\ Cnt(m)' = Cnt(m) /\ IsSource(m)' = IsSource(m)
                  /\ mods'[m].file = mods[m].file /\ mods'[m].name = mods[m].name
                  /\ mods'[m].eval_mark = mods[m].eval_mark
                  /\ mods'[m].evaluated = mods[m].evaluated
           /\ LinkOf(Top.m, Top.i) = 0
           /\ \A m \in Modules : \A i \in 1..Cnt(m) :
                  LinkOf(m, i)' = IF m = Top.m /\ i = Top.i THEN k ELSE LinkOf(m, i)
           /\ \A x \in Modules :
                  x = 1 \/ \E j \in Modules : j < x /\ \E i \in 1..Cnt(j) : LinkOf(j, i)' = x
<1>1. \A m \in Modules :
          /\ mods'[m].file = mods[m].file /\ mods'[m].name = mods[m].name
          /\ mods'[m].eval_mark = mods[m].eval_mark
          /\ mods'[m].evaluated = mods[m].evaluated
  BY DEF LinkedTo, SameNames, SameFlags
<1>2. \A m \in Modules : Cnt(m)' = Cnt(m) /\ IsSource(m)' = IsSource(m)
  BY <1>1 DEF LinkedTo, Cnt, Imports, IsSource
<1>3. \A m \in Modules : \A i \in 1..Cnt(m) :
          LinkOf(m, i)' = IF m = Top.m /\ i = Top.i THEN k ELSE LinkOf(m, i)
  <2>1. PICK t, u : t = Top.m /\ u = Top.i
    OBVIOUS
  <2>2. \A m \in Modules : \A i \in 1..Cnt(m) :
            mods'[m].links[i] = IF m = t /\ i = u THEN k ELSE LinkOf(m, i)
    BY <2>1 DEF LinkedTo
  <2>3. \A m \in Modules : \A i \in 1..Cnt(m) :
            LinkOf(m, i)' = IF m = t /\ i = u THEN k ELSE LinkOf(m, i)
    BY <2>2 DEF LinkOf
  <2> QED BY <2>1, <2>3
<1>4. LinkOf(Top.m, Top.i) = 0
  <2>1. PICK t, u, n : t = Top.m /\ u = Top.i /\ n = Len(stack)
    OBVIOUS
  <2>2. ModsTyped /\ FramesTyped
    BY DEF Inv, TypeInv
  <2>3. t \in Modules /\ u \in 1..Cnt(t) /\ Cnt(t) \in Nat /\ n \in 1..n /\ Top = stack[n]
    BY <2>1, <2>2, TopFacts
  <2>4. Ahead(t, u)
    <3>1. stack[n].m = t /\ stack[n].i <= u
      BY <2>1, <2>3
    <3> QED BY <2>1, <2>3, <3>1 DEF Ahead
  <2>5. LinkOf(t, u) = 0
    BY <2>3, <2>4 DEF Inv, Pending
  <2> QED BY <2>1, <2>5
<1>5. ASSUME NEW x \in Modules, x # 1
      PROVE  \E j \in Modules : j < x /\ \E i \in 1..Cnt(j) : LinkOf(j, i)' = x
  <2>1. PICK j \in Modules : j < x /\ \E i \in 1..Cnt(j) : LinkOf(j, i) = x
    BY <1>5 DEF Inv, Creation, Imported
  <2>2. x # 0
    BY DEF Modules
  <2>3. \E i \in 1..Cnt(j) : LinkOf(j, i)' = x
    BY <1>3, <1>4, <2>1, <2>2
  <2> QED BY <2>1, <2>3
<1> QED BY <1>1, <1>2, <1>3, <1>4, <1>5

(* What is ahead of the frames afterwards.                                 *)
LEMMA LinkedToPending ==
    ASSUME Inv, phase = "resolve", stack # <<>>, ~AtEnd, NEW k \in Nat, k # 0, LinkedTo(k),
           Stepped(stack') \/ (Pushed(stack', k) /\ k \notin Modules)
    PROVE  /\ OnceOnStack'
           /\ \A m \in Modules : \A i \in 1..Cnt(m) : LinkOf(m, i)' = 0 <=> Ahead(m, i)'
<1>1. PICK n, s, t, u : n = Len(stack) /\ s = stack' /\ t = Top.m /\ u = Top.i
  OBVIOUS
<1>2. ModsTyped /\ FramesTyped
  BY DEF Inv, TypeInv
<1>3. /\ n \in Nat /\ n >= 1 /\ stack[n].m = t /\ stack[n].i = u
      /\ t \in Modules /\ u \in Nat /\ u \in 1..Cnt(t)
      /\ \A j \in 1..n : stack[j].m \in Modules /\ stack[j].i \in Nat
  <2>1. n \in Nat /\ n >= 1 /\ Top = stack[n] /\ t \in Modules /\ u \in 1..Cnt(t)
    BY <1>1, <1>2, TopFacts
  <2>2. \A j \in 1..n : stack[j].m \in Modules /\ stack[j].i \in Nat
    BY <1>1, <1>2, TopFacts
  <2> QED BY <1>1, <2>1, <2>2
<1>4. /\ \A j \in 1..(n - 1) : s[j] = stack[j]
      /\ s[n].m = t /\ s[n].i = u + 1
      /\ Len(s) = n \/ (Len(s) = n + 1 /\ s[n + 1].m = k /\ k \notin Modules)
  <2>1. CASE Stepped(s)
    BY <1>1, <2>1 DEF Stepped
  <2>2. CASE Pushed(s, k) /\ k \notin Modules
    BY <1>1, <2>2 DEF Pushed
  <2> QED BY <1>1, <2>1, <2>2
<1>5. \A j \in 1..n : s[j].m = stack[j].m
  <2>1. \A j \in 1..n : j = n \/ j \in 1..(n - 1)
    BY <1>3
  <2> QED BY <1>3, <1>4, <2>1
<1>6. OnceOnStack
  BY DEF Inv, Pending
<1>7. \A j, l \in 1..n : stack[j].m = stack[l].m => j = l
  BY <1>1, <1>6 DEF OnceOnStack
<1>8. \A j \in 1..Len(s) : j \in 1..n \/ (j = n + 1 /\ Len(s) = n + 1 /\ s[n + 1].m \notin Modules)
  BY <1>3, <1>4
<1>9. OnceOnStack'
  <2>1. ASSUME NEW j \in 1..Len(s), NEW l \in 1..Len(s), s[j].m = s[l].m PROVE j = l
    BY <1>3, <1>5, <1>7, <1>8, <2>1
  <2> QED BY <1>1, <2>1 DEF OnceOnStack
<1>10. ASSUME NEW m \in Modules, NEW i \in 1..Cnt(m)
       PROVE  LinkOf(m, i)' = 0 <=> Ahead(m, i)'
  <2>1. Cnt(m) \in Nat /\ i \in Nat
    BY <1>2, Basics
  <2>2. Ahead(m, i)' <=> \E j \in 1..n : s[j].m = m /\ s[j].i <= i
    <3>1. Ahead(m, i)' <=> \E j \in 1..Len(s) : s[j].m = m /\ s[j].i <= i
      BY <1>1 DEF Ahead
    <3>2. \A j \in 1..n : j \in 1..Len(s)
      BY <1>3, <1>4
    <3> QED BY <1>8, <3>1, <3>2
  <2>3. LinkOf(m, i) = 0 <=> \E j \in 1..n : stack[j].m = m /\ stack[j].i <= i
    BY <1>1 DEF Inv, Pending, Ahead
  <2>4. LinkOf(m, i)' = IF m = t /\ i = u THEN k ELSE LinkOf(m, i)
    BY <1>1, LinkedToFacts
  <2>5. CASE m = t /\ i = u
    <3>1. ASSUME NEW j \in 1..n, s[j].m = m, s[j].i <= i PROVE FALSE
      <4>1. j = n
        BY <1>3, <1>5, <1>7, <2>5, <3>1
      <4> QED BY <1>3, <1>4, <2>5, <3>1, <4>1
    <3> QED BY <2>2, <2>4, <2>5, <3>1
  <2>6. CASE ~(m = t /\ i = u)
    <3>1. \A j \in 1..n : (s[j].m = m /\ s[j].i <= i) <=> (stack[j].m = m /\ stack[j].i <= i)
      <4>1. ASSUME NEW j \in 1..n, j # n
            PROVE  (s[j].m = m /\ s[j].i <= i) <=> (stack[j].m = m /\ stack[j].i <= i)
        <5>1. j \in 1..(n - 1)
          BY <1>3, <4>1
        <5> QED BY <1>4, <5>1
      <4>2. (s[n].m = m /\ s[n].i <= i) <=> (stack[n].m = m /\ stack[n].i <= i)
        <5>1. m = t => (u + 1 <= i <=> u <= i)
          BY <1>3, <2>1, <2>6
        <5> QED BY <1>3, <1>4, <5>1
      <4> QED BY <4>1, <4>2
    <3> QED BY <2>2, <2>3, <2>4, <2>6, <3>1
  <2> QED BY <2>5, <2>6
<1> QED BY <1>9, <1>10

LEMMA Quiet ==
    ASSUME phase' = "resolve", ran' = <<>>
    PROVE  Linking' /\ Evaluating' /\ Ordered'
<1>1. Len(ran') = 0
  OBVIOUS
<1>2. \A m : ~Ran(m)'
  BY <1>1 DEF Ran
<1>3. EachRunsOnce'
  BY <1>1 DEF EachRunsOnce
<1>4. Linking' /\ Evaluating'
  BY DEF Linking, Evaluating
<1> QED BY <1>2, <1>3, <1>4 DEF Ordered

LEMMA Resolving ==
    ASSUME Inv, phase = "resolve"
    PROVE  /\ ModsTyped /\ FramesTyped /\ RanTyped /\ Imported /\ Naming /\ 1 \in Modules
           /\ ran = <<>> /\ \A m \in Modules : ~mods[m].eval_mark /\ ~mods[m].evaluated
BY DEF Inv, TypeInv, Creation, Pending, Unrun

LEMMA ResolvesFound ==
    ASSUME Inv, phase = "resolve", stack # <<>>, ~AtEnd, NEW k \in Modules,
           LinkAt(mods', k), stack' = Advanced, UNCHANGED <<files, phase, ran>>
    PROVE  Inv'
<1>1. /\ ModsTyped /\ FramesTyped /\ RanTyped /\ Imported /\ Naming /\ 1 \in Modules
      /\ ran = <<>> /\ \A m \in Modules : ~mods[m].eval_mark /\ ~mods[m].evaluated
  BY Resolving
<1>2. Len(mods) \in Nat /\ k \in Nat /\ k # 0 /\ k \in 0..Len(mods) /\ k \in Nat
  BY <1>1, Basics DEF Modules
<1>3. Relinked(mods', k, Len(mods))
  BY <1>1, <1>2, Relinks
<1>4. Modules' = Modules
  BY <1>3 DEF Relinked, Modules
<1>5. LinkedTo(k)
  BY <1>3, <1>4 DEF Relinked, LinkedTo
<1>6. Stepped(stack')
  <2>1. stack \in Seq(Frame)
    BY <1>1, TopFacts
  <2> QED BY <2>1, Frames
<1>7. /\ \A m \in Modules :
             /\ Cnt(m)' = Cnt(m) /\ IsSource(m)' = IsSource(m)
             /\ mods'[m].file = mods[m].file /\ mods'[m].name = mods[m].name
             /\ mods'[m].eval_mark = mods[m].eval_mark
             /\ mods'[m].evaluated = mods[m].evaluated
      /\ \A x \in Modules :
             x = 1 \/ \E j \in Modules : j < x /\ \E i \in 1..Cnt(j) : LinkOf(j, i)' = x
  BY <1>2, <1>5, LinkedToFacts
<1>8. ModsTyped'
  BY <1>1, <1>3, <1>4 DEF ModsTyped, Relinked
<1>9. FramesTyped' /\ RanTyped'
  BY <1>1, <1>4, <1>6, <1>7, Moves, RanStays
<1>10. Creation' /\ Naming'
  BY <1>1, <1>4, <1>7 DEF Creation, Imported, Naming
<1>11. /\ OnceOnStack'
       /\ \A m \in Modules : \A i \in 1..Cnt(m) : LinkOf(m, i)' = 0 <=> Ahead(m, i)'
  BY <1>2, <1>5, <1>6, LinkedToPending
<1>12. Unrun'
  BY <1>1, <1>4, <1>7 DEF Unrun
<1>13. Pending'
  BY <1>4, <1>7, <1>11, <1>12 DEF Pending
<1>14. Linking' /\ Evaluating' /\ Ordered'
  BY <1>1, Quiet
<1> QED BY <1>8, <1>9, <1>10, <1>13, <1>14 DEF Inv, TypeInv

LEMMA ResolvesLoaded ==
    ASSUME Inv, phase = "resolve", stack # <<>>, ~AtEnd,
           NEW name, NEW f \in DOMAIN files, f = name \/ f.ext = "bc",
           js_find_loaded_module(name) = {},
           NEW ms, LinkAt(ms, Len(mods) + 1), NEW q, MadeOf(q, f, name), mods' = Append(ms, q),
           stack' = Advanced \o Enter(Len(mods) + 1),
           UNCHANGED <<files, phase, ran>>
    PROVE  Inv'
<1>1. /\ ModsTyped /\ FramesTyped /\ RanTyped /\ Imported /\ Naming /\ 1 \in Modules
      /\ ran = <<>> /\ \A m \in Modules : ~mods[m].eval_mark /\ ~mods[m].evaluated
  BY Resolving
<1>2. PICK c, k : c = Len(mods) /\ k = c + 1 /\ LinkAt(ms, k)
  OBVIOUS
<1>3. /\ c \in Nat /\ k \in Nat /\ k # 0 /\ k \in 0..k /\ c <= k /\ Modules = 1..c
      /\ files \in FileSystems
  BY <1>1, <1>2, Basics DEF Modules, ModsTyped
<1>4. Relinked(ms, k, k)
  BY <1>1, <1>2, <1>3, Relinks
<1>5. Fresh(q, f, name, k)
  BY <1>3, NewModuleIs
<1>7. IsSeq(mods') /\ Len(mods') = k /\ mods'[k] = q /\ \A m \in 1..c : mods'[m] = ms[m]
  <2>1. IsSeq(ms) /\ Len(ms) = c
    BY <1>2, <1>4 DEF Relinked
  <2>2. PICK u : u = Append(ms, q)
    OBVIOUS
  <2>3. IsSeq(u) /\ Len(u) = k /\ u[k] = q /\ \A m \in 1..c : u[m] = ms[m]
    BY <1>2, <2>1, <2>2, Appended
  <2> QED BY <2>2, <2>3
<1>8. /\ Modules' = 1..k /\ Modules' = Modules \cup {k} /\ k \notin Modules
      /\ Modules \subseteq Modules'
  BY <1>3, <1>2, <1>7 DEF Modules
<1>9. LinkedTo(k)
  <2>1. Modules \subseteq Modules' /\ files' = files /\ \A m \in Modules : mods'[m] = ms[m]
    BY <1>3, <1>7, <1>8
  <2> QED BY <1>4, <2>1, RelinkedIsLinked
<1>10. Pushed(stack', k)
  <2>1. stack \in Seq(Frame)
    BY <1>1, TopFacts
  <2> QED BY <1>2, <1>3, <2>1, Frames
<1>11. /\ \A m \in Modules :
              /\ Cnt(m)' = Cnt(m) /\ IsSource(m)' = IsSource(m)
              /\ mods'[m].file = mods[m].file /\ mods'[m].name = mods[m].name
              /\ mods'[m].eval_mark = mods[m].eval_mark
              /\ mods'[m].evaluated = mods[m].evaluated
       /\ LinkOf(Top.m, Top.i) = 0
       /\ \A m \in Modules : \A i \in 1..Cnt(m) :
              LinkOf(m, i)' = IF m = Top.m /\ i = Top.i THEN k ELSE LinkOf(m, i)
       /\ \A x \in Modules :
              x = 1 \/ \E j \in Modules : j < x /\ \E i \in 1..Cnt(j) : LinkOf(j, i)' = x
  BY <1>3, <1>9, LinkedToFacts
<1>12. /\ Cnt(k)' = Len(files[f].imports) /\ Cnt(k)' \in Nat
       /\ \A i \in 1..Cnt(k)' : LinkOf(k, i)' = 0
  <2>1. mods'[k].file = f /\ Len(files[f].imports) \in Nat
    BY <1>5, <1>7 DEF Fresh
  <2>2. Cnt(k)' = Len(files[f].imports)
    BY <2>1 DEF Cnt, Imports
  <2>3. \A i \in 1..Len(files[f].imports) : LinkOf(k, i)' = 0
    BY <1>5, <1>7 DEF Fresh, LinkOf
  <2> QED BY <2>1, <2>2, <2>3
<1>13. ModsTyped'
  <2>1. \A m \in Modules : Record(mods'[m], files, k)
    BY <1>3, <1>4, <1>7 DEF Relinked
  <2>2. Record(mods'[k], files, k)
    BY <1>5, <1>7 DEF Fresh
  <2> QED BY <1>3, <1>7, <1>8, <2>1, <2>2 DEF ModsTyped
<1>14. FramesTyped' /\ RanTyped'
  <2>1. k \in Modules' /\ Counts'[k] \in Nat
    BY <1>8, <1>12 DEF Counts
  <2> QED BY <1>1, <1>8, <1>10, <1>11, <2>1, Moves, RanStays
<1>15. Creation'
  <2>1. \E j \in Modules' : j < k /\ \E i \in 1..Cnt(j)' : LinkOf(j, i)' = k
    <3>1. PICK t, u : t = Top.m /\ u = Top.i
      OBVIOUS
    <3>2. t \in Modules /\ u \in 1..Cnt(t)
      BY <1>1, <3>1, TopFacts
    <3>3. LinkOf(t, u)' = k /\ Cnt(t)' = Cnt(t)
      BY <1>11, <3>1, <3>2
    <3>4. t < k
      BY <1>2, <1>3, <3>2
    <3> QED BY <1>8, <3>2, <3>3, <3>4
  <2>2. ASSUME NEW x \in Modules, x # 1
        PROVE  \E j \in Modules' : j < x /\ \E i \in 1..Cnt(j)' : LinkOf(j, i)' = x
    <3>1. PICK j \in Modules : j < x /\ \E i \in 1..Cnt(j) : LinkOf(j, i)' = x
      BY <1>11, <2>2
    <3> QED BY <1>8, <1>11, <3>1
  <2>3. Imported'
    BY <1>8, <2>1, <2>2 DEF Imported
  <2> QED BY <1>1, <1>8, <2>3 DEF Creation
<1>16. Naming'
  <2>1. IsSource(k)' => mods'[k].name = name /\ mods'[k].file = f
    BY <1>5, <1>7 DEF Fresh, IsSource
  <2>2. \A m \in Modules : mods[m].name # name
    <3>1. SUFFICES ASSUME Named(name) # {} PROVE FALSE
      BY DEF Named
    <3>2. Named(name) \subseteq Nat
      BY <1>3 DEF Named
    <3>3. \E m \in Named(name) : \A l \in Named(name) : m <= l
      BY <3>1, <3>2, LeastExists
    <3> QED BY <3>3 DEF js_find_loaded_module
  <2>3. \A m \in Modules : /\ IsSource(m)' = IsSource(m) /\ mods'[m].file = mods[m].file
                            /\ mods'[m].name = mods[m].name
    BY <1>11
  <2>4. /\ \A m \in Modules : IsSource(m) => mods[m].file = mods[m].name \/ mods[m].file.ext = "bc"
        /\ \A m, l \in Modules : IsSource(m) /\ IsSource(l) /\ mods[m].name = mods[l].name => m = l
    BY <1>1 DEF Naming
  <2>5. ASSUME NEW m \in Modules, IsSource(m)'
        PROVE  mods'[m].file = mods'[m].name \/ mods'[m].file.ext = "bc"
    BY <2>5, <2>3, <2>4, Zenon
  <2>6. ASSUME NEW m \in Modules, NEW l \in Modules, IsSource(m)', IsSource(l)',
               mods'[m].name = mods'[l].name
        PROVE  m = l
    BY <2>6, <2>3, <2>4, Zenon
  <2>7. \A m \in Modules : IsSource(k)' => mods'[m].name # mods'[k].name
    BY <1>11, <2>1, <2>2
  <2> QED BY <1>8, <2>1, <2>5, <2>6, <2>7 DEF Naming
<1>17. Unrun'
  <2>1. mods'[k].eval_mark = FALSE /\ mods'[k].evaluated = FALSE
    BY <1>5, <1>7 DEF Fresh
  <2> QED BY <1>1, <1>8, <1>11, <2>1 DEF Unrun
<1>18. Pending'
  <2>1. /\ OnceOnStack'
        /\ \A m \in Modules : \A i \in 1..Cnt(m) : LinkOf(m, i)' = 0 <=> Ahead(m, i)'
    BY <1>3, <1>8, <1>9, <1>10, LinkedToPending
  <2>2. \A i \in 1..Cnt(k)' : LinkOf(k, i)' = 0 /\ Ahead(k, i)'
    <3>1. ASSUME NEW i \in 1..Cnt(k)' PROVE Ahead(k, i)'
      <4>1. PICK n, s : n = Len(stack) + 1 /\ s = stack'
        OBVIOUS
      <4>2. s[n].m = k /\ s[n].i = 1 /\ Len(s) = n
        <5>1. s[n] = [m |-> k, i |-> 1] /\ Len(s) = n
          BY <1>10, <4>1 DEF Pushed
        <5> QED BY <5>1
      <4>3. Len(stack) \in Nat
        BY <1>1, TopFacts
      <4>4. n \in 1..n /\ 1 <= i
        <5>1. Cnt(k)' \in Nat
          BY <1>12
        <5> QED BY <3>1, <4>1, <4>3, <5>1
      <4>5. s[n].m = k /\ s[n].i <= i /\ n \in 1..Len(s)
        BY <4>2, <4>4
      <4> QED BY <4>1, <4>5 DEF Ahead
    <3> QED BY <1>12, <3>1
  <2> QED BY <1>8, <1>11, <1>17, <2>1, <2>2 DEF Pending
<1>19. Linking' /\ Evaluating' /\ Ordered'
  BY <1>1, Quiet
<1> QED BY <1>13, <1>14, <1>15, <1>16, <1>18, <1>19 DEF Inv, TypeInv

LEMMA AheadPopped ==
    ASSUME ModsTyped, FramesTyped, stack # <<>>, AtEnd, Popped(stack')
    PROVE  \A m \in Modules : \A i \in 1..Cnt(m) : Ahead(m, i) <=> Ahead(m, i)'
<1>1. PICK n, s : n = Len(stack) /\ s = stack'
  OBVIOUS
<1>2. n \in Nat /\ n >= 1 /\ Len(s) = n - 1 /\ \A j \in 1..(n - 1) : s[j] = stack[j]
  <2>1. n \in Nat /\ n >= 1
    BY <1>1, TopFacts
  <2> QED BY <1>1, <2>1 DEF Popped
<1>3. ASSUME NEW m \in Modules, NEW i \in 1..Cnt(m)
      PROVE  Ahead(m, i) <=> Ahead(m, i)'
  <2>1. Ahead(m, i)' => Ahead(m, i)
    BY <1>1, <1>2 DEF Ahead
  <2>2. ASSUME NEW j \in 1..n, stack[j].m = m, stack[j].i <= i PROVE j \in 1..(n - 1)
    <3>1. CASE j = n
      <4>1. Top = stack[n] /\ Top.i > Cnt(Top.m)
        BY <1>1, TopFacts
      <4>2. Cnt(m) \in Nat /\ Top.i \in Nat
        <5>1. stack[j].i \in Nat
          BY <1>1, TopFacts
        <5> QED BY <3>1, <4>1, <5>1, Basics
      <4> QED BY <2>2, <3>1, <4>1, <4>2
    <3>2. CASE j # n
      BY <1>2, <3>2
    <3> QED BY <3>1, <3>2
  <2>3. Ahead(m, i) => Ahead(m, i)'
    BY <1>1, <1>2, <2>2 DEF Ahead
  <2> QED BY <2>1, <2>3
<1> QED BY <1>3

LEMMA ResolvesPop ==
    ASSUME Inv, phase = "resolve", stack # <<>>, AtEnd, stack' = Pop,
           UNCHANGED <<files, mods, phase, ran>>
    PROVE  Inv'
<1>1. /\ ModsTyped /\ FramesTyped /\ RanTyped /\ Imported /\ Naming /\ 1 \in Modules
      /\ ran = <<>> /\ \A m \in Modules : ~mods[m].eval_mark /\ ~mods[m].evaluated
  BY Resolving
<1>2. Kept
  BY <1>1, Unchanged
<1>3. /\ ModsTyped' /\ Modules' = Modules /\ Imported' /\ Naming'
      /\ \A m \in Modules : Cnt(m)' = Cnt(m)
      /\ \A m \in Modules : \A i \in 1..Cnt(m) : LinkOf(m, i)' = LinkOf(m, i)
  BY <1>1, <1>2, KeptFacts
<1>4. FramesTyped' /\ Popped(stack') /\ RanTyped'
  BY <1>1, <1>2, <1>3, KeptSteps, RanStays
<1>5. PICK n, s : n = Len(stack) /\ s = stack'
  OBVIOUS
<1>6. n \in Nat /\ n >= 1 /\ Len(s) = n - 1 /\ \A j \in 1..(n - 1) : s[j] = stack[j]
  <2>1. n \in Nat /\ n >= 1
    BY <1>1, <1>5, TopFacts
  <2> QED BY <1>4, <1>5, <2>1 DEF Popped
<1>7. OnceOnStack'
  BY <1>5, <1>6 DEF Inv, Pending, OnceOnStack
<1>8. \A m \in Modules : \A i \in 1..Cnt(m) : Ahead(m, i) <=> Ahead(m, i)'
  BY <1>1, <1>4, AheadPopped
<1>9. Unrun'
  BY <1>1, <1>3 DEF Unrun
<1>10. \A m \in Modules : \A i \in 1..Cnt(m) : LinkOf(m, i) = 0 <=> Ahead(m, i)
  BY DEF Inv, Pending
<1>11. Pending'
  BY <1>3, <1>7, <1>8, <1>9, <1>10 DEF Pending
<1>12. Linking' /\ Evaluating' /\ Ordered'
  BY <1>1, Quiet
<1>13. Creation'
  BY <1>1, <1>3 DEF Creation
<1> QED BY <1>3, <1>4, <1>11, <1>12, <1>13 DEF Inv, TypeInv

LEMMA Resolves ==
    ASSUME Inv, js_resolve_module
    PROVE  Inv'
<1>1. phase = "resolve" /\ stack # <<>> /\ UNCHANGED <<files, ran>>
  BY DEF js_resolve_module
<1>2. CASE AtEnd
  <2>1. stack' = Pop /\ UNCHANGED <<mods, phase, err>>
    BY <1>2 DEF js_resolve_module
  <2> QED BY <1>1, <1>2, <2>1, ResolvesPop
<1>3. CASE ~AtEnd
  <2>1. PICK spec, name :
            /\ spec = Imports(Top.m)[Top.i]
            /\ name = js_default_module_normalize_name(mods[Top.m].name, spec)
    OBVIOUS
  <2>2. js_host_resolve_imported_module(name)
    BY <1>3, <2>1 DEF js_resolve_module
  <2>3. spec \in Names
    <3>1. ModsTyped /\ FramesTyped
      BY DEF Inv, TypeInv
    <3>2. PICK t, i : t = Top.m /\ i = Top.i
      OBVIOUS
    <3>3. t \in Modules /\ i \in 1..Cnt(t)
      BY <1>1, <1>3, <3>1, <3>2, TopFacts
    <3>4. mods[t].file \in DOMAIN files
      BY <3>1, <3>3 DEF ModsTyped, Record
    <3>5. Imports(t) \in Seq(Names)
      BY <3>1, <3>4, FilesAssumption DEF ModsTyped, Imports
    <3> QED BY <2>1, <3>2, <3>3, <3>5 DEF Cnt
  <2>4. Bc(name).ext = "bc"
    <3>1. PICK w : name = spec \/ name = [spec EXCEPT !.path = w]
      BY <2>1, Zenon DEF js_default_module_normalize_name
    <3> QED BY <2>3, <3>1 DEF Names, Bc
  <2>5. CASE \E k \in js_find_loaded_module(name) :
                /\ mods' = [mods EXCEPT ![Top.m].links[Top.i] = k] /\ stack' = Advanced
                /\ UNCHANGED <<phase, err>>
    <3>1. PICK k \in Modules :
              /\ mods' = [mods EXCEPT ![Top.m].links[Top.i] = k] /\ stack' = Advanced
              /\ UNCHANGED <<phase, err>>
      BY <2>5 DEF js_find_loaded_module, Named
    <3>2. LinkAt(mods', k)
      BY <3>1 DEF LinkAt
    <3> QED BY <1>1, <1>3, <3>1, <3>2, ResolvesFound
  <2>6. CASE /\ js_find_loaded_module(name) = {}
             /\ \E f \in Candidates(name) :
                  /\ mods' = Append([mods EXCEPT ![Top.m].links[Top.i] = Len(mods) + 1],
                                    NewModule(f, name))
                  /\ stack' = Advanced \o Enter(Len(mods) + 1)
                  /\ UNCHANGED <<phase, err>>
    <3>1. PICK f \in Candidates(name) :
              /\ mods' = Append([mods EXCEPT ![Top.m].links[Top.i] = Len(mods) + 1],
                                NewModule(f, name))
              /\ stack' = Advanced \o Enter(Len(mods) + 1)
              /\ UNCHANGED <<phase, err>>
      BY <2>6
    <3>2. PICK ms, q :
              /\ LinkAt(ms, Len(mods) + 1) /\ MadeOf(q, f, name) /\ mods' = Append(ms, q)
      BY <3>1 DEF LinkAt, MadeOf
    <3>3. f \in DOMAIN files /\ (f = name \/ f.ext = "bc")
      BY <2>4 DEF Candidates, Loadable
    <3> QED BY <1>1, <1>3, <2>6, <3>1, <3>2, <3>3, ResolvesLoaded
  <2>7. CASE Fail /\ UNCHANGED mods
    BY <1>1, <2>7, Fails
  <2> QED BY <2>2, <2>5, <2>6, <2>7 DEF js_host_resolve_imported_module
<1> QED BY <1>2, <1>3


-----------------------------------------------------------------------------
(* Linking.                                                                *)

LEMMA Creates ==
    ASSUME Inv, js_create_module_function
    PROVE  Inv' /\ Kept /\ \A m \in Modules : mods'[m].instantiated <=> m = 1
<1>1. phase = "resolve" /\ stack = <<>> /\ UNCHANGED <<files, err, ran>> /\ phase' = "link"
      /\ stack' = Enter(1)
  BY DEF js_create_module_function
<1>2. /\ ModsTyped /\ FramesTyped /\ RanTyped /\ Imported /\ Naming /\ 1 \in Modules
      /\ ran = <<>> /\ \A m \in Modules : ~mods[m].eval_mark /\ ~mods[m].evaluated
  BY <1>1, Resolving
<1>3. Closed
  <2>1. ASSUME NEW m \in Modules, NEW i \in 1..Cnt(m) PROVE LinkOf(m, i) \in Modules
    <3>1. ~Ahead(m, i)
      <4>1. Len(stack) = 0
        BY <1>1
      <4> QED BY <4>1 DEF Ahead
    <3>2. LinkOf(m, i) # 0
      BY <1>1, <3>1 DEF Inv, Pending
    <3>3. LinkOf(m, i) \in 0..Len(mods) /\ Len(mods) \in Nat
      BY <1>2, Basics
    <3> QED BY <3>2, <3>3 DEF Modules
  <2> QED BY <2>1 DEF Closed
<1>4. mods' = [m \in Modules |->
          [mods[m] EXCEPT !.func_created = m \in ReachedFrom(1), !.instantiated = m = 1]]
  BY DEF js_create_module_function
<1>5. Modules \subseteq ReachedFrom(1)
  BY <1>2, <1>3, AllReached
<1>6. PICK fc, in, em, ev :
          /\ fc = [m \in Modules |-> m \in ReachedFrom(1)] /\ in = [m \in Modules |-> m = 1]
          /\ em = [m \in Modules |-> mods[m].eval_mark]
          /\ ev = [m \in Modules |-> mods[m].evaluated]
  OBVIOUS
<1>7. /\ fc \in [Modules -> BOOLEAN] /\ in \in [Modules -> BOOLEAN]
      /\ em \in [Modules -> BOOLEAN] /\ ev \in [Modules -> BOOLEAN]
  <2>1. \A m \in Modules : mods[m].eval_mark \in BOOLEAN /\ mods[m].evaluated \in BOOLEAN
    BY <1>2, Zenon DEF ModsTyped, Record
  <2>2. em \in [Modules -> BOOLEAN] /\ ev \in [Modules -> BOOLEAN]
    BY <1>6, <2>1, Zenon
  <2>3. PICK X, M : X = ReachedFrom(1) /\ M = Modules
    OBVIOUS
  <2>4. fc \in [M -> BOOLEAN]
    <3>1. fc = [m \in M |-> m \in X]
      BY <1>6, <2>3
    <3>2. [m \in M |-> m \in X] \in [M -> BOOLEAN]
      OBVIOUS
    <3> QED BY <3>1, <3>2, Zenon
  <2>5. in \in [M -> BOOLEAN]
    <3>1. in = [m \in M |-> m = 1]
      BY <1>6, <2>3
    <3>2. [m \in M |-> m = 1] \in [M -> BOOLEAN]
      OBVIOUS
    <3> QED BY <3>1, <3>2, Zenon
  <2> QED BY <2>2, <2>3, <2>4, <2>5, Zenon
<1>8. ASSUME NEW m \in Modules
      PROVE  Built(mods'[m], mods[m].file, mods[m].name, mods[m].links,
                   fc[m], in[m], em[m], ev[m])
  <2>1. mods'[m] = [mods[m] EXCEPT !.func_created = fc[m], !.instantiated = in[m]]
    BY <1>4, <1>6, Zenon
  <2>2. em[m] = mods[m].eval_mark /\ ev[m] = mods[m].evaluated
    BY <1>6, Zenon
  <2>3. Record(mods[m], files, Len(mods))
    BY <1>2 DEF ModsTyped
  <2> QED BY <2>1, <2>2, <2>3 DEF Record, Built
<1>9. Kept /\ \A m \in Modules : Flagged(mods'[m], fc[m], in[m], em[m], ev[m])
  <2>1. mods' = [m \in Modules |-> mods'[m]]
    BY <1>4
  <2> QED BY <1>1, <1>2, <1>7, <1>8, <2>1, ReflagsAll
<1>10. \A m \in Modules :
           /\ mods'[m].func_created /\ (mods'[m].instantiated <=> m = 1)
           /\ ~mods'[m].eval_mark /\ ~mods'[m].evaluated
  BY <1>2, <1>5, <1>6, <1>9, Zenon DEF Flagged
<1>11. /\ ModsTyped' /\ Modules' = Modules /\ Imported' /\ Naming'
       /\ \A m \in Modules : Cnt(m)' = Cnt(m)
       /\ \A m \in Modules : \A i \in 1..Cnt(m) : LinkOf(m, i)' = LinkOf(m, i)
  BY <1>2, <1>9, KeptFacts
<1>12. FramesTyped' /\ RanTyped'
  BY <1>1, <1>2, <1>9, <1>11, KeptSteps, RanStays
<1>13. Creation' /\ Pending'
  BY <1>1, <1>2, <1>10, <1>11 DEF Creation, Pending, Unrun
<1>14. Linking'
  <2>1. Resolved'
    BY <1>3, <1>10, <1>11 DEF Resolved, Closed
  <2>2. \A i \in 1..Cnt(1) : Ahead(1, i)'
    <3>1. Len(stack') = 1 /\ stack'[1].m = 1 /\ stack'[1].i = 1
      BY <1>1 DEF Enter
    <3>2. ASSUME NEW i \in 1..Cnt(1) PROVE Ahead(1, i)'
      <4>1. 1 <= i
        BY <1>2, Basics
      <4> QED BY <3>1, <4>1 DEF Ahead
    <3> QED BY <3>2
  <2>3. ASSUME NEW m \in Modules', NEW k \in Modules', NEW i \in 1..Cnt(m)', mods'[m].instantiated
        PROVE  Ahead(m, i)'
    <3>1. m = 1
      BY <1>10, <1>11, <2>3
    <3> QED BY <1>2, <1>11, <2>2, <3>1
  <2> QED BY <1>1, <1>2, <1>10, <2>1, <2>3 DEF Linking
<1>15. Evaluating'
  BY <1>1 DEF Evaluating
<1>16. Ordered'
  BY <1>1, <1>2, <1>9, OrderedStays DEF Inv
<1>17. Inv'
  BY <1>11, <1>12, <1>13, <1>14, <1>15, <1>16 DEF Inv, TypeInv
<1> QED BY <1>9, <1>10, <1>17

LEMMA AheadPassed ==
    ASSUME ModsTyped, FramesTyped, stack # <<>>, ~AtEnd, NEW k,
           Stepped(stack') \/ Pushed(stack', k)
    PROVE  /\ \A m \in Modules : \A i \in 1..Cnt(m) :
                  Ahead(m, i) => Ahead(m, i)' \/ (m = Top.m /\ i = Top.i)
           /\ Pushed(stack', k) => \A i \in Nat : i >= 1 => Ahead(k, i)'
<1>1. PICK n, s, t, u : n = Len(stack) /\ s = stack' /\ t = Top.m /\ u = Top.i
  OBVIOUS
<1>2. /\ n \in Nat /\ n >= 1 /\ stack[n].m = t /\ stack[n].i = u /\ u \in Nat
      /\ \A m \in Modules : Cnt(m) \in Nat
  <2>1. n \in Nat /\ n >= 1 /\ Top = stack[n] /\ Cnt(t) \in Nat /\ u \in 1..Cnt(t)
    BY <1>1, TopFacts
  <2> QED BY <1>1, <2>1, Basics
<1>3. /\ \A j \in 1..(n - 1) : s[j] = stack[j]
      /\ s[n].m = t /\ s[n].i = u + 1 /\ Len(s) \in {n, n + 1}
  <2>1. CASE Stepped(s)
    BY <1>1, <2>1 DEF Stepped
  <2>2. CASE Pushed(s, k)
    BY <1>1, <2>2 DEF Pushed
  <2> QED BY <1>1, <2>1, <2>2
<1>4. ASSUME NEW m \in Modules, NEW i \in 1..Cnt(m), Ahead(m, i), ~(m = t /\ i = u)
      PROVE  Ahead(m, i)'
  <2>1. PICK j \in 1..n : stack[j].m = m /\ stack[j].i <= i
    BY <1>1, <1>4 DEF Ahead
  <2>2. s[j].m = m /\ s[j].i <= i
    <3>1. CASE j = n
      <4>1. u <= i /\ i # u /\ i \in Nat
        BY <1>2, <1>4, <2>1, <3>1
      <4> QED BY <1>2, <1>3, <2>1, <3>1, <4>1
    <3>2. CASE j # n
      <4>1. j \in 1..(n - 1)
        BY <1>2, <3>2
      <4> QED BY <1>3, <2>1, <4>1
    <3> QED BY <3>1, <3>2
  <2>3. j \in 1..Len(s)
    BY <1>2, <1>3
  <2> QED BY <1>1, <2>2, <2>3 DEF Ahead
<1>5. ASSUME Pushed(s, k), NEW i \in Nat, i >= 1 PROVE Ahead(k, i)'
  <2>1. s[n + 1].m = k /\ s[n + 1].i = 1 /\ Len(s) = n + 1 /\ n + 1 \in 1..(n + 1)
    BY <1>1, <1>2, <1>5 DEF Pushed
  <2> QED BY <1>1, <1>5, <2>1 DEF Ahead
<1> QED BY <1>1, <1>4, <1>5

SameOtherFlags(q, r) ==
    q.func_created = r.func_created /\ q.eval_mark = r.eval_mark /\ q.evaluated = r.evaluated

LEMMA LinkingFacts ==
    ASSUME Inv, phase = "link"
    PROVE  /\ ModsTyped /\ FramesTyped /\ RanTyped /\ Imported /\ Naming /\ 1 \in Modules
           /\ ran = <<>> /\ (\A m \in Modules : ~mods[m].eval_mark /\ ~mods[m].evaluated)
           /\ Resolved /\ mods[1].instantiated
           /\ \A m, k \in Modules : \A i \in 1..Cnt(m) :
                  mods[m].instantiated /\ LinkOf(m, i) = k => mods[k].instantiated \/ Ahead(m, i)
BY DEF Inv, TypeInv, Creation, Pending, Unrun, Linking

LEMMA LinkingGoesOn ==
    ASSUME Inv, phase = "link", Kept, phase' = "link", UNCHANGED ran, FramesTyped',
           \A m \in Modules : SameOtherFlags(mods'[m], mods[m]),
           mods'[1].instantiated,
           \A m, k \in Modules : \A i \in 1..Cnt(m) :
               mods'[m].instantiated /\ LinkOf(m, i) = k => mods'[k].instantiated \/ Ahead(m, i)'
    PROVE  Inv'
<1>1. /\ ModsTyped /\ RanTyped /\ Imported /\ Naming /\ 1 \in Modules
      /\ ran = <<>> /\ (\A m \in Modules : ~mods[m].eval_mark /\ ~mods[m].evaluated)
      /\ Resolved
  BY LinkingFacts
<1>2. /\ ModsTyped' /\ Modules' = Modules /\ Imported' /\ Naming'
      /\ \A m \in Modules : Cnt(m)' = Cnt(m)
      /\ \A m \in Modules : \A i \in 1..Cnt(m) : LinkOf(m, i)' = LinkOf(m, i)
  BY <1>1, KeptFacts
<1>3. \A m \in Modules :
          /\ mods'[m].func_created = mods[m].func_created
          /\ mods'[m].eval_mark = mods[m].eval_mark /\ mods'[m].evaluated = mods[m].evaluated
  BY DEF SameOtherFlags
<1>4. RanTyped'
  BY <1>1, <1>2, RanStays
<1>5. Creation'
  BY <1>1, <1>2 DEF Creation
<1>6. Pending'
  BY <1>1, <1>2, <1>3 DEF Pending, Unrun
<1>7. Linking'
  <2>1. Resolved'
    BY <1>1, <1>2, <1>3 DEF Resolved
  <2>2. ASSUME NEW m \in Modules', NEW k \in Modules', NEW i \in 1..Cnt(m)',
               mods'[m].instantiated, LinkOf(m, i)' = k
        PROVE  mods'[k].instantiated \/ Ahead(m, i)'
    BY <1>2, <2>2
  <2> QED BY <1>1, <2>1, <2>2 DEF Linking
<1>8. Evaluating'
  BY DEF Evaluating
<1>9. Ordered'
  BY <1>1, OrderedStays DEF Inv
<1> QED BY <1>2, <1>4, <1>5, <1>6, <1>7, <1>8, <1>9 DEF Inv, TypeInv

(* The target of the next import of the top frame.                         *)
LEMMA TargetIs ==
    ASSUME ModsTyped, FramesTyped, Resolved, stack # <<>>, ~AtEnd
    PROVE  Target \in Modules /\ Target = LinkOf(Top.m, Top.i)
<1>1. PICK t, u : t = Top.m /\ u = Top.i
  OBVIOUS
<1>2. t \in Modules /\ u \in 1..Cnt(t)
  BY <1>1, TopFacts
<1> QED BY <1>1, <1>2 DEF Target, LinkOf, Resolved

LEMMA Links ==
    ASSUME Inv, js_link_module
    PROVE  /\ Inv' /\ Kept
           /\ \A m \in Modules : mods'[m].instantiated => mods[m].instantiated \/ Entered(m)'
<1>1. phase = "link" /\ stack # <<>> /\ UNCHANGED <<files, ran>>
  BY DEF js_link_module
<1>2. /\ ModsTyped /\ FramesTyped /\ RanTyped /\ Resolved /\ mods[1].instantiated
      /\ \A m, k \in Modules : \A i \in 1..Cnt(m) :
             mods[m].instantiated /\ LinkOf(m, i) = k => mods[k].instantiated \/ Ahead(m, i)
  BY <1>1, LinkingFacts
<1>3. UNCHANGED mods => Kept /\ \A m \in Modules : SameOtherFlags(mods'[m], mods[m])
  BY <1>1, <1>2, Unchanged DEF SameOtherFlags
<1>4. CASE /\ ~AtEnd /\ mods[Target].instantiated /\ stack' = Advanced
           /\ UNCHANGED <<mods, phase, err>>
  <2>1. Target \in Modules /\ Target = LinkOf(Top.m, Top.i)
    BY <1>1, <1>2, <1>4, TargetIs
  <2>2. Kept /\ FramesTyped' /\ Stepped(stack')
    BY <1>1, <1>2, <1>3, <1>4, KeptSteps
  <2>3. \A m \in Modules : \A i \in 1..Cnt(m) :
            Ahead(m, i) => Ahead(m, i)' \/ (m = Top.m /\ i = Top.i)
    BY <1>1, <1>2, <1>4, <2>2, AheadPassed
  <2>4. \A m, k \in Modules : \A i \in 1..Cnt(m) :
            mods'[m].instantiated /\ LinkOf(m, i) = k => mods'[k].instantiated \/ Ahead(m, i)'
    <3>1. PICK t, u, x : t = Top.m /\ u = Top.i /\ x = Target
      OBVIOUS
    <3>2. x = LinkOf(t, u) /\ mods[x].instantiated
      BY <1>4, <2>1, <3>1
    <3>3. \A m \in Modules : \A i \in 1..Cnt(m) : Ahead(m, i) => Ahead(m, i)' \/ (m = t /\ i = u)
      BY <2>3, <3>1
    <3> QED BY <1>2, <1>4, <3>2, <3>3
  <2>5. Inv'
    BY <1>1, <1>2, <1>3, <1>4, <2>2, <2>4, LinkingGoesOn
  <2> QED BY <1>4, <2>2, <2>5
<1>5. CASE /\ ~AtEnd /\ ~mods[Target].instantiated
           /\ mods' = [mods EXCEPT ![Target].instantiated = TRUE]
           /\ stack' = Advanced \o Enter(Target) /\ UNCHANGED <<phase, err>>
  <2>1. Target \in Modules /\ Target = LinkOf(Top.m, Top.i)
    BY <1>1, <1>2, <1>5, TargetIs
  <2>2. PICK t, u, x, r, q :
            /\ t = Top.m /\ u = Top.i /\ x = Target /\ r = mods[x]
            /\ q = [r EXCEPT !.instantiated = TRUE]
    OBVIOUS
  <2>3. x \in Modules /\ x = LinkOf(t, u)
    BY <2>1, <2>2
  <2>4. Record(r, files, Len(mods))
    BY <1>2, <2>2, <2>3 DEF ModsTyped
  <2>5. PICK fc, in, em, ev :
            fc = r.func_created /\ in = TRUE /\ em = r.eval_mark /\ ev = r.evaluated
    OBVIOUS
  <2>6. fc \in BOOLEAN /\ in \in BOOLEAN /\ em \in BOOLEAN /\ ev \in BOOLEAN
    BY <2>4, <2>5, Zenon DEF Record
  <2>7. Built(q, r.file, r.name, r.links, fc, in, em, ev)
    BY <2>2, <2>4, <2>5 DEF Record, Built
  <2>8. Replaced(mods', mods, x, q)
    BY <1>5, <2>2 DEF Replaced
  <2>9. /\ Kept /\ Flagged(mods'[x], fc, in, em, ev)
        /\ \A m \in Modules : m # x => SameFlags(mods'[m], mods[m])
    <3>1. Built(q, mods[x].file, mods[x].name, mods[x].links, fc, in, em, ev)
      BY <2>2, <2>7
    <3>2. files' = files
      BY <1>1
    <3> QED BY <1>2, <2>3, <2>6, <2>8, <3>1, <3>2, Reflags
  <2>10. \A m \in Modules : SameOtherFlags(mods'[m], mods[m])
    <3>1. SameOtherFlags(mods'[x], mods[x])
      BY <2>2, <2>5, <2>9 DEF SameOtherFlags, Flagged
    <3>2. \A m \in Modules : m # x => SameOtherFlags(mods'[m], mods[m])
      BY <2>9 DEF SameOtherFlags, SameFlags
    <3> QED BY <3>1, <3>2
  <2>11. \A m \in Modules : mods'[m].instantiated <=> m = x \/ mods[m].instantiated
    <3>1. mods'[x].instantiated
      BY <2>5, <2>9, Zenon DEF Flagged
    <3>2. \A m \in Modules : m # x => mods'[m].instantiated = mods[m].instantiated
      BY <2>9, Zenon DEF SameFlags
    <3> QED BY <3>1, <3>2
  <2>12. FramesTyped' /\ Pushed(stack', x)
    BY <1>1, <1>2, <1>5, <2>2, <2>3, <2>9, KeptSteps
  <2>13. /\ \A m \in Modules : \A i \in 1..Cnt(m) : Ahead(m, i) => Ahead(m, i)' \/ (m = t /\ i = u)
         /\ \A i \in Nat : i >= 1 => Ahead(x, i)'
    BY <1>1, <1>2, <1>5, <2>2, <2>12, AheadPassed
  <2>14. \A m, k \in Modules : \A i \in 1..Cnt(m) :
             mods'[m].instantiated /\ LinkOf(m, i) = k => mods'[k].instantiated \/ Ahead(m, i)'
    <3>1. \A i \in 1..Cnt(x) : Ahead(x, i)'
      <4>1. Cnt(x) \in Nat
        BY <1>2, <2>3, Basics
      <4> QED BY <2>13, <4>1
    <3>2. ASSUME NEW m \in Modules, NEW k \in Modules, NEW i \in 1..Cnt(m), m # x,
                 mods'[m].instantiated, LinkOf(m, i) = k
          PROVE  mods'[k].instantiated \/ Ahead(m, i)'
      <4>1. mods[m].instantiated
        BY <2>11, <3>2
      <4>2. mods[k].instantiated \/ Ahead(m, i)
        BY <1>2, <3>2, <4>1
      <4>3. m = t /\ i = u => k = x
        BY <2>3, <3>2
      <4> QED BY <2>11, <2>13, <4>2, <4>3
    <3> QED BY <3>1, <3>2
  <2>15. mods'[1].instantiated
    <3>1. 1 \in Modules
      BY <1>1, LinkingFacts
    <3> QED BY <1>2, <2>11, <3>1
  <2>16. Inv'
    BY <1>1, <1>5, <2>9, <2>10, <2>12, <2>14, <2>15, LinkingGoesOn
  <2>17. Entered(x)'
    <3>1. stack \in Seq(Frame) /\ Len(stack) \in Nat
      BY <1>2, TopFacts
    <3>2. PICK n, v : n = Len(stack) + 1 /\ v = stack'
      OBVIOUS
    <3>3. v[n] = [m |-> x, i |-> 1] /\ Len(v) = n /\ n \in 1..n
      BY <2>12, <3>1, <3>2 DEF Pushed
    <3>4. v[n].m = x
      BY <3>3
    <3> QED BY <3>2, <3>3, <3>4 DEF Entered
  <2> QED BY <2>9, <2>11, <2>16, <2>17
<1>6. CASE AtEnd /\ stack' = Pop /\ UNCHANGED <<mods, phase, err>>
  <2>1. Kept /\ FramesTyped' /\ Popped(stack')
    BY <1>1, <1>2, <1>3, <1>6, KeptSteps
  <2>2. \A m \in Modules : \A i \in 1..Cnt(m) : Ahead(m, i) <=> Ahead(m, i)'
    BY <1>1, <1>2, <1>6, <2>1, AheadPopped
  <2>3. \A m, k \in Modules : \A i \in 1..Cnt(m) :
            mods'[m].instantiated /\ LinkOf(m, i) = k => mods'[k].instantiated \/ Ahead(m, i)'
    BY <1>2, <1>6, <2>2
  <2>4. Inv'
    BY <1>1, <1>2, <1>3, <1>6, <2>1, <2>3, LinkingGoesOn
  <2> QED BY <1>6, <2>1, <2>4
<1>7. CASE Fail /\ UNCHANGED mods
  BY <1>1, <1>3, <1>7, Fails
<1> QED BY <1>4, <1>5, <1>6, <1>7 DEF js_link_module

-----------------------------------------------------------------------------
(* Evaluating.                                                             *)

LEMMA StartsToEvaluate ==
    ASSUME Inv, JS_EvalFunction
    PROVE  Inv' /\ Kept /\ AllInstantiated
<1>1. /\ phase = "link" /\ stack = <<>> /\ UNCHANGED <<files, err, ran>> /\ phase' = "evaluate"
      /\ stack' = Enter(1) /\ mods' = [mods EXCEPT ![1].eval_mark = TRUE]
  BY DEF JS_EvalFunction
<1>2. /\ ModsTyped /\ FramesTyped /\ RanTyped /\ Imported /\ Naming /\ 1 \in Modules
      /\ ran = <<>> /\ (\A m \in Modules : ~mods[m].eval_mark /\ ~mods[m].evaluated)
      /\ Resolved /\ mods[1].instantiated
      /\ \A m, k \in Modules : \A i \in 1..Cnt(m) :
             mods[m].instantiated /\ LinkOf(m, i) = k => mods[k].instantiated \/ Ahead(m, i)
  BY <1>1, LinkingFacts
<1>3. AllInstantiated
  <2>1. PICK S : S = {m \in Modules : mods[m].instantiated}
    OBVIOUS
  <2>2. \A m, i : ~Ahead(m, i)
    <3>1. Len(stack) = 0
      BY <1>1
    <3> QED BY <3>1 DEF Ahead
  <2>3. \A m \in Modules : m \in S => \A i \in 1..Cnt(m) : LinkOf(m, i) \in S
    BY <1>2, <2>1, <2>2 DEF Resolved
  <2>4. Modules \subseteq S
    BY <1>2, <2>1, <2>3, ClosedIsAll
  <2> QED BY <2>1, <2>4 DEF AllInstantiated
<1>4. PICK r, q, fc, in, em, ev :
          /\ r = mods[1] /\ q = [r EXCEPT !.eval_mark = TRUE]
          /\ fc = r.func_created /\ in = r.instantiated /\ em = TRUE /\ ev = r.evaluated
  OBVIOUS
<1>5. Record(r, files, Len(mods))
  BY <1>2, <1>4 DEF ModsTyped
<1>6. fc \in BOOLEAN /\ in \in BOOLEAN /\ em \in BOOLEAN /\ ev \in BOOLEAN
  BY <1>4, <1>5, Zenon DEF Record
<1>7. Built(q, mods[1].file, mods[1].name, mods[1].links, fc, in, em, ev)
  BY <1>4, <1>5 DEF Record, Built
<1>8. Replaced(mods', mods, 1, q)
  BY <1>1, <1>4 DEF Replaced
<1>9. /\ Kept /\ Flagged(mods'[1], fc, in, em, ev)
      /\ \A m \in Modules : m # 1 => SameFlags(mods'[m], mods[m])
  <2>1. files' = files
    BY <1>1
  <2> QED BY <1>2, <1>6, <1>7, <1>8, <2>1, Reflags
<1>10. \A m \in Modules :
           /\ mods'[m].func_created = mods[m].func_created
           /\ mods'[m].instantiated = mods[m].instantiated
           /\ mods'[m].evaluated = mods[m].evaluated
           /\ mods'[m].eval_mark <=> m = 1
  <2>1. ASSUME NEW m \in Modules, m # 1
        PROVE  /\ mods'[m].func_created = mods[m].func_created
               /\ mods'[m].instantiated = mods[m].instantiated
               /\ mods'[m].evaluated = mods[m].evaluated
               /\ ~mods'[m].eval_mark
    BY <1>2, <1>9, <2>1, Zenon DEF SameFlags
  <2>2. /\ mods'[1].func_created = mods[1].func_created
        /\ mods'[1].instantiated = mods[1].instantiated
        /\ mods'[1].evaluated = mods[1].evaluated
        /\ mods'[1].eval_mark
    BY <1>4, <1>9, Zenon DEF Flagged
  <2> QED BY <2>1, <2>2
<1>11. /\ ModsTyped' /\ Modules' = Modules /\ Imported' /\ Naming'
       /\ \A m \in Modules : Cnt(m)' = Cnt(m)
       /\ \A m \in Modules : \A i \in 1..Cnt(m) : LinkOf(m, i)' = LinkOf(m, i)
  BY <1>2, <1>9, KeptFacts
<1>12. FramesTyped' /\ RanTyped'
  BY <1>1, <1>2, <1>9, <1>11, KeptSteps, RanStays
<1>13. Creation' /\ Pending'
  BY <1>1, <1>2, <1>11 DEF Creation, Pending
<1>14. Linking'
  BY <1>1, <1>2, <1>3, <1>10, <1>11 DEF Linking, Resolved, AllInstantiated
<1>15. Evaluating'
  <2>1. Len(stack') = 1 /\ stack'[1].m = 1 /\ stack'[1].i = 1
    BY <1>1 DEF Enter
  <2>2. \A m : Entered(m)' <=> m = 1
    BY <2>1 DEF Entered
  <2>3. \A m : ~Ran(m)'
    <3>1. Len(ran') = 0
      BY <1>1, <1>2
    <3> QED BY <3>1 DEF Ran
  <2>4. Chained'
    BY <2>1 DEF Chained, OnceOnStack
  <2>5. Marked'
    BY <1>2, <1>10, <1>11, <2>2, <2>3 DEF Marked
  <2>6. Passed'
    <3>1. ASSUME NEW j \in 1..Len(stack'), NEW m, NEW i \in 1..Cnt(m)', i < stack'[j].i PROVE FALSE
      BY <2>1, <3>1
    <3> QED BY <2>2, <2>3, <3>1 DEF Passed
  <2> QED BY <2>4, <2>5, <2>6 DEF Evaluating
<1>16. Ordered'
  BY <1>1, <1>2, <1>9, OrderedStays DEF Inv
<1>17. Inv'
  BY <1>11, <1>12, <1>13, <1>14, <1>15, <1>16 DEF Inv, TypeInv
<1> QED BY <1>3, <1>9, <1>17

(* There are no more frames than modules, and each leads to the top one.   *)
LEMMA FramesFit ==
    ASSUME ModsTyped, FramesTyped, OnceOnStack
    PROVE  Len(stack) <= Len(mods)
<1>1. PICK n, c, st : n = Len(stack) /\ c = Len(mods) /\ st = stack
  OBVIOUS
<1>2. n \in Nat /\ c \in Nat /\ Modules = 1..c /\ \A j \in 1..n : st[j].m \in 1..c
  BY <1>1, TopFacts, Basics DEF Modules
<1>3. PICK f : f = [j \in 1..n |-> st[j].m]
  OBVIOUS
<1>4. f \in [1..n -> 1..c] /\ \A a, b \in 1..n : f[a] = f[b] => a = b
  BY <1>1, <1>2, <1>3 DEF OnceOnStack
<1>5. /\ IsFiniteSet(1..n) /\ IsFiniteSet(1..c)
      /\ Cardinality(1..n) = n /\ Cardinality(1..c) = c
  <2>1. /\ IsFiniteSet(1..n) /\ Cardinality(1..n) = IF 1 > n THEN 0 ELSE n - 1 + 1
        /\ IsFiniteSet(1..c) /\ Cardinality(1..c) = IF 1 > c THEN 0 ELSE c - 1 + 1
    BY <1>2, FS_Interval
  <2> QED BY <1>2, <2>1
<1>6. ~(c < n)
  <2>1. ASSUME c < n PROVE \E a, b \in 1..n : a # b /\ f[a] = f[b]
    BY <1>4, <1>5, <2>1, FS_PigeonHole
  <2> QED BY <1>4, <2>1
<1> QED BY <1>1, <1>2, <1>6

LEMMA ChainIsPath ==
    ASSUME ModsTyped, FramesTyped, Chained, NEW l \in 1..Len(stack)
    PROVE  Path(stack[l].m, Top.m)
<1>1. PICK n, c, st : n = Len(stack) /\ c = Len(mods) /\ st = stack
  OBVIOUS
<1>2. n \in Nat /\ c \in Nat /\ l \in 1..n /\ n <= c /\ \A j \in 1..n : st[j].m \in Modules
  BY <1>1, TopFacts, Basics, FramesFit DEF Chained
<1>3. Top = st[n]
  BY <1>1 DEF Top
<1>4. PICK d \in Nat : d = n - l + 1
  BY <1>2
<1>5. PICK p : p = [x \in 1..d |-> st[l + x - 1].m]
  OBVIOUS
<1>6. \A x \in 1..d : l + x - 1 \in 1..n
  BY <1>2, <1>4
<1>7. p \in [1..d -> Modules] /\ \A x \in 1..d : p[x] = st[l + x - 1].m
  BY <1>2, <1>5, <1>6
<1>8. p \in Seq(Modules) /\ Len(p) = d
  BY <1>7, FunctionIsSeq
<1>9. d \in 1..c /\ 1 \in 1..d /\ d \in 1..d /\ l + 1 - 1 = l /\ l + d - 1 = n
  BY <1>2, <1>4
<1>10. p[1] = st[l].m /\ p[d] = st[n].m
  BY <1>7, <1>9
<1>11. ASSUME NEW x \in 1..(d - 1) PROVE \E i \in 1..Cnt(p[x]) : LinkOf(p[x], i) = p[x + 1]
  <2>1. PICK j : j = l + x - 1
    OBVIOUS
  <2>2. /\ j \in 1..(n - 1) /\ j \in 1..n /\ j + 1 \in 1..n /\ l + (x + 1) - 1 = j + 1
        /\ x \in 1..d /\ x + 1 \in 1..d
    BY <1>2, <1>4, <2>1
  <2>3. PICK a, b : a = p[x] /\ b = p[x + 1]
    OBVIOUS
  <2>4. a = st[j].m /\ b = st[j + 1].m
    BY <1>7, <2>1, <2>2, <2>3
  <2>5. a \in Modules /\ b \in Modules
    BY <1>2, <2>2, <2>4
  <2>6. \E i \in 1..Cnt(a) : LinkOf(a, i) = b
    BY <1>1, <2>2, <2>4, <2>5 DEF Chained
  <2> QED BY <2>3, <2>6
<1> QED BY <1>1, <1>3, <1>8, <1>9, <1>10, <1>11 DEF Path

LEMMA EvaluatingFacts ==
    ASSUME Inv, phase = "evaluate"
    PROVE  /\ ModsTyped /\ FramesTyped /\ RanTyped /\ Imported /\ Naming /\ 1 \in Modules
           /\ Resolved /\ Closed /\ AllInstantiated /\ Chained /\ OnceOnStack /\ Marked /\ Passed
           /\ Ordered
BY DEF Inv, TypeInv, Creation, Linking, Evaluating, Resolved, Closed, Chained

SameEarlyFlags(q, r) == q.func_created = r.func_created /\ q.instantiated = r.instantiated

LEMMA EvaluatingGoesOn ==
    ASSUME Inv, phase = "evaluate", Kept, FramesTyped', RanTyped', Ordered',
           \A m \in Modules : SameEarlyFlags(mods'[m], mods[m]),
           (phase' = "evaluate" /\ Chained' /\ Marked' /\ Passed') \/ phase' = "done"
    PROVE  Inv'
<1>1. ModsTyped /\ Imported /\ Naming /\ 1 \in Modules /\ Resolved /\ AllInstantiated
  BY EvaluatingFacts
<1>2. /\ ModsTyped' /\ Modules' = Modules /\ Imported' /\ Naming'
      /\ \A m \in Modules : Cnt(m)' = Cnt(m)
      /\ \A m \in Modules : \A i \in 1..Cnt(m) : LinkOf(m, i)' = LinkOf(m, i)
  BY <1>1, KeptFacts
<1>3. \A m \in Modules :
          /\ mods'[m].func_created = mods[m].func_created
          /\ mods'[m].instantiated = mods[m].instantiated
  BY DEF SameEarlyFlags
<1>4. Creation' /\ Pending'
  BY <1>1, <1>2 DEF Creation, Pending
<1>5. Resolved' /\ AllInstantiated'
  BY <1>1, <1>2, <1>3 DEF Resolved, AllInstantiated
<1>6. Linking'
  BY <1>5 DEF Linking
<1>7. Evaluating'
  BY DEF Evaluating
<1> QED BY <1>2, <1>4, <1>6, <1>7 DEF Inv, TypeInv

(* Going on to the next import, or to the target of this one.              *)
LEMMA Evaluates ==
    ASSUME Inv, phase = "evaluate", stack # <<>>, ~AtEnd, UNCHANGED <<files, ran, phase>>,
           NEW x, x = Target,
           \/ Settled(x) /\ stack' = Advanced /\ UNCHANGED mods
           \/ /\ ~Settled(x) /\ stack' = Advanced \o Enter(x)
              /\ mods' = [mods EXCEPT ![x].eval_mark = TRUE]
    PROVE  Inv' /\ Kept
<1>1. /\ ModsTyped /\ FramesTyped /\ RanTyped /\ Imported /\ Naming /\ 1 \in Modules
      /\ Resolved /\ Closed /\ AllInstantiated /\ Chained /\ OnceOnStack /\ Marked /\ Passed
      /\ Ordered
  BY EvaluatingFacts
<1>2. PICK n, s, t, u, st : n = Len(stack) /\ s = stack' /\ t = Top.m /\ u = Top.i /\ st = stack
  OBVIOUS
<1>3. x \in Modules /\ x = LinkOf(t, u)
  BY <1>1, <1>2, TargetIs
<1>4. /\ Kept /\ \A m \in Modules : SameEarlyFlags(mods'[m], mods[m])
      /\ \A m \in Modules : mods'[m].evaluated = mods[m].evaluated
      /\ Settled(x) => \A m \in Modules : mods'[m].eval_mark = mods[m].eval_mark
      /\ ~Settled(x) => \A m \in Modules : mods'[m].eval_mark <=> m = x \/ mods[m].eval_mark
  <2>1. CASE Settled(x)
    <3>1. UNCHANGED mods
      BY <2>1
    <3> QED BY <1>1, <2>1, <3>1, Unchanged DEF SameEarlyFlags
  <2>2. CASE ~Settled(x)
    <3>1. PICK r, q, fc, in, em, ev :
              /\ r = mods[x] /\ q = [r EXCEPT !.eval_mark = TRUE]
              /\ fc = r.func_created /\ in = r.instantiated /\ em = TRUE /\ ev = r.evaluated
      OBVIOUS
    <3>2. Record(r, files, Len(mods))
      BY <1>1, <1>3, <3>1 DEF ModsTyped
    <3>3. fc \in BOOLEAN /\ in \in BOOLEAN /\ em \in BOOLEAN /\ ev \in BOOLEAN
      BY <3>1, <3>2, Zenon DEF Record
    <3>4. Built(q, mods[x].file, mods[x].name, mods[x].links, fc, in, em, ev)
      BY <3>1, <3>2 DEF Record, Built
    <3>5. Replaced(mods', mods, x, q)
      <4>1. PICK M : M = mods /\ mods' = [M EXCEPT ![x].eval_mark = TRUE]
        BY <2>2
      <4>2. M[x] = r
        BY <3>1, <4>1
      <4>3. mods' = [M EXCEPT ![x] = q]
        BY <3>1, <4>1, <4>2
      <4> QED BY <4>1, <4>3 DEF Replaced
    <3>6. /\ Kept /\ Flagged(mods'[x], fc, in, em, ev)
          /\ \A m \in Modules : m # x => SameFlags(mods'[m], mods[m])
      <4>1. files' = files
        OBVIOUS
      <4>2. ModsTyped /\ x \in Modules
        BY <1>1, <1>3
      <4> QED BY <3>3, <3>4, <3>5, <4>1, <4>2, Reflags
    <3>7. ASSUME NEW m \in Modules, m # x
          PROVE  /\ SameEarlyFlags(mods'[m], mods[m])
                 /\ mods'[m].evaluated = mods[m].evaluated
                 /\ mods'[m].eval_mark = mods[m].eval_mark
      BY <3>6, <3>7, Zenon DEF SameFlags, SameEarlyFlags
    <3>8. /\ SameEarlyFlags(mods'[x], mods[x])
          /\ mods'[x].evaluated = mods[x].evaluated /\ mods'[x].eval_mark
      BY <3>1, <3>6, Zenon DEF Flagged, SameEarlyFlags
    <3>9. \A m \in Modules : mods'[m].eval_mark <=> m = x \/ mods[m].eval_mark
      BY <3>7, <3>8, Zenon
    <3>10. \A m \in Modules : /\ SameEarlyFlags(mods'[m], mods[m])
                              /\ mods'[m].evaluated = mods[m].evaluated
      BY <3>7, <3>8, Zenon
    <3> QED BY <2>2, <3>6, <3>9, <3>10
  <2> QED BY <2>1, <2>2
<1>5. /\ ModsTyped' /\ Modules' = Modules
      /\ \A m \in Modules : Cnt(m)' = Cnt(m)
      /\ \A m \in Modules : \A i \in 1..Cnt(m) : LinkOf(m, i)' = LinkOf(m, i)
  BY <1>1, <1>4, KeptFacts
<1>6. /\ FramesTyped' /\ RanTyped'
      /\ (Settled(x) /\ Stepped(s)) \/ (~Settled(x) /\ Pushed(s, x))
  BY <1>1, <1>2, <1>3, <1>4, <1>5, KeptSteps, RanStays
<1>7. /\ n \in Nat /\ n >= 1 /\ st[n].m = t /\ st[n].i = u /\ u \in Nat
      /\ t \in Modules /\ u \in 1..Cnt(t)
      /\ \A j \in 1..n : st[j].m \in Modules /\ st[j].i \in Nat
  <2>1. n \in Nat /\ n >= 1 /\ Top = st[n] /\ t \in Modules /\ u \in 1..Cnt(t)
    BY <1>1, <1>2, TopFacts
  <2>2. \A j \in 1..n : st[j].m \in Modules /\ st[j].i \in Nat
    BY <1>1, <1>2, TopFacts
  <2> QED BY <1>2, <2>1, <2>2
<1>8. /\ \A j \in 1..(n - 1) : s[j] = st[j]
      /\ s[n].m = t /\ s[n].i = u + 1
      /\ Settled(x) => Len(s) = n
      /\ ~Settled(x) => Len(s) = n + 1 /\ s[n + 1].m = x /\ s[n + 1].i = 1
  <2>1. CASE Settled(x) /\ Stepped(s)
    BY <1>2, <2>1 DEF Stepped
  <2>2. CASE ~Settled(x) /\ Pushed(s, x)
    BY <1>2, <2>2 DEF Pushed
  <2> QED BY <1>6, <2>1, <2>2
<1>9. \A j \in 1..n : s[j].m = st[j].m
  <2>1. \A j \in 1..n : j = n \/ j \in 1..(n - 1)
    BY <1>7
  <2> QED BY <1>7, <1>8, <2>1
<1>10. /\ Settled(x) => \A m : Entered(m)' <=> Entered(m)
       /\ ~Settled(x) => \A m : Entered(m)' <=> Entered(m) \/ m = x
       /\ Settled(x) <=> Entered(x) \/ Ran(x)
  <2>1. \A m : Entered(m) <=> \E j \in 1..n : st[j].m = m
    BY <1>2 DEF Entered
  <2>2. \A m : Entered(m)' <=> \E j \in 1..Len(s) : s[j].m = m
    BY <1>2 DEF Entered
  <2>3. Settled(x) => \A m : Entered(m)' <=> Entered(m)
    BY <1>8, <1>9, <2>1, <2>2
  <2>4. ~Settled(x) => \A m : Entered(m)' <=> Entered(m) \/ m = x
    <3>1. \A j : j \in 1..(n + 1) <=> j \in 1..n \/ j = n + 1
      BY <1>7
    <3> QED BY <1>8, <1>9, <2>1, <2>2, <3>1
  <2>5. Settled(x) <=> Entered(x) \/ Ran(x)
    BY <1>1, <1>3 DEF Settled, Marked
  <2> QED BY <2>3, <2>4, <2>5
<1>11. \A m : (Ran(m)' <=> Ran(m)) /\ \A j \in 1..n : OnStack(m, j)' <=> OnStack(m, j)
  <2>1. \A m : Ran(m)' <=> Ran(m)
    BY DEF Ran
  <2>2. \A j \in 1..n : \A l \in 1..j : l \in 1..n
    BY <1>7
  <2>3. \A m : \A j \in 1..n : OnStack(m, j)' <=> OnStack(m, j)
    BY <1>2, <1>9, <2>2 DEF OnStack
  <2> QED BY <2>1, <2>3
<1>12. Chained'
  <2>1. \A j \in 1..n : \A l \in 1..n : st[j].m = st[l].m => j = l
    BY <1>1, <1>2 DEF OnceOnStack
  <2>2. OnceOnStack'
    <3>1. ASSUME NEW j \in 1..Len(s), NEW l \in 1..Len(s), s[j].m = s[l].m PROVE j = l
      <4>1. CASE Settled(x)
        BY <1>8, <1>9, <2>1, <3>1, <4>1
      <4>2. CASE ~Settled(x)
        <5>1. \A a \in 1..n : st[a].m # x
          BY <1>2, <1>10, <4>2 DEF Entered
        <5>2. j \in 1..n \/ j = n + 1
          BY <1>7, <1>8, <4>2
        <5>3. l \in 1..n \/ l = n + 1
          BY <1>7, <1>8, <4>2
        <5>4. \A a \in 1..n : s[a].m # x /\ s[n + 1].m = x
          BY <1>8, <1>9, <4>2, <5>1
        <5>5. j \in 1..n /\ l \in 1..n => j = l
          BY <1>9, <2>1, <3>1
        <5> QED BY <3>1, <5>2, <5>3, <5>4, <5>5
      <4> QED BY <4>1, <4>2
    <3> QED BY <1>2, <3>1 DEF OnceOnStack
  <2>3. ASSUME NEW j \in 1..(Len(s) - 1), NEW m \in Modules, NEW k \in Modules,
               s[j].m = m, s[j + 1].m = k
        PROVE  \E i \in 1..Cnt(m) : LinkOf(m, i) = k
    <3>1. CASE j \in 1..(n - 1)
      <4>1. j \in 1..n /\ j + 1 \in 1..n
        BY <1>7, <3>1
      <4>2. st[j].m = m /\ st[j + 1].m = k
        BY <1>9, <2>3, <4>1
      <4> QED BY <1>1, <1>2, <3>1, <4>2 DEF Chained
    <3>2. CASE ~(j \in 1..(n - 1))
      <4>1. j = n /\ ~Settled(x)
        BY <1>7, <1>8, <3>2
      <4>2. m = t /\ k = x
        BY <1>8, <2>3, <4>1
      <4> QED BY <1>3, <1>7, <4>2
    <3> QED BY <3>1, <3>2
  <2>4. ASSUME NEW j \in 1..(Len(stack') - 1), NEW m \in Modules', NEW k \in Modules',
               stack'[j].m = m, stack'[j + 1].m = k
        PROVE  \E i \in 1..Cnt(m)' : LinkOf(m, i)' = k
    <3>1. \E i \in 1..Cnt(m) : LinkOf(m, i) = k
      BY <1>2, <1>5, <2>3, <2>4
    <3> QED BY <1>5, <2>4, <3>1
  <2> QED BY <2>2, <2>4 DEF Chained
<1>13. Marked'
  <2>1. ASSUME NEW m \in Modules
        PROVE  /\ mods'[m].eval_mark <=> Entered(m)'
               /\ mods'[m].evaluated <=> Ran(m)'
               /\ ~(Entered(m)' /\ Ran(m)')
    <3>1. /\ mods[m].eval_mark <=> Entered(m)
          /\ mods[m].evaluated <=> Ran(m)
          /\ ~(Entered(m) /\ Ran(m))
      BY <1>1 DEF Marked
    <3>2. CASE Settled(x)
      BY <1>4, <1>10, <1>11, <3>1, <3>2
    <3>3. CASE ~Settled(x)
      BY <1>4, <1>10, <1>11, <3>1, <3>3
    <3> QED BY <3>2, <3>3
  <2> QED BY <1>5, <2>1 DEF Marked
<1>14. Passed'
  <2>1. ASSUME NEW j \in 1..Len(s), NEW m \in Modules, NEW k \in Modules, NEW i \in 1..Cnt(m),
               s[j].m = m, i < s[j].i, LinkOf(m, i) = k
        PROVE  Ran(k) \/ OnStack(k, j)' \/ (j < Len(s) /\ k = s[j + 1].m)
    <3>1. i \in Nat /\ i >= 1
      <4>1. Cnt(m) \in Nat
        BY <1>1, Basics
      <4> QED BY <4>1
    <3>2. CASE j \in 1..(n - 1)
      <4>1. j \in 1..n /\ j + 1 \in 1..n /\ j < n
        BY <1>7, <3>2
      <4>2. st[j].m = m /\ i < st[j].i
        BY <1>8, <2>1, <3>2
      <4>3. Ran(k) \/ OnStack(k, j) \/ k = st[j + 1].m
        BY <1>1, <1>2, <2>1, <4>1, <4>2 DEF Passed
      <4>4. j < Len(s) /\ s[j + 1].m = st[j + 1].m
        BY <1>7, <1>8, <1>9, <4>1
      <4> QED BY <1>11, <4>1, <4>3, <4>4
    <3>3. CASE j = n /\ i < u
      <4>1. st[n].m = m /\ i < st[n].i /\ n \in 1..n /\ ~(n < n)
        BY <1>7, <1>8, <2>1, <3>3
      <4>2. Ran(k) \/ OnStack(k, n)
        BY <1>1, <1>2, <2>1, <4>1 DEF Passed
      <4> QED BY <1>11, <3>3, <4>1, <4>2
    <3>4. CASE j = n /\ ~(i < u)
      <4>1. i = u /\ m = t /\ n \in 1..n
        BY <1>7, <1>8, <2>1, <3>1, <3>4
      <4>2. k = x
        BY <1>3, <2>1, <4>1
      <4>3. CASE Settled(x)
        <5>1. Ran(k) \/ OnStack(k, n)
          BY <1>2, <1>10, <4>2, <4>3 DEF Entered, OnStack
        <5> QED BY <1>11, <3>4, <4>1, <5>1
      <4>4. CASE ~Settled(x)
        <5>1. j < Len(s) /\ s[j + 1].m = x
          BY <1>7, <1>8, <3>4, <4>4
        <5> QED BY <4>2, <5>1
      <4> QED BY <4>3, <4>4
    <3>5. CASE ~(j \in 1..n)
      <4>1. s[j].i = 1
        BY <1>7, <1>8, <3>5
      <4> QED BY <2>1, <3>1, <4>1
    <3>6. j \in 1..n => j = n \/ j \in 1..(n - 1)
      BY <1>7
    <3> QED BY <3>2, <3>3, <3>4, <3>5, <3>6
  <2>2. ASSUME NEW m \in Modules, NEW k \in Modules, NEW i \in 1..Cnt(m), Ran(m)', LinkOf(m, i) = k
        PROVE  Ran(k)' \/ Entered(k)'
    <3>1. Ran(k) \/ Entered(k)
      BY <1>1, <1>11, <2>2 DEF Passed
    <3> QED BY <1>10, <1>11, <3>1
  <2>3. Ran(1)' \/ Entered(1)'
    BY <1>1, <1>10, <1>11 DEF Passed
  <2>4. ASSUME NEW j \in 1..Len(stack'), NEW m \in Modules', NEW k \in Modules',
               NEW i \in 1..Cnt(m)', stack'[j].m = m, i < stack'[j].i, LinkOf(m, i)' = k
        PROVE  Ran(k)' \/ OnStack(k, j)' \/ (j < Len(stack') /\ k = stack'[j + 1].m)
    <3>1. /\ m \in Modules /\ k \in Modules /\ i \in 1..Cnt(m) /\ LinkOf(m, i) = k
          /\ j \in 1..Len(s) /\ s[j].m = m /\ i < s[j].i
      BY <1>2, <1>5, <2>4
    <3>2. Ran(k) \/ OnStack(k, j)' \/ (j < Len(s) /\ k = s[j + 1].m)
      BY <2>1, <3>1
    <3> QED BY <1>2, <1>11, <3>2
  <2>5. ASSUME NEW m \in Modules', NEW k \in Modules', NEW i \in 1..Cnt(m)', Ran(m)',
               LinkOf(m, i)' = k
        PROVE  Ran(k)' \/ Entered(k)'
    BY <1>5, <2>2, <2>5
  <2> QED BY <2>3, <2>4, <2>5 DEF Passed
<1>15. Ordered'
  BY <1>1, <1>4, OrderedStays
<1> QED BY <1>4, <1>6, <1>12, <1>13, <1>14, <1>15, EvaluatingGoesOn

(* A body runs: what it imports has run before, or is below it.            *)
LEMMA OrderedGrows ==
    ASSUME Inv, phase = "evaluate", stack # <<>>, AtEnd, Kept, ran' = Append(ran, Top.m),
           phase' # "done" \/ err' # 0
    PROVE  /\ RanTyped' /\ Ordered'
           /\ \A m : Ran(m)' <=> Ran(m) \/ m = Top.m
<1>1. /\ ModsTyped /\ FramesTyped /\ RanTyped /\ Chained /\ Marked /\ Passed /\ Ordered
  BY EvaluatingFacts
<1>2. PICK n, t, r, q, c, st :
          n = Len(stack) /\ t = Top.m /\ r = ran /\ q = ran' /\ c = Len(ran) /\ st = stack
  OBVIOUS
<1>3. /\ n \in Nat /\ n >= 1 /\ st[n].m = t /\ t \in Modules /\ t \in Nat
      /\ Cnt(t) \in Nat /\ st[n].i \in Nat /\ st[n].i > Cnt(t)
  <2>1. n \in Nat /\ n >= 1 /\ Top = st[n] /\ t \in Modules /\ Cnt(t) \in Nat
    BY <1>1, <1>2, TopFacts
  <2>2. st[n].i > Cnt(t)
    BY <1>1, <1>2, <2>1, TopFacts
  <2>3. n \in 1..n
    BY <2>1
  <2>4. st[n].i \in Nat /\ t \in Nat
    BY <1>1, <1>2, <2>1, <2>3, TopFacts
  <2> QED BY <1>2, <2>1, <2>2, <2>4
<1>4. /\ c \in Nat /\ q \in Seq(Nat) /\ Len(q) = c + 1 /\ q[c + 1] = t
      /\ \A a \in 1..c : q[a] = r[a] /\ r[a] \in Modules
  BY <1>1, <1>2, <1>3 DEF RanTyped
<1>5. /\ Modules' = Modules /\ \A m \in Modules : Cnt(m)' = Cnt(m)
      /\ \A m \in Modules : \A i \in 1..Cnt(m) : LinkOf(m, i)' = LinkOf(m, i)
      /\ \A k, m : Path(k, m) => Path(k, m)'
  BY <1>1, KeptFacts
<1>6. \A a \in 1..(c + 1) : a \in 1..c \/ a = c + 1
  BY <1>4
<1>7. 1..c \subseteq 1..(c + 1) /\ c + 1 \in 1..(c + 1) /\ \A a \in 1..c : a < c + 1
  BY <1>4
<1>8. RanTyped'
  <2>1. ASSUME NEW a \in 1..(c + 1) PROVE q[a] \in Modules
    BY <1>3, <1>4, <1>6
  <2> QED BY <1>2, <1>4, <1>5, <2>1 DEF RanTyped
<1>9. /\ \A m : Ran(m) <=> \E a \in 1..c : r[a] = m
      /\ \A m : Ran(m)' <=> \E a \in 1..(c + 1) : q[a] = m
  BY <1>2, <1>4 DEF Ran
<1>10. \A m : Ran(m)' <=> Ran(m) \/ m = t
  BY <1>4, <1>6, <1>7, <1>9
<1>11. ~Ran(t)
  <2>1. Entered(t)
    BY <1>2, <1>3 DEF Entered
  <2> QED BY <1>1, <1>3, <2>1 DEF Marked
<1>12. \A k, m : Precedes(k, m) => Precedes(k, m)'
  <2>1. ASSUME NEW k, NEW m, Precedes(k, m) PROVE Precedes(k, m)'
    <3>1. PICK a \in 1..c, b \in 1..c : r[a] = k /\ r[b] = m /\ a < b
      BY <1>2, <2>1 DEF Precedes
    <3>2. a \in 1..(c + 1) /\ b \in 1..(c + 1) /\ q[a] = k /\ q[b] = m
      BY <1>4, <1>7, <3>1
    <3> QED BY <1>2, <1>4, <3>1, <3>2 DEF Precedes
  <2> QED BY <2>1
<1>13. \A k : Ran(k) => Precedes(k, t)'
  <2>1. ASSUME NEW k, Ran(k) PROVE Precedes(k, t)'
    <3>1. PICK a \in 1..c : r[a] = k
      BY <1>9, <2>1
    <3>2. a \in 1..(c + 1) /\ q[a] = k /\ a < c + 1
      BY <1>4, <1>7, <3>1
    <3> QED BY <1>2, <1>4, <1>7, <3>2 DEF Precedes
  <2> QED BY <2>1
<1>14. ASSUME NEW k \in Modules, NEW i \in 1..Cnt(t), LinkOf(t, i) = k
       PROVE  Precedes(k, t)' \/ Path(k, t)'
  <2>1. i < st[n].i
    BY <1>3
  <2>2. n \in 1..n /\ ~(n < n)
    BY <1>3
  <2>3. Ran(k) \/ OnStack(k, n)
    BY <1>1, <1>2, <1>3, <1>14, <2>1, <2>2 DEF Passed
  <2>4. CASE OnStack(k, n)
    <3>1. PICK l \in 1..n : st[l].m = k
      BY <1>2, <2>4 DEF OnStack
    <3>2. Path(k, t)
      BY <1>1, <1>2, <3>1, ChainIsPath
    <3> QED BY <1>5, <3>2
  <2> QED BY <1>13, <2>3, <2>4
<1>15. ASSUME NEW m \in Modules, NEW k \in Modules, NEW i \in 1..Cnt(m), Ran(m)', LinkOf(m, i) = k
       PROVE  Precedes(k, m)' \/ Path(k, m)'
  <2>1. CASE Ran(m)
    <3>1. Precedes(k, m) \/ Path(k, m)
      BY <1>1, <1>15, <2>1 DEF Ordered
    <3> QED BY <1>5, <1>12, <3>1
  <2>2. CASE m = t
    BY <1>14, <1>15, <2>2
  <2> QED BY <1>10, <1>15, <2>1, <2>2
<1>16. EachRunsOnce'
  <2>1. \A a, b \in 1..c : r[a] = r[b] => a = b
    BY <1>1, <1>2 DEF Ordered, EachRunsOnce
  <2>2. \A a \in 1..c : q[a] # t
    BY <1>4, <1>9, <1>11
  <2>3. \A a, b \in 1..(c + 1) : q[a] = q[b] => a = b
    BY <1>4, <1>6, <2>1, <2>2
  <2> QED BY <1>2, <1>4, <2>3 DEF EachRunsOnce
<1>17. Ordered'
  <2>1. ASSUME NEW m \in Modules', NEW k \in Modules', NEW i \in 1..Cnt(m)', Ran(m)',
               LinkOf(m, i)' = k
        PROVE  Precedes(k, m)' \/ Path(k, m)'
    BY <1>5, <1>15, <2>1
  <2> QED BY <1>16, <2>1 DEF Ordered
<1> QED BY <1>2, <1>8, <1>10, <1>17

(* The body of the top frame's module has run and the frame is left.       *)
FlagsRun(t) == mods' = [mods EXCEPT ![t].eval_mark = FALSE, ![t].evaluated = TRUE]
LEMMA RunsOn ==
    ASSUME Inv, phase = "evaluate", stack # <<>>, AtEnd, UNCHANGED <<files, phase>>,
           ran' = Append(ran, Top.m), stack' = Pop, FlagsRun(Top.m)
    PROVE  Inv' /\ Kept
<1>1. /\ ModsTyped /\ FramesTyped /\ RanTyped /\ Closed /\ Chained /\ OnceOnStack /\ Marked
      /\ Passed /\ Ordered
  BY EvaluatingFacts
<1>2. PICK n, s, t, st : n = Len(stack) /\ s = stack' /\ t = Top.m /\ st = stack
  OBVIOUS
<1>3. /\ n \in Nat /\ n >= 1 /\ st[n].m = t /\ t \in Modules
      /\ \A j \in 1..n : st[j].m \in Modules /\ st[j].i \in Nat
  <2>1. n \in Nat /\ n >= 1 /\ Top = st[n] /\ t \in Modules
    BY <1>1, <1>2, TopFacts
  <2>2. \A j \in 1..n : st[j].m \in Modules /\ st[j].i \in Nat
    BY <1>1, <1>2, TopFacts
  <2> QED BY <1>2, <2>1, <2>2
<1>4. /\ Kept /\ \A m \in Modules : SameEarlyFlags(mods'[m], mods[m])
      /\ \A m \in Modules : mods'[m].evaluated <=> m = t \/ mods[m].evaluated
      /\ \A m \in Modules : mods'[m].eval_mark <=> m # t /\ mods[m].eval_mark
  <2>1. PICK r, q, fc, in, em, ev :
            /\ r = mods[t] /\ q = [[r EXCEPT !.eval_mark = FALSE] EXCEPT !.evaluated = TRUE]
            /\ fc = r.func_created /\ in = r.instantiated /\ em = FALSE /\ ev = TRUE
    OBVIOUS
  <2>2. Record(r, files, Len(mods))
    BY <1>1, <1>3, <2>1 DEF ModsTyped
  <2>3. fc \in BOOLEAN /\ in \in BOOLEAN /\ em \in BOOLEAN /\ ev \in BOOLEAN
    BY <2>1, <2>2, Zenon DEF Record
  <2>4. Built(q, mods[t].file, mods[t].name, mods[t].links, fc, in, em, ev)
    BY <2>1, <2>2 DEF Record, Built
  <2>5. Replaced(mods', mods, t, q)
    <3>1. PICK M : M = mods
      OBVIOUS
    <3>2. [M EXCEPT ![t].eval_mark = FALSE, ![t].evaluated = TRUE] = [M EXCEPT ![t] = q]
      <4>1. M[t] = r /\ t \in DOMAIN M
        BY <1>1, <1>3, <2>1, <3>1 DEF ModsTyped, IsSeq, Modules
      <4> QED BY <2>1, <4>1
    <3>3. FlagsRun(t)
      BY <1>2
    <3> QED BY <3>1, <3>2, <3>3 DEF Replaced, FlagsRun
  <2>6. /\ Kept /\ Flagged(mods'[t], fc, in, em, ev)
        /\ \A m \in Modules : m # t => SameFlags(mods'[m], mods[m])
    <3>1. ModsTyped /\ t \in Modules /\ files' = files
      BY <1>1, <1>3
    <3> QED BY <2>3, <2>4, <2>5, <3>1, Reflags
  <2>7. ASSUME NEW m \in Modules, m # t
        PROVE  /\ SameEarlyFlags(mods'[m], mods[m])
               /\ mods'[m].evaluated = mods[m].evaluated
               /\ mods'[m].eval_mark = mods[m].eval_mark
    BY <2>6, <2>7, Zenon DEF SameFlags, SameEarlyFlags
  <2>8. /\ SameEarlyFlags(mods'[t], mods[t])
        /\ mods'[t].evaluated /\ ~mods'[t].eval_mark
    BY <2>1, <2>6, Zenon DEF Flagged, SameEarlyFlags
  <2>9. \A m \in Modules : /\ mods'[m].evaluated <=> m = t \/ mods[m].evaluated
                           /\ mods'[m].eval_mark <=> m # t /\ mods[m].eval_mark
    BY <2>7, <2>8, Zenon
  <2>10. \A m \in Modules : SameEarlyFlags(mods'[m], mods[m])
    BY <2>7, <2>8, Zenon
  <2> QED BY <2>6, <2>9, <2>10
<1>5. /\ Modules' = Modules /\ \A m \in Modules : Cnt(m)' = Cnt(m)
      /\ \A m \in Modules : \A i \in 1..Cnt(m) : LinkOf(m, i)' = LinkOf(m, i)
  BY <1>1, <1>4, KeptFacts
<1>6. FramesTyped' /\ Popped(s)
  BY <1>1, <1>2, <1>4, KeptSteps
<1>7. Len(s) = n - 1 /\ \A j \in 1..(n - 1) : s[j] = st[j]
  BY <1>2, <1>6 DEF Popped
<1>8. /\ RanTyped' /\ Ordered' /\ \A m : Ran(m)' <=> Ran(m) \/ m = t
  BY <1>2, <1>4, OrderedGrows
<1>9. /\ \A j \in 1..(n - 1) : j \in 1..n /\ j < n /\ j + 1 \in 1..n
      /\ \A j \in 1..(n - 2) : j \in 1..(n - 1) /\ j + 1 \in 1..(n - 1)
      /\ \A j \in 1..n : j = n \/ j \in 1..(n - 1)
  BY <1>3
<1>10. \A j, l \in 1..n : st[j].m = st[l].m => j = l
  BY <1>1, <1>2 DEF OnceOnStack
<1>11. \A m : Entered(m)' <=> m # t /\ Entered(m)
  <2>1. \A m : Entered(m) <=> \E j \in 1..n : st[j].m = m
    BY <1>2 DEF Entered
  <2>2. \A m : Entered(m)' <=> \E j \in 1..(n - 1) : st[j].m = m
    BY <1>2, <1>7 DEF Entered
  <2>3. \A j \in 1..(n - 1) : st[j].m # t
    <3>1. \A j \in 1..(n - 1) : j # n
      BY <1>3
    <3>2. n \in 1..n
      BY <1>3
    <3> QED BY <1>3, <1>9, <1>10, <3>1, <3>2
  <2> QED BY <1>3, <1>9, <2>1, <2>2, <2>3
<1>12. Chained'
  <2>1. OnceOnStack'
    BY <1>2, <1>7, <1>9, <1>10 DEF OnceOnStack
  <2>2. ASSUME NEW j \in 1..(Len(stack') - 1), NEW m \in Modules', NEW k \in Modules',
               stack'[j].m = m, stack'[j + 1].m = k
        PROVE  \E i \in 1..Cnt(m)' : LinkOf(m, i)' = k
    <3>1. j \in 1..(n - 2) /\ m \in Modules /\ k \in Modules
      BY <1>2, <1>3, <1>5, <1>7, <2>2
    <3>2. st[j].m = m /\ st[j + 1].m = k /\ j \in 1..(n - 1)
      BY <1>2, <1>7, <1>9, <2>2, <3>1
    <3>3. \E i \in 1..Cnt(m) : LinkOf(m, i) = k
      <4>1. Chained /\ j \in 1..(Len(stack) - 1) /\ stack[j].m = m /\ stack[j + 1].m = k
        BY <1>1, <1>2, <3>2
      <4> QED BY <3>1, <4>1 DEF Chained
    <3> QED BY <1>5, <3>1, <3>3
  <2> QED BY <2>1, <2>2 DEF Chained
<1>13. Marked'
  <2>1. ASSUME NEW m \in Modules
        PROVE  /\ mods'[m].eval_mark <=> Entered(m)'
               /\ mods'[m].evaluated <=> Ran(m)'
               /\ ~(Entered(m)' /\ Ran(m)')
    <3>1. /\ mods[m].eval_mark <=> Entered(m)
          /\ mods[m].evaluated <=> Ran(m)
          /\ ~(Entered(m) /\ Ran(m))
      BY <1>1 DEF Marked
    <3> QED BY <1>4, <1>8, <1>11, <3>1
  <2> QED BY <1>5, <2>1 DEF Marked
<1>14. Passed'
  <2>1. \A j \in 1..(n - 1) : \A m : OnStack(m, j) <=> OnStack(m, j)'
    <3>1. \A j \in 1..(n - 1) : \A l \in 1..j : l \in 1..(n - 1)
      BY <1>3
    <3> QED BY <1>2, <1>7, <3>1 DEF OnStack
  <2>2. ASSUME NEW j \in 1..Len(stack'), NEW m \in Modules', NEW k \in Modules',
               NEW i \in 1..Cnt(m)', stack'[j].m = m, i < stack'[j].i, LinkOf(m, i)' = k
        PROVE  Ran(k)' \/ OnStack(k, j)' \/ (j < Len(stack') /\ k = stack'[j + 1].m)
    <3>1. /\ m \in Modules /\ k \in Modules /\ i \in 1..Cnt(m) /\ LinkOf(m, i) = k
          /\ j \in 1..(n - 1) /\ st[j].m = m /\ i < st[j].i
      BY <1>2, <1>5, <1>7, <2>2
    <3>2. Ran(k) \/ OnStack(k, j) \/ k = st[j + 1].m
      BY <1>1, <1>2, <1>9, <3>1 DEF Passed
    <3>3. CASE k = st[j + 1].m
      <4>1. CASE j + 1 = n
        BY <1>3, <1>8, <3>3, <4>1
      <4>2. CASE j + 1 # n
        <5>1. j + 1 \in 1..(n - 1) /\ j < n - 1
          BY <1>3, <3>1, <4>2
        <5>2. s[j + 1] = st[j + 1]
          BY <1>7, <5>1
        <5> QED BY <1>2, <1>7, <3>3, <5>1, <5>2
      <4> QED BY <4>1, <4>2
    <3> QED BY <1>8, <2>1, <3>1, <3>2, <3>3
  <2>3. ASSUME NEW m \in Modules', NEW k \in Modules', NEW i \in 1..Cnt(m)', Ran(m)',
               LinkOf(m, i)' = k
        PROVE  Ran(k)' \/ Entered(k)'
    <3>1. m \in Modules /\ k \in Modules /\ i \in 1..Cnt(m) /\ LinkOf(m, i) = k
      BY <1>5, <2>3
    <3>2. Ran(k) \/ Entered(k)
      <4>1. CASE Ran(m)
        BY <1>1, <3>1, <4>1 DEF Passed
      <4>2. CASE m = t
        <5>1. /\ n \in 1..n /\ ~(n < n) /\ i < st[n].i
          <6>1. st[n].i > Cnt(t) /\ st[n].i \in Nat /\ Cnt(t) \in Nat
            <7>1. st[n].i > Cnt(t)
              BY <1>1, <1>2, TopFacts
            <7>2. n \in 1..n
              BY <1>3
            <7> QED BY <1>1, <1>3, <7>1, <7>2, Basics
          <6> QED BY <1>3, <3>1, <4>2, <6>1
        <5>2. Ran(k) \/ OnStack(k, n)
          BY <1>1, <1>2, <1>3, <3>1, <4>2, <5>1 DEF Passed
        <5> QED BY <1>2, <5>2 DEF OnStack, Entered
      <4> QED BY <1>8, <2>3, <4>1, <4>2
    <3> QED BY <1>8, <1>11, <3>2
  <2>4. Ran(1)' \/ Entered(1)'
    BY <1>1, <1>8, <1>11 DEF Passed
  <2> QED BY <2>2, <2>3, <2>4 DEF Passed
<1>15. phase' = "evaluate"
  OBVIOUS
<1> QED BY <1>4, <1>6, <1>8, <1>12, <1>13, <1>14, <1>15, EvaluatingGoesOn

LEMMA FailedErr ==
    ASSUME NEW e, e = -1
    PROVE  e # 0
OBVIOUS

LeftAs(q, r, e) == q = [r EXCEPT !.eval_mark = FALSE, !.evaluated = e]
LEMMA LeftBuilt ==
    ASSUME NEW r, NEW fs, NEW n, Record(r, fs, n), NEW e, NEW q, LeftAs(q, r, e)
    PROVE  Built(q, r.file, r.name, r.links, r.func_created, r.instantiated, FALSE, e)
BY DEF Record, LeftAs, Built

(* The body threw: js_evaluate_module marks the modules it leaves.         *)
LEMMA RunFails ==
    ASSUME Inv, phase = "evaluate", stack # <<>>, AtEnd, UNCHANGED files,
           ran' = Append(ran, Top.m), Fail,
           mods' = [m \in Modules |-> [mods[m] EXCEPT
                       !.eval_mark = FALSE, !.evaluated = @ \/ m = Top.m]]
    PROVE  Inv' /\ Kept
<1>1. ModsTyped /\ FramesTyped
  BY EvaluatingFacts
<1>2. phase' = "done" /\ err' = -1 /\ stack' = <<>>
  BY DEF Fail
<1>3. PICK t : t = Top.m
  OBVIOUS
<1>4. PICK fc, in, em, ev :
          /\ fc = [m \in Modules |-> mods[m].func_created]
          /\ in = [m \in Modules |-> mods[m].instantiated]
          /\ em = [m \in Modules |-> FALSE]
          /\ ev = [m \in Modules |-> mods[m].evaluated \/ m = t]
  OBVIOUS
<1>5. \A m \in Modules :
          /\ mods[m].func_created \in BOOLEAN /\ mods[m].instantiated \in BOOLEAN
          /\ mods[m].evaluated \in BOOLEAN
  <2>1. \A m \in Modules : Record(mods[m], files, Len(mods))
    BY <1>1 DEF ModsTyped
  <2> QED BY <2>1, Zenon DEF Record
<1>6. /\ fc \in [Modules -> BOOLEAN] /\ in \in [Modules -> BOOLEAN]
      /\ em \in [Modules -> BOOLEAN] /\ ev \in [Modules -> BOOLEAN]
  BY <1>4, <1>5
<1>7. ASSUME NEW m \in Modules
      PROVE  Built(mods'[m], mods[m].file, mods[m].name, mods[m].links, fc[m], in[m], em[m], ev[m])
  <2>1. PICK r, e : r = mods[m] /\ e = (mods[m].evaluated \/ m = Top.m)
    OBVIOUS
  <2>2. Record(r, files, Len(mods))
    BY <1>1, <2>1 DEF ModsTyped
  <2>3. LeftAs(mods'[m], r, e)
    BY <2>1 DEF LeftAs
  <2>4. fc[m] = r.func_created /\ in[m] = r.instantiated /\ em[m] = FALSE /\ ev[m] = e
    BY <1>3, <1>4, <2>1
  <2>5. Built(mods'[m], r.file, r.name, r.links, r.func_created, r.instantiated, FALSE, e)
    BY <2>2, <2>3, LeftBuilt
  <2> QED BY <2>1, <2>4, <2>5
<1>8. mods' = [m \in Modules |-> mods'[m]]
  OBVIOUS
<1>9. Kept /\ \A m \in Modules : Flagged(mods'[m], fc[m], in[m], em[m], ev[m])
  BY <1>1, <1>6, <1>7, <1>8, ReflagsAll
<1>10. \A m \in Modules : SameEarlyFlags(mods'[m], mods[m])
  <2>1. \A m \in Modules : fc[m] = mods[m].func_created /\ in[m] = mods[m].instantiated
    BY <1>4
  <2> QED BY <1>9, <2>1, Zenon DEF Flagged, SameEarlyFlags
<1>11. FramesTyped'
  BY <1>1, <1>2, <1>9, KeptSteps
<1>12. RanTyped' /\ Ordered'
  <2>1. err' # 0
    BY <1>2, FailedErr
  <2> QED BY <1>9, <2>1, OrderedGrows
<1> QED BY <1>2, <1>9, <1>10, <1>11, <1>12, EvaluatingGoesOn

LEMMA Runs ==
    ASSUME Inv, js_evaluate_module
    PROVE  Inv' /\ Kept
<1>1. phase = "evaluate" /\ stack # <<>> /\ UNCHANGED files
  BY DEF js_evaluate_module
<1>2. PICK x : x = Target
  OBVIOUS
<1>3. CASE ~AtEnd
  <2>1. /\ UNCHANGED <<files, ran, phase>>
        /\ \/ Settled(x) /\ stack' = Advanced /\ UNCHANGED mods
           \/ /\ ~Settled(x) /\ stack' = Advanced \o Enter(x)
              /\ mods' = [mods EXCEPT ![x].eval_mark = TRUE]
    BY <1>2, <1>3 DEF js_evaluate_module
  <2> QED BY <1>1, <1>2, <1>3, <2>1, Evaluates
<1>4. CASE AtEnd /\ Fault(Top.m) = "throw"
  <2>1. /\ ran' = Append(ran, Top.m) /\ Fail
        /\ mods' = [m \in Modules |-> [mods[m] EXCEPT
                       !.eval_mark = FALSE, !.evaluated = @ \/ m = Top.m]]
    BY <1>4 DEF js_evaluate_module
  <2> QED BY <1>1, <1>4, <2>1, RunFails
<1>5. CASE AtEnd /\ Fault(Top.m) # "throw"
  <2>1. /\ ran' = Append(ran, Top.m) /\ stack' = Pop /\ UNCHANGED <<files, phase>>
        /\ mods' = [mods EXCEPT ![Top.m].eval_mark = FALSE, ![Top.m].evaluated = TRUE]
    BY <1>5 DEF js_evaluate_module
  <2>2. FlagsRun(Top.m)
    BY <2>1 DEF FlagsRun
  <2> QED BY <1>1, <1>5, <2>1, <2>2, RunsOn
<1> QED BY <1>3, <1>4, <1>5

(* Nothing is being evaluated any more: what has run is closed under       *)
(* imports and has the first module.                                       *)
LEMMA Returns ==
    ASSUME Inv, Return
    PROVE  Inv'
<1>1. /\ phase = "evaluate" /\ stack = <<>> /\ phase' = "done"
      /\ UNCHANGED <<files, mods, stack, err, ran>>
  BY DEF Return
<1>2. /\ ModsTyped /\ FramesTyped /\ RanTyped /\ Imported /\ Resolved /\ Closed /\ Passed
      /\ Ordered
  BY <1>1, EvaluatingFacts
<1>3. \A m \in Modules : Ran(m)
  <2>1. PICK S : S = {m \in Modules \cup {1} : Ran(m)}
    OBVIOUS
  <2>2. \A m : ~Entered(m)
    BY <1>1 DEF Entered
  <2>3. 1 \in S
    BY <1>2, <2>1, <2>2 DEF Passed
  <2>4. ASSUME NEW m \in Modules, m \in S, NEW i \in 1..Cnt(m) PROVE LinkOf(m, i) \in S
    <3>1. PICK k : k = LinkOf(m, i)
      OBVIOUS
    <3>2. k \in Modules
      BY <1>2, <3>1 DEF Closed
    <3>3. Ran(k)
      BY <1>2, <2>1, <2>2, <2>4, <3>1, <3>2 DEF Passed
    <3> QED BY <2>1, <3>1, <3>2, <3>3
  <2>5. Modules \subseteq S
    BY <1>2, <2>3, <2>4, ClosedIsAll
  <2> QED BY <2>1, <2>5
<1>4. Kept /\ \A m \in Modules : SameEarlyFlags(mods'[m], mods[m])
  BY <1>1, <1>2, Unchanged DEF SameEarlyFlags
<1>5. FramesTyped'
  BY <1>1, <1>2, <1>4, KeptSteps
<1>6. Modules' = Modules /\ RanTyped'
  BY <1>1, <1>2 DEF Modules, RanTyped
<1>7. EachRunsOnce'
  <2>1. \A a, b \in 1..Len(ran) : ran[a] = ran[b] => a = b
    BY <1>2 DEF Ordered, EachRunsOnce
  <2>2. \A m \in Modules : \E a \in 1..Len(ran) : ran[a] = m
    BY <1>3 DEF Ran
  <2> QED BY <1>1, <1>6, <2>1, <2>2 DEF EachRunsOnce
<1>8. Ordered'
  <2>1. /\ \A m \in Modules : Cnt(m)' = Cnt(m)
        /\ \A m \in Modules : \A i \in 1..Cnt(m) : LinkOf(m, i)' = LinkOf(m, i)
        /\ \A k, m : Path(k, m) => Path(k, m)'
    BY <1>2, <1>4, KeptFacts
  <2>2. \A m, k : (Ran(m)' <=> Ran(m)) /\ (Precedes(k, m) => Precedes(k, m)')
    BY <1>1 DEF Ran, Precedes
  <2>3. ASSUME NEW m \in Modules', NEW k \in Modules', NEW i \in 1..Cnt(m)', Ran(m)',
               LinkOf(m, i)' = k
        PROVE  Precedes(k, m)' \/ Path(k, m)'
    <3>1. m \in Modules /\ k \in Modules /\ i \in 1..Cnt(m) /\ Ran(m) /\ LinkOf(m, i) = k
      BY <1>6, <2>1, <2>2, <2>3
    <3>2. Precedes(k, m) \/ Path(k, m)
      BY <1>2, <3>1 DEF Ordered
    <3> QED BY <2>1, <2>2, <3>2
  <2> QED BY <1>7, <2>3 DEF Ordered
<1> QED BY <1>1, <1>4, <1>5, <1>6, <1>8, EvaluatingGoesOn

-----------------------------------------------------------------------------
(* The invariant.                                                          *)

LEMMA NextInv ==
    ASSUME Inv, [Next]_vars
    PROVE  Inv'
<1>1. CASE run_from_file_system_buf
  BY <1>1, Starts
<1>2. CASE js_resolve_module
  BY <1>2, Resolves
<1>3. CASE js_create_module_function
  BY <1>3, Creates
<1>4. CASE js_link_module
  BY <1>4, Links
<1>5. CASE JS_EvalFunction
  BY <1>5, StartsToEvaluate
<1>6. CASE js_evaluate_module
  BY <1>6, Runs
<1>7. CASE Return
  BY <1>7, Returns
<1>8. CASE UNCHANGED vars
  <2>1. UNCHANGED <<files, mods, phase, stack, err, ran>>
    BY <1>8 DEF vars
  <2>2. Kept /\ ModsTyped /\ Ordered
    BY <2>1, Unchanged DEF Inv, TypeInv
  <2>3. TypeInv' /\ Creation' /\ Naming'
    <3>1. TypeInv'
      BY <2>1 DEF Inv, TypeInv, ModsTyped, FramesTyped, FramesOver, Counts, RanTyped, Modules,
                  Cnt, Imports, Record
    <3> QED BY <2>1, <2>2, <3>1, KeptFacts DEF Inv, Creation
  <2>4. Pending'
    BY <2>1 DEF Inv, Pending, Unrun, OnceOnStack, Modules, Ahead, Cnt, Imports, LinkOf
  <2>5. Linking'
    BY <2>1 DEF Inv, Linking, Resolved, AllInstantiated, Modules, Ahead, Cnt, Imports, LinkOf
  <2>6. Evaluating'
    <3>1. Chained => Chained'
      <4>1. OnceOnStack => OnceOnStack'
        BY <2>1 DEF OnceOnStack
      <4>2. /\ Modules' = Modules /\ stack' = stack /\ \A m : Cnt(m)' = Cnt(m)
            /\ \A m, i : LinkOf(m, i)' = LinkOf(m, i)
        BY <2>1 DEF Modules, Cnt, Imports, LinkOf
      <4> QED BY <4>1, <4>2 DEF Chained
    <3>2. Marked => Marked'
      BY <2>1 DEF Marked, Modules, Entered, Ran
    <3>3. Passed => Passed'
      <4>1. /\ Modules' = Modules /\ stack' = stack
            /\ \A m : (Ran(m)' <=> Ran(m)) /\ (Entered(m)' <=> Entered(m))
            /\ \A m, j : OnStack(m, j)' <=> OnStack(m, j)
            /\ \A m : Cnt(m)' = Cnt(m)
            /\ \A m, i : LinkOf(m, i)' = LinkOf(m, i)
        BY <2>1 DEF Modules, Cnt, Imports, LinkOf, Ran, OnStack, Entered
      <4> QED BY <4>1 DEF Passed
    <3> QED BY <2>1, <3>1, <3>2, <3>3 DEF Inv, Evaluating
  <2>7. Ordered'
    <3>1. EachRunsOnce => EachRunsOnce'
      BY <2>1 DEF EachRunsOnce, Modules
    <3>2. \A m, k : Precedes(k, m) => Precedes(k, m)'
      BY <2>1 DEF Precedes
    <3>3. /\ Modules' = Modules /\ \A m : Ran(m)' <=> Ran(m)
          /\ \A m \in Modules : Cnt(m)' = Cnt(m)
          /\ \A m \in Modules : \A i \in 1..Cnt(m) : LinkOf(m, i)' = LinkOf(m, i)
      BY <2>1 DEF Modules, Ran, Cnt, Imports, LinkOf
    <3>4. \A k, m : Path(k, m) => Path(k, m)'
      BY <2>2, KeptFacts
    <3> QED BY <2>2, <3>1, <3>2, <3>3, <3>4 DEF Ordered
  <2> QED BY <2>3, <2>4, <2>5, <2>6, <2>7 DEF Inv
<1> QED BY <1>1, <1>2, <1>3, <1>4, <1>5, <1>6, <1>7, <1>8 DEF Next

(* Every state of every run, on any file systems, has the invariant.       *)
THEOREM InvHolds == Spec => []Inv
<1>1. Init => Inv
  BY InitInv
<1>2. Inv /\ [Next]_vars => Inv'
  BY NextInv
<1> QED BY <1>1, <1>2, PTL DEF Spec

-----------------------------------------------------------------------------
(* What follows.                                                           *)

LEMMA LoadsOnce ==
    ASSUME Inv
    PROVE  LinkedBeforeRun
<1>1. Naming /\ Linking
  BY DEF Inv
<1>2. SourceLoadedOnce
  <2>1. ASSUME NEW m \in Modules, NEW k \in Modules, mods[m].file = mods[k].file,
               IsSource(m), mods[m].file.ext # "bc"
        PROVE  m = k
    <3>1. IsSource(k)
      BY <2>1 DEF IsSource
    <3>2. mods[m].name = mods[k].name
      BY <1>1, <2>1, <3>1 DEF Naming
    <3> QED BY <1>1, <2>1, <3>1, <3>2 DEF Naming
  <2> QED BY <2>1 DEF SourceLoadedOnce, IsSource
<1>3. AllLinked
  BY <1>1 DEF Linking, Resolved, AllInstantiated, AllLinked
<1> QED BY <1>2, <1>3 DEF LinkedBeforeRun

LEMMA DependenciesRunFirst ==
    ASSUME Inv
    PROVE  BodiesInOrder
<1>1. ModsTyped /\ RanTyped /\ Linking /\ Ordered
  BY DEF Inv, TypeInv
<1>2. ASSUME NEW a \in 1..Len(ran), NEW i \in DOMAIN mods[ran[a]].links, NEW m, NEW k,
             m = ran[a], k = LinkOf(m, i)
      PROVE  Precedes(k, m) \/ m \in ReachedFrom(k)
  <2>1. m \in Modules /\ Ran(m)
    BY <1>1, <1>2 DEF RanTyped, Ran
  <2>2. i \in 1..Cnt(m)
    BY <1>1, <1>2, <2>1, Basics
  <2>3. Resolved
    <3>1. ran # <<>>
      BY <1>1, <1>2 DEF RanTyped
    <3> QED BY <1>1, <3>1 DEF Linking
  <2>4. k \in Modules /\ Closed
    BY <1>2, <2>1, <2>2, <2>3 DEF Resolved, Closed
  <2>5. Precedes(k, m) \/ Path(k, m)
    BY <1>1, <1>2, <2>1, <2>2, <2>4 DEF Ordered
  <2>6. Path(k, m) => m \in ReachedFrom(k)
    BY <1>1, <2>4, PathReaches
  <2> QED BY <2>5, <2>6
<1>3. DependenciesFirst
  <2>1. ASSUME NEW a \in 1..Len(ran), NEW i \in DOMAIN mods[ran[a]].links
        PROVE  \/ Precedes(mods[ran[a]].links[i], ran[a])
               \/ ran[a] \in ReachedFrom(mods[ran[a]].links[i])
    <3>1. PICK m, k : m = ran[a] /\ k = LinkOf(m, i)
      OBVIOUS
    <3>2. Precedes(k, m) \/ m \in ReachedFrom(k)
      BY <1>2, <3>1
    <3>3. k = mods[ran[a]].links[i] /\ m = ran[a]
      BY <3>1 DEF LinkOf
    <3> QED BY <3>2, <3>3
  <2> QED BY <2>1 DEF DependenciesFirst
<1> QED BY <1>1, <1>3 DEF Ordered, BodiesInOrder

(* js_find_loaded_module finds a source file again under the name it was   *)
(* loaded with, so it is loaded once whatever imports it; and              *)
(* js_evaluate_module runs no body before js_create_module_function and    *)
(* js_link_module have been at every module.                               *)
THEOREM SourceOnceAndLinkedFirst == Spec => []LinkedBeforeRun
<1>1. Inv => LinkedBeforeRun
  BY LoadsOnce
<1> QED BY <1>1, InvHolds, PTL

(* js_evaluate_module runs a body when what the module imports has run,    *)
(* except along a cycle, which it enters at the module that was met first; *)
(* it runs none twice, and when JS_EvalFunction returns without an         *)
(* exception all have run.                                                 *)
THEOREM DependenciesRunBefore == Spec => []BodiesInOrder
<1>1. Inv => BodiesInOrder
  BY DependenciesRunFirst
<1> QED BY <1>1, InvHolds, PTL

-----------------------------------------------------------------------------
(* What main returns.  The files that are there, what a specifier means    *)
(* among them, and the files that are reached: those in every set that has *)
(* the first one and is closed under imports.                              *)
There(fs) == {g \in DOMAIN fs : fs[g].kind # "empty"}
Meaning(fs, f, s) ==
    LET name == [s EXCEPT !.path = PathOf(f, s)]
    IN  IF name \in There(fs) THEN {name} ELSE {Bc(name)} \cap There(fs)
CandidatesIn(fs, name) ==
    {g \in {name} : g \in There(fs)} \cup
    {g \in {Bc(name)} : name \notin There(fs) /\ name.ext = "js" /\ g \in There(fs)}
StartIn(fs) == IF MAIN_FILE_NAME \in DOMAIN fs THEN {MAIN_FILE_NAME}
               ELSE {Bc(MAIN_FILE_NAME)} \cap DOMAIN fs
MeantAt(fs, f, i, g) == g \in Meaning(fs, f, fs[f].imports[i])
ClosedIn(fs, S) ==
    /\ StartIn(fs) \subseteq S
    /\ \A f \in S : \A i \in 1..Len(fs[f].imports) : \A g : MeantAt(fs, f, i, g) => g \in S
Reaches(fs, f) == f \in DOMAIN fs /\ \A S \in SUBSET DOMAIN fs : ClosedIn(fs, S) => f \in S

Sound(fs) ==
    /\ StartIn(fs) # {} /\ \A f \in StartIn(fs) : fs[f].kind # "empty"
    /\ \A f \in DOMAIN fs : Reaches(fs, f) =>
          /\ fs[f].fault = "none"
          /\ \A i \in 1..Len(fs[f].imports) : \E g : MeantAt(fs, f, i, g)

LoadedAt(fs, q) ==
    /\ Reaches(fs, q.file) /\ fs[q.file].fault # "parse"
    /\ IF fs[q.file].kind = "bytecode" THEN q.name = NoName
       ELSE q.file \in CandidatesIn(fs, q.name) /\ q.file.path = q.name.path
Loaded == \A m \in Modules : LoadedAt(files, mods[m])
MainLoaded == 1 \in Modules => mods[1].file \in StartIn(files) \cap There(files)
LinksMeant ==
    \A m, k \in Modules : \A i \in 1..Cnt(m) :
        LinkOf(m, i) = k => MeantAt(files, mods[m].file, i, mods[k].file)
AsMeant == Loaded /\ MainLoaded /\ LinksMeant

(* What is linked binds, what has run did not throw, and main failed       *)
(* because of a file it reached.                                           *)
Binds(m) == Fault(m) # "binding"
Faultless ==
    /\ phase = "link" => \A m \in Modules : mods[m].instantiated => Entered(m) \/ Binds(m)
    /\ phase = "evaluate" \/ (phase = "done" /\ err = 0) => \A m \in Modules : Binds(m)
    /\ err = 0 => \A m \in Modules : Ran(m) => Fault(m) # "throw"
    /\ err # 0 => phase = "done" /\ ~Sound(files)
    /\ phase = "done" /\ err = 0 => 1 \in Modules
ExitInv == AsMeant /\ Faultless

(* js_default_module_normalize_name finds every name that is meant, given  *)
(* the name of the importing module: bytecode has none.                    *)
NamesMeantIn(fs) ==
    \A f \in DOMAIN fs : \A i \in 1..Len(fs[f].imports) :
        LET spec == fs[f].imports[i]
            base == IF fs[f].kind = "bytecode" THEN NoName ELSE f
        IN  /\ spec.ext \in {"js", "bc"}
            /\ js_default_module_normalize_name(base, spec) =
                   [spec EXCEPT !.path = PathOf(f, spec)]
NamesAsMeant == \A fs \in FileSystems : NamesMeantIn(fs)

LEMMA ReachesStart ==
    ASSUME NEW fs, NEW f \in StartIn(fs)
    PROVE  Reaches(fs, f)
BY DEF StartIn, Reaches, ClosedIn

LEMMA ReachesOn ==
    ASSUME NEW fs, NEW f, Reaches(fs, f), NEW i \in 1..Len(fs[f].imports),
           NEW g, MeantAt(fs, f, i, g)
    PROVE  Reaches(fs, g) /\ g \in There(fs)
<1>1. g \in There(fs)
  BY DEF MeantAt, Meaning
<1>2. g \in DOMAIN fs
  BY <1>1 DEF There
<1>3. ASSUME NEW S \in SUBSET DOMAIN fs, ClosedIn(fs, S) PROVE g \in S
  <2>1. f \in S
    BY <1>3 DEF Reaches
  <2> QED BY <1>3, <2>1 DEF ClosedIn
<1> QED BY <1>1, <1>2, <1>3 DEF Reaches

LEMMA MeaningIs ==
    \A f, s : FilesMeant(f, s) = Meaning(files, f, s)
BY DEF FilesMeant, Meaning, There

LEMMA CandidatesAre ==
    \A name : Candidates(name) = CandidatesIn(files, name)
BY DEF Candidates, CandidatesIn, Loadable, There

LEMMA WithExt ==
    ASSUME NEW w, NEW e
    PROVE  Bc([path |-> w, ext |-> e]) = [path |-> w, ext |-> "bc"]
BY DEF Bc

NamedFor(name, f, s) == name = [s EXCEPT !.path = PathOf(f, s)]
LEMMA CandidatesMeant ==
    ASSUME NEW fs, NEW f, NEW s \in Names, s.ext \in {"js", "bc"},
           NEW name, NamedFor(name, f, s)
    PROVE  /\ CandidatesIn(fs, name) = Meaning(fs, f, s)
           /\ name # NoName /\ name.ext = s.ext /\ Bc(name).path = name.path
<1>0. name = [s EXCEPT !.path = PathOf(f, s)]
  BY DEF NamedFor
<1>1. PICK w, e : w = PathOf(f, s) /\ e = s.ext
  OBVIOUS
<1>2. name = [path |-> w, ext |-> e]
  BY <1>0, <1>1 DEF Names
<1>3. Bc(name) = [path |-> w, ext |-> "bc"]
  BY <1>2, WithExt
<1>4. name # NoName /\ name.ext = s.ext /\ Bc(name).path = name.path
  <2>1. name.ext = e /\ name.path = w
    BY <1>2
  <2>2. Bc(name).path = w
    BY <1>3
  <2>3. NoName.ext = ""
    BY DEF NoName
  <2> QED BY <1>1, <2>1, <2>2, <2>3
<1>5. CASE s.ext = "js"
  BY <1>0, <1>4, <1>5 DEF CandidatesIn, Meaning
<1>6. CASE s.ext = "bc"
  <2>1. Bc(name) = name
    BY <1>1, <1>2, <1>3, <1>6
  <2> QED BY <1>4, <1>6, <2>1, <1>0 DEF CandidatesIn, Meaning
<1> QED BY <1>4, <1>5, <1>6

(* An import is looked for under the name that is meant.                   *)
LEMMA NormalizedIs ==
    ASSUME NamesAsMeant, ModsTyped, Loaded, NEW m \in Modules, NEW i \in 1..Cnt(m),
           NEW name, name = js_default_module_normalize_name(mods[m].name, Imports(m)[i])
    PROVE  /\ \A g : MeantAt(files, mods[m].file, i, g) <=> g \in CandidatesIn(files, name)
           /\ name # NoName /\ Bc(name).path = name.path
<1>1. PICK f, s : f = mods[m].file /\ s = Imports(m)[i]
  OBVIOUS
<1>2. f \in DOMAIN files /\ files \in FileSystems
  BY <1>1 DEF ModsTyped, Record
<1>3. /\ Imports(m) = files[f].imports /\ files[f].imports \in Seq(Names)
      /\ i \in 1..Len(files[f].imports)
  BY <1>1, <1>2, FilesAssumption DEF Imports, Cnt
<1>4. s \in Names /\ s = files[f].imports[i]
  BY <1>1, <1>3
<1>5. PICK base : base = IF files[f].kind = "bytecode" THEN NoName ELSE f
  OBVIOUS
<1>6. /\ s.ext \in {"js", "bc"}
      /\ js_default_module_normalize_name(base, s) = [s EXCEPT !.path = PathOf(f, s)]
  BY <1>2, <1>3, <1>4, <1>5 DEF NamesAsMeant, NamesMeantIn
<1>7. mods[m].name.path = base.path
  BY <1>1, <1>5 DEF Loaded, LoadedAt
<1>8. name = js_default_module_normalize_name(base, s)
  BY <1>1, <1>7 DEF js_default_module_normalize_name
<1>9. /\ CandidatesIn(files, name) = Meaning(files, f, s)
      /\ name # NoName /\ Bc(name).path = name.path
  <2>1. NamedFor(name, f, s)
    BY <1>6, <1>8 DEF NamedFor
  <2>2. s \in Names /\ s.ext \in {"js", "bc"}
    BY <1>4, <1>6
  <2>3. PICK fs : fs = files
    OBVIOUS
  <2>4. CandidatesIn(fs, name) = Meaning(fs, f, s) /\ name # NoName /\ Bc(name).path = name.path
    BY <2>1, <2>2, CandidatesMeant
  <2> QED BY <2>3, <2>4
<1> QED BY <1>1, <1>4, <1>9 DEF MeantAt

LEMMA LoadedSame ==
    ASSUME NEW fs, NEW q, NEW r, LoadedAt(fs, r), SameNames(q, r)
    PROVE  LoadedAt(fs, q)
BY DEF LoadedAt, SameNames

(* Steps that only set flags.                                              *)
LEMMA KeptMeant ==
    ASSUME ModsTyped, Kept
    PROVE  /\ AsMeant => AsMeant'
           /\ Modules' = Modules /\ \A m \in Modules : Fault(m)' = Fault(m)
<1>1. /\ files' = files /\ Modules' = Modules
      /\ \A m \in Modules : SameNames(mods'[m], mods[m])
      /\ \A m \in Modules : mods'[m].file = mods[m].file
  BY KeptFacts DEF Kept
<1>2. \A m \in Modules : Cnt(m)' = Cnt(m)
  BY KeptFacts
<1>3. \A m \in Modules : \A i \in 1..Cnt(m) : LinkOf(m, i)' = LinkOf(m, i)
  BY KeptFacts
<1>4. \A m \in Modules : Fault(m)' = Fault(m)
  BY <1>1 DEF Fault
<1>5. Loaded => Loaded'
  BY <1>1, LoadedSame DEF Loaded
<1>6. MainLoaded => MainLoaded'
  BY <1>1 DEF MainLoaded
<1>7. LinksMeant => LinksMeant'
  BY <1>1, <1>2, <1>3 DEF LinksMeant
<1> QED BY <1>1, <1>4, <1>5, <1>6, <1>7 DEF AsMeant

(* The next import of the top frame is linked to k, which is what it means.*)
LEMMA LinksAsMeant ==
    ASSUME ModsTyped, AsMeant, NEW k \in Nat, k # 0, LinkedTo(k), Modules' = Modules \cup {k},
           \A m \in Modules : Cnt(m)' = Cnt(m),
           MeantAt(files, mods[Top.m].file, Top.i, mods'[k].file)
    PROVE  /\ \A m \in Modules : LoadedAt(files, mods'[m]) /\ mods'[m].file = mods[m].file
           /\ \A m \in Modules : \A x \in Modules' : \A i \in 1..Cnt(m)' :
                 LinkOf(m, i)' = x => MeantAt(files, mods'[m].file, i, mods'[x].file)
<1>1. /\ \A m \in Modules : SameNames(mods'[m], mods[m])
      /\ \A m \in Modules : \A i \in 1..Cnt(m) :
             LinkOf(m, i)' = IF m = Top.m /\ i = Top.i THEN k ELSE LinkOf(m, i)
  BY DEF LinkedTo, LinkOf
<1>2. \A m \in Modules : LoadedAt(files, mods'[m])
  BY <1>1, LoadedSame DEF AsMeant, Loaded
<1>3. \A m \in Modules : mods'[m].file = mods[m].file
  BY <1>1 DEF SameNames
<1>4. PICK t, u : t = Top.m /\ u = Top.i
  OBVIOUS
<1>5. ASSUME NEW m \in Modules, NEW x \in Modules', NEW i \in 1..Cnt(m), LinkOf(m, i)' = x
      PROVE  MeantAt(files, mods'[m].file, i, mods'[x].file)
  <2>1. CASE m = t /\ i = u
    BY <1>1, <1>3, <1>4, <1>5, <2>1
  <2>2. CASE ~(m = t /\ i = u)
    <3>1. LinkOf(m, i) = x /\ LinkOf(m, i) \in 0..Len(mods)
      BY <1>1, <1>4, <1>5, <2>2, Basics
    <3>2. x \in Modules
      <4>1. Len(mods) \in Nat /\ Modules = 1..Len(mods)
        BY Basics DEF Modules
      <4>2. x # 0
        BY <1>5, <4>1
      <4> QED BY <3>1, <4>1, <4>2
    <3>3. MeantAt(files, mods[m].file, i, mods[x].file)
      BY <3>1, <3>2 DEF AsMeant, LinksMeant
    <3> QED BY <1>3, <3>2, <3>3
  <2> QED BY <2>1, <2>2
<1> QED BY <1>2, <1>3, <1>5

LEMMA FindsMeant ==
    ASSUME Inv, AsMeant, NamesAsMeant, phase = "resolve", stack # <<>>, ~AtEnd, files' = files,
           NEW name,
           name = js_default_module_normalize_name(mods[Top.m].name, Imports(Top.m)[Top.i]),
           NEW k \in js_find_loaded_module(name), LinkAt(mods', k)
    PROVE  AsMeant'
<1>1. ModsTyped /\ FramesTyped
  BY Resolving
<1>2. k \in Modules /\ mods[k].name = name
  BY DEF js_find_loaded_module, Named
<1>3. Len(mods) \in Nat /\ k \in Nat /\ k # 0 /\ k \in 0..Len(mods)
  BY <1>1, <1>2, Basics DEF Modules
<1>4. Relinked(mods', k, Len(mods))
  BY <1>1, <1>3, Relinks
<1>5. Modules' = Modules /\ Modules' = Modules \cup {k}
  BY <1>2, <1>4 DEF Relinked, Modules
<1>6. LinkedTo(k)
  BY <1>4, <1>5 DEF Relinked, LinkedTo
<1>7. \A m \in Modules : Cnt(m)' = Cnt(m) /\ mods'[m].file = mods[m].file
  BY <1>3, <1>6, LinkedToFacts
<1>8. PICK t, u : t = Top.m /\ u = Top.i
  OBVIOUS
<1>9. t \in Modules /\ u \in 1..Cnt(t)
  BY <1>1, <1>8, TopFacts
<1>10. /\ \A g : MeantAt(files, mods[t].file, u, g) <=> g \in CandidatesIn(files, name)
       /\ name # NoName
  BY <1>1, <1>8, <1>9, NormalizedIs DEF AsMeant
<1>11. mods[k].file \in CandidatesIn(files, name)
  BY <1>2, <1>10 DEF AsMeant, Loaded, LoadedAt
<1>12. MeantAt(files, mods[Top.m].file, Top.i, mods'[k].file)
  BY <1>2, <1>7, <1>8, <1>10, <1>11
<1>13. /\ \A m \in Modules : LoadedAt(files, mods'[m]) /\ mods'[m].file = mods[m].file
       /\ \A m \in Modules : \A x \in Modules' : \A i \in 1..Cnt(m)' :
             LinkOf(m, i)' = x => MeantAt(files, mods'[m].file, i, mods'[x].file)
  BY <1>1, <1>3, <1>5, <1>6, <1>7, <1>12, LinksAsMeant
<1> QED BY <1>5, <1>13 DEF AsMeant, Loaded, MainLoaded, LinksMeant

LEMMA NewName ==
    ASSUME NEW q, NEW f, NEW name, MadeOf(q, f, name)
    PROVE  q.file = f /\ q.name = IF files[f].kind = "bytecode" THEN NoName ELSE name
BY DEF MadeOf, NewModule

LEMMA LoadsMeant ==
    ASSUME Inv, AsMeant, NamesAsMeant, phase = "resolve", stack # <<>>, ~AtEnd, files' = files,
           NEW name,
           name = js_default_module_normalize_name(mods[Top.m].name, Imports(Top.m)[Top.i]),
           NEW f \in Candidates(name), files[f].fault # "parse",
           NEW ms, LinkAt(ms, Len(mods) + 1), NEW q, MadeOf(q, f, name), mods' = Append(ms, q)
    PROVE  AsMeant'
<1>1. ModsTyped /\ FramesTyped /\ 1 \in Modules
  BY Resolving
<1>2. PICK c, k : c = Len(mods) /\ k = c + 1 /\ LinkAt(ms, k)
  OBVIOUS
<1>3. c \in Nat /\ k \in Nat /\ k # 0 /\ k \in 0..k /\ c <= k /\ Modules = 1..c
  BY <1>1, <1>2, Basics DEF Modules
<1>4. Relinked(ms, k, k)
  BY <1>1, <1>2, <1>3, Relinks
<1>5. Len(mods') = k /\ mods'[k] = q /\ \A m \in 1..c : mods'[m] = ms[m]
  <2>1. IsSeq(ms) /\ Len(ms) = c
    BY <1>2, <1>4 DEF Relinked
  <2>2. PICK v : v = Append(ms, q)
    OBVIOUS
  <2>3. Len(v) = k /\ v[k] = q /\ \A m \in 1..c : v[m] = ms[m]
    BY <1>2, <2>1, <2>2, Appended
  <2> QED BY <2>2, <2>3
<1>6. Modules' = Modules \cup {k} /\ k \notin Modules
  BY <1>2, <1>3, <1>5 DEF Modules
<1>7. LinkedTo(k)
  <2>1. Modules \subseteq Modules' /\ files' = files /\ \A m \in Modules : mods'[m] = ms[m]
    BY <1>3, <1>5, <1>6
  <2> QED BY <1>4, <2>1, RelinkedIsLinked
<1>8. \A m \in Modules : Cnt(m)' = Cnt(m)
  BY <1>3, <1>7, LinkedToFacts
<1>9. PICK t, u : t = Top.m /\ u = Top.i
  OBVIOUS
<1>10. t \in Modules /\ u \in 1..Cnt(t)
  BY <1>1, <1>9, TopFacts
<1>11. /\ \A g : MeantAt(files, mods[t].file, u, g) <=> g \in CandidatesIn(files, name)
       /\ Bc(name).path = name.path
  <2>1. Loaded
    BY DEF AsMeant
  <2>2. name = js_default_module_normalize_name(mods[t].name, Imports(t)[u])
    BY <1>9
  <2> QED BY <1>1, <1>10, <2>1, <2>2, NormalizedIs
<1>12. f \in CandidatesIn(files, name) /\ MeantAt(files, mods[t].file, u, f)
  BY <1>11, CandidatesAre
<1>13. q.file = f /\ q.name = IF files[f].kind = "bytecode" THEN NoName ELSE name
  BY NewName
<1>14. LoadedAt(files, q)
  <2>1. Reaches(files, mods[t].file)
    BY <1>10 DEF AsMeant, Loaded, LoadedAt
  <2>2. u \in 1..Len(files[mods[t].file].imports)
    BY <1>10 DEF Cnt, Imports
  <2>3. Reaches(files, f)
    BY <1>12, <2>1, <2>2, ReachesOn
  <2>4. f.path = name.path
    BY <1>11, <1>12 DEF CandidatesIn
  <2> QED BY <1>12, <1>13, <2>3, <2>4 DEF LoadedAt
<1>15. MeantAt(files, mods[Top.m].file, Top.i, mods'[k].file)
  BY <1>5, <1>9, <1>12, <1>13
<1>16. /\ \A m \in Modules : LoadedAt(files, mods'[m]) /\ mods'[m].file = mods[m].file
       /\ \A m \in Modules : \A x \in Modules' : \A i \in 1..Cnt(m)' :
             LinkOf(m, i)' = x => MeantAt(files, mods'[m].file, i, mods'[x].file)
  BY <1>1, <1>3, <1>6, <1>7, <1>8, <1>15, LinksAsMeant
<1>17. \A i \in 1..Cnt(k)' : LinkOf(k, i)' = 0
  <2>1. Cnt(k)' = Len(files[f].imports)
    BY <1>5, <1>13 DEF Cnt, Imports
  <2>2. \A i \in 1..Len(files[f].imports) : q.links[i] = 0
    BY DEF MadeOf, NewModule
  <2> QED BY <1>5, <2>1, <2>2 DEF LinkOf
<1>18. \A x \in Modules' : x # 0
  BY <1>3, <1>6
<1>19. Loaded' /\ MainLoaded'
  BY <1>1, <1>5, <1>6, <1>14, <1>16 DEF AsMeant, Loaded, MainLoaded
<1>20. LinksMeant'
  <2> SUFFICES ASSUME NEW m \in Modules', NEW x \in Modules', NEW i \in 1..Cnt(m)',
                      LinkOf(m, i)' = x
               PROVE  MeantAt(files, mods'[m].file, i, mods'[x].file)
    BY DEF LinksMeant
  <2>1. m # k
    BY <1>17, <1>18
  <2>2. m \in Modules
    BY <1>6, <2>1
  <2> QED BY <1>16, <2>2
<1> QED BY <1>19, <1>20 DEF AsMeant

-----------------------------------------------------------------------------
(* The steps.                                                              *)

LEMMA FailsAtFault ==
    ASSUME Fail, files' = files, ~Sound(files)
    PROVE  Faultless'
<1>1. phase' = "done" /\ err' = -1
  BY DEF Fail
<1>2. err' # 0
  BY <1>1, FailedErr
<1> QED BY <1>1, <1>2 DEF Faultless

(* A file that is reached and at fault.                                    *)
LEMMA Unsound ==
    ASSUME NEW fs, NEW f, Reaches(fs, f),
           \/ fs[f].fault # "none"
           \/ \E i \in 1..Len(fs[f].imports) : \A g : ~MeantAt(fs, f, i, g)
    PROVE  ~Sound(fs)
<1>1. f \in DOMAIN fs
  BY DEF Reaches
<1> QED BY <1>1 DEF Sound

LEMMA ExitInit ==
    ASSUME Init
    PROVE  ExitInv
<1>1. mods = <<>> /\ stack = <<>> /\ ran = <<>> /\ phase = "start" /\ err = 0
  BY DEF Init
<1>2. Modules = {} /\ Len(ran) = 0
  BY <1>1 DEF Modules
<1>3. AsMeant
  BY <1>2 DEF AsMeant, Loaded, MainLoaded, LinksMeant
<1>4. Faultless
  BY <1>1, <1>2 DEF Faultless
<1> QED BY <1>3, <1>4 DEF ExitInv

LEMMA ExitStarts ==
    ASSUME Inv, ExitInv, run_from_file_system_buf
    PROVE  ExitInv'
<1>1. PICK main : main = IF MAIN_FILE_NAME \in DOMAIN files THEN MAIN_FILE_NAME
                         ELSE Bc(MAIN_FILE_NAME)
  OBVIOUS
<1>2. phase = "start" /\ files' = files /\ ran' = ran /\ mods = <<>> /\ ran = <<>> /\ err = 0
  BY DEF run_from_file_system_buf, Inv, Pending, ExitInv, Faultless
<1>3. /\ StartIn(files) = {main} \cap DOMAIN files /\ (Loadable(main) <=> main \in There(files))
      /\ main.path = MAIN_FILE_NAME.path /\ There(files) \subseteq DOMAIN files
  <2>1. PICK w : MAIN_FILE_NAME = [path |-> w, ext |-> "js"]
    BY DEF MAIN_FILE_NAME, Js
  <2>2. Bc(MAIN_FILE_NAME).path = w
    <3>1. Bc(MAIN_FILE_NAME) = [path |-> w, ext |-> "bc"]
      BY <2>1, WithExt
    <3> QED BY <3>1
  <2>3. main.path = MAIN_FILE_NAME.path
    BY <1>1, <2>1, <2>2
  <2>4. StartIn(files) = {main} \cap DOMAIN files
    BY <1>1 DEF StartIn
  <2> QED BY <2>3, <2>4 DEF Loadable, There
<1>4. CASE ~(Loadable(main) /\ files[main].fault # "parse")
  <2>1. Fail /\ mods' = mods
    BY <1>1, <1>4 DEF run_from_file_system_buf
  <2>2. ~Sound(files)
    <3>1. CASE main \in DOMAIN files
      <4>1. Reaches(files, main)
        BY <1>3, <3>1, ReachesStart
      <4>2. files[main].kind = "empty" \/ files[main].fault # "none"
        BY <1>3, <1>4, <3>1 DEF There
      <4>3. files[main].kind = "empty" => ~Sound(files)
        BY <1>3, <3>1 DEF Sound
      <4>4. files[main].fault # "none" => ~Sound(files)
        BY <4>1, Unsound
      <4> QED BY <4>2, <4>3, <4>4
    <3>2. CASE main \notin DOMAIN files
      BY <1>3, <3>2 DEF Sound
    <3> QED BY <3>1, <3>2
  <2>3. Faultless'
    BY <1>2, <2>1, <2>2, FailsAtFault
  <2>4. AsMeant'
    <3>1. Kept /\ ModsTyped
      BY <1>2, <2>1, Unchanged DEF Inv, TypeInv
    <3> QED BY <3>1, KeptMeant DEF ExitInv
  <2> QED BY <2>3, <2>4 DEF ExitInv
<1>5. CASE Loadable(main) /\ files[main].fault # "parse"
  <2>1. PICK q : MadeOf(q, main, MAIN_FILE_NAME)
    BY DEF MadeOf
  <2>2. mods' = <<q>> /\ phase' = "resolve" /\ stack' = Enter(1) /\ err' = err
    BY <1>1, <1>5, <2>1 DEF run_from_file_system_buf, MadeOf
  <2>3. Modules' = {1} /\ mods'[1] = q
    BY <2>2 DEF Modules
  <2>4. q.file = main /\ q.name = IF files[main].kind = "bytecode" THEN NoName ELSE MAIN_FILE_NAME
    BY <2>1, NewName
  <2>5. main \in There(files) /\ main \in StartIn(files)
    BY <1>3, <1>5
  <2>6. Reaches(files, main)
    BY <2>5, ReachesStart
  <2>7. main \in CandidatesIn(files, MAIN_FILE_NAME)
    <3>1. MAIN_FILE_NAME.ext = "js"
      BY DEF MAIN_FILE_NAME, Js
    <3>2. main = MAIN_FILE_NAME \/ (MAIN_FILE_NAME \notin DOMAIN files /\ main = Bc(MAIN_FILE_NAME))
      BY <1>1
    <3> QED BY <1>3, <2>5, <3>1, <3>2 DEF CandidatesIn
  <2>8. LoadedAt(files, q)
    BY <1>3, <1>5, <2>4, <2>6, <2>7 DEF LoadedAt
  <2>9. Loaded' /\ MainLoaded'
    BY <1>2, <2>3, <2>4, <2>5, <2>8 DEF Loaded, MainLoaded
  <2>10. LinksMeant'
    <3>1. Cnt(1)' = Len(files[main].imports)
      BY <1>2, <2>3, <2>4 DEF Cnt, Imports
    <3>2. \A i \in 1..Len(files[main].imports) : q.links[i] = 0
      BY <2>1 DEF MadeOf, NewModule
    <3>3. \A i \in 1..Cnt(1)' : LinkOf(1, i)' = 0
      BY <2>3, <3>1, <3>2 DEF LinkOf
    <3> QED BY <2>3, <3>3 DEF LinksMeant
  <2>11. Faultless'
    <3>1. Len(ran') = 0
      BY <1>2
    <3> QED BY <1>2, <2>2, <3>1 DEF Faultless, Ran
  <2> QED BY <2>9, <2>10, <2>11 DEF ExitInv, AsMeant
<1> QED BY <1>4, <1>5

(* Until js_create_module_function nothing has run or failed.              *)
LEMMA FaultlessYet ==
    ASSUME Faultless, phase = "resolve", phase' = "resolve", UNCHANGED <<err, ran>>, ran = <<>>
    PROVE  Faultless'
<1>1. Len(ran') = 0 /\ err' = 0
  BY DEF Faultless
<1> QED BY <1>1 DEF Faultless, Ran

LEMMA ExitResolves ==
    ASSUME Inv, ExitInv, NamesAsMeant, js_resolve_module
    PROVE  ExitInv'
<1>1. phase = "resolve" /\ stack # <<>> /\ UNCHANGED <<files, ran>> /\ AsMeant /\ Faultless
  BY DEF js_resolve_module, ExitInv
<1>2. ModsTyped /\ FramesTyped /\ ran = <<>>
  BY <1>1, Resolving
<1>3. UNCHANGED mods => AsMeant'
  BY <1>1, <1>2, Unchanged, KeptMeant
<1>4. UNCHANGED <<phase, err>> => Faultless'
  BY <1>1, <1>2, FaultlessYet
<1>5. CASE AtEnd
  <2>1. UNCHANGED <<mods, phase, err>>
    BY <1>5 DEF js_resolve_module
  <2> QED BY <1>3, <1>4, <2>1 DEF ExitInv
<1>6. CASE ~AtEnd
  <2>1. PICK name :
            name = js_default_module_normalize_name(mods[Top.m].name, Imports(Top.m)[Top.i])
    OBVIOUS
  <2>2. js_host_resolve_imported_module(name)
    BY <1>6, <2>1 DEF js_resolve_module
  <2>3. CASE \E k \in js_find_loaded_module(name) :
                /\ mods' = [mods EXCEPT ![Top.m].links[Top.i] = k]
                /\ UNCHANGED <<phase, err>>
    <3>1. PICK k \in js_find_loaded_module(name) :
              /\ mods' = [mods EXCEPT ![Top.m].links[Top.i] = k] /\ UNCHANGED <<phase, err>>
      BY <2>3
    <3>2. LinkAt(mods', k)
      BY <3>1 DEF LinkAt
    <3>3. AsMeant'
      BY <1>1, <1>6, <2>1, <3>2, FindsMeant
    <3> QED BY <1>4, <3>1, <3>3 DEF ExitInv
  <2>4. CASE \E f \in Candidates(name) :
                /\ files[f].fault # "parse"
                /\ mods' = Append([mods EXCEPT ![Top.m].links[Top.i] = Len(mods) + 1],
                                  NewModule(f, name))
                /\ UNCHANGED <<phase, err>>
    <3>1. PICK f \in Candidates(name) :
              /\ files[f].fault # "parse"
              /\ mods' = Append([mods EXCEPT ![Top.m].links[Top.i] = Len(mods) + 1],
                                NewModule(f, name))
              /\ UNCHANGED <<phase, err>>
      BY <2>4
    <3>2. PICK ms, q :
              /\ LinkAt(ms, Len(mods) + 1) /\ MadeOf(q, f, name) /\ mods' = Append(ms, q)
      BY <3>1 DEF LinkAt, MadeOf
    <3>3. AsMeant'
      BY <1>1, <1>6, <2>1, <3>1, <3>2, LoadsMeant
    <3> QED BY <1>4, <3>1, <3>3 DEF ExitInv
  <2>5. CASE Fail /\ UNCHANGED mods /\ \A f \in Candidates(name) : files[f].fault = "parse"
    <3>1. PICK t, u : t = Top.m /\ u = Top.i
      OBVIOUS
    <3>2. t \in Modules /\ u \in 1..Cnt(t)
      BY <1>1, <1>2, <1>6, <3>1, TopFacts
    <3>3. \A g : MeantAt(files, mods[t].file, u, g) <=> g \in CandidatesIn(files, name)
      <4>1. Loaded /\ name = js_default_module_normalize_name(mods[t].name, Imports(t)[u])
        BY <1>1, <2>1, <3>1 DEF AsMeant
      <4> QED BY <1>2, <3>2, <4>1, NormalizedIs
    <3>4. Reaches(files, mods[t].file) /\ u \in 1..Len(files[mods[t].file].imports)
      BY <1>1, <3>2 DEF AsMeant, Loaded, LoadedAt, Cnt, Imports
    <3>5. ~Sound(files)
      <4>1. CASE \E g : MeantAt(files, mods[t].file, u, g)
        <5>1. PICK g : MeantAt(files, mods[t].file, u, g)
          BY <4>1
        <5>2. Reaches(files, g)
          BY <3>4, <5>1, ReachesOn
        <5>3. files[g].fault = "parse"
          BY <2>5, <3>3, <5>1, CandidatesAre
        <5>4. files[g].fault # "none"
          BY <5>3
        <5> QED BY <5>2, <5>4, Unsound
      <4>2. CASE \A g : ~MeantAt(files, mods[t].file, u, g)
        BY <3>4, <4>2, Unsound
      <4> QED BY <4>1, <4>2
    <3>6. Faultless'
      BY <1>1, <2>5, <3>5, FailsAtFault
    <3> QED BY <1>3, <2>5, <3>6 DEF ExitInv
  <2> QED BY <2>2, <2>3, <2>4, <2>5 DEF js_host_resolve_imported_module
<1> QED BY <1>5, <1>6

LEMMA ExitCreates ==
    ASSUME Inv, ExitInv, js_create_module_function
    PROVE  ExitInv'
<1>1. /\ phase = "resolve" /\ UNCHANGED <<files, err, ran>> /\ phase' = "link"
      /\ stack' = Enter(1)
  BY DEF js_create_module_function
<1>2. ModsTyped /\ ran = <<>> /\ err = 0 /\ AsMeant
  BY <1>1, Resolving DEF ExitInv, Faultless
<1>3. Kept /\ \A m \in Modules : mods'[m].instantiated <=> m = 1
  BY Creates
<1>4. AsMeant' /\ Modules' = Modules
  BY <1>2, <1>3, KeptMeant
<1>5. Entered(1)'
  <2>1. Len(stack') = 1 /\ stack'[1].m = 1
    BY <1>1 DEF Enter
  <2> QED BY <2>1 DEF Entered
<1>6. Faultless'
  <2>1. Len(ran') = 0
    BY <1>1, <1>2
  <2> QED BY <1>1, <1>2, <1>3, <1>4, <1>5, <2>1 DEF Faultless, Ran
<1> QED BY <1>4, <1>6 DEF ExitInv

(* A file that is loaded and does not bind, or throws.                     *)
LEMMA FaultUnsound ==
    ASSUME AsMeant, NEW m \in Modules, Fault(m) # "none"
    PROVE  ~Sound(files)
<1>1. Reaches(files, mods[m].file) /\ files[mods[m].file].fault # "none"
  BY DEF AsMeant, Loaded, LoadedAt, Fault
<1> QED BY <1>1, Unsound

LEMMA ExitLinks ==
    ASSUME Inv, ExitInv, js_link_module
    PROVE  ExitInv'
<1>1. phase = "link" /\ stack # <<>> /\ UNCHANGED <<files, ran>>
  BY DEF js_link_module
<1>2. ModsTyped /\ FramesTyped /\ ran = <<>> /\ err = 0 /\ AsMeant
  BY <1>1, LinkingFacts DEF ExitInv, Faultless
<1>3. /\ Kept
      /\ \A m \in Modules : mods'[m].instantiated => mods[m].instantiated \/ Entered(m)'
  BY Links
<1>4. AsMeant' /\ Modules' = Modules /\ \A m \in Modules : Fault(m)' = Fault(m)
  BY <1>2, <1>3, KeptMeant
<1>5. \A m \in Modules : mods[m].instantiated => Entered(m) \/ Binds(m)
  BY <1>1 DEF ExitInv, Faultless
<1>6. PICK n, st, t : n = Len(stack) /\ st = stack /\ t = Top.m
  OBVIOUS
<1>7. /\ n \in Nat /\ n >= 1 /\ t \in Modules /\ st[n].m = t
      /\ \A j \in 1..n : j = n \/ j \in 1..(n - 1)
      /\ Popped(Pop) /\ Stepped(Advanced) /\ \A k \in Nat : Pushed(Advanced \o Enter(k), k)
  <2>1. n \in Nat /\ n >= 1 /\ t \in Modules /\ st[n].m = t
    BY <1>1, <1>2, <1>6, TopFacts
  <2>2. stack \in Seq(Frame)
    BY <1>2, TopFacts
  <2>3. \A j \in 1..n : j = n \/ j \in 1..(n - 1)
    BY <2>1
  <2> QED BY <1>1, <2>1, <2>2, <2>3, Frames
<1>8. CASE Fail /\ Fault(Top.m) = "binding"
  <2>1. ~Sound(files)
    <3>1. Fault(t) # "none"
      BY <1>6, <1>8
    <3> QED BY <1>2, <1>7, <3>1, FaultUnsound
  <2>2. Faultless'
    BY <1>1, <1>8, <2>1, FailsAtFault
  <2> QED BY <1>4, <2>2 DEF ExitInv
<1>9. CASE /\ phase' = "link" /\ err' = err
           /\ \/ stack' = Advanced
              \/ \E k \in Nat : stack' = Advanced \o Enter(k)
              \/ stack' = Pop /\ Fault(Top.m) # "binding"
  <2>1. ASSUME NEW m \in Modules, Entered(m), ~Entered(m)' PROVE Binds(m)
    <3>1. PICK j \in 1..n : st[j].m = m
      BY <1>6, <2>1 DEF Entered
    <3>2. PICK v : v = stack'
      OBVIOUS
    <3>3. \A l \in 1..Len(v) : v[l].m # m
      BY <2>1, <3>2 DEF Entered
    <3>4. CASE stack' = Pop /\ Fault(Top.m) # "binding"
      <4>1. Len(v) = n - 1 /\ \A l \in 1..(n - 1) : v[l] = st[l]
        BY <1>6, <1>7, <3>2, <3>4 DEF Popped
      <4>2. j = n
        BY <1>7, <3>1, <3>3, <4>1
      <4> QED BY <1>6, <1>7, <3>1, <3>4, <4>2 DEF Binds
    <3>5. CASE stack' = Advanced \/ \E k \in Nat : stack' = Advanced \o Enter(k)
      <4>1. /\ \A l \in 1..(n - 1) : v[l] = st[l]
            /\ v[n].m = t /\ Len(v) \in {n, n + 1}
        <5>1. CASE stack' = Advanced
          <6>1. /\ Len(v) = n /\ \A l \in 1..(n - 1) : v[l] = st[l]
                /\ v[n] = [m |-> Top.m, i |-> Top.i + 1]
            BY <1>6, <1>7, <3>2, <5>1 DEF Stepped
          <6>2. v[n].m = t
            BY <1>6, <6>1
          <6> QED BY <6>1, <6>2
        <5>2. CASE \E k \in Nat : stack' = Advanced \o Enter(k)
          <6>1. PICK k \in Nat : stack' = Advanced \o Enter(k)
            BY <5>2
          <6>2. /\ Len(v) = n + 1 /\ \A l \in 1..(n - 1) : v[l] = st[l]
                /\ v[n] = [m |-> Top.m, i |-> Top.i + 1]
            BY <1>6, <1>7, <3>2, <6>1 DEF Pushed
          <6>3. v[n].m = t
            BY <1>6, <6>2
          <6> QED BY <6>2, <6>3
        <5> QED BY <3>5, <5>1, <5>2
      <4>2. v[j].m = m /\ j \in 1..Len(v)
        <5>1. j \in 1..Len(v)
          BY <1>7, <3>1, <4>1
        <5>2. v[j].m = m
          BY <1>7, <3>1, <4>1
        <5> QED BY <5>1, <5>2
      <4> QED BY <3>3, <4>2
    <3> QED BY <1>9, <3>4, <3>5
  <2>2. \A m \in Modules : mods'[m].instantiated => Entered(m)' \/ Binds(m)
    BY <1>3, <1>5, <2>1
  <2>3. \A m \in Modules : Binds(m)' <=> Binds(m)
    BY <1>4 DEF Binds
  <2>4. Len(ran') = 0
    BY <1>1, <1>2
  <2>5. Faultless'
    BY <1>2, <1>4, <1>9, <2>2, <2>3, <2>4 DEF Faultless, Ran
  <2> QED BY <1>4, <2>5 DEF ExitInv
<1>10. ~AtEnd => Target \in Nat
  <2>1. Resolved
    BY <1>1, LinkingFacts
  <2>2. ~AtEnd => Target \in Modules
    BY <1>1, <1>2, <2>1, TargetIs
  <2> QED BY <1>2, <2>2, Basics
<1> QED BY <1>1, <1>8, <1>9, <1>10 DEF js_link_module

LEMMA ExitEvalFunction ==
    ASSUME Inv, ExitInv, JS_EvalFunction
    PROVE  ExitInv'
<1>1. phase = "link" /\ stack = <<>> /\ UNCHANGED <<files, err, ran>> /\ phase' = "evaluate"
  BY DEF JS_EvalFunction
<1>2. ModsTyped /\ ran = <<>> /\ err = 0 /\ AsMeant
  BY <1>1, LinkingFacts DEF ExitInv, Faultless
<1>3. Kept /\ AllInstantiated
  BY StartsToEvaluate
<1>4. AsMeant' /\ Modules' = Modules /\ \A m \in Modules : Fault(m)' = Fault(m)
  BY <1>2, <1>3, KeptMeant
<1>5. \A m : ~Entered(m)
  <2>1. Len(stack) = 0
    BY <1>1
  <2> QED BY <2>1 DEF Entered
<1>6. \A m \in Modules : Binds(m)'
  BY <1>1, <1>3, <1>4, <1>5 DEF ExitInv, Faultless, AllInstantiated, Binds
<1>7. Faultless'
  <2>1. Len(ran') = 0
    BY <1>1, <1>2
  <2> QED BY <1>1, <1>2, <1>4, <1>6, <2>1 DEF Faultless, Ran
<1> QED BY <1>4, <1>7 DEF ExitInv

LEMMA ExitRuns ==
    ASSUME Inv, ExitInv, js_evaluate_module
    PROVE  ExitInv'
<1>1. phase = "evaluate" /\ stack # <<>> /\ UNCHANGED files
  BY DEF js_evaluate_module
<1>2. ModsTyped /\ FramesTyped /\ RanTyped
  BY <1>1, EvaluatingFacts
<1>3. Kept
  BY Runs
<1>4. AsMeant /\ err = 0 /\ \A m \in Modules : Binds(m) /\ (Ran(m) => Fault(m) # "throw")
  BY <1>1 DEF ExitInv, Faultless
<1>5. AsMeant' /\ Modules' = Modules /\ \A m \in Modules : Fault(m)' = Fault(m)
  BY <1>2, <1>3, <1>4, KeptMeant
<1>6. \A m \in Modules : Binds(m)'
  BY <1>4, <1>5 DEF Binds
<1>7. PICK t : t = Top.m
  OBVIOUS
<1>8. t \in Modules
  BY <1>1, <1>2, <1>7, TopFacts
<1>9. CASE UNCHANGED <<phase, err, ran>>
  <2>1. \A m \in Modules : Ran(m)' => Ran(m)
    BY <1>9 DEF Ran
  <2> QED BY <1>1, <1>4, <1>5, <1>6, <1>9, <2>1 DEF ExitInv, Faultless
<1>10. CASE ran' = Append(ran, Top.m) /\ Fault(Top.m) # "throw" /\ UNCHANGED <<phase, err>>
  <2>1. \A m \in Modules : Ran(m)' => Ran(m) \/ m = t
    <3>1. PICK r, q : r = ran /\ q = ran'
      OBVIOUS
    <3>2. r \in Seq(Nat) /\ q = Append(r, t) /\ t \in Nat
      BY <1>2, <1>7, <1>8, <1>10, <3>1, Basics DEF RanTyped
    <3>3. \A a \in 1..Len(q) : q[a] = t \/ (a \in 1..Len(r) /\ q[a] = r[a])
      BY <3>2
    <3> QED BY <3>1, <3>3 DEF Ran
  <2>2. \A m \in Modules : Ran(m)' => Fault(m)' # "throw"
    BY <1>4, <1>5, <1>7, <1>10, <2>1
  <2> QED BY <1>1, <1>4, <1>5, <1>6, <1>10, <2>2 DEF ExitInv, Faultless
<1>11. CASE Fail /\ Fault(Top.m) = "throw"
  <2>1. ~Sound(files)
    <3>1. Fault(t) # "none"
      BY <1>7, <1>11
    <3> QED BY <1>4, <1>8, <3>1, FaultUnsound
  <2>2. Faultless'
    BY <1>1, <1>11, <2>1, FailsAtFault
  <2> QED BY <1>5, <2>2 DEF ExitInv
<1> QED BY <1>1, <1>9, <1>10, <1>11 DEF js_evaluate_module

LEMMA ExitReturns ==
    ASSUME Inv, ExitInv, Return
    PROVE  ExitInv'
<1>1. phase = "evaluate" /\ phase' = "done" /\ UNCHANGED <<files, mods, stack, err, ran>>
  BY DEF Return
<1>2. ModsTyped /\ 1 \in Modules
  BY <1>1, EvaluatingFacts
<1>3. AsMeant /\ err = 0 /\ \A m \in Modules : Binds(m) /\ (Ran(m) => Fault(m) # "throw")
  BY <1>1 DEF ExitInv, Faultless
<1>4. AsMeant' /\ Modules' = Modules /\ \A m \in Modules : Fault(m)' = Fault(m)
  <2>1. Kept
    BY <1>1, <1>2, Unchanged
  <2> QED BY <1>2, <1>3, <2>1, KeptMeant
<1>5. Faultless'
  <2>1. \A m \in Modules : Binds(m)'
    BY <1>3, <1>4 DEF Binds
  <2>2. \A m \in Modules : Ran(m)' => Fault(m)' # "throw"
    BY <1>1, <1>3, <1>4 DEF Ran
  <2> QED BY <1>1, <1>2, <1>3, <1>4, <2>1, <2>2 DEF Faultless
<1> QED BY <1>4, <1>5 DEF ExitInv

LEMMA ExitNext ==
    ASSUME Inv, ExitInv, NamesAsMeant, [Next]_vars
    PROVE  ExitInv'
<1>1. CASE Next
  BY <1>1, ExitStarts, ExitResolves, ExitCreates, ExitLinks, ExitEvalFunction, ExitRuns,
     ExitReturns DEF Next
<1>2. CASE UNCHANGED vars
  <2>1. UNCHANGED <<files, mods, phase, stack, err, ran>>
    BY <1>2 DEF vars
  <2>2. Kept /\ ModsTyped
    BY <2>1, Unchanged DEF Inv, TypeInv
  <2>3. AsMeant' /\ Modules' = Modules /\ \A m \in Modules : Fault(m)' = Fault(m)
    BY <2>2, KeptMeant DEF ExitInv
  <2>4. Faultless'
    <3>1. \A m \in Modules : /\ Binds(m)' <=> Binds(m)
                             /\ Ran(m)' <=> Ran(m)
                             /\ Entered(m)' <=> Entered(m)
      BY <2>1, <2>3 DEF Binds, Ran, Entered
    <3>2. Faultless
      BY DEF ExitInv
    <3> QED BY <2>1, <2>3, <3>1, <3>2 DEF Faultless
  <2> QED BY <2>3, <2>4 DEF ExitInv
<1> QED BY <1>1, <1>2

-----------------------------------------------------------------------------
(* The name an import is looked for under, and the path it means.          *)
Ups(path, i) == {j \in 1..i : path[j] = ".."}
Place == [dir : Seq(STRING), rest : Seq(STRING)]
Walked(w, dir, path) ==
    /\ w \in [0..Len(path) -> Place] /\ w[0] = [dir |-> dir, rest |-> path]
    /\ \A n \in 1..Len(path) : w[n] = WorkedOff(w[n - 1])
    /\ Rebased(dir, path) = w[Len(path)].dir \o w[Len(path)].rest
Walks(w, dir, path) ==
    w = [n \in 0..Len(path) |->
            IF n = 0 THEN [dir |-> dir, rest |-> path] ELSE WorkedOff(w[n - 1])]
PathStep(d, e) ==
    IF e = "." THEN d ELSE IF e = ".." THEN Directory(d) ELSE Append(d, e)
Followed(t, dir, path) ==
    /\ t \in [0..Len(path) -> Seq(STRING)] /\ t[0] = dir
    /\ \A n \in 1..Len(path) : t[n] = PathStep(t[n - 1], path[n])
Steps(t, dir, path) ==
    t = [i \in 0..Len(path) |-> IF i = 0 THEN dir ELSE PathStep(t[i - 1], path[i])]

LEMMA Shortened ==
    ASSUME NEW S, NEW d \in Seq(S)
    PROVE  /\ Directory(d) \in Seq(S)
           /\ d # <<>> => /\ Len(Directory(d)) = Len(d) - 1
                          /\ \A j \in 1..(Len(d) - 1) : Directory(d)[j] = d[j]
                          /\ Tail(d) \in Seq(S) /\ Len(Tail(d)) = Len(d) - 1
                          /\ \A j \in 1..(Len(d) - 1) : Tail(d)[j] = d[j + 1]
<1>1. CASE d = <<>>
  BY <1>1 DEF Directory
<1>2. CASE d # <<>>
  <2>1. PICK n : n = Len(d) /\ n \in Nat /\ n >= 1
    BY <1>2
  <2>2. PICK p : p = SubSeq(d, 1, n - 1)
    OBVIOUS
  <2>3. p \in Seq(S) /\ Len(p) = n - 1 /\ \A j \in 1..(n - 1) : p[j] = d[j]
    BY <2>1, <2>2
  <2>4. PICK q : q = Tail(d)
    OBVIOUS
  <2>5. q \in Seq(S) /\ Len(q) = n - 1 /\ \A j \in 1..(n - 1) : q[j] = d[j + 1]
    BY <1>2, <2>1, <2>4
  <2>6. Directory(d) = p
    BY <1>2, <2>1, <2>2 DEF Directory
  <2> QED BY <2>1, <2>3, <2>4, <2>5, <2>6
<1> QED BY <1>1, <1>2

LEMMA Extended ==
    ASSUME NEW S, NEW d \in Seq(S), NEW e \in S, NEW v, v = Append(d, e)
    PROVE  /\ v \in Seq(S) /\ Len(v) = Len(d) + 1 /\ v[Len(d) + 1] = e
           /\ \A j \in 1..Len(d) : v[j] = d[j]
OBVIOUS

LEMMA Joined ==
    ASSUME NEW S, NEW d \in Seq(S), NEW r \in Seq(S), NEW v, v = d \o r
    PROVE  /\ v \in Seq(S) /\ Len(v) = Len(d) + Len(r)
           /\ \A j \in 1..Len(d) : v[j] = d[j]
           /\ \A j \in 1..Len(r) : v[Len(d) + j] = r[j]
OBVIOUS

LEMMA WorkedOffTyped ==
    ASSUME NEW s \in Place
    PROVE  WorkedOff(s) \in Place
<1>1. PICK d, r : d = s.dir /\ r = s.rest /\ s = [dir |-> d, rest |-> r]
  BY DEF Place
<1>2. d \in Seq(STRING) /\ r \in Seq(STRING)
  BY <1>1 DEF Place
<1>3. Directory(d) \in Seq(STRING) /\ (Len(r) > 1 => Tail(r) \in Seq(STRING))
  <2>1. r = <<>> => Len(r) = 0
    OBVIOUS
  <2> QED BY <1>2, <2>1, Shortened
<1>4. WorkedOff(s) = s \/ (Len(r) > 1 /\ WorkedOff(s) \in
          {[dir |-> d, rest |-> Tail(r)], [dir |-> Directory(d), rest |-> Tail(r)]})
  BY <1>1 DEF WorkedOff
<1>5. CASE WorkedOff(s) = s
  BY <1>5
<1>6. CASE Len(r) > 1 /\ WorkedOff(s) = [dir |-> d, rest |-> Tail(r)]
  BY <1>2, <1>3, <1>6 DEF Place
<1>7. CASE Len(r) > 1 /\ WorkedOff(s) = [dir |-> Directory(d), rest |-> Tail(r)]
  BY <1>2, <1>3, <1>7 DEF Place
<1> QED BY <1>4, <1>5, <1>6, <1>7

LEMMA PathStepTyped ==
    ASSUME NEW d \in Seq(STRING), NEW e \in STRING
    PROVE  PathStep(d, e) \in Seq(STRING)
<1>1. Directory(d) \in Seq(STRING)
  BY Shortened
<1>2. Append(d, e) \in Seq(STRING)
  BY Extended
<1> QED BY <1>1, <1>2 DEF PathStep

LEMMA WalkIs ==
    ASSUME NEW dir \in Seq(STRING), NEW path \in Seq(STRING)
    PROVE  \E w : Walked(w, dir, path)
<1>0. PICK base : base = [dir |-> dir, rest |-> path]
  OBVIOUS
<1>1. PICK L : L = Len(path) /\ L \in Nat /\ base = [dir |-> dir, rest |-> path]
  BY <1>0
<1> DEFINE step == [i \in 1..L |-> [s \in Place |-> WorkedOff(s)]]
<1>2. step \in [1..L -> [Place -> Place]] /\ base \in Place
  BY <1>1, WorkedOffTyped DEF Place
<1>3. \A i \in 1..L : \A s \in Place : step[i][s] = WorkedOff(s)
  OBVIOUS
<1> HIDE DEF step
<1>4. PICK f : Computes(f, L, Place, base, step)
  BY <1>1, <1>2, RecursionDefines
<1>5. Walks(f, dir, path)
  <2>1. f \in [0..L -> Place] /\ f[0] = base /\ \A i \in 1..L : f[i] = step[i][f[i - 1]]
    BY <1>4 DEF Computes
  <2>2. ASSUME NEW n \in 0..L PROVE f[n] = IF n = 0 THEN base ELSE WorkedOff(f[n - 1])
    <3>1. CASE n = 0
      BY <2>1, <3>1
    <3>2. CASE n # 0
      <4>1. n \in 1..L /\ n - 1 \in 0..L
        BY <1>1, <3>2
      <4> QED BY <1>3, <2>1, <3>2, <4>1
    <3> QED BY <3>1, <3>2
  <2>3. f = [n \in 0..L |-> f[n]]
    BY <2>1
  <2> QED BY <1>1, <2>2, <2>3, Zenon DEF Walks
<1> DEFINE after == CHOOSE w : Walks(w, dir, path)
<1>6. Rebased(dir, path) = after[L].dir \o after[L].rest
  BY <1>1 DEF Rebased, Walks
<1>7. Walks(after, dir, path)
  BY <1>5
<1> HIDE DEF after
<1>8. after = [n \in 0..L |-> IF n = 0 THEN base ELSE WorkedOff(after[n - 1])]
  BY <1>1, <1>7, Zenon DEF Walks
<1>9. \A n \in 0..L : after[n] = IF n = 0 THEN base ELSE WorkedOff(after[n - 1])
  BY <1>8, Zenon
<1>10. after[0] = base /\ \A n \in 1..L : n \in 0..L /\ after[n] = WorkedOff(after[n - 1])
  BY <1>1, <1>9
<1>11. after \in [0..L -> Place]
  <2> DEFINE Good == {n \in 0..L : after[n] \in Place}
  <2>1. 0 \in Good
    BY <1>1, <1>2, <1>10
  <2>2. ASSUME NEW n \in 0..L, n \in Good, n < L PROVE n + 1 \in Good
    <3>1. n + 1 \in 1..L /\ n + 1 \in 0..L /\ (n + 1) - 1 = n
      BY <1>1, <2>2
    <3> QED BY <1>10, <2>2, <3>1, WorkedOffTyped
  <2> HIDE DEF Good
  <2>3. \A n \in 0..L : n \in Good
    BY <1>1, <2>1, <2>2, InductionUpTo
  <2>4. \A n \in 0..L : after[n] \in Place
    BY <2>3 DEF Good
  <2> QED BY <1>8, <2>4, Zenon
<1> QED BY <1>1, <1>6, <1>10, <1>11 DEF Walked

LEMMA PathIs ==
    ASSUME NEW f, NEW spec, spec.path \in Seq(STRING), IsDots(spec.path[1]),
           NEW dir \in Seq(STRING), dir = Directory(f.path)
    PROVE  \E t : Followed(t, dir, spec.path) /\ PathOf(f, spec) = t[Len(spec.path)]
<1>1. PICK path, L : path = spec.path /\ L = Len(path) /\ L \in Nat /\ path \in Seq(STRING)
  OBVIOUS
<1> DEFINE step == [i \in 1..L |-> [d \in Seq(STRING) |-> PathStep(d, path[i])]]
<1>2. step \in [1..L -> [Seq(STRING) -> Seq(STRING)]]
  <2>1. ASSUME NEW i \in 1..L, NEW d \in Seq(STRING) PROVE PathStep(d, path[i]) \in Seq(STRING)
    <3>1. path[i] \in STRING
      BY <1>1
    <3> QED BY <3>1, PathStepTyped
  <2> QED BY <2>1
<1>3. \A i \in 1..L : \A d \in Seq(STRING) : step[i][d] = PathStep(d, path[i])
  OBVIOUS
<1> HIDE DEF step
<1>4. PICK g : Computes(g, L, Seq(STRING), dir, step)
  BY <1>1, <1>2, RecursionDefines
<1>5. Steps(g, dir, path)
  <2>1. g \in [0..L -> Seq(STRING)] /\ g[0] = dir /\ \A i \in 1..L : g[i] = step[i][g[i - 1]]
    BY <1>4 DEF Computes
  <2>2. ASSUME NEW n \in 0..L PROVE g[n] = IF n = 0 THEN dir ELSE PathStep(g[n - 1], path[n])
    <3>1. CASE n = 0
      BY <2>1, <3>1
    <3>2. CASE n # 0
      <4>1. n \in 1..L /\ n - 1 \in 0..L
        BY <1>1, <3>2
      <4> QED BY <1>3, <2>1, <3>2, <4>1
    <3> QED BY <3>1, <3>2
  <2>3. g = [n \in 0..L |-> g[n]]
    BY <2>1
  <2> QED BY <1>1, <2>2, <2>3, Zenon DEF Steps
<1> DEFINE t == CHOOSE t : Steps(t, dir, path)
<1>6. PathOf(f, spec) = t[L]
  BY <1>1 DEF PathOf, Steps, PathStep
<1>7. Steps(t, dir, path)
  BY <1>5
<1> HIDE DEF t
<1>8. t = [n \in 0..L |-> IF n = 0 THEN dir ELSE PathStep(t[n - 1], path[n])]
  BY <1>1, <1>7, Zenon DEF Steps
<1>9. \A n \in 0..L : t[n] = IF n = 0 THEN dir ELSE PathStep(t[n - 1], path[n])
  BY <1>8, Zenon
<1>10. t[0] = dir /\ \A n \in 1..L : n \in 0..L /\ t[n] = PathStep(t[n - 1], path[n])
  BY <1>1, <1>9
<1>11. t \in [0..L -> Seq(STRING)]
  <2> DEFINE Good == {n \in 0..L : t[n] \in Seq(STRING)}
  <2>1. 0 \in Good
    BY <1>1, <1>10
  <2>2. ASSUME NEW n \in 0..L, n \in Good, n < L PROVE n + 1 \in Good
    <3>1. n + 1 \in 1..L /\ n + 1 \in 0..L /\ (n + 1) - 1 = n /\ path[n + 1] \in STRING
      BY <1>1, <2>2
    <3> QED BY <1>10, <2>2, <3>1, PathStepTyped
  <2> HIDE DEF Good
  <2>3. \A n \in 0..L : n \in Good
    BY <1>1, <2>1, <2>2, InductionUpTo
  <2>4. \A n \in 0..L : t[n] \in Seq(STRING)
    BY <2>3 DEF Good
  <2> QED BY <1>8, <2>4, Zenon
<1> QED BY <1>1, <1>6, <1>10, <1>11 DEF Followed

(* The directories that are left after some leading dots.                  *)
LEMMA UpsCount ==
    ASSUME NEW path, NEW n \in Nat
    PROVE  /\ Cardinality(Ups(path, n)) \in Nat /\ Cardinality(Ups(path, 0)) = 0
           /\ Cardinality(Ups(path, n)) <= Cardinality(Ups(path, n + 1))
           /\ Cardinality(Ups(path, n + 1)) =
                  IF path[n + 1] = ".." THEN Cardinality(Ups(path, n)) + 1
                  ELSE Cardinality(Ups(path, n))
<1>1. IsFiniteSet(Ups(path, n)) /\ IsFiniteSet(Ups(path, n + 1))
  <2>1. \A m \in Nat : IsFiniteSet(Ups(path, m))
    <3>1. ASSUME NEW m \in Nat PROVE IsFiniteSet(Ups(path, m))
      <4>1. IsFiniteSet(1..m)
        BY FS_Interval
      <4>2. Ups(path, m) \in SUBSET (1..m)
        BY DEF Ups
      <4> QED BY <4>1, <4>2, FS_Subset
    <3> QED BY <3>1
  <2> QED BY <2>1
<1>2. Ups(path, n + 1) = IF path[n + 1] = ".." THEN Ups(path, n) \cup {n + 1} ELSE Ups(path, n)
  BY DEF Ups
<1>3. n + 1 \notin Ups(path, n)
  BY DEF Ups
<1>4. Cardinality(Ups(path, n)) \in Nat
  BY <1>1, FS_CardinalityType
<1>5. Cardinality(Ups(path, n) \cup {n + 1}) = Cardinality(Ups(path, n)) + 1
  BY <1>1, <1>3, FS_AddElement
<1>6. Ups(path, 0) = {}
  BY DEF Ups
<1> QED BY <1>2, <1>4, <1>5, <1>6, FS_EmptySet

LEMMA UpsGrow ==
    ASSUME NEW path, NEW p \in Nat
    PROVE  \A n \in 0..p : Cardinality(Ups(path, n)) <= Cardinality(Ups(path, p))
<1>1. IsFiniteSet(Ups(path, p))
  <2>1. IsFiniteSet(1..p) /\ Ups(path, p) \in SUBSET (1..p)
    BY FS_Interval DEF Ups
  <2> QED BY <2>1, FS_Subset
<1>2. \A n \in 0..p : Ups(path, n) \in SUBSET Ups(path, p)
  BY DEF Ups
<1> QED BY <1>1, <1>2, FS_Subset

LEMMA WorkedOffIs ==
    ASSUME NEW s \in Place
    PROVE  /\ Len(s.rest) > 1 /\ s.rest[1] = "." =>
                  WorkedOff(s).dir = s.dir /\ WorkedOff(s).rest = Tail(s.rest)
           /\ Len(s.rest) > 1 /\ s.rest[1] = ".." /\ s.dir # <<>> /\ ~IsDots(s.dir[Len(s.dir)]) =>
                  WorkedOff(s).dir = Directory(s.dir) /\ WorkedOff(s).rest = Tail(s.rest)
           /\ ~IsDots(s.rest[1]) => WorkedOff(s) = s
<1>1. PICK d, r : d = s.dir /\ r = s.rest /\ s = [dir |-> d, rest |-> r]
  BY DEF Place
<1>2. ASSUME Len(s.rest) > 1, s.rest[1] = "."
      PROVE  WorkedOff(s).dir = s.dir /\ WorkedOff(s).rest = Tail(s.rest)
  <2>1. PICK q, c, u : q = WorkedOff(s) /\ c = d /\ u = Tail(r)
    OBVIOUS
  <2>2. q = [dir |-> c, rest |-> u]
    BY <1>1, <1>2, <2>1 DEF WorkedOff
  <2>3. q.dir = c /\ q.rest = u
    BY <2>2
  <2> QED BY <1>1, <2>1, <2>3
<1>3. ASSUME Len(s.rest) > 1, s.rest[1] = "..", s.dir # <<>>, ~IsDots(s.dir[Len(s.dir)])
      PROVE  WorkedOff(s).dir = Directory(s.dir) /\ WorkedOff(s).rest = Tail(s.rest)
  <2>1. PICK q, c, u : q = WorkedOff(s) /\ c = Directory(d) /\ u = Tail(r)
    OBVIOUS
  <2>2. q = [dir |-> c, rest |-> u]
    BY <1>1, <1>3, <2>1 DEF WorkedOff
  <2>3. q.dir = c /\ q.rest = u
    BY <2>2
  <2> QED BY <1>1, <2>1, <2>3
<1>4. ~IsDots(r[1]) => WorkedOff(s) = s
  BY <1>1 DEF WorkedOff, IsDots
<1> QED BY <1>1, <1>2, <1>3, <1>4

LEMMA SameElements ==
    ASSUME NEW S, NEW s \in Seq(S), NEW t \in Seq(S), Len(s) = Len(t),
           \A j \in 1..Len(s) : s[j] = t[j]
    PROVE  s = t
<1>1. s = [j \in 1..Len(s) |-> s[j]] /\ t = [j \in 1..Len(t) |-> t[j]]
  OBVIOUS
<1> QED BY <1>1

(* Leading dots are worked off as they are meant.                          *)
LEMMA RebasedMeant ==
    ASSUME NEW dir \in Seq(STRING), NEW path \in Seq(STRING), LeadingDots(path, Len(dir)),
           \A j \in 1..Len(dir) : ~IsDots(dir[j]),
           NEW t, Followed(t, dir, path)
    PROVE  Rebased(dir, path) = t[Len(path)]
<1>0. Len(path) \in Nat /\ Len(dir) \in Nat
  OBVIOUS
<1>1. PICK L, D : L = Len(path) /\ L \in Nat /\ D = Len(dir) /\ D \in Nat
  BY <1>0
<1>2. PICK p \in 1..(L - 1) :
          /\ \A j \in 1..L : IsDots(path[j]) <=> j <= p
          /\ Cardinality(Ups(path, p)) <= D
  BY <1>1 DEF LeadingDots, Ups
<1>3. p \in Nat /\ p >= 1 /\ p < L /\ p + 1 \in 1..L /\ ~IsDots(path[p + 1])
  <2>1. p \in Nat /\ p >= 1 /\ p < L /\ p + 1 \in 1..L /\ ~(p + 1 <= p)
    BY <1>1
  <2> QED BY <1>2, <2>1
<1>4. PICK w : /\ w \in [0..L -> Place] /\ w[0] = [dir |-> dir, rest |-> path]
               /\ \A n \in 1..L : w[n] = WorkedOff(w[n - 1])
               /\ Rebased(dir, path) = w[L].dir \o w[L].rest
  <2>1. PICK w : Walked(w, dir, path)
    BY WalkIs
  <2> QED BY <1>1, <2>1 DEF Walked
<1>5. /\ \A n \in 0..L : w[n] \in Place /\ w[n].dir \in Seq(STRING) /\ w[n].rest \in Seq(STRING)
      /\ \A n \in 0..L : t[n] \in Seq(STRING)
      /\ \A n \in 0..L : n < L => /\ n + 1 \in 0..L /\ n + 1 \in 1..L
                                   /\ w[n + 1] = WorkedOff(w[n])
                                   /\ t[n + 1] = PathStep(t[n], path[n + 1])
  <2>1. \A n \in 0..L : n < L => n + 1 \in 0..L /\ n + 1 \in 1..L /\ (n + 1) - 1 = n
    BY <1>1
  <2>2. \A n \in 0..L : w[n] \in Place
    BY <1>4
  <2>3. \A n \in 0..L : w[n].dir \in Seq(STRING) /\ w[n].rest \in Seq(STRING)
    BY <2>2 DEF Place
  <2>4. /\ t \in [0..L -> Seq(STRING)]
        /\ \A n \in 1..L : t[n] = PathStep(t[n - 1], path[n])
    BY <1>1 DEF Followed
  <2> QED BY <1>4, <2>1, <2>2, <2>3, <2>4
<1> DEFINE Left(n) == /\ w[n].dir = t[n] /\ Len(t[n]) + Cardinality(Ups(path, n)) = D
                      /\ \A j \in 1..Len(t[n]) : ~IsDots(t[n][j])
                      /\ Len(w[n].rest) = L - n
                      /\ \A j \in 1..(L - n) : w[n].rest[j] = path[n + j]
           Good == {n \in 0..p : Left(n)}
<1>6. 0 \in Good
  <2>1. w[0].dir = dir /\ w[0].rest = path /\ t[0] = dir
    BY <1>4 DEF Followed
  <2>2. Cardinality(Ups(path, 0)) = 0
    BY UpsCount
  <2>3. Len(t[0]) + Cardinality(Ups(path, 0)) = D /\ \A j \in 1..Len(t[0]) : ~IsDots(t[0][j])
    BY <1>1, <2>1, <2>2
  <2>4. Len(w[0].rest) = L /\ L - 0 = L
    BY <1>1, <2>1
  <2>5. \A j \in 1..(L - 0) : 0 + j = j
    BY <1>1
  <2>6. \A j \in 1..(L - 0) : w[0].rest[j] = path[0 + j]
    BY <2>1, <2>5
  <2>7. Left(0)
    BY <2>1, <2>3, <2>4, <2>6
  <2> QED BY <1>3, <2>7
<1>7. ASSUME NEW n \in 0..p, n \in Good, n < p PROVE n + 1 \in Good
  <2>0. n \in 0..p /\ n < p
    BY <1>7
  <2>1. n \in Nat /\ n \in 0..L /\ n < L /\ n + 1 \in 0..p /\ L - n > 1 /\ n + 1 \in 1..L
    BY <1>1, <1>3, <2>0
  <2>2. PICK d, r, e : d = t[n] /\ r = w[n].rest /\ e = path[n + 1]
    OBVIOUS
  <2>3. /\ w[n].dir = d /\ Len(d) + Cardinality(Ups(path, n)) = D
        /\ \A j \in 1..Len(d) : ~IsDots(d[j])
        /\ Len(r) = L - n /\ \A j \in 1..(L - n) : r[j] = path[n + j]
    BY <1>7, <2>2
  <2>4. d \in Seq(STRING) /\ r \in Seq(STRING) /\ w[n] \in Place
    BY <1>5, <2>1, <2>2
  <2>5. r[1] = e /\ (e = "." \/ e = "..") /\ r # <<>> /\ Len(d) \in Nat
    <3>1. 1 \in 1..(L - n) /\ n + 1 <= p
      BY <1>1, <1>3, <2>0, <2>1
    <3>2. IsDots(e)
      BY <1>2, <2>1, <2>2, <3>1
    <3>3. r[1] = e
      BY <2>2, <2>3, <3>1
    <3> QED BY <2>1, <2>3, <2>4, <3>2, <3>3 DEF IsDots
  <2>6. /\ Len(Tail(r)) = L - (n + 1)
        /\ \A j \in 1..(L - (n + 1)) : Tail(r)[j] = path[(n + 1) + j]
    <3>1. Len(Tail(r)) = Len(r) - 1 /\ \A j \in 1..(Len(r) - 1) : Tail(r)[j] = r[j + 1]
      BY <2>4, <2>5, Shortened
    <3>2. \A j \in 1..(L - (n + 1)) :
              j \in 1..(Len(r) - 1) /\ j + 1 \in 1..(L - n) /\ n + (j + 1) = (n + 1) + j
      BY <1>1, <2>1, <2>3
    <3> QED BY <1>1, <2>1, <2>3, <3>1, <3>2
  <2>7. w[n + 1] = WorkedOff(w[n]) /\ t[n + 1] = PathStep(d, e)
    BY <1>5, <2>1, <2>2
  <2>8. CASE e = "."
    <3>1. w[n + 1].dir = d /\ w[n + 1].rest = Tail(r)
      BY <2>1, <2>2, <2>3, <2>4, <2>5, <2>7, <2>8, WorkedOffIs
    <3>2. t[n + 1] = d
      BY <2>7, <2>8 DEF PathStep
    <3>3. Cardinality(Ups(path, n + 1)) = Cardinality(Ups(path, n))
      BY <2>1, <2>2, <2>8, UpsCount
    <3>4. Left(n + 1)
      BY <2>3, <2>6, <3>1, <3>2, <3>3
    <3> QED BY <2>1, <3>4
  <2>9. CASE e = ".."
    <3>1. /\ Cardinality(Ups(path, n + 1)) = Cardinality(Ups(path, n)) + 1
          /\ Cardinality(Ups(path, n)) \in Nat
      BY <2>1, <2>2, <2>9, UpsCount
    <3>2. Cardinality(Ups(path, n + 1)) <= D
      <4>1. Cardinality(Ups(path, n + 1)) <= Cardinality(Ups(path, p))
        BY <1>3, <2>1, UpsGrow
      <4>2. Cardinality(Ups(path, p)) \in Nat
        BY <1>3, UpsCount
      <4> QED BY <1>1, <1>2, <3>1, <4>1, <4>2
    <3>3. Len(d) >= 1 /\ d # <<>> /\ ~IsDots(d[Len(d)])
      <4>1. Len(d) >= 1
        BY <1>1, <2>3, <2>5, <3>1, <3>2
      <4>2. Len(d) \in 1..Len(d)
        BY <2>5, <4>1
      <4> QED BY <2>3, <4>1, <4>2
    <3>4. w[n + 1].dir = Directory(d) /\ w[n + 1].rest = Tail(r)
      BY <2>1, <2>2, <2>3, <2>4, <2>5, <2>7, <2>9, <3>3, WorkedOffIs
    <3>5. t[n + 1] = Directory(d)
      BY <2>7, <2>9 DEF PathStep
    <3>6. Len(Directory(d)) = Len(d) - 1 /\ \A j \in 1..(Len(d) - 1) : Directory(d)[j] = d[j]
      BY <2>4, <3>3, Shortened
    <3>7. \A j \in 1..Len(Directory(d)) : ~IsDots(Directory(d)[j])
      <4>1. \A j \in 1..(Len(d) - 1) : j \in 1..Len(d)
        BY <2>5
      <4> QED BY <2>3, <3>6, <4>1
    <3>8. Len(Directory(d)) + Cardinality(Ups(path, n + 1)) = D
      <4>1. PICK l, c : l = Len(d) /\ c = Cardinality(Ups(path, n))
        OBVIOUS
      <4>2. l \in Nat /\ c \in Nat /\ l + c = D
        BY <2>3, <2>5, <3>1, <4>1
      <4>3. (l - 1) + (c + 1) = D
        BY <1>1, <4>2
      <4> QED BY <3>1, <3>6, <4>1, <4>3
    <3>9. Left(n + 1)
      BY <2>6, <3>4, <3>5, <3>7, <3>8
    <3> QED BY <2>1, <3>9
  <2> QED BY <2>5, <2>8, <2>9
<1> HIDE DEF Good
<1>8. Left(p)
  <2>1. \A n \in 0..p : n \in Good
    BY <1>3, <1>6, <1>7, InductionUpTo
  <2>2. p \in 0..p
    BY <1>3
  <2>3. p \in Good
    BY <2>1, <2>2
  <2> QED BY <2>3 DEF Good
<1> HIDE DEF Left
<1>9. PICK d, r, l : d = t[p] /\ r = w[p].rest /\ l = Len(d)
  OBVIOUS
<1>10. /\ d \in Seq(STRING) /\ r \in Seq(STRING) /\ l \in Nat
       /\ w[p].dir = d /\ Len(r) = L - p /\ \A j \in 1..(L - p) : r[j] = path[p + j]
       /\ w[p] \in Place
  <2>1. p \in 0..L
    BY <1>1, <1>3
  <2> QED BY <1>5, <1>8, <1>9, <2>1 DEF Left
<1> DEFINE Fixed(n) == /\ w[n] = w[p] /\ Len(t[n]) = l + (n - p)
                       /\ \A j \in 1..l : t[n][j] = d[j]
                       /\ \A j \in 1..(n - p) : t[n][l + j] = path[p + j]
           Rest == {n \in 0..L : n >= p => Fixed(n)}
<1>11. Fixed(p)
  <2>1. l + (p - p) = l /\ 1..(p - p) = {}
    BY <1>3, <1>10
  <2> QED BY <1>9, <2>1
<1>12. 0 \in Rest
  BY <1>1, <1>3
<1>13. ASSUME NEW n \in 0..L, n \in Rest, n < L PROVE n + 1 \in Rest
  <2>1. CASE n + 1 < p
    BY <1>3, <1>5, <1>13, <2>1
  <2>2. CASE n + 1 = p
    BY <1>5, <1>11, <1>13, <2>2
  <2>3. CASE n >= p
    <3>1. PICK u, e : u = t[n] /\ e = path[n + 1]
      OBVIOUS
    <3>2. /\ w[n] = w[p] /\ Len(u) = l + (n - p) /\ \A j \in 1..l : u[j] = d[j]
          /\ \A j \in 1..(n - p) : u[l + j] = path[p + j]
      BY <1>13, <2>3, <3>1
    <3>3. ~IsDots(e) /\ e \in STRING /\ u \in Seq(STRING)
      <4>1. n + 1 \in 1..L /\ ~(n + 1 <= p)
        BY <1>1, <1>3, <1>13, <2>3
      <4> QED BY <1>1, <1>2, <1>5, <3>1, <4>1
    <3>4. w[n + 1] = w[p]
      <4>1. r[1] = path[p + 1]
        BY <1>1, <1>3, <1>10
      <4>2. WorkedOff(w[p]) = w[p]
        BY <1>3, <1>9, <1>10, <4>1, WorkedOffIs
      <4> QED BY <1>5, <1>13, <3>2, <4>2
    <3>5. t[n + 1] = Append(u, e)
      BY <1>5, <1>13, <3>1, <3>3 DEF PathStep, IsDots
    <3>6. /\ Len(t[n + 1]) = Len(u) + 1 /\ t[n + 1][Len(u) + 1] = e
          /\ \A j \in 1..Len(u) : t[n + 1][j] = u[j]
      <4>1. PICK v : v = t[n + 1] /\ v = Append(u, e)
        BY <3>5
      <4>2. Len(v) = Len(u) + 1 /\ v[Len(u) + 1] = e /\ \A j \in 1..Len(u) : v[j] = u[j]
        <5>1. PICK S : u \in Seq(S) /\ e \in S
          BY <3>3
        <5> QED BY <4>1, <5>1, Extended
      <4> QED BY <4>1, <4>2
    <3>7. /\ Len(u) + 1 = l + ((n + 1) - p) /\ \A j \in 1..l : j \in 1..Len(u)
          /\ \A j \in 1..(n - p) : l + j \in 1..Len(u)
          /\ \A j \in 1..((n + 1) - p) : j \notin 1..(n - p) =>
                 l + j = Len(u) + 1 /\ p + j = n + 1
      <4>1. PICK c : c = Len(u)
        OBVIOUS
      <4>2. c = l + (n - p) /\ l \in Nat /\ n \in Nat /\ p \in Nat /\ n >= p
        BY <1>1, <1>3, <1>10, <1>13, <2>3, <3>2, <4>1
      <4>3. /\ c + 1 = l + ((n + 1) - p) /\ \A j \in 1..l : j \in 1..c
            /\ \A j \in 1..(n - p) : l + j \in 1..c
            /\ \A j \in 1..((n + 1) - p) : j \notin 1..(n - p) =>
                   l + j = c + 1 /\ p + j = n + 1
        BY <4>2
      <4> QED BY <4>1, <4>3
    <3>8. Fixed(n + 1)
      <4>1. PICK v : v = t[n + 1]
        OBVIOUS
      <4>2. Len(v) = l + ((n + 1) - p) /\ \A j \in 1..l : v[j] = d[j]
        BY <3>2, <3>6, <3>7, <4>1
      <4>3. ASSUME NEW j \in 1..((n + 1) - p) PROVE v[l + j] = path[p + j]
        <5>1. CASE j \in 1..(n - p)
          BY <3>2, <3>6, <3>7, <4>1, <5>1
        <5>2. CASE j \notin 1..(n - p)
          BY <3>1, <3>6, <3>7, <4>1, <5>2
        <5> QED BY <5>1, <5>2
      <4> QED BY <3>4, <4>1, <4>2, <4>3
    <3> QED BY <1>5, <1>13, <3>8
  <2> QED BY <1>1, <1>3, <1>13, <2>1, <2>2, <2>3
<1> HIDE DEF Rest
<1>14. Fixed(L)
  <2>1. \A n \in 0..L : n \in Rest
    BY <1>1, <1>12, <1>13, InductionUpTo
  <2>2. L \in Rest /\ L >= p
    BY <1>1, <1>3, <2>1
  <2> QED BY <2>2 DEF Rest
<1>15. PICK x, y : x = d \o r /\ y = t[L]
  OBVIOUS
<1>16. Rebased(dir, path) = x
  BY <1>4, <1>9, <1>10, <1>14, <1>15
<1>17. /\ x \in Seq(STRING) /\ Len(x) = l + (L - p)
       /\ (\A j \in 1..l : x[j] = d[j]) /\ \A j \in 1..(L - p) : x[l + j] = path[p + j]
  <2>1. /\ x \in Seq(STRING) /\ Len(x) = Len(d) + Len(r)
        /\ \A j \in 1..Len(d) : x[j] = d[j]
        /\ \A j \in 1..Len(r) : x[Len(d) + j] = r[j]
    <3>1. PICK S : S = STRING
      OBVIOUS
    <3>2. d \in Seq(S) /\ r \in Seq(S) /\ x = d \o r
      BY <1>10, <1>15, <3>1
    <3>3. /\ x \in Seq(S) /\ Len(x) = Len(d) + Len(r)
          /\ \A j \in 1..Len(d) : x[j] = d[j]
          /\ \A j \in 1..Len(r) : x[Len(d) + j] = r[j]
      BY <3>2, Joined
    <3> QED BY <3>1, <3>3
  <2>2. Len(d) = l /\ Len(r) = L - p
    BY <1>9, <1>10
  <2> QED BY <1>10, <2>1, <2>2
<1>18. /\ y \in Seq(STRING) /\ Len(y) = l + (L - p)
       /\ (\A j \in 1..l : y[j] = d[j]) /\ \A j \in 1..(L - p) : y[l + j] = path[p + j]
  BY <1>1, <1>5, <1>14, <1>15
<1>19. ASSUME NEW j \in 1..(l + (L - p)) PROVE x[j] = y[j]
  <2>1. CASE j <= l
    BY <1>10, <1>17, <1>18, <2>1
  <2>2. CASE j > l
    <3>1. j - l \in 1..(L - p) /\ j = l + (j - l)
      <4>1. PICK a : a = L - p /\ a \in Nat
        BY <1>1, <1>3
      <4>2. j \in 1..(l + a) /\ l \in Nat
        BY <1>10, <4>1
      <4>3. j - l \in 1..a /\ j = l + (j - l)
        BY <2>2, <4>1, <4>2
      <4> QED BY <4>1, <4>3
    <3>2. PICK i \in 1..(L - p) : j = l + i
      BY <3>1
    <3>3. x[l + i] = path[p + i] /\ y[l + i] = path[p + i]
      BY <1>17, <1>18
    <3> QED BY <3>2, <3>3
  <2> QED BY <1>10, <2>1, <2>2
<1>20. x = y
  BY <1>17, <1>18, <1>19, SameElements
<1> QED BY <1>1, <1>15, <1>16, <1>20

PlainNames == \A fs \in FileSystems : PlainNamesIn(fs)

(* js_default_module_normalize_name makes of a specifier the path it means *)
(* for the importing file, of however many leading "." and ".." and in     *)
(* whatever directory, if names are plain.                                 *)
THEOREM NormalizesAsMeant == PlainNames => NamesAsMeant
<1> SUFFICES ASSUME PlainNames PROVE NamesAsMeant
  OBVIOUS
<1>1. ASSUME NEW fs \in FileSystems, NEW f \in DOMAIN fs, NEW i \in 1..Len(fs[f].imports),
             NEW s, s = fs[f].imports[i],
             NEW base, base = IF fs[f].kind = "bytecode" THEN NoName ELSE f
      PROVE  /\ s.ext \in {"js", "bc"}
             /\ js_default_module_normalize_name(base, s) = [s EXCEPT !.path = PathOf(f, s)]
  <2>1. /\ s \in Names /\ f \in Names
    BY <1>1, FilesAssumption, DiskAssumption
  <2>2. PICK path, dir : path = s.path /\ dir = Directory(f.path)
    OBVIOUS
  <2>3. /\ s.ext \in {"js", "bc"}
        /\ IsDots(path[1]) =>
              /\ fs[f].kind = "bytecode" => dir = <<>>
              /\ \A j \in 1..Len(dir) : ~IsDots(dir[j])
              /\ LeadingDots(path, Len(dir))
    BY <1>1, <2>2 DEF PlainNames, PlainNamesIn
  <2>4. path \in Seq(STRING) /\ dir \in Seq(STRING)
    <3>1. s.path \in Seq(STRING) /\ f.path \in Seq(STRING)
      BY <2>1 DEF Names
    <3> QED BY <2>2, <3>1, Shortened
  <2>5. CASE ~IsDots(path[1])
    <3>1. PathOf(f, s) = path
      BY <2>2, <2>5 DEF PathOf
    <3>2. js_default_module_normalize_name(base, s) = s
      BY <2>2, <2>5 DEF js_default_module_normalize_name
    <3>3. s = [s EXCEPT !.path = path]
      BY <2>1, <2>2 DEF Names
    <3> QED BY <2>3, <3>1, <3>2, <3>3
  <2>6. CASE IsDots(path[1])
    <3>1. Directory(base.path) = dir
      <4>1. CASE fs[f].kind = "bytecode"
        <5>1. base.path = <<>>
          BY <1>1, <4>1 DEF NoName
        <5> QED BY <2>3, <2>6, <4>1, <5>1 DEF Directory
      <4>2. CASE fs[f].kind # "bytecode"
        BY <1>1, <2>2, <4>2
      <4> QED BY <4>1, <4>2
    <3>2. PICK t : Followed(t, dir, path) /\ PathOf(f, s) = t[Len(path)]
      BY <2>2, <2>4, <2>6, PathIs
    <3>3. Rebased(dir, path) = PathOf(f, s)
      BY <2>3, <2>4, <2>6, <3>2, RebasedMeant
    <3>4. js_default_module_normalize_name(base, s) = [s EXCEPT !.path = Rebased(dir, path)]
      BY <2>2, <2>6, <3>1 DEF js_default_module_normalize_name
    <3> QED BY <2>3, <3>3, <3>4
  <2> QED BY <2>5, <2>6
<1> QED BY <1>1 DEF NamesAsMeant, NamesMeantIn

-----------------------------------------------------------------------------
(* Which files are reached.                                                *)

(* A function that adds to the subsets of a finite set stops adding before *)
(* it was applied as often as the set has elements.                        *)
Grows(D, n, more, f) ==
    /\ IsFiniteSet(D) /\ n = Cardinality(D)
    /\ more \in [SUBSET D -> SUBSET D] /\ \A S \in SUBSET D : S \subseteq more[S]
    /\ f \in [0..n -> SUBSET D] /\ \A i \in 1..n : f[i] = more[f[i - 1]]
LEMMA Stabilises ==
    ASSUME NEW D, NEW n, NEW more, NEW f, Grows(D, n, more, f)
    PROVE  more[f[n]] = f[n]
<1> USE DEF Grows
<1>1. n \in Nat
  BY FS_CardinalityType
<1>2. \A j \in 0..n : j < n => j + 1 \in 1..n /\ j + 1 \in 0..n /\ f[j + 1] = more[f[j]]
  BY <1>1
<1>3. ASSUME NEW k \in 0..n, more[f[k]] = f[k]
      PROVE  more[f[n]] = f[n]
  <2> DEFINE Good == {j \in 0..n : j >= k => f[j] = f[k]}
  <2>1. 0 \in Good
    BY <1>1
  <2>2. ASSUME NEW j \in 0..n, j \in Good, j < n PROVE j + 1 \in Good
    <3>1. j + 1 \in 0..n /\ f[j + 1] = more[f[j]]
      BY <1>2, <2>2
    <3>2. CASE j >= k
      BY <1>3, <2>2, <3>1, <3>2
    <3>3. CASE ~(j >= k)
      <4>1. j + 1 >= k => j + 1 = k
        BY <1>1, <3>3
      <4> QED BY <3>1, <4>1
    <3> QED BY <3>2, <3>3
  <2> HIDE DEF Good
  <2>3. \A j \in 0..n : j \in Good
    BY <1>1, <2>1, <2>2, InductionUpTo
  <2>4. n \in Good /\ n >= k
    BY <1>1, <2>3
  <2>5. f[n] = f[k]
    BY <2>4 DEF Good
  <2> QED BY <1>3, <2>5
<1>4. CASE \A k \in 0..n : more[f[k]] # f[k]
  <2> DEFINE Good == {j \in 0..n : Cardinality(f[j]) >= j}
  <2>1. ASSUME NEW j \in 0..n PROVE IsFiniteSet(f[j]) /\ Cardinality(f[j]) \in Nat
    <3>1. f[j] \in SUBSET D
      OBVIOUS
    <3>2. IsFiniteSet(f[j])
      BY <3>1, FS_Subset
    <3> QED BY <3>2, FS_CardinalityType
  <2>2. 0 \in Good
    BY <1>1, <2>1
  <2>3. ASSUME NEW j \in 0..n, j \in Good, j < n PROVE j + 1 \in Good
    <3>1. j + 1 \in 0..n /\ f[j + 1] = more[f[j]]
      BY <1>2, <2>3
    <3>2. f[j] \in SUBSET f[j + 1] /\ f[j] # f[j + 1]
      BY <1>4, <2>3, <3>1
    <3>3. IsFiniteSet(f[j + 1]) /\ Cardinality(f[j + 1]) \in Nat /\ Cardinality(f[j]) \in Nat
      BY <2>1, <3>1
    <3>4. Cardinality(f[j]) <= Cardinality(f[j + 1]) /\ Cardinality(f[j + 1]) # Cardinality(f[j])
      BY <3>2, <3>3, FS_Subset
    <3>5. Cardinality(f[j]) >= j
      BY <2>3
    <3>6. Cardinality(f[j + 1]) >= j + 1
      BY <2>3, <3>3, <3>4, <3>5
    <3> QED BY <3>1, <3>6
  <2> HIDE DEF Good
  <2>4. \A j \in 0..n : j \in Good
    BY <1>1, <2>2, <2>3, InductionUpTo
  <2>5. n \in 0..n /\ f[n] \in SUBSET D /\ Cardinality(f[n]) >= n
    BY <1>1, <2>4 DEF Good
  <2>6. Cardinality(f[n]) \in Nat /\ Cardinality(f[n]) <= n
    BY <2>1, <2>5, FS_Subset
  <2>7. f[n] = D
    BY <1>1, <2>5, <2>6, FS_Subset
  <2>8. more[D] = D
    <3>1. PICK T : T = SUBSET D
      OBVIOUS
    <3>2. D \in T /\ more[D] \in T /\ D \subseteq more[D]
      BY <3>1
    <3>3. more[D] \subseteq D
      BY <3>1, <3>2
    <3> QED BY <3>2, <3>3
  <2> QED BY <2>7, <2>8
<1> QED BY <1>1, <1>3, <1>4

-----------------------------------------------------------------------------
(* The files reached, as ModuleLoader computes them.                       *)
MoreOf(S) == S \cup UNION {UNION {FilesMeant(f, s) : s \in ImportsOf(f)} : f \in S}
Reaching(r) ==
    r = [n \in 0..Cardinality(DOMAIN files) |-> IF n = 0 THEN Start ELSE MoreOf(r[n - 1])]

LEMMA MoreIs ==
    \A S, g : g \in MoreOf(S) <=>
        g \in S \/ \E f \in S : \E i \in 1..Len(files[f].imports) : MeantAt(files, f, i, g)
BY MeaningIs DEF MoreOf, ImportsOf, MeantAt

LEMMA ReachedIs ==
    ASSUME files \in FileSystems
    PROVE  \A f : f \in Reached <=> Reaches(files, f)
<1>1. PICK D, n, V : D = DOMAIN files /\ n = Cardinality(D) /\ V = SUBSET D
  OBVIOUS
<1>2. IsFiniteSet(D) /\ n \in Nat
  <2>1. IsFiniteSet(D)
    BY <1>1, DiskAssumption
  <2> QED BY <1>1, <2>1, FS_CardinalityType
<1>3. Start = StartIn(files) /\ Start \in V
  BY <1>1 DEF Start, StartIn
<1>4. ASSUME NEW S \in V PROVE MoreOf(S) \in V
  <2>1. \A f, i, g : MeantAt(files, f, i, g) => g \in D
    BY <1>1 DEF MeantAt, Meaning, There
  <2> QED BY <1>1, <2>1, MoreIs
<1> DEFINE more == [S \in V |-> MoreOf(S)]
           step == [i \in 1..n |-> more]
<1>5. more \in [V -> V] /\ \A S \in V : more[S] = MoreOf(S)
  BY <1>4
<1>6. step \in [1..n -> [V -> V]] /\ \A i \in 1..n : step[i] = more
  BY <1>5
<1> HIDE DEF more, step
<1>7. PICK f0 : Computes(f0, n, V, Start, step)
  BY <1>2, <1>3, <1>6, RecursionDefines
<1>8. Reaching(f0)
  <2>1. f0 \in [0..n -> V] /\ f0[0] = Start /\ \A i \in 1..n : f0[i] = step[i][f0[i - 1]]
    BY <1>7 DEF Computes
  <2>2. ASSUME NEW i \in 0..n PROVE f0[i] = IF i = 0 THEN Start ELSE MoreOf(f0[i - 1])
    <3>1. CASE i = 0
      BY <2>1, <3>1
    <3>2. CASE i # 0
      <4>1. i \in 1..n /\ i - 1 \in 0..n
        BY <1>2, <3>2
      <4>2. f0[i - 1] \in V /\ f0[i] = more[f0[i - 1]]
        BY <1>6, <2>1, <4>1
      <4> QED BY <1>5, <3>2, <4>2
    <3> QED BY <3>1, <3>2
  <2>3. f0 = [i \in 0..n |-> f0[i]]
    BY <2>1
  <2> QED BY <1>1, <2>2, <2>3, Zenon DEF Reaching
<1> DEFINE reach == CHOOSE r : Reaching(r)
<1>9. Reached = reach[n]
  BY <1>1 DEF Reached, Reaching, MoreOf
<1>10. Reaching(reach)
  BY <1>8
<1> HIDE DEF reach
<1>11. reach = [i \in 0..n |-> IF i = 0 THEN Start ELSE MoreOf(reach[i - 1])]
  BY <1>1, <1>10, Zenon DEF Reaching
<1>12. \A i \in 0..n : reach[i] = IF i = 0 THEN Start ELSE MoreOf(reach[i - 1])
  BY <1>11, Zenon
<1>13. /\ reach[0] = Start
       /\ \A i \in 0..n : i < n => i + 1 \in 0..n /\ reach[i + 1] = MoreOf(reach[i])
  <2>1. 0 \in 0..n /\ \A i \in 0..n : i < n => i + 1 \in 0..n /\ i + 1 # 0 /\ (i + 1) - 1 = i
    BY <1>2
  <2> QED BY <1>12, <2>1
<1>14. \A i \in 0..n : reach[i] \in V
  <2> DEFINE Good == {i \in 0..n : reach[i] \in V}
  <2>1. 0 \in Good
    BY <1>2, <1>3, <1>13
  <2>2. \A i \in 0..n : i \in Good /\ i < n => i + 1 \in Good
    BY <1>4, <1>13
  <2> HIDE DEF Good
  <2>3. \A i \in 0..n : i \in Good
    BY <1>2, <2>1, <2>2, InductionUpTo
  <2> QED BY <2>3 DEF Good
<1>15. ASSUME NEW S \in SUBSET D, ClosedIn(files, S) PROVE reach[n] \subseteq S
  <2> DEFINE Good == {i \in 0..n : reach[i] \subseteq S}
  <2>1. 0 \in Good
    BY <1>2, <1>3, <1>13, <1>15 DEF ClosedIn
  <2>2. ASSUME NEW i \in 0..n, i \in Good, i < n PROVE i + 1 \in Good
    <3>1. i + 1 \in 0..n /\ reach[i + 1] = MoreOf(reach[i]) /\ reach[i] \subseteq S
      BY <1>13, <2>2
    <3>2. \A g : g \in MoreOf(reach[i]) => g \in S
      BY <1>15, <3>1, MoreIs DEF ClosedIn
    <3> QED BY <3>1, <3>2
  <2> HIDE DEF Good
  <2>3. \A i \in 0..n : i \in Good
    BY <1>2, <2>1, <2>2, InductionUpTo
  <2>4. n \in 0..n
    BY <1>2
  <2> QED BY <2>3, <2>4 DEF Good
<1>16. MoreOf(reach[n]) = reach[n]
  <2>1. reach \in [0..n -> V]
    BY <1>11, <1>14, Zenon
  <2>2. \A i \in 1..n : reach[i] = more[reach[i - 1]]
    <3>1. \A i \in 1..n : i \in 0..n /\ i - 1 \in 0..n /\ i # 0
      BY <1>2
    <3> QED BY <1>5, <1>12, <1>14, <3>1
  <2>3. \A S \in V : S \subseteq more[S]
    BY <1>5, MoreIs
  <2>4. more[reach[n]] = reach[n]
    <3>1. /\ more \in [SUBSET D -> SUBSET D] /\ reach \in [0..n -> SUBSET D]
          /\ \A S \in SUBSET D : S \subseteq more[S]
      BY <1>1, <1>5, <2>1, <2>3
    <3>2. IsFiniteSet(D) /\ n = Cardinality(D)
      BY <1>1, <1>2
    <3>3. Grows(D, n, more, reach)
      BY <2>2, <3>1, <3>2 DEF Grows
    <3> QED BY <3>3, Stabilises
  <2> QED BY <1>2, <1>5, <1>14, <2>4
<1>17. Start \subseteq reach[n]
  <2> DEFINE Good == {i \in 0..n : Start \subseteq reach[i]}
  <2>1. 0 \in Good
    BY <1>2, <1>13
  <2>2. ASSUME NEW i \in 0..n, i \in Good, i < n PROVE i + 1 \in Good
    <3>1. i + 1 \in 0..n /\ reach[i + 1] = MoreOf(reach[i]) /\ Start \subseteq reach[i]
      BY <1>13, <2>2
    <3> QED BY <3>1, MoreIs
  <2> HIDE DEF Good
  <2>3. \A i \in 0..n : i \in Good
    BY <1>2, <2>1, <2>2, InductionUpTo
  <2>4. n \in 0..n
    BY <1>2
  <2> QED BY <2>3, <2>4 DEF Good
<1>18. ClosedIn(files, reach[n])
  BY <1>3, <1>16, <1>17, MoreIs DEF ClosedIn
<1>19. reach[n] \in SUBSET D
  BY <1>1, <1>2, <1>14
<1> QED BY <1>1, <1>9, <1>15, <1>18, <1>19 DEF Reaches

-----------------------------------------------------------------------------
(* What is loaded when every import is linked.                             *)

LEMMA OneMeaning ==
    \A fs, f, i, g, h : MeantAt(fs, f, i, g) /\ MeantAt(fs, f, i, h) => g = h
BY DEF MeantAt, Meaning

LEMMA OneStart ==
    \A fs, g, h : g \in StartIn(fs) /\ h \in StartIn(fs) => g = h
BY DEF StartIn

LEMMA LoadedFiles ==
    ASSUME Inv, ExitInv, Resolved, 1 \in Modules
    PROVE  {mods[m].file : m \in Modules} = Reached
<1> DEFINE S == {mods[m].file : m \in Modules}
<1>1. ModsTyped /\ Loaded /\ MainLoaded /\ LinksMeant
  BY DEF Inv, TypeInv, ExitInv, AsMeant
<1>2. files \in FileSystems /\ \A m \in Modules : mods[m].file \in DOMAIN files
  BY <1>1 DEF ModsTyped, Record
<1>3. \A g \in S : Reaches(files, g)
  BY <1>1 DEF Loaded, LoadedAt
<1>4. ClosedIn(files, S)
  <2>1. StartIn(files) \subseteq S
    BY <1>1, OneStart DEF MainLoaded
  <2>2. ASSUME NEW m \in Modules, NEW i \in 1..Len(files[mods[m].file].imports), NEW g,
               MeantAt(files, mods[m].file, i, g)
        PROVE  g \in S
    <3>1. i \in 1..Cnt(m)
      BY DEF Cnt, Imports
    <3>2. PICK k \in Modules : k = LinkOf(m, i)
      BY <3>1 DEF Resolved
    <3>3. MeantAt(files, mods[m].file, i, mods[k].file)
      BY <1>1, <3>1, <3>2 DEF LinksMeant
    <3>4. g = mods[k].file
      BY <2>2, <3>3, OneMeaning
    <3> QED BY <3>4
  <2> QED BY <2>1, <2>2 DEF ClosedIn
<1>5. S \in SUBSET DOMAIN files
  BY <1>2
<1>6. \A g : Reaches(files, g) => g \in S
  BY <1>4, <1>5 DEF Reaches
<1> QED BY <1>2, <1>3, <1>6, ReachedIs

LEMMA SoundIs ==
    ASSUME files \in FileSystems
    PROVE  Sound(files) <=>
               /\ Start # {} /\ \A f \in Start : files[f].kind # "empty"
               /\ \A f \in Reached :
                     /\ files[f].fault = "none"
                     /\ \A s \in ImportsOf(f) : FilesMeant(f, s) # {}
<1>1. Start = StartIn(files)
  BY DEF Start, StartIn
<1>2. \A f \in Reached : f \in DOMAIN files
  BY ReachedIs DEF Reaches
<1>3. \A f : (\A s \in ImportsOf(f) : FilesMeant(f, s) # {}) <=>
             \A i \in 1..Len(files[f].imports) : \E g : MeantAt(files, f, i, g)
  BY MeaningIs DEF ImportsOf, MeantAt
<1> QED BY <1>1, <1>2, <1>3, ReachedIs DEF Sound

LEMMA ReturnsZero ==
    ASSUME Inv, ExitInv, phase = "done", err = 0
    PROVE  /\ Sound(files)
           /\ {mods[ran[a]].file : a \in 1..Len(ran)} = Reached
<1>1. /\ ModsTyped /\ RanTyped /\ EachRunsOnce
      /\ Loaded /\ MainLoaded /\ LinksMeant
  BY DEF Inv, TypeInv, Ordered, ExitInv, AsMeant
<1>2. 1 \in Modules /\ \A m \in Modules : Binds(m) /\ (Ran(m) => Fault(m) # "throw")
  BY DEF ExitInv, Faultless
<1>3. \A m \in Modules : Ran(m)
  BY <1>1 DEF EachRunsOnce, Ran
<1>4. Resolved
  <2>1. ran # <<>>
    BY <1>2, <1>3 DEF Ran
  <2> QED BY <2>1 DEF Inv, Linking
<1>5. {mods[m].file : m \in Modules} = Reached
  BY <1>2, <1>4, LoadedFiles
<1>6. {mods[ran[a]].file : a \in 1..Len(ran)} = Reached
  <2>1. \A a \in 1..Len(ran) : ran[a] \in Modules
    BY <1>1 DEF RanTyped
  <2>2. \A m \in Modules : \E a \in 1..Len(ran) : ran[a] = m
    BY <1>3 DEF Ran
  <2> QED BY <1>5, <2>1, <2>2
<1>7. files \in FileSystems /\ \A m \in Modules : mods[m].file \in DOMAIN files
  BY <1>1 DEF ModsTyped, Record
<1>8. ASSUME NEW m \in Modules
      PROVE  /\ files[mods[m].file].fault = "none"
             /\ \A i \in 1..Len(files[mods[m].file].imports) :
                    \E g : MeantAt(files, mods[m].file, i, g)
  <2>1. Fault(m) \in {"none", "parse", "binding", "throw"}
    BY <1>7, DiskAssumption DEF Fault
  <2>2. Fault(m) # "parse"
    BY <1>1 DEF Loaded, LoadedAt, Fault
  <2>3. Fault(m) # "binding" /\ Fault(m) # "throw"
    BY <1>2, <1>3 DEF Binds
  <2>4. files[mods[m].file].fault = "none"
    BY <2>1, <2>2, <2>3 DEF Fault
  <2>5. ASSUME NEW i \in 1..Len(files[mods[m].file].imports)
        PROVE  \E g : MeantAt(files, mods[m].file, i, g)
    <3>1. i \in 1..Cnt(m)
      BY DEF Cnt, Imports
    <3>2. PICK k \in Modules : k = LinkOf(m, i)
      BY <1>4, <3>1 DEF Resolved
    <3> QED BY <1>1, <3>1, <3>2 DEF LinksMeant
  <2> QED BY <2>4, <2>5
<1>9. ASSUME NEW f, Reaches(files, f)
      PROVE  \E m \in Modules : mods[m].file = f
  BY <1>5, <1>7, <1>9, ReachedIs
<1>10. StartIn(files) # {} /\ \A f \in StartIn(files) : files[f].kind # "empty"
  <2>1. mods[1].file \in StartIn(files) /\ mods[1].file \in There(files)
    BY <1>1, <1>2 DEF MainLoaded
  <2>2. \A f \in StartIn(files) : f = mods[1].file
    BY <2>1, OneStart
  <2> QED BY <2>1, <2>2 DEF There
<1> QED BY <1>6, <1>8, <1>9, <1>10 DEF Sound

LEMMA ReturnsWhatIsMeant ==
    ASSUME Inv, ExitInv
    PROVE  ExitCodeExact
<1>1. files \in FileSystems
  BY DEF Inv, TypeInv, ModsTyped
<1>2. \A a, b \in 1..Len(ran) : ran[a] = ran[b] => a = b
  BY DEF Inv, Ordered, EachRunsOnce
<1>3. phase = "done" => (err = 0 <=> Sound(files))
  BY ReturnsZero DEF ExitInv, Faultless
<1>4. phase = "done" /\ err = 0 => {mods[ran[a]].file : a \in 1..Len(ran)} = Reached
  BY ReturnsZero
<1> QED BY <1>1, <1>2, <1>3, <1>4, SoundIs, Zenon DEF ExitCodeExact

LEMMA LoadsBeforeItRuns ==
    ASSUME Inv, ExitInv
    PROVE  EvaluationExact
<1>1. ModsTyped /\ RanTyped /\ LinksMeant
  BY DEF Inv, TypeInv, ExitInv, AsMeant
<1>2. ResolvesFromImporter
  <2>1. ASSUME NEW m \in Modules, NEW i \in 1..Len(Imports(m)), mods[m].links[i] # 0
        PROVE  mods[mods[m].links[i]].file \in FilesMeant(mods[m].file, Imports(m)[i])
    <3>1. PICK k : k = LinkOf(m, i)
      OBVIOUS
    <3>2. k \in Modules
      <4>1. k \in 0..Len(mods) /\ Len(mods) \in Nat
        BY <1>1, <3>1, Basics DEF Cnt
      <4> QED BY <2>1, <3>1, <4>1 DEF LinkOf, Modules
    <3>3. MeantAt(files, mods[m].file, i, mods[k].file)
      BY <1>1, <3>1, <3>2 DEF LinksMeant, Cnt
    <3> QED BY <3>1, <3>3, MeaningIs DEF MeantAt, LinkOf, Imports
  <2> QED BY <2>1 DEF ResolvesFromImporter
<1>3. NothingRunsUnloaded
  <2>1. SUFFICES ASSUME ran # <<>> PROVE {mods[m].file : m \in Modules} = Reached
    BY DEF NothingRunsUnloaded
  <2>2. Resolved
    BY <2>1 DEF Inv, Linking
  <2>3. 1 \in Modules
    <3>1. ran[1] \in Modules /\ Len(mods) \in Nat
      BY <1>1, <2>1, Basics DEF RanTyped
    <3> QED BY <3>1 DEF Modules
  <2> QED BY <2>2, <2>3, LoadedFiles
<1> QED BY <1>2, <1>3 DEF EvaluationExact

(* main returns 0 exactly when every file it reaches is there, parses,     *)
(* binds and does not throw, and then each of their bodies has run, none   *)
(* twice (run_from_file_system_buf, js_module_loader, js_link_module,      *)
(* js_evaluate_module); for any file systems whose names are plain.        *)
THEOREM ReturnsExactly == PlainNames => (Spec => []ExitCodeExact)
<1> SUFFICES ASSUME PlainNames PROVE Spec => []ExitCodeExact
  OBVIOUS
<1>0. NamesAsMeant
  BY NormalizesAsMeant
<1>1. Init => Inv /\ ExitInv
  BY InitInv, ExitInit
<1>2. Inv /\ ExitInv /\ [Next]_vars => Inv' /\ ExitInv'
  BY <1>0, NextInv, ExitNext
<1>3. Inv /\ ExitInv => ExitCodeExact
  BY ReturnsWhatIsMeant
<1> QED BY <1>1, <1>2, <1>3, PTL DEF Spec

(* js_host_resolve_imported_module links an import to the file it means    *)
(* for the file that contains it, and js_evaluate_module runs no body      *)
(* before js_resolve_module has loaded every file that main reaches; for   *)
(* any file systems whose names are plain.                                 *)
THEOREM LoadsWhatIsMeant == PlainNames => (Spec => []EvaluationExact)
<1> SUFFICES ASSUME PlainNames PROVE Spec => []EvaluationExact
  OBVIOUS
<1>0. NamesAsMeant
  BY NormalizesAsMeant
<1>1. Init => Inv /\ ExitInv
  BY InitInv, ExitInit
<1>2. Inv /\ ExitInv /\ [Next]_vars => Inv' /\ ExitInv'
  BY <1>0, NextInv, ExitNext
<1>3. Inv /\ ExitInv => EvaluationExact
  BY LoadsBeforeItRuns
<1> QED BY <1>1, <1>2, <1>3, PTL DEF Spec
=============================================================================
