------------------------ MODULE AsyncGeneratorProofs ------------------------
(***************************************************************************)
(* Proofs about AsyncGenerator: for any number of requests, however they   *)
(* come while the body runs, awaits or has ended, the answers given are    *)
(* those of Expected, the frame of the body is freed once, and a request   *)
(* without an answer waits in the queue, while something goes on that will *)
(* come to it or behind the end of the generator.                          *)
(*                                                                         *)
(* The inductive invariant has three parts: the queue holds the requests   *)
(* that have no answer, in order (QueueExact); state, looping, body and    *)
(* awaiting go together (Control); and serving the requests answered so    *)
(* far one after the other, as Expected does, has given the answers and    *)
(* used all that the body made (Served).                                   *)
(***************************************************************************)
EXTENDS AsyncGenerator, Induction

States == {"SUSPENDED_START", "SUSPENDED_YIELD", "EXECUTING", "AWAITING_RETURN", "COMPLETED"}
Over_ == {"COMPLETED", "AWAITING_RETURN"}
AnswerSet == [id : Nat, is_reject : BOOLEAN, done : BOOLEAN, from : Int]
Requests == [id : Nat, completion_type : Types]
Accs == [m : Nat, g : Nat, over : BOOLEAN, stop : BOOLEAN, list : Seq(AnswerSet)]

TypeOK ==
    /\ requests \in Seq(Types) /\ queue \in Seq(Requests)
    /\ made \in Seq({"yield", "return", "throw"}) /\ given \in Seq(BOOLEAN)
    /\ answers \in Seq(AnswerSet) /\ frees \in Nat

(* The requests without an answer, oldest first.                           *)
QueueExact ==
    /\ Len(queue) + Len(answers) = Len(requests)
    /\ \A i \in 1..Len(queue) : queue[i] = Req(Len(answers) + i, requests[Len(answers) + i])

(* The body runs inside the loop; while it awaits, the loop is left; a     *)
(* generator that executes or waits has a request to answer.               *)
Control ==
    /\ state \in States /\ looping \in BOOLEAN
    /\ body \in {"suspended", "running", "awaiting"} /\ awaiting \in {"none", "body", "return"}
    /\ frees = IF state \in Over_ THEN 1 ELSE 0
    /\ body = "running" => state = "EXECUTING" /\ looping
    /\ body = "awaiting" <=> awaiting = "body"
    /\ awaiting = "body" => state = "EXECUTING" /\ ~looping
    /\ awaiting = "return" <=> state = "AWAITING_RETURN"
    /\ state = "EXECUTING" => Len(queue) > 0 /\ (looping \/ body = "awaiting")
    /\ state = "AWAITING_RETURN" => Len(queue) > 0 /\ queue[1].completion_type = RETURN
    /\ state \in {"SUSPENDED_START", "SUSPENDED_YIELD"} => looping \/ Len(queue) = 0
    /\ ~failed

(* What serving has come to, beside what the generator has come to.        *)
Stands(acc) ==
    /\ acc.list = answers /\ acc.m = Len(made) /\ acc.g = Len(given) /\ ~acc.stop
    /\ state = "SUSPENDED_START" => acc.m = 0
    /\ state = "SUSPENDED_YIELD" => acc.m > 0
    /\ state \notin Over_ => ~acc.over
    /\ state = "EXECUTING" => acc.m > 0 \/ queue[1].completion_type = NEXT
    /\ state \in Over_ =>
          acc.over \/ (acc.m = 0 /\ Len(queue) > 0 /\ queue[1].completion_type # NEXT)

(* f are the steps of serving, one for each answer given.                  *)
Steps(f) ==
    /\ f \in [0..Len(answers) -> Accs] /\ f[0] = Begun
    /\ \A n \in 1..Len(answers) : f[n] = Serve(f[n - 1], n) /\ ~f[n].stop
Served == \E f : Steps(f) /\ Stands(f[Len(answers)])

Inv == TypeOK /\ QueueExact /\ Control /\ Served

-----------------------------------------------------------------------------
LEMMA OldestRequest ==
    ASSUME TypeOK, QueueExact, Len(queue) > 0
    PROVE  /\ requests[Len(answers) + 1] = queue[1].completion_type
           /\ queue[1].id = Len(answers) + 1 /\ queue[1].completion_type \in Types
           /\ Len(answers) + 1 \in 1..Len(requests) /\ Len(answers) \in Nat
           /\ Head(queue) = queue[1]
<1>1. Len(queue) \in Nat /\ Len(answers) \in Nat /\ 1 \in 1..Len(queue)
  BY DEF TypeOK
<1>2. queue[1] = Req(Len(answers) + 1, requests[Len(answers) + 1])
  BY <1>1 DEF QueueExact
<1>3. queue[1].id = Len(answers) + 1 /\ queue[1].completion_type = requests[Len(answers) + 1]
  BY <1>2 DEF Req
<1>4. Len(answers) + 1 \in 1..Len(requests)
  BY <1>1 DEF QueueExact, TypeOK
<1>5. requests[Len(answers) + 1] \in Types
  BY <1>4 DEF TypeOK
<1>6. Head(queue) = queue[1]
  BY <1>1 DEF TypeOK
<1> QED BY <1>1, <1>3, <1>4, <1>5, <1>6

(* The steps taken stay the same when requests, values of the body or      *)
(* settled returns are added: none of them waited for any.                 *)
LEMMA StepsKept ==
    ASSUME TypeOK, TypeOK', NEW acc \in Accs, NEW n \in 1..Len(requests), ~Serve(acc, n).stop,
           Len(requests) <= Len(requests'), Len(made) <= Len(made'), Len(given) <= Len(given'),
           \A i \in 1..Len(requests) : requests'[i] = requests[i],
           \A i \in 1..Len(made) : made'[i] = made[i],
           \A i \in 1..Len(given) : given'[i] = given[i]
    PROVE  Serve(acc, n)' = Serve(acc, n)
<1>1. ~acc.stop /\ ~Waits(acc, n)
  <2>1. acc.stop \/ Waits(acc, n) => Serve(acc, n) = [acc EXCEPT !.stop = TRUE]
    BY DEF Serve
  <2>2. [acc EXCEPT !.stop = TRUE].stop = TRUE
    BY DEF Accs
  <2> QED BY <2>1, <2>2
<1>2. Over(acc, n)' <=> Over(acc, n)
  BY DEF Over
<1>3. /\ acc.m \in Nat /\ acc.g \in Nat /\ requests[n] \in Types /\ requests'[n] = requests[n]
      /\ Len(made) \in Nat /\ Len(given) \in Nat /\ Len(made') \in Nat /\ Len(given') \in Nat
  <2>1. acc.m \in Nat /\ acc.g \in Nat
    BY DEF Accs
  <2>2. requests[n] \in Types /\ requests'[n] = requests[n]
    BY DEF TypeOK
  <2>3. Len(made) \in Nat /\ Len(given) \in Nat
    BY DEF TypeOK
  <2>4. Len(made') \in Nat /\ Len(given') \in Nat
    BY DEF TypeOK
  <2> QED BY <2>1, <2>2, <2>3, <2>4
<1>4. CASE Over(acc, n)
  <2>1. ASSUME requests[n] = RETURN
        PROVE  acc.g + 1 \in 1..Len(given) /\ given'[acc.g + 1] = given[acc.g + 1]
    <3>1. ~(acc.g >= Len(given))
      BY <1>1, <1>4, <2>1 DEF Waits
    <3>2. acc.g + 1 \in 1..Len(given)
      <4>1. acc.g \in Nat /\ Len(given) \in Nat
        BY <1>3
      <4>2. \A p, q \in Nat : ~(p >= q) => p + 1 \in 1..q
        OBVIOUS
      <4> QED BY <3>1, <4>1, <4>2
    <3> QED BY <3>2
  <2>2. AfterEnd(acc, n)' = AfterEnd(acc, n)
    BY <1>3, <2>1 DEF AfterEnd, Answer, NEXT, RETURN, THROW, Types
  <2>3. ~Waits(acc, n)'
    BY <1>2, <1>3, <1>4, <2>1 DEF Waits
  <2>4. ~Waits(acc, n) /\ ~acc.stop
    BY <1>1
  <2> HIDE DEF Waits, Over, AfterEnd
  <2> QED BY <1>2, <1>3, <1>4, <2>2, <2>3, <2>4 DEF Serve
<1>5. CASE ~Over(acc, n)
  <2>1. acc.m + 1 \in 1..Len(made) /\ made'[acc.m + 1] = made[acc.m + 1]
    <3>1. ~(acc.m >= Len(made))
      BY <1>1, <1>5 DEF Waits
    <3>2. acc.m + 1 \in 1..Len(made)
      <4>1. acc.m \in Nat /\ Len(made) \in Nat
        BY <1>3
      <4>2. \A p, q \in Nat : ~(p >= q) => p + 1 \in 1..q
        OBVIOUS
      <4> QED BY <3>1, <4>1, <4>2
    <3> QED BY <3>2
  <2>2. FromBody(acc, n)' = FromBody(acc, n)
    BY <2>1 DEF FromBody, Answer
  <2>3. ~Waits(acc, n)'
    BY <1>2, <1>3, <1>5, <2>1 DEF Waits
  <2> QED BY <1>1, <1>2, <1>5, <2>1, <2>2, <2>3 DEF Serve
<1> QED BY <1>4, <1>5

(* What requests, the body and the returns have given is only added to.    *)
Grows ==
    /\ Len(requests) <= Len(requests') /\ Len(made) <= Len(made') /\ Len(given) <= Len(given')
    /\ \A i \in 1..Len(requests) : requests'[i] = requests[i]
    /\ \A i \in 1..Len(made) : made'[i] = made[i]
    /\ \A i \in 1..Len(given) : given'[i] = given[i]

LEMMA LongerByOne ==
    ASSUME NEW S, NEW s \in Seq(S), NEW e \in S, NEW t, t = s \/ t = Append(s, e)
    PROVE  Len(s) <= Len(t) /\ (\A i \in 1..Len(s) : t[i] = s[i]) /\ t \in Seq(S)
<1>1. CASE t = s
  BY <1>1
<1>2. CASE t = Append(s, e)
  BY <1>2
<1> QED BY <1>1, <1>2

LEMMA GrowsByOne ==
    ASSUME TypeOK, NEW t \in Types, NEW y \in {"yield", "return", "throw"}, NEW r \in BOOLEAN,
           requests' = requests \/ requests' = Append(requests, t),
           made' = made \/ made' = Append(made, y), given' = given \/ given' = Append(given, r)
    PROVE  /\ Grows
           /\ requests' \in Seq(Types) /\ made' \in Seq({"yield", "return", "throw"})
           /\ given' \in Seq(BOOLEAN)
<1>1. /\ requests \in Seq(Types) /\ made \in Seq({"yield", "return", "throw"})
      /\ given \in Seq(BOOLEAN)
  BY DEF TypeOK
<1>2. /\ Len(requests) <= Len(requests') /\ \A i \in 1..Len(requests) : requests'[i] = requests[i]
      /\ requests' \in Seq(Types)
  BY <1>1, LongerByOne
<1>3. /\ Len(made) <= Len(made') /\ \A i \in 1..Len(made) : made'[i] = made[i]
      /\ made' \in Seq({"yield", "return", "throw"})
  BY <1>1, LongerByOne
<1>4. /\ Len(given) <= Len(given') /\ \A i \in 1..Len(given) : given'[i] = given[i]
      /\ given' \in Seq(BOOLEAN)
  BY <1>1, LongerByOne
<1> QED BY <1>2, <1>3, <1>4 DEF Grows

LEMMA StepsStay ==
    ASSUME TypeOK, TypeOK', QueueExact, Grows, NEW f, Steps(f),
           NEW n \in 1..Len(answers)
    PROVE  f[n] = Serve(f[n - 1], n)' /\ ~f[n].stop
<1>1. n \in 1..Len(requests)
  BY DEF TypeOK, QueueExact
<1>2. f[n] = Serve(f[n - 1], n) /\ ~f[n].stop
  BY DEF Steps
<1>3. f[n - 1] \in Accs
  <2>1. n - 1 \in 0..Len(answers)
    BY DEF TypeOK
  <2> QED BY <2>1 DEF Steps
<1>4. ~Serve(f[n - 1], n).stop
  BY <1>2
<1>5. Serve(f[n - 1], n)' = Serve(f[n - 1], n)
  BY <1>1, <1>3, <1>4, StepsKept DEF Grows
<1> QED BY <1>2, <1>5

(* No answer given: the steps are those taken before.                      *)
LEMMA NoAnswer ==
    ASSUME TypeOK, TypeOK', QueueExact, Grows, NEW f, Steps(f), answers' = answers
    PROVE  Steps(f)'
<1>1. \A n \in 1..Len(answers) : f[n] = Serve(f[n - 1], n)' /\ ~f[n].stop
  BY StepsStay
<1> QED BY <1>1 DEF Steps

(* One more answer: one more step.                                         *)
LEMMA OneAnswer ==
    ASSUME TypeOK, TypeOK', QueueExact, Grows, NEW f, Steps(f), NEW a \in AnswerSet,
           answers' = Append(answers, a), NEW acc \in Accs,
           NEW A, A = Len(answers), NEW last, last = f[A], NEW id, id = A + 1,
           acc = Serve(last, id)', ~acc.stop
    PROVE  \E h : Steps(h)' /\ h[Len(answers')] = acc
<1> DEFINE h == [n \in 0..(A + 1) |-> IF n <= A THEN f[n] ELSE acc]
<1>1. A \in Nat /\ Len(answers') = A + 1
  BY DEF TypeOK
<1>2. f \in [0..A -> Accs] /\ f[0] = Begun
  BY DEF Steps
<1>3. h \in [0..(A + 1) -> Accs] /\ h[0] = Begun /\ h[A + 1] = acc
  BY <1>1, <1>2
<1>4. ASSUME NEW n \in 1..(A + 1) PROVE h[n] = Serve(h[n - 1], n)' /\ ~h[n].stop
  <2>1. CASE n \in 1..A
    <3>1. f[n] = Serve(f[n - 1], n)' /\ ~f[n].stop
      BY <2>1, StepsStay
    <3>2. h[n] = f[n] /\ h[n - 1] = f[n - 1]
      BY <1>1, <2>1
    <3> QED BY <3>1, <3>2
  <2>2. CASE n = A + 1
    <3>1. h[n] = acc /\ h[n - 1] = last /\ n = id
      BY <1>1, <2>2
    <3> HIDE DEF h
    <3> QED BY <3>1
  <2> QED BY <1>1, <2>1, <2>2
<1>5. \E g : g \in [0..(A + 1) -> Accs] /\ g[0] = Begun /\ g[A + 1] = acc
             /\ \A n \in 1..(A + 1) : g[n] = Serve(g[n - 1], n)' /\ ~g[n].stop
  <2> HIDE DEF h
  <2> QED BY <1>3, <1>4
<1> HIDE DEF h
<1>6. PICK g : /\ g \in [0..(A + 1) -> Accs] /\ g[0] = Begun /\ g[A + 1] = acc
               /\ \A n \in 1..(A + 1) : g[n] = Serve(g[n - 1], n)' /\ ~g[n].stop
  BY <1>5
<1>7. Steps(g)'
  <2>1. \A n \in 1..Len(answers') : g[n] = Serve(g[n - 1], n)' /\ ~g[n].stop
    BY <1>1, <1>6
  <2>2. g \in [0..Len(answers') -> Accs] /\ g[0] = Begun
    BY <1>1, <1>6
  <2> QED BY <2>1, <2>2 DEF Steps
<1> QED BY <1>1, <1>6, <1>7

(* Serving with an answer of the body, and after the end.                  *)
LEMMA ServesBody ==
    ASSUME NEW acc \in Accs, NEW id \in Nat, ~acc.stop, ~Over(acc, id)',
           made' \in Seq({"yield", "return", "throw"}), acc.m + 1 = Len(made')
    PROVE  /\ Serve(acc, id)' = [m |-> acc.m + 1, g |-> acc.g, over |-> made'[acc.m + 1] # "yield",
                                 stop |-> FALSE, list |-> Append(acc.list,
                   Answer(id, made'[acc.m + 1] = "throw", made'[acc.m + 1] # "yield", acc.m + 1))]
           /\ Serve(acc, id)' \in Accs
<1> DEFINE a == Answer(id, made'[acc.m + 1] = "throw", made'[acc.m + 1] # "yield", acc.m + 1)
           u == [m |-> acc.m + 1, g |-> acc.g, over |-> made'[acc.m + 1] # "yield",
                 stop |-> FALSE, list |-> Append(acc.list, a)]
<1>1. /\ acc.m \in Nat /\ acc.g \in Nat /\ acc.stop = FALSE /\ acc.list \in Seq(AnswerSet)
      /\ acc = [m |-> acc.m, g |-> acc.g, over |-> acc.over, stop |-> acc.stop, list |-> acc.list]
  BY DEF Accs
<1>2. ~Waits(acc, id)'
  <2>1. Waits(acc, id)' <=> acc.m >= Len(made')
    BY DEF Waits
  <2> QED BY <1>1, <2>1
<1>3. FromBody(acc, id)' = a
  BY DEF FromBody, Answer
<1>4. a \in AnswerSet
  BY <1>1 DEF Answer, AnswerSet
<1> HIDE DEF a
<1>5. Serve(acc, id)' = [acc EXCEPT !.m = @ + 1, !.over = made'[acc.m + 1] # "yield",
                                   !.list = Append(@, a)]
  BY <1>2, <1>3 DEF Serve
<1>6. Serve(acc, id)' = u
  BY <1>1, <1>5
<1>7. Append(acc.list, a) \in Seq(AnswerSet)
  BY <1>1, <1>4
<1>8. u \in Accs
  BY <1>1, <1>7 DEF Accs
<1> QED BY <1>6, <1>8 DEF a

LEMMA ServesEnd ==
    ASSUME NEW acc \in Accs, NEW id \in Nat, ~acc.stop, Over(acc, id)',
           NEW type \in Types, requests'[id] = type, NEW r \in BOOLEAN,
           given' \in Seq(BOOLEAN),
           type = RETURN => acc.g + 1 = Len(given') /\ given'[acc.g + 1] = r,
           type = NEXT => r = FALSE, type = THROW => r = TRUE
    PROVE  /\ Serve(acc, id)' = [m |-> acc.m, g |-> IF type = RETURN THEN acc.g + 1 ELSE acc.g,
                                 over |-> TRUE, stop |-> FALSE, list |-> Append(acc.list,
                   Answer(id, r, TRUE, IF type = NEXT THEN UNDEFINED ELSE REQUEST))]
           /\ Serve(acc, id)' \in Accs
<1> DEFINE a == Answer(id, r, TRUE, IF type = NEXT THEN UNDEFINED ELSE REQUEST)
           u == [m |-> acc.m, g |-> IF type = RETURN THEN acc.g + 1 ELSE acc.g,
                 over |-> TRUE, stop |-> FALSE, list |-> Append(acc.list, a)]
<1>1. /\ acc.m \in Nat /\ acc.g \in Nat /\ acc.stop = FALSE /\ acc.list \in Seq(AnswerSet)
      /\ acc = [m |-> acc.m, g |-> acc.g, over |-> acc.over, stop |-> acc.stop, list |-> acc.list]
  BY DEF Accs
<1>2. ~Waits(acc, id)'
  <2>1. Waits(acc, id)' <=> type = RETURN /\ acc.g >= Len(given')
    BY DEF Waits
  <2> QED BY <1>1, <2>1
<1>3. AfterEnd(acc, id)' = a
  BY DEF AfterEnd, Answer, Types, NEXT, RETURN, THROW
<1>4. a \in AnswerSet
  BY DEF Answer, AnswerSet, UNDEFINED, REQUEST
<1> HIDE DEF a
<1>5. Serve(acc, id)' = [acc EXCEPT !.over = TRUE, !.g = IF type = RETURN THEN @ + 1 ELSE @,
                                   !.list = Append(@, a)]
  BY <1>2, <1>3 DEF Serve
<1>6. Serve(acc, id)' = u
  BY <1>1, <1>5
<1>7. Append(acc.list, a) \in Seq(AnswerSet)
  BY <1>1, <1>4
<1>8. u \in Accs
  BY <1>1, <1>7 DEF Accs
<1> QED BY <1>6, <1>8 DEF a

-----------------------------------------------------------------------------
(* An answer takes the oldest request from the queue.                      *)
LEMMA QueueAnswered ==
    ASSUME TypeOK, QueueExact, Len(queue) > 0, requests' = requests, queue' = Tail(queue),
           NEW a, answers' = Append(answers, a)
    PROVE  QueueExact' /\ queue' \in Seq(Requests) /\ Len(queue') = Len(queue) - 1
<1>1. queue \in Seq(Requests) /\ Len(queue) \in Nat /\ queue # <<>> /\ answers \in Seq(AnswerSet)
  BY DEF TypeOK
<1>2. /\ queue' \in Seq(Requests) /\ Len(queue') = Len(queue) - 1
      /\ \A i \in 1..Len(queue') : queue'[i] = queue[i + 1]
  BY <1>1
<1>3. Len(answers') = Len(answers) + 1 /\ Len(answers) \in Nat
  BY <1>1
<1>4. ASSUME NEW i \in 1..Len(queue')
      PROVE  queue'[i] = Req(Len(answers') + i, requests'[Len(answers') + i])
  <2>1. i + 1 \in 1..Len(queue) /\ Len(answers) + (i + 1) = Len(answers') + i
    BY <1>1, <1>2, <1>3
  <2>2. queue[i + 1] = Req(Len(answers) + (i + 1), requests[Len(answers) + (i + 1)])
    BY <2>1 DEF QueueExact
  <2> QED BY <1>2, <2>1, <2>2
<1>5. Len(queue') + Len(answers') = Len(requests')
  BY <1>1, <1>2, <1>3 DEF QueueExact
<1> QED BY <1>2, <1>4, <1>5 DEF QueueExact, Req

(* A request joins the queue behind the others.                            *)
LEMMA QueueRequested ==
    ASSUME TypeOK, QueueExact, NEW type \in Types, requests' = Append(requests, type),
           queue' = Append(queue, Req(Len(requests) + 1, type)), answers' = answers
    PROVE  /\ QueueExact' /\ queue' \in Seq(Requests) /\ Len(queue') = Len(queue) + 1
           /\ \A i \in 1..Len(queue) : queue'[i] = queue[i]
<1>1. /\ queue \in Seq(Requests) /\ requests \in Seq(Types) /\ Len(answers) \in Nat
      /\ Len(queue) \in Nat /\ Len(requests) \in Nat
  BY DEF TypeOK
<1>2. Req(Len(requests) + 1, type) \in Requests
  BY <1>1 DEF Req, Requests
<1>3. /\ queue' \in Seq(Requests) /\ Len(queue') = Len(queue) + 1
      /\ \A i \in 1..Len(queue) : queue'[i] = queue[i]
      /\ queue'[Len(queue) + 1] = Req(Len(requests) + 1, type)
  BY <1>1, <1>2
<1>4. /\ Len(requests') = Len(requests) + 1 /\ requests'[Len(requests) + 1] = type
      /\ \A i \in 1..Len(requests) : requests'[i] = requests[i]
  BY <1>1
<1>7. Len(queue) + Len(answers) = Len(requests)
  BY DEF QueueExact
<1>5. ASSUME NEW i \in 1..Len(queue')
      PROVE  queue'[i] = Req(Len(answers) + i, requests'[Len(answers) + i])
  <2>1. CASE i \in 1..Len(queue)
    <3>1. Len(answers) + i \in 1..Len(requests)
      BY <1>1, <2>1 DEF QueueExact
    <3>2. queue[i] = Req(Len(answers) + i, requests[Len(answers) + i])
      BY <2>1 DEF QueueExact
    <3> QED BY <1>3, <1>4, <2>1, <3>1, <3>2
  <2>2. CASE i = Len(queue) + 1
    <3>1. Len(answers) + i = Len(requests) + 1
      BY <1>1, <1>7, <2>2
    <3> QED BY <1>3, <1>4, <2>2, <3>1
  <2>3. i \in 1..Len(queue) \/ i = Len(queue) + 1
    BY <1>1, <1>3
  <2> QED BY <2>1, <2>2, <2>3
<1>6. Len(queue') + Len(answers') = Len(requests')
  <2>1. \A x, y, z \in Nat : x + y = z => (x + 1) + y = z + 1
    OBVIOUS
  <2>2. (Len(queue) + 1) + Len(answers) = Len(requests) + 1
    BY <1>1, <1>7, <2>1
  <2> QED BY <1>3, <1>4, <2>2, Zenon
<1> QED BY <1>3, <1>5, <1>6 DEF QueueExact, Req

-----------------------------------------------------------------------------
(* One lemma for each action.                                              *)

LEMMA InitInv == Init => Inv
<1> SUFFICES ASSUME Init PROVE Inv
  OBVIOUS
<1>1. Len(answers) = 0 /\ Len(queue) = 0 /\ Len(requests) = 0 /\ Len(made) = 0 /\ Len(given) = 0
  BY DEF Init
<1>2. TypeOK /\ QueueExact /\ Control
  <2>1. TypeOK
    BY DEF Init, TypeOK
  <2>2. QueueExact
    BY <1>1 DEF QueueExact
  <2>3. Control
    BY <1>1 DEF Init, Control, States, Over_
  <2> QED BY <2>1, <2>2, <2>3
<1>3. Begun \in Accs
  BY DEF Begun, Accs
<1> DEFINE f == [n \in 0..0 |-> Begun]
<1>4. f \in [0..0 -> Accs] /\ f[0] = Begun
  BY <1>3
<1> HIDE DEF f
<1>5. Steps(f)
  BY <1>1, <1>4 DEF Steps
<1>6. Stands(Begun)
  BY <1>1 DEF Stands, Begun, Init, Over_
<1> QED BY <1>1, <1>2, <1>4, <1>5, <1>6 DEF Inv, Served

LEMMA RequestInv ==
    ASSUME Inv, NEW type \in Types, js_async_generator_next(type)
    PROVE  Inv'
<1>1. TypeOK /\ QueueExact /\ Control /\ Len(queue) \in Nat
  BY DEF Inv, TypeOK
<1>2. /\ requests' = Append(requests, type) /\ queue' = Append(queue, Req(Len(requests) + 1, type))
      /\ looping' = (looping \/ state # "EXECUTING")
      /\ UNCHANGED <<state, body, frees, awaiting, made, given, answers, failed>>
  BY DEF js_async_generator_next, Queued, ResumesAtOnce
<1>3. /\ QueueExact' /\ queue' \in Seq(Requests) /\ Len(queue') = Len(queue) + 1
      /\ Len(queue) > 0 => queue'[1] = queue[1]
  <2>1. Len(queue) > 0 => 1 \in 1..Len(queue)
    BY <1>1
  <2> QED BY <1>1, <1>2, <2>1, QueueRequested
<1>4. Grows /\ requests' \in Seq(Types)
  BY <1>1, <1>2, GrowsByOne
<1>5. TypeOK'
  BY <1>1, <1>2, <1>3, <1>4 DEF TypeOK
<1>6. Control'
  <2>1. state' \in {"SUSPENDED_START", "SUSPENDED_YIELD"} => looping' = TRUE
    <3>1. looping \in BOOLEAN /\ state' = state /\ (state # "EXECUTING" => looping' = TRUE)
      BY <1>1, <1>2 DEF Control
    <3> QED BY <3>1
  <2>2. looping => looping' = TRUE
    BY <1>1, <1>2 DEF Control
  <2>3. looping' \in BOOLEAN /\ (state = "EXECUTING" => looping' = looping)
    BY <1>1, <1>2 DEF Control
  <2>4. state = "AWAITING_RETURN" \/ state = "EXECUTING" =>
            Len(queue') > 0 /\ queue'[1] = queue[1]
    BY <1>1, <1>3 DEF Control
  <2> QED BY <1>1, <1>2, <2>1, <2>2, <2>3, <2>4 DEF Control
<1>7. PICK f : Steps(f) /\ Stands(f[Len(answers)])
  BY DEF Inv, Served
<1>8. Steps(f)'
  BY <1>1, <1>2, <1>4, <1>5, <1>7, NoAnswer
<1>9. Stands(f[Len(answers)])'
  BY <1>1, <1>2, <1>3, <1>7 DEF Stands, Control
<1> QED BY <1>3, <1>5, <1>6, <1>8, <1>9 DEF Inv, Served

(* Steps of the loop, and await: nothing is asked or answered.             *)
LEMMA QuietInv ==
    ASSUME Inv, UNCHANGED <<queue, requests, made, given, answers>>, Control',
           \A acc \in Accs : Stands(acc) => Stands(acc)', frees' \in Nat
    PROVE  Inv'
<1>1. TypeOK /\ QueueExact /\ Control
  BY DEF Inv
<1>2. TypeOK' /\ QueueExact'
  BY <1>1 DEF TypeOK, QueueExact, Req
<1>3. Grows
  BY <1>1 DEF Grows, TypeOK
<1>4. PICK f : Steps(f) /\ Stands(f[Len(answers)])
  BY DEF Inv, Served
<1>5. Steps(f)'
  BY <1>1, <1>2, <1>3, <1>4, NoAnswer
<1>6. PICK acc : acc = f[Len(answers)]
  OBVIOUS
<1>7. acc \in Accs
  <2>1. f \in [0..Len(answers) -> Accs]
    BY <1>4 DEF Steps
  <2>2. Len(answers) \in 0..Len(answers)
    BY <1>1 DEF TypeOK
  <2> QED BY <1>6, <2>1, <2>2
<1>8. Stands(acc)'
  BY <1>4, <1>6, <1>7
<1>9. Stands(f[Len(answers)])'
  BY <1>6, <1>8
<1> QED BY <1>2, <1>5, <1>9 DEF Inv, Served

LEMMA LoopInv ==
    ASSUME Inv, LoopEnds \/ async_func_resume \/ CompleteBeforeStart \/ js_async_generator_await
    PROVE  Inv'
<1>1. TypeOK /\ QueueExact /\ Control /\ Len(queue) \in Nat /\ frees \in Nat
      /\ (queue = <<>> <=> Len(queue) = 0)
  BY DEF Inv, TypeOK
<1>2. Len(queue) > 0 => Head(queue) = queue[1] /\ queue[1].completion_type \in Types
  BY <1>1, OldestRequest
<1>3. CASE LoopEnds
  <2>1. Control'
    <3>1. state # "EXECUTING" /\ body # "running"
      BY <1>1, <1>3 DEF LoopEnds, Control, Turn
    <3>2. looping' = FALSE /\ UNCHANGED <<state, queue, body, frees, awaiting, failed>>
      BY <1>3 DEF LoopEnds
    <3>3. state \in {"SUSPENDED_START", "SUSPENDED_YIELD"} => Len(queue) = 0
      BY <1>1, <1>3 DEF LoopEnds
    <3> QED BY <1>1, <3>1, <3>2, <3>3 DEF Control
  <2>2. \A acc \in Accs : Stands(acc) => Stands(acc)'
    BY <1>3 DEF LoopEnds, Stands
  <2> QED BY <1>1, <1>3, <2>1, <2>2, QuietInv DEF LoopEnds
<1>4. CASE async_func_resume
  <2>1. Control'
    <3>1. /\ state' = "EXECUTING" /\ body' = "running" /\ failed' = (failed \/ body = "awaiting")
          /\ UNCHANGED <<queue, looping, frees, awaiting>>
      BY <1>4 DEF async_func_resume
    <3>2. looping /\ Len(queue) > 0 /\ state \in {"EXECUTING", "SUSPENDED_YIELD", "SUSPENDED_START"}
      BY <1>1, <1>4 DEF async_func_resume, Turn
    <3>3. body # "awaiting" /\ awaiting = "none" /\ ~failed /\ frees = 0
      BY <1>1, <3>2 DEF Control, Over_
    <3> QED BY <1>1, <3>1, <3>2, <3>3 DEF Control, States, Over_
  <2>2. \A acc \in Accs : Stands(acc) => Stands(acc)'
    BY <1>1, <1>2, <1>4 DEF async_func_resume, Stands, Over_
  <2> QED BY <1>1, <1>4, <2>1, <2>2, QuietInv DEF async_func_resume
<1>5. CASE CompleteBeforeStart
  <2>1. Control' /\ frees' \in Nat
    BY <1>1, <1>5 DEF CompleteBeforeStart, js_async_generator_complete, Control, Turn, States, Over_
  <2>2. \A acc \in Accs : Stands(acc) => Stands(acc)'
    BY <1>1, <1>2, <1>5 DEF CompleteBeforeStart, js_async_generator_complete, Stands, Over_
  <2> QED BY <1>1, <1>5, <2>1, <2>2, QuietInv DEF CompleteBeforeStart
<1>6. CASE js_async_generator_await
  <2>1. Control'
    BY <1>1, <1>6 DEF js_async_generator_await, Control, Over_
  <2>2. \A acc \in Accs : Stands(acc) => Stands(acc)'
    BY <1>6 DEF js_async_generator_await, Stands
  <2> QED BY <1>1, <1>6, <2>1, <2>2, QuietInv DEF js_async_generator_await
<1> QED BY <1>3, <1>4, <1>5, <1>6

(* Steps that answer the oldest request, as the next step of serving does. *)
LEMMA AnswerInv ==
    ASSUME Inv, Len(queue) > 0, requests' = requests, queue' = Tail(queue),
           NEW a \in AnswerSet, answers' = Append(answers, a), Grows,
           made' \in Seq({"yield", "return", "throw"}), given' \in Seq(BOOLEAN), frees' \in Nat,
           Control', NEW id, id = Len(answers) + 1,
           \A acc \in Accs : Stands(acc) =>
               \E v \in Accs : v = Serve(acc, id)' /\ ~v.stop /\ Stands(v)'
    PROVE  Inv'
<1> PICK A : A = Len(answers)
  OBVIOUS
<1>1. TypeOK /\ QueueExact /\ Control /\ A \in Nat /\ id = A + 1
  BY DEF Inv, TypeOK
<1>2. QueueExact' /\ queue' \in Seq(Requests)
  BY <1>1, QueueAnswered
<1>3. answers' \in Seq(AnswerSet) /\ requests' \in Seq(Types)
  BY <1>1 DEF TypeOK
<1>4. TypeOK'
  BY <1>2, <1>3 DEF TypeOK
<1>5. PICK f : Steps(f) /\ Stands(f[Len(answers)])
  BY DEF Inv, Served
<1>6. PICK acc : acc = f[A]
  OBVIOUS
<1>7. acc \in Accs /\ Stands(acc)
  <2>1. f \in [0..A -> Accs] /\ A \in 0..A
    BY <1>1, <1>5 DEF Steps
  <2> QED BY <1>5, <1>6, <2>1
<1>8. PICK v \in Accs : v = Serve(acc, id)' /\ ~v.stop /\ Stands(v)'
  BY <1>7
<1>9. v = Serve(acc, id)' /\ ~v.stop
  BY <1>8
<1>10. PICK h : Steps(h)' /\ h[Len(answers')] = v
  <2>1. TypeOK /\ TypeOK' /\ QueueExact /\ Grows /\ Steps(f) /\ answers' = Append(answers, a)
    BY <1>1, <1>4, <1>5
  <2>2. \E h : Steps(h)' /\ h[Len(answers')] = v
    BY <1>1, <1>6, <1>9, <2>1, OneAnswer, ZenonT(60)
  <2> QED BY <2>2
<1>11. Stands(h[Len(answers)])'
  BY <1>8, <1>10
<1> QED BY <1>2, <1>4, <1>10, <1>11 DEF Inv, Served

LEMMA BodyInv ==
    ASSUME Inv, NEW how \in {"yield", "return", "throw"},
           how = "yield" => BodyYields, how # "yield" => BodyEnds(how)
    PROVE  Inv'
<1>1. TypeOK /\ QueueExact /\ Control /\ body = "running" /\ state = "EXECUTING" /\ Len(queue) > 0
  BY DEF Inv, Control, BodyYields, BodyEnds
<1> PICK A : A = Len(answers)
  OBVIOUS
<1>2. /\ requests[A + 1] = queue[1].completion_type /\ queue[1].id = A + 1
      /\ A + 1 \in 1..Len(requests) /\ A \in Nat /\ Head(queue) = queue[1]
  BY <1>1, OldestRequest
<1>3. PICK a : a = Answer(A + 1, how = "throw", how # "yield", Len(made) + 1)
  OBVIOUS
<1>4. /\ answers' = Append(answers, a) /\ queue' = Tail(queue) /\ made' = Append(made, how)
      /\ body' = "suspended" /\ UNCHANGED <<looping, awaiting, requests, given, failed>>
  <2>1. CASE how = "yield"
    BY <1>2, <1>3, <2>1 DEF BodyYields, js_async_generator_resolve_or_reject
  <2>2. CASE how # "yield"
    BY <1>2, <1>3, <2>2 DEF BodyEnds, js_async_generator_resolve_or_reject
  <2> QED BY <2>1, <2>2
<1>5. /\ how = "yield" => state' = "SUSPENDED_YIELD" /\ frees' = frees
      /\ how # "yield" => state' = "COMPLETED" /\ frees' = frees + 1
  BY <1>1 DEF BodyYields, BodyEnds, js_async_generator_complete
<1>6. /\ Len(made) \in Nat /\ made' \in Seq({"yield", "return", "throw"})
      /\ Len(made') = Len(made) + 1 /\ made'[Len(made) + 1] = how
  BY <1>1, <1>4 DEF TypeOK
<1>7. a \in AnswerSet
  BY <1>2, <1>3, <1>6 DEF Answer, AnswerSet
<1>8. Grows /\ given' \in Seq(BOOLEAN)
  BY <1>1, <1>4, GrowsByOne DEF Types
<1>9. looping /\ awaiting = "none" /\ frees = 0 /\ ~failed
  BY <1>1 DEF Control, Over_
<1>10. Control' /\ frees' \in Nat
  BY <1>1, <1>4, <1>5, <1>9 DEF Control, States, Over_
<1>11. ASSUME NEW acc \in Accs, Stands(acc)
       PROVE  \E v \in Accs : v = Serve(acc, A + 1)' /\ ~v.stop /\ Stands(v)'
  <2>1. /\ acc.list = answers /\ acc.m = Len(made) /\ acc.g = Len(given) /\ ~acc.stop /\ ~acc.over
        /\ acc.m > 0 \/ queue[1].completion_type = NEXT
    BY <1>1, <1>11 DEF Stands, Over_
  <2>2. requests'[A + 1] = queue[1].completion_type
    BY <1>2, <1>4
  <2>3. PICK n : n = A + 1
    OBVIOUS
  <2>4. ~Over(acc, n)'
    BY <1>6, <2>1, <2>2, <2>3 DEF Over
  <2>5. acc.m + 1 = Len(made') /\ n \in Nat
    BY <1>2, <1>6, <2>1, <2>3
  <2> DEFINE v == [m |-> acc.m + 1, g |-> acc.g, over |-> made'[acc.m + 1] # "yield",
                                 stop |-> FALSE, list |-> Append(acc.list,
                   Answer(n, made'[acc.m + 1] = "throw", made'[acc.m + 1] # "yield", acc.m + 1))]
  <2>6. Serve(acc, n)' = v /\ Serve(acc, n)' \in Accs
    BY <1>6, <2>1, <2>4, <2>5, ServesBody
  <2>7. PICK w : w = v
    OBVIOUS
  <2>8. /\ w.list = answers' /\ w.m = Len(made') /\ w.g = Len(given') /\ w.stop = FALSE
        /\ w.over = (how # "yield") /\ w.m > 0
    BY <1>3, <1>4, <1>6, <2>1, <2>3, <2>7
  <2>9. w \in Accs /\ w = Serve(acc, n)'
    BY <2>6, <2>7
  <2> HIDE DEF v
  <2>10. Stands(w)'
    BY <1>5, <2>8 DEF Stands, Over_
  <2> QED BY <2>3, <2>8, <2>9, <2>10
<1>12. PICK id : id = A + 1
  OBVIOUS
<1>13. \A acc \in Accs : Stands(acc) =>
           \E v \in Accs : v = Serve(acc, id)' /\ ~v.stop /\ Stands(v)'
  BY <1>11, <1>12
<1> QED BY <1>1, <1>4, <1>6, <1>7, <1>8, <1>10, <1>12, <1>13, AnswerInv

(* A generator that has ended answers by itself: a next with nothing, a    *)
(* throw with its value, a return as its promise was settled.              *)
LEMMA EndInv ==
    ASSUME Inv, Len(queue) > 0, state \in Over_, NEW type \in Types, queue[1].completion_type = type,
           NEW r \in BOOLEAN, type = NEXT => r = FALSE, type = THROW => r = TRUE,
           requests' = requests, made' = made, queue' = Tail(queue), state' = "COMPLETED",
           given' = IF type = RETURN THEN Append(given, r) ELSE given,
           answers' = Append(answers, Answer(Head(queue).id, r, TRUE,
                                             IF type = NEXT THEN UNDEFINED ELSE REQUEST)),
           Control', frees' \in Nat
    PROVE  Inv'
<1>1. TypeOK /\ QueueExact /\ Control
  BY DEF Inv
<1> PICK id : id = Len(answers) + 1
  OBVIOUS
<1>2. /\ requests[id] = type /\ queue[1].id = id
      /\ id \in 1..Len(requests) /\ id \in Nat /\ Head(queue) = queue[1]
  BY <1>1, OldestRequest
<1>3. PICK a : a = Answer(id, r, TRUE, IF type = NEXT THEN UNDEFINED ELSE REQUEST)
  OBVIOUS
<1>4. a \in AnswerSet /\ answers' = Append(answers, a)
  <2>1. PICK x : x = IF type = NEXT THEN UNDEFINED ELSE REQUEST
    OBVIOUS
  <2>2. x \in Int
    BY <2>1 DEF UNDEFINED, REQUEST
  <2>3. a = Answer(id, r, TRUE, x) /\ answers' = Append(answers, Answer(id, r, TRUE, x))
    BY <1>2, <1>3, <2>1
  <2>4. a \in AnswerSet
    BY <1>2, <2>2, <2>3 DEF Answer, AnswerSet
  <2> QED BY <2>3, <2>4
<1>5. Grows /\ given' \in Seq(BOOLEAN) /\ made' \in Seq({"yield", "return", "throw"})
  BY <1>1, GrowsByOne DEF Types
<1>6. type = RETURN => Len(given') = Len(given) + 1 /\ given'[Len(given) + 1] = r
  <2>1. given \in Seq(BOOLEAN)
    BY <1>1 DEF TypeOK
  <2> QED BY <2>1
<1>7. ASSUME NEW acc \in Accs, Stands(acc)
      PROVE  \E v \in Accs : v = Serve(acc, id)' /\ ~v.stop /\ Stands(v)'
  <2>1. /\ acc.list = answers /\ acc.m = Len(made) /\ acc.g = Len(given) /\ ~acc.stop
        /\ acc.over \/ (acc.m = 0 /\ type # NEXT)
    BY <1>1, <1>7 DEF Stands, Over_
  <2>2. requests'[id] = type
    BY <1>2
  <2>3. Over(acc, id)'
    BY <2>1, <2>2 DEF Over
  <2>4. type = RETURN => acc.g + 1 = Len(given') /\ given'[acc.g + 1] = r
    BY <1>6, <2>1
  <2> DEFINE v == [m |-> acc.m, g |-> IF type = RETURN THEN acc.g + 1 ELSE acc.g,
                                 over |-> TRUE, stop |-> FALSE, list |-> Append(acc.list,
                   Answer(id, r, TRUE, IF type = NEXT THEN UNDEFINED ELSE REQUEST))]
  <2>5. Serve(acc, id)' = v /\ Serve(acc, id)' \in Accs
    BY <1>2, <1>5, <2>1, <2>2, <2>3, <2>4, ServesEnd
  <2>6. PICK w : w = v
    OBVIOUS
  <2>7. /\ w.list = answers' /\ w.m = Len(made') /\ w.g = Len(given') /\ w.stop = FALSE
        /\ w.over = TRUE
    BY <1>3, <1>4, <1>6, <2>1, <2>6
  <2>8. w \in Accs /\ w = Serve(acc, id)'
    BY <2>5, <2>6
  <2> HIDE DEF v
  <2>9. Stands(w)'
    BY <2>7 DEF Stands, Over_
  <2> QED BY <2>7, <2>8, <2>9
<1>8. \A acc \in Accs : Stands(acc) =>
          \E v \in Accs : v = Serve(acc, id)' /\ ~v.stop /\ Stands(v)'
  BY <1>7
<1> QED BY <1>4, <1>5, <1>8, AnswerInv

LEMMA CompletedInv ==
    ASSUME Inv, Completed
    PROVE  Inv'
<1>1. /\ TypeOK /\ QueueExact /\ Control /\ Len(queue) > 0 /\ state = "COMPLETED" /\ looping' = FALSE
      /\ frees \in Nat /\ body # "running"
      /\ UNCHANGED <<body, frees, requests, made, given, failed>>
  BY DEF Inv, Completed, TypeOK, Turn
<1>2. queue[1].completion_type \in Types /\ Head(queue) = queue[1]
  BY <1>1, OldestRequest
<1>3. CASE queue[1].completion_type = RETURN
  <2>1. /\ state' = "AWAITING_RETURN" /\ awaiting' = "return" /\ UNCHANGED <<queue, answers>>
    BY <1>2, <1>3 DEF Completed, js_async_generator_completed_return, NEXT, RETURN, THROW
  <2>2. Control'
    BY <1>1, <1>3, <2>1 DEF Control, States, Over_
  <2>3. \A acc \in Accs : Stands(acc) => Stands(acc)'
    BY <1>1, <2>1 DEF Stands, Over_
  <2> QED BY <1>1, <2>1, <2>2, <2>3, QuietInv
<1>4. CASE queue[1].completion_type = NEXT
  <2>1. /\ answers' = Append(answers, Answer(Head(queue).id, FALSE, TRUE, UNDEFINED))
        /\ queue' = Tail(queue) /\ UNCHANGED <<state, awaiting>>
    BY <1>2, <1>4 DEF Completed, js_async_generator_resolve_or_reject, NEXT, RETURN, THROW
  <2>2. Control'
    BY <1>1, <2>1 DEF Control, States, Over_
  <2> QED BY <1>1, <1>2, <1>4, <2>1, <2>2, EndInv DEF Over_, NEXT, RETURN, THROW
<1>5. CASE queue[1].completion_type = THROW
  <2>1. /\ answers' = Append(answers, Answer(Head(queue).id, TRUE, TRUE, REQUEST))
        /\ queue' = Tail(queue) /\ UNCHANGED <<state, awaiting>>
    BY <1>2, <1>5 DEF Completed, js_async_generator_resolve_or_reject, NEXT, RETURN, THROW
  <2>2. Control'
    BY <1>1, <2>1 DEF Control, States, Over_
  <2> QED BY <1>1, <1>2, <1>5, <2>1, <2>2, EndInv DEF Over_, NEXT, RETURN, THROW
<1> QED BY <1>2, <1>3, <1>4, <1>5 DEF Types

LEMMA ResolveInv ==
    ASSUME Inv, NEW r \in BOOLEAN, js_async_generator_resolve_function(r)
    PROVE  Inv'
<1>1. /\ TypeOK /\ QueueExact /\ Control /\ frees \in Nat /\ ~looping /\ awaiting # "none"
      /\ awaiting' = "none" /\ UNCHANGED <<frees, requests, made>>
  BY DEF Inv, TypeOK, js_async_generator_resolve_function
<1>2. CASE awaiting = "return"
  <2>1. state = "AWAITING_RETURN" /\ Len(queue) > 0 /\ queue[1].completion_type = RETURN
    BY <1>1, <1>2 DEF Control
  <2>2. /\ failed' = (failed \/ state \notin {"AWAITING_RETURN", "COMPLETED"})
        /\ state' = "COMPLETED" /\ given' = Append(given, r) /\ UNCHANGED <<looping, body>>
        /\ answers' = Append(answers, Answer(Head(queue).id, r, TRUE, REQUEST))
        /\ queue' = Tail(queue)
    BY <1>2 DEF js_async_generator_resolve_function, js_async_generator_resolve_or_reject
  <2>3. Control'
    BY <1>1, <1>2, <2>1, <2>2 DEF Control, States, Over_
  <2> QED BY <1>1, <2>1, <2>2, <2>3, EndInv DEF Over_, NEXT, RETURN, THROW, Types
<1>3. CASE awaiting = "body"
  <2>1. state = "EXECUTING" /\ Len(queue) > 0 /\ ~failed
    BY <1>1, <1>3 DEF Control
  <2>2. /\ failed' = (failed \/ state # "EXECUTING") /\ looping' = TRUE /\ body' = "suspended"
        /\ UNCHANGED <<state, queue, given, answers>>
    BY <1>3 DEF js_async_generator_resolve_function
  <2>3. Control'
    BY <1>1, <1>3, <2>1, <2>2 DEF Control, States, Over_
  <2>4. \A acc \in Accs : Stands(acc) => Stands(acc)'
    BY <1>1, <2>2 DEF Stands
  <2> QED BY <1>1, <2>2, <2>3, <2>4, QuietInv
<1> QED BY <1>1, <1>2, <1>3 DEF Control

LEMMA NextInv == Inv /\ [Next]_vars => Inv'
<1> SUFFICES ASSUME Inv, [Next]_vars PROVE Inv'
  OBVIOUS
<1>1. CASE \E type \in Types : js_async_generator_next(type)
  BY <1>1, RequestInv
<1>2. CASE LoopEnds \/ async_func_resume \/ CompleteBeforeStart \/ js_async_generator_await
  BY <1>2, LoopInv
<1>3. CASE Completed
  BY <1>3, CompletedInv
<1>4. CASE BodyYields
  BY <1>4, BodyInv
<1>5. CASE BodyEnds("return")
  BY <1>5, BodyInv
<1>6. CASE BodyEnds("throw")
  BY <1>6, BodyInv
<1>7. CASE \E r \in BOOLEAN : js_async_generator_resolve_function(r)
  BY <1>7, ResolveInv
<1>8. CASE UNCHANGED vars
  <2>1. /\ UNCHANGED <<state, queue, looping, body, frees, awaiting>>
        /\ UNCHANGED <<requests, made, given, answers, failed>>
    BY <1>8 DEF vars
  <2>2. Control /\ frees \in Nat
    BY DEF Inv, TypeOK
  <2>3. Control'
    BY <2>1, <2>2 DEF Control
  <2>4. \A acc \in Accs : Stands(acc) => Stands(acc)'
    BY <2>1 DEF Stands
  <2> QED BY <2>1, <2>2, <2>3, <2>4, QuietInv
<1> QED BY <1>1, <1>2, <1>3, <1>4, <1>5, <1>6, <1>7, <1>8 DEF Next

LEMMA InvHolds == Spec => []Inv
<1> QED BY InitInv, NextInv, PTL DEF Spec

-----------------------------------------------------------------------------
(* Expected serves the same requests, so it begins with the answers given. *)
LEMMA ExpectedBegins ==
    ASSUME Inv
    PROVE  AnswersInOrder
<1> DEFINE N == Len(requests)
           A == Len(answers)
<1>1. TypeOK /\ QueueExact /\ N \in Nat /\ A \in Nat /\ A <= N
  BY DEF Inv, TypeOK, QueueExact
<1>2. PICK f : Steps(f) /\ Stands(f[A])
  BY DEF Inv, Served
<1>3. f \in [0..A -> Accs] /\ f[0] = Begun /\ \A n \in 1..A : f[n] = Serve(f[n - 1], n)
  BY <1>2 DEF Steps
<1>4. ASSUME NEW acc \in Accs, NEW n \in 1..N
      PROVE  /\ Serve(acc, n) \in Accs
             /\ Len(acc.list) <= Len(Serve(acc, n).list)
             /\ \A i \in 1..Len(acc.list) : Serve(acc, n).list[i] = acc.list[i]
  <2>1. /\ acc.m \in Nat /\ acc.g \in Nat /\ acc.over \in BOOLEAN /\ acc.stop \in BOOLEAN
        /\ acc.list \in Seq(AnswerSet) /\ requests[n] \in Types /\ n \in Nat
        /\ acc = [m |-> acc.m, g |-> acc.g, over |-> acc.over, stop |-> acc.stop, list |-> acc.list]
    BY <1>1 DEF Accs, TypeOK
  <2>2. CASE acc.stop \/ Waits(acc, n)
    <3>1. Serve(acc, n) = [acc EXCEPT !.stop = TRUE]
      BY <2>2 DEF Serve
    <3>2. Serve(acc, n) \in Accs /\ Serve(acc, n).list = acc.list
      BY <3>1 DEF Accs
    <3> QED BY <2>1, <3>2
  <2>3. CASE ~(acc.stop \/ Waits(acc, n)) /\ Over(acc, n)
    <3> DEFINE a == AfterEnd(acc, n)
               g == IF requests[n] = RETURN THEN acc.g + 1 ELSE acc.g
    <3>1. Serve(acc, n) = [acc EXCEPT !.over = TRUE, !.g = g, !.list = Append(acc.list, a)]
      BY <2>1, <2>3 DEF Serve
    <3>2. a \in AnswerSet
      <4>1. requests[n] = RETURN => given[acc.g + 1] \in BOOLEAN
        <5> SUFFICES ASSUME requests[n] = RETURN PROVE given[acc.g + 1] \in BOOLEAN
          OBVIOUS
        <5>1. ~(acc.g >= Len(given)) /\ given \in Seq(BOOLEAN) /\ Len(given) \in Nat
          BY <1>1, <2>3 DEF Waits, TypeOK
        <5>2. acc.g + 1 \in 1..Len(given)
          BY <2>1, <5>1
        <5> QED BY <5>1, <5>2
      <4> QED BY <2>1, <4>1 DEF AfterEnd, Answer, AnswerSet, UNDEFINED, REQUEST, Types, NEXT, RETURN, THROW
    <3>3. g \in Nat
      BY <2>1
    <3> HIDE DEF a, g
    <3>4. Append(acc.list, a) \in Seq(AnswerSet)
      BY <2>1, <3>2
    <3>5. Serve(acc, n) \in Accs /\ Serve(acc, n).list = Append(acc.list, a)
      BY <3>1, <3>3, <3>4 DEF Accs
    <3> QED BY <2>1, <3>2, <3>5, LongerByOne
  <2>4. CASE ~(acc.stop \/ Waits(acc, n)) /\ ~Over(acc, n)
    <3> DEFINE a == FromBody(acc, n)
               o == made[acc.m + 1] # "yield"
    <3>1. Serve(acc, n) = [acc EXCEPT !.m = acc.m + 1, !.over = o, !.list = Append(acc.list, a)]
      BY <2>1, <2>4 DEF Serve
    <3>5. o \in BOOLEAN /\ acc.m + 1 \in Nat
      BY <2>1
    <3>2. a \in AnswerSet
      BY <2>1 DEF FromBody, Answer, AnswerSet
    <3> HIDE DEF a, o
    <3>3. Append(acc.list, a) \in Seq(AnswerSet)
      BY <2>1, <3>2
    <3>4. Serve(acc, n) \in Accs /\ Serve(acc, n).list = Append(acc.list, a)
      BY <2>1, <3>1, <3>3, <3>5 DEF Accs
    <3> QED BY <2>1, <3>2, <3>4, LongerByOne
  <2> QED BY <2>2, <2>3, <2>4
<1> DEFINE Def(e) == e = [n \in 0..N |-> IF n = 0 THEN Begun ELSE Serve(e[n - 1], n)]
           served == CHOOSE e : Def(e)
<1>5. Begun \in Accs
  BY DEF Begun, Accs
<1>6. \E e \in [0..N -> Accs] : Def(e)
  <2> DEFINE step == [n \in 1..N |-> [acc \in Accs |-> Serve(acc, n)]]
  <2>1. step \in [1..N -> [Accs -> Accs]]
    BY <1>4
  <2>2. \A n \in 1..N, acc \in Accs : step[n][acc] = Serve(acc, n)
    OBVIOUS
  <2> HIDE DEF step
  <2>3. PICK e : Computes(e, N, Accs, Begun, step)
    BY <1>1, <1>5, <2>1, RecursionDefines
  <2>4. ASSUME NEW n \in 0..N
        PROVE  e[n] = IF n = 0 THEN Begun ELSE Serve(e[n - 1], n)
    <3>1. n = 0 => e[n] = Begun
      BY <2>3 DEF Computes
    <3>2. n # 0 => n \in 1..N /\ n - 1 \in 0..N
      BY <1>1
    <3>3. n # 0 => e[n] = step[n][e[n - 1]] /\ e[n - 1] \in Accs
      BY <2>3, <3>2 DEF Computes
    <3> QED BY <2>2, <3>1, <3>2, <3>3
  <2>5. Def(e)
    <3>1. e = [n \in 0..N |-> e[n]]
      BY <2>3 DEF Computes
    <3>2. [n \in 0..N |-> e[n]] = [n \in 0..N |-> IF n = 0 THEN Begun ELSE Serve(e[n - 1], n)]
      BY <2>4
    <3> QED BY <3>1, <3>2
  <2>6. e \in [0..N -> Accs]
    BY <2>3 DEF Computes
  <2> QED BY <2>5, <2>6
<1>7. Def(served)
  BY <1>6
<1>8. Expected = served[N].list
  BY DEF Expected
<1> HIDE DEF served
<1>9. /\ served[0] = Begun
      /\ \A n \in 1..N : served[n] = Serve(served[n - 1], n)
  BY <1>1, <1>7
<1> HIDE DEF Def
<1>10. A \in 0..A /\ \A n \in 0..A : n \in {k \in 0..A : served[k] = f[k]}
  <2> DEFINE S == {k \in 0..A : served[k] = f[k]}
  <2>1. 0 \in S
    BY <1>1, <1>3, <1>9
  <2>2. ASSUME NEW k \in 0..A, k \in S, k < A PROVE k + 1 \in S
    <3>1. k + 1 \in 1..A /\ k + 1 \in 1..N /\ (k + 1) - 1 = k
      BY <1>1, <2>2
    <3> QED BY <1>3, <1>9, <2>2, <3>1
  <2>3. \A k \in 0..A : k \in S /\ k < A => k + 1 \in S
    BY <2>2
  <2> HIDE DEF S
  <2>4. \A k \in 0..A : k \in S
    BY <1>1, <2>1, <2>3, InductionUpTo
  <2> QED BY <1>1, <2>4 DEF S
<1>11. served[A].list = answers
  BY <1>2, <1>10 DEF Stands
<1> DEFINE Longer(k) == /\ served[A + k] \in Accs /\ Len(answers) <= Len(served[A + k].list)
                        /\ \A i \in 1..Len(answers) : served[A + k].list[i] = answers[i]
           T == {k \in 0..(N - A) : Longer(k)}
<1>12. 0 \in T
  <2>1. served[A] \in Accs
    BY <1>3, <1>10
  <2>2. A + 0 = A /\ 0 \in 0..(N - A)
    BY <1>1
  <2> QED BY <1>1, <1>11, <2>1, <2>2
<1>13. ASSUME NEW k \in 0..(N - A), k \in T, k < N - A PROVE k + 1 \in T
  <2>1. k + 1 \in 0..(N - A) /\ A + (k + 1) \in 1..N /\ (A + (k + 1)) - 1 = A + k
    BY <1>1, <1>13
  <2> PICK acc, next : acc = served[A + k] /\ next = served[A + (k + 1)]
    OBVIOUS
  <2>2. next = Serve(acc, A + (k + 1))
    BY <1>9, <2>1
  <2>3. /\ acc \in Accs /\ Len(answers) <= Len(acc.list)
        /\ \A i \in 1..Len(answers) : acc.list[i] = answers[i]
    BY <1>13
  <2>4. /\ next \in Accs /\ Len(acc.list) <= Len(next.list)
        /\ \A i \in 1..Len(acc.list) : next.list[i] = acc.list[i]
    BY <1>4, <2>1, <2>2, <2>3
  <2>5. Len(acc.list) \in Nat /\ Len(next.list) \in Nat
    BY <2>3, <2>4 DEF Accs
  <2>6. Len(answers) <= Len(next.list)
    BY <1>1, <2>3, <2>4, <2>5
  <2>7. ASSUME NEW i \in 1..Len(answers) PROVE next.list[i] = answers[i]
    <3>1. i \in 1..Len(acc.list)
      BY <1>1, <2>3, <2>5
    <3> QED BY <2>3, <2>4, <3>1
  <2> QED BY <2>1, <2>4, <2>6, <2>7
<1>14. N - A \in Nat
  BY <1>1
<1> HIDE DEF T
<1>15. N - A \in T
  <2>1. \A k \in 0..(N - A) : k \in T /\ k < N - A => k + 1 \in T
    BY <1>13
  <2>2. \A k \in 0..(N - A) : k \in T
    BY <1>12, <1>14, <2>1, InductionUpTo
  <2> QED BY <1>14, <2>2
<1>16. /\ Expected \in Seq(AnswerSet) /\ Len(answers) <= Len(Expected)
       /\ \A i \in 1..Len(answers) : Expected[i] = answers[i]
  <2>1. A + (N - A) = N
    BY <1>1
  <2> QED BY <1>8, <1>15, <2>1 DEF T, Accs
<1>17. SubSeq(answers, 1, Len(answers)) = SubSeq(Expected, 1, Len(answers))
  <2>1. answers \in Seq(AnswerSet)
    BY <1>1 DEF TypeOK
  <2> HIDE DEF N, A
  <2> QED BY <1>16, <2>1
<1> QED BY <1>16, <1>17 DEF AnswersInOrder, IsPrefix

(* However requests, the body and the promises it waits for interleave,    *)
(* the answers are those the language asks for, in order; the frame is     *)
(* freed once and not run after that; and the requests without an answer   *)
(* are in the queue, which is empty when nothing goes on before the end of *)
(* the generator (js_async_generator_resume_next,                          *)
(* js_async_generator_complete).  Requests behind the end may stay         *)
(* unanswered, as they do in the code.                                     *)
THEOREM AnswersAreExact == Spec => []AnswersExact
<1>1. ASSUME Inv PROVE AnswersExact
  <2>1. AnswersInOrder
    BY <1>1, ExpectedBegins
  <2>2. FrameSound
    BY <1>1 DEF Inv, Control, FrameSound, Over_
  <2>3. NoneForgotten
    <3>1. Control /\ QueueExact
      BY <1>1 DEF Inv
    <3>2. ~looping /\ awaiting = "none" /\ state # "COMPLETED" => Len(queue) = 0
      BY <3>1 DEF Control, States
    <3>3. /\ Len(answers) + Len(queue) = Len(requests)
          /\ \A i \in 1..Len(queue) :
                queue[i] = Req(Len(answers) + i, requests[Len(answers) + i])
      <4>1. TypeOK
        BY <1>1 DEF Inv
      <4> QED BY <3>1, <4>1 DEF QueueExact, TypeOK
    <3> QED BY <3>2, <3>3 DEF NoneForgotten
  <2> QED BY <2>1, <2>2, <2>3 DEF AnswersExact
<1> QED BY InvHolds, <1>1, PTL
=============================================================================
