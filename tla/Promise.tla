------------------------------- MODULE Promise ------------------------------
(***************************************************************************)
(* Promises and the job queue of quickjs/quickjs.c: resolving functions,   *)
(* reactions, thenables, then, finally, Promise.all and Promise.race.  A   *)
(* script makes promises and calls resolving functions; an embedder runs   *)
(* the jobs, one after the other.                                          *)
(*                                                                         *)
(* The engine's part is written as operators on a record                   *)
(*   s = [promises, pairs, alls, job_list, twice]                          *)
(* so that one call can do several of them.  A value is plain, a promise   *)
(* or an error.  A handler is named by what it does when called.           *)
(***************************************************************************)
EXTENDS Integers, Sequences, SequencesExt, FiniteSets

CONSTANTS
    Plain,          \* plain values
    Handlers,       \* handlers a script passes to then
    MaxPromises     \* bound: promises a script makes

VARIABLES
    s,              \* the engine's state
    ran             \* the promises returned by then, as their reactions ran

vars == <<s, ran>>

Val(v) == [type |-> "plain", v |-> v]
Ref(p) == [type |-> "promise", p |-> p]
TypeError == [type |-> "error"]
List(vs) == [type |-> "list", vs |-> vs]
Settlement(state, v) == [type |-> "settlement", state |-> state, v |-> v]
UndefinedHandler == [does |-> "nothing"]

Promises == 1..Len(s.promises)
Pending == "pending"
Fulfilled == "fulfilled"
Rejected == "rejected"
StateOf(is_reject) == IF is_reject THEN Rejected ELSE Fulfilled

-----------------------------------------------------------------------------
(* js_create_resolving_functions: a pair of functions that share           *)
(* already_resolved.                                                       *)
WithPair(t, p) ==
    [t EXCEPT !.pairs = Append(@, [promise |-> p, already_resolved |-> FALSE])]

(* A new promise p and its resolving functions, numbered p and             *)
(* Len(pairs).  origin records, for the properties, where it comes from.   *)
js_promise_constructor(t, origin) ==
    WithPair([t EXCEPT !.promises =
                 Append(@, [state |-> Pending, result |-> Val("none"),
                            reactions |-> [r \in BOOLEAN |-> <<>>], origin |-> origin])],
             Len(t.promises) + 1)

JS_EnqueueJob(t, job) == [t EXCEPT !.job_list = Append(@, job)]

ReactionJob(rd, is_reject, arg) ==
    [job |-> "reaction", cap |-> rd.cap, handler |-> rd.handler, is_reject |-> is_reject, arg |-> arg]

(* The order in which reactions become jobs.                               *)
Reactions(list) == list

(* A promise that is settled already is left alone, and the comment says   *)
(* it never happens: twice records that it did.                            *)
fulfill_or_reject_promise(t, p, value, is_reject) ==
    LET list == Reactions(t.promises[p].reactions[is_reject])
    IN  IF t.promises[p].state # Pending THEN [t EXCEPT !.twice = TRUE]
        ELSE [t EXCEPT !.promises[p].state = StateOf(is_reject),
                       !.promises[p].result = value,
                       !.promises[p].reactions = [r \in BOOLEAN |-> <<>>],
                       !.job_list = @ \o [i \in 1..Len(list) |-> ReactionJob(list[i], is_reject, value)]]

AlreadyResolved(t, pair) == t.pairs[pair].already_resolved

(* The resolving functions: only the first call of a pair counts; a        *)
(* promise does not resolve to itself, and to another one in a job.        *)
js_promise_resolve_function_call(t, pair, value, is_reject) ==
    LET p == t.pairs[pair].promise
        u == [t EXCEPT !.pairs[pair].already_resolved = TRUE]
    IN  IF AlreadyResolved(t, pair) THEN t
        ELSE IF is_reject \/ value.type # "promise"
        THEN fulfill_or_reject_promise(u, p, value, is_reject)
        ELSE IF value.p = p THEN fulfill_or_reject_promise(u, p, TypeError, TRUE)
        ELSE JS_EnqueueJob(u, [job |-> "thenable", promise |-> p, thenable |-> value.p])

PromiseSettled(t, p) == t.promises[p].state # Pending

(* cap is the pair to call with what the handler gives; 0 for callers that *)
(* drop the promise then returns.                                          *)
perform_promise_then(t, p, handlers, cap) ==
    LET rd(r) == [cap |-> cap, handler |-> handlers[r]]
        rejected == t.promises[p].state = Rejected
    IN  IF PromiseSettled(t, p)
        THEN JS_EnqueueJob(t, ReactionJob(rd(rejected), rejected, t.promises[p].result))
        ELSE [t EXCEPT !.promises[p].reactions = [r \in BOOLEAN |-> Append(@[r], rd(r))]]

js_promise_then(t, p, handlers, origin) ==
    LET u == js_promise_constructor(t, origin)
    IN  perform_promise_then(u, p, handlers, Len(u.pairs))

OnBoth(onFulfilled, onRejected) == [r \in BOOLEAN |-> IF r THEN onRejected ELSE onFulfilled]

-----------------------------------------------------------------------------
\* Mutant: the values are taken in the order they come.
Placed_arrival(values, remaining, index, value) ==
    [values EXCEPT ![Len(values) - remaining + 1] = value]
Placed(values, remaining, index, value) == [values EXCEPT ![index] = value]

(* remainingElementsCount_add by -1, and what follows when it reaches 0.   *)
ElementDone(t, a) ==
    LET u == [t EXCEPT !.alls[a].remaining = @ - 1]
    IN  IF u.alls[a].remaining # 0 THEN u
        ELSE js_promise_resolve_function_call(u, u.alls[a].pair, List(u.alls[a].values),
                                              u.alls[a].magic = "any")

(* allSettled keeps with a value how the element was settled.              *)
js_promise_all_resolve_element(t, a, index, value, is_reject) ==
    LET kept == IF t.alls[a].magic = "allSettled" THEN Settlement(StateOf(is_reject), value) ELSE value
    IN  ElementDone([t EXCEPT !.alls[a].values = Placed(@, t.alls[a].remaining, index, kept)], a)

(* Promise.all, allSettled and any (magic): a counter that starts at 1 for *)
(* the loop over the elements.  The elements are promises, which           *)
(* Promise.resolve returns as they are.                                    *)
js_promise_all(t, elements, magic) ==
    LET u == js_promise_constructor(t, [kind |-> magic, of |-> elements])
        a == Len(u.alls) + 1
        begun == [u EXCEPT !.alls = Append(@, [pair |-> Len(u.pairs), magic |-> magic, remaining |-> 1,
                                               values |-> [i \in 1..Len(elements) |-> Val("none")]])]
        handler(r, i) ==
            IF magic = "allSettled" \/ r = (magic = "any")
            THEN [does |-> "element", all |-> a, index |-> i]
            ELSE [does |-> "resolving", pair |-> Len(u.pairs), is_reject |-> r]
        add(v, i) == perform_promise_then([v EXCEPT !.alls[a].remaining = @ + 1], elements[i],
                                          [r \in BOOLEAN |-> handler(r, i)], 0)
        loop[i \in 0..Len(elements)] == IF i = 0 THEN begun ELSE add(loop[i - 1], i)
    IN  ElementDone(loop[Len(elements)], a)

(* Promise.race: every element settles the result, the first one counts.   *)
js_promise_race(t, elements) ==
    LET u == js_promise_constructor(t, [kind |-> "race", of |-> elements])
        fn(r) == [does |-> "resolving", pair |-> Len(u.pairs), is_reject |-> r]
        loop[i \in 0..Len(elements)] ==
            IF i = 0 THEN u
            ELSE perform_promise_then(loop[i - 1], elements[i], OnBoth(fn(FALSE), fn(TRUE)), 0)
    IN  loop[Len(elements)]

(* Promise.resolve: a promise is returned as it is, a plain value gets a   *)
(* new one that is fulfilled with it.                                      *)
js_promise_resolve(t, value) ==
    LET u == js_promise_constructor(t, [kind |-> "inner", value |-> value])
    IN  IF value.type = "promise" THEN [st |-> t, p |-> value.p]
        ELSE [st |-> js_promise_resolve_function_call(u, Len(u.pairs), value, FALSE), p |-> Len(u.promises)]

(* The functions finally passes to then: after onFinally they wait for a   *)
(* promise of its result, and then give the old outcome again.             *)
js_promise_then_finally_func(t, onFinally, is_reject, arg) ==
    LET r == js_promise_resolve(t, onFinally.value)
        handlers == OnBoth([does |-> IF is_reject THEN "throw" ELSE "return", value |-> arg], UndefinedHandler)
        w == js_promise_then(r.st, r.p, handlers, [kind |-> "then", of |-> r.p, handlers |-> handlers])
    IN  IF onFinally.does = "throw" THEN [st |-> t, threw |-> TRUE, value |-> onFinally.value]
        ELSE [st |-> w, threw |-> FALSE, value |-> Ref(Len(w.promises))]

(* What calling a handler does: the new state, and what it returns or      *)
(* throws.                                                                 *)
JS_Call(t, handler, is_reject, arg) ==
    CASE handler.does = "nothing" -> [st |-> t, threw |-> is_reject, value |-> arg]
      [] handler.does \in {"return", "throw"} ->
            [st |-> t, threw |-> handler.does = "throw", value |-> handler.value]
      [] handler.does = "resolving" ->
            [st |-> js_promise_resolve_function_call(t, handler.pair, arg, handler.is_reject),
             threw |-> FALSE, value |-> Val("none")]
      [] handler.does = "element" ->
            [st |-> js_promise_all_resolve_element(t, handler.all, handler.index, arg, is_reject),
             threw |-> FALSE, value |-> Val("none")]
      [] handler.does = "finally" -> js_promise_then_finally_func(t, handler.onFinally, is_reject, arg)

promise_reaction_job(t, job) ==
    LET c == JS_Call(t, job.handler, job.is_reject, job.arg)
    IN  IF job.cap = 0 THEN c.st
        ELSE js_promise_resolve_function_call(c.st, job.cap, c.value, c.threw)

js_promise_resolve_thenable_job(t, job) ==
    LET u == WithPair(t, job.promise)
        fn(r) == [does |-> "resolving", pair |-> Len(u.pairs), is_reject |-> r]
    IN  perform_promise_then(u, job.thenable, OnBoth(fn(FALSE), fn(TRUE)), 0)

-----------------------------------------------------------------------------
Init == s = [promises |-> <<>>, pairs |-> <<>>, alls |-> <<>>, job_list |-> <<>>, twice |-> FALSE] /\ ran = <<>>

Room == Len(s.promises) < MaxPromises

NewPromise == Room /\ s' = js_promise_constructor(s, [kind |-> "new", fate |-> [is_reject |-> FALSE, value |-> Val("none")]])
                   /\ UNCHANGED ran

(* The script calls a resolving function it holds, those of a promise it   *)
(* made; the first call decides its fate.                                  *)
Settle(p, value, is_reject) ==
    LET pair == CHOOSE q \in 1..Len(s.pairs) :
                    s.pairs[q].promise = p /\ \A r \in 1..(q - 1) : s.pairs[r].promise # p
        t == IF s.pairs[pair].already_resolved THEN s
             ELSE [s EXCEPT !.promises[p].origin.fate = [is_reject |-> is_reject, value |-> value]]
    IN  /\ p \in Promises /\ s.promises[p].origin.kind = "new"
        /\ s' = js_promise_resolve_function_call(t, pair, value, is_reject)
        /\ UNCHANGED ran

Then(p, handlers) ==
    /\ Room /\ p \in Promises
    /\ s' = js_promise_then(s, p, handlers, [kind |-> "then", of |-> p, handlers |-> handlers])
    /\ UNCHANGED ran

(* js_promise_finally.                                                     *)
Finally(p, onFinally) ==
    /\ Room /\ p \in Promises
    /\ LET f == [does |-> "finally", onFinally |-> onFinally]
       IN  s' = js_promise_then(s, p, OnBoth(f, f), [kind |-> "finally", of |-> p, onFinally |-> onFinally])
    /\ UNCHANGED ran

All(elements, magic) == Room /\ s' = js_promise_all(s, elements, magic) /\ UNCHANGED ran
Race(elements) == Room /\ s' = js_promise_race(s, elements) /\ UNCHANGED ran

JS_ExecutePendingJob ==
    /\ s.job_list # <<>>
    /\ LET job == Head(s.job_list)
           t == [s EXCEPT !.job_list = Tail(@)]
       IN  /\ s' = IF job.job = "thenable" THEN js_promise_resolve_thenable_job(t, job)
                   ELSE promise_reaction_job(t, job)
           /\ ran' = IF job.job = "reaction" /\ job.cap # 0
                     THEN Append(ran, s.pairs[job.cap].promise) ELSE ran

ScriptNext ==
    \/ NewPromise
    \/ \E p \in Promises :
          \/ \E v \in {Val(x) : x \in Plain} \cup {Ref(q) : q \in Promises}, r \in BOOLEAN : Settle(p, v, r)
          \/ \E h \in Handlers : Then(p, h) \/ \E r \in BOOLEAN : h[r] # UndefinedHandler /\ Finally(p, h[r])
    \/ \E e \in {<<>>} \cup (Promises \X Promises), magic \in {"all", "allSettled", "any"} : All(e, magic)
    \/ \E e \in Promises \X Promises : Race(e)

Next == ScriptNext \/ JS_ExecutePendingJob

Spec == Init /\ [][Next]_vars

-----------------------------------------------------------------------------
Outcome(p) == [state |-> s.promises[p].state, result |-> s.promises[p].result]
Same(p, value) == IF value.type = "promise" THEN Outcome(p) = Outcome(value.p)
                  ELSE Outcome(p) = [state |-> Fulfilled, result |-> value]
IsPending(p) == s.promises[p].state = Pending

(* What a promise has come to once no job is left, from where it comes:    *)
(* its first resolving call, the promise and the handlers of then, the     *)
(* promise and onFinally of finally, the elements of all and race.         *)
Consistent(p) ==
    LET o == s.promises[p].origin
        after(handler, q) ==
            CASE handler.does = "nothing" -> Outcome(p) = Outcome(q)
              [] handler.does = "return" -> Same(p, handler.value)
              [] handler.does = "throw" -> Outcome(p) = [state |-> Rejected, result |-> handler.value]
    IN  CASE o.kind = "new" ->
               IF o.fate.value = Val("none") THEN IsPending(p)
               ELSE IF o.fate.is_reject THEN Outcome(p) = [state |-> Rejected, result |-> o.fate.value]
               ELSE IF o.fate.value = Ref(p) THEN Outcome(p) = [state |-> Rejected, result |-> TypeError]
               ELSE Same(p, o.fate.value)
          [] o.kind = "inner" -> Same(p, o.value)
          [] o.kind = "then" ->
               IF IsPending(o.of) THEN IsPending(p)
               ELSE LET h == o.handlers[s.promises[o.of].state = Rejected]
                    IN  IF h.does = "return" /\ h.value = Ref(p) THEN TRUE ELSE after(h, o.of)
          [] o.kind = "finally" ->
               IF IsPending(o.of) THEN IsPending(p)
               ELSE IF o.onFinally.does = "throw" THEN after(o.onFinally, o.of)
               ELSE IF o.onFinally.value.type # "promise" THEN Outcome(p) = Outcome(o.of)
               ELSE LET w == o.onFinally.value.p
                    IN  w # p => Outcome(p) = IF s.promises[w].state = Fulfilled THEN Outcome(o.of) ELSE Outcome(w)
          [] o.kind \in {"all", "any"} ->
               LET short == IF o.kind = "all" THEN Rejected ELSE Fulfilled
                   first == {i \in DOMAIN o.of : s.promises[o.of[i]].state = short}
               IN  IF first # {} THEN \E i \in first : Outcome(p) = Outcome(o.of[i])
                   ELSE IF \E i \in DOMAIN o.of : IsPending(o.of[i]) THEN IsPending(p)
                   ELSE Outcome(p) = [state |-> IF o.kind = "all" THEN Fulfilled ELSE Rejected,
                                      result |-> List([i \in DOMAIN o.of |-> s.promises[o.of[i]].result])]
          [] o.kind = "allSettled" ->
               IF \E i \in DOMAIN o.of : IsPending(o.of[i]) THEN IsPending(p)
               ELSE Outcome(p) = [state |-> Fulfilled,
                        result |-> List([i \in DOMAIN o.of |->
                                       Settlement(s.promises[o.of[i]].state, s.promises[o.of[i]].result)])]
          [] o.kind = "race" ->
               LET over == {i \in DOMAIN o.of : ~IsPending(o.of[i])}
               IN  IF over = {} THEN IsPending(p) ELSE \E i \in over : Outcome(p) = Outcome(o.of[i])

(* Whatever the order of calls and jobs, of resolutions with promises that *)
(* settle later, earlier or never, once no job is pending every promise    *)
(* has the outcome its origin says (fulfill_or_reject_promise,             *)
(* js_promise_resolve_function_call, perform_promise_then, js_promise_all, *)
(* js_promise_finally).                                                    *)
OutcomesAgree == s.job_list = <<>> => \A p \in Promises : Consistent(p)

(* Reactions to the same promise run in the order of the then calls, each  *)
(* once at most, and all of them once the promise is settled and no job is *)
(* pending (JS_EnqueueJob, promise_reactions).                             *)
ReactionsInOrder ==
    LET reacts(p) == s.promises[p].origin.kind \in {"then", "finally"}
        at(p) == SelectInSeq(ran, LAMBDA q : q = p)
    IN  /\ IsInjective(ran)
        /\ \A p, q \in Promises :
              reacts(p) /\ reacts(q) /\ p < q /\ s.promises[p].origin.of = s.promises[q].origin.of
              /\ at(q) # 0 => at(p) # 0 /\ at(p) < at(q)
        /\ s.job_list = <<>> =>
              \A p \in Promises : reacts(p) /\ ~IsPending(s.promises[p].origin.of) => at(p) # 0

(* No two callers ever settle one promise: the resolving functions of the  *)
(* constructor, those a thenable job makes for the same promise, the       *)
(* elements of all and race ("should never happen",                        *)
(* fulfill_or_reject_promise).                                             *)
SettledOnce == ~s.twice
=============================================================================
