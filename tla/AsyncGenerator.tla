--------------------------- MODULE AsyncGenerator ---------------------------
(***************************************************************************)
(* Asynchronous generators of quickjs/quickjs.c: a queue of requests, each *)
(* made by next, return or throw and answered through a promise, and a     *)
(* function body that runs, yields, awaits and ends.  The body does what   *)
(* it wants; a script, or the body itself, makes requests at any moment    *)
(* that JavaScript can run.                                                *)
(*                                                                         *)
(* The loop of js_async_generator_resume_next is one step per turn, with   *)
(* looping while it goes on, since the body runs in the middle of it.      *)
(***************************************************************************)
EXTENDS Integers, Sequences, SequencesExt

CONSTANT MaxRequests    \* bound: requests ever made

VARIABLES
    state,      \* JSAsyncGeneratorStateEnum
    queue,      \* the requests not answered, oldest first
    looping,    \* js_async_generator_resume_next is active
    body,       \* "suspended", "running" or "awaiting"
    frees,      \* how often the frame of the body was freed
    awaiting,   \* the promise waited for: "none", the "body"'s or a "return"'s
    requests,   \* the types of all requests, in order
    made,       \* what the body yielded, returned or threw, in order
    given,      \* how the promises of return requests were settled
    answers,    \* the answers, in order
    failed      \* an assertion of the code failed

vars == <<state, queue, looping, body, frees, awaiting, requests, made, given, answers, failed>>

NEXT == "next"
RETURN == "return"
THROW == "throw"
Types == {NEXT, RETURN, THROW}

\* What an answer carries: nothing, the value of the request, or the n-th
\* value that the body made.
UNDEFINED == 0
REQUEST == -1

Req(id, type) == [id |-> id, completion_type |-> type]
Answer(id, is_reject, done, from) == [id |-> id, is_reject |-> is_reject, done |-> done, from |-> from]

Init ==
    /\ state = "SUSPENDED_START" /\ queue = <<>> /\ looping = FALSE /\ body = "suspended"
    /\ frees = 0 /\ awaiting = "none" /\ failed = FALSE
    /\ requests = <<>> /\ made = <<>> /\ given = <<>> /\ answers = <<>>

-----------------------------------------------------------------------------
(* The oldest request leaves the queue and its promise is settled.         *)
js_async_generator_resolve_or_reject(is_reject, done, from) ==
    /\ answers' = Append(answers, Answer(Head(queue).id, is_reject, done, from))
    /\ queue' = Tail(queue)

js_async_generator_complete ==
    /\ state' = "COMPLETED"
    /\ frees' = IF state = "COMPLETED" THEN frees ELSE frees + 1

ResumesAtOnce == state # "EXECUTING"

\* Mutant: list_add for list_add_tail.
Queued_first(req) == <<req>> \o queue
Queued(req) == Append(queue, req)

(* next, return or throw is called, by the script or by the body.          *)
js_async_generator_next(type) ==
    /\ Len(requests) < MaxRequests
    /\ ~looping \/ body = "running"
    /\ requests' = Append(requests, type)
    /\ queue' = Queued(Req(Len(requests) + 1, type))
    /\ looping' = (looping \/ ResumesAtOnce)
    /\ UNCHANGED <<state, body, frees, awaiting, made, given, answers, failed>>

Turn == looping /\ body # "running"

LoopEnds ==
    /\ Turn /\ (queue = <<>> \/ state = "AWAITING_RETURN")
    /\ looping' = FALSE
    /\ UNCHANGED <<state, queue, body, frees, awaiting, requests, made, given, answers, failed>>

(* The body runs: from the start, after yield, or after await.             *)
async_func_resume ==
    /\ Turn /\ queue # <<>>
    /\ \/ state \in {"EXECUTING", "SUSPENDED_YIELD"}
       \/ state = "SUSPENDED_START" /\ Head(queue).completion_type = NEXT
    /\ state' = "EXECUTING" /\ body' = "running"
    /\ failed' = (failed \/ body = "awaiting")
    /\ UNCHANGED <<queue, looping, frees, awaiting, requests, made, given, answers>>

CompleteBeforeStart ==
    /\ Turn /\ queue # <<>> /\ state = "SUSPENDED_START" /\ Head(queue).completion_type # NEXT
    /\ js_async_generator_complete
    /\ UNCHANGED <<queue, looping, body, awaiting, requests, made, given, answers, failed>>

js_async_generator_completed_return ==
    /\ state' = "AWAITING_RETURN" /\ awaiting' = "return"

(* A generator that has ended: one request is answered, or a promise of    *)
(* the value of a return request is waited for, and the loop ends.         *)
Completed ==
    /\ Turn /\ queue # <<>> /\ state = "COMPLETED"
    /\ looping' = FALSE
    /\ CASE Head(queue).completion_type = NEXT ->
              /\ js_async_generator_resolve_or_reject(FALSE, TRUE, UNDEFINED)
              /\ UNCHANGED <<state, awaiting>>
         [] Head(queue).completion_type = RETURN ->
              /\ js_async_generator_completed_return
              /\ UNCHANGED <<queue, answers>>
         [] Head(queue).completion_type = THROW ->
              /\ js_async_generator_resolve_or_reject(TRUE, TRUE, REQUEST)
              /\ UNCHANGED <<state, awaiting>>
    /\ UNCHANGED <<body, frees, requests, made, given, failed>>

(* What the body does in the end, each a return of async_func_resume.      *)
BodyYields ==
    /\ body = "running" /\ body' = "suspended"
    /\ state' = "SUSPENDED_YIELD" /\ made' = Append(made, "yield")
    /\ js_async_generator_resolve_or_reject(FALSE, FALSE, Len(made) + 1)
    /\ UNCHANGED <<looping, frees, awaiting, requests, given, failed>>

BodyEnds(how) ==
    /\ body = "running" /\ body' = "suspended"
    /\ js_async_generator_complete /\ made' = Append(made, how)
    /\ js_async_generator_resolve_or_reject(how = "throw", TRUE, Len(made) + 1)
    /\ UNCHANGED <<looping, awaiting, requests, given, failed>>

js_async_generator_await ==
    /\ body = "running" /\ body' = "awaiting"
    /\ awaiting' = "body" /\ looping' = FALSE
    /\ UNCHANGED <<state, queue, frees, requests, made, given, answers, failed>>

(* The functions given to the promises waited for, called by a job.        *)
js_async_generator_resolve_function(is_reject) ==
    /\ ~looping /\ awaiting # "none" /\ awaiting' = "none"
    /\ IF awaiting = "return"
       THEN /\ failed' = (failed \/ state \notin {"AWAITING_RETURN", "COMPLETED"})
            /\ state' = "COMPLETED" /\ given' = Append(given, is_reject)
            /\ js_async_generator_resolve_or_reject(is_reject, TRUE, REQUEST)
            /\ UNCHANGED <<looping, body>>
       ELSE /\ failed' = (failed \/ state # "EXECUTING")
            /\ looping' = TRUE /\ body' = "suspended"
            /\ UNCHANGED <<state, queue, given, answers>>
    /\ UNCHANGED <<frees, requests, made>>

Next ==
    \/ \E type \in Types : js_async_generator_next(type)
    \/ LoopEnds \/ async_func_resume \/ CompleteBeforeStart \/ Completed
    \/ BodyYields \/ BodyEnds("return") \/ BodyEnds("throw") \/ js_async_generator_await
    \/ \E r \in BOOLEAN : js_async_generator_resolve_function(r)

Spec == Init /\ [][Next]_vars

-----------------------------------------------------------------------------
(* The answers the language asks for: requests are served one after the    *)
(* other.  m and g count what the body made and the returns waited for     *)
(* that were used; over says that the generator has ended, and stop that   *)
(* the next answer is not known yet.                                       *)
Begun == [m |-> 0, g |-> 0, over |-> FALSE, stop |-> FALSE, list |-> <<>>]
Over(acc, id) == acc.over \/ (acc.m = 0 /\ requests[id] # NEXT)
Waits(acc, id) ==
    IF Over(acc, id) THEN requests[id] = RETURN /\ acc.g >= Len(given) ELSE acc.m >= Len(made)
FromBody(acc, id) ==
    Answer(id, made[acc.m + 1] = "throw", made[acc.m + 1] # "yield", acc.m + 1)
AfterEnd(acc, id) ==
    CASE requests[id] = NEXT -> Answer(id, FALSE, TRUE, UNDEFINED)
      [] requests[id] = THROW -> Answer(id, TRUE, TRUE, REQUEST)
      [] requests[id] = RETURN -> Answer(id, given[acc.g + 1], TRUE, REQUEST)
Serve(acc, id) ==
    IF acc.stop \/ Waits(acc, id) THEN [acc EXCEPT !.stop = TRUE]
    ELSE IF Over(acc, id)
    THEN [acc EXCEPT !.over = TRUE, !.g = IF requests[id] = RETURN THEN @ + 1 ELSE @,
                     !.list = Append(@, AfterEnd(acc, id))]
    ELSE [acc EXCEPT !.m = @ + 1, !.over = made[acc.m + 1] # "yield",
                     !.list = Append(@, FromBody(acc, id))]
Expected ==
    LET served[n \in 0..Len(requests)] == IF n = 0 THEN Begun ELSE Serve(served[n - 1], n)
    IN  served[Len(requests)].list

(* However requests, the body and the promises it waits for interleave,    *)
(* every answer goes to the request that it is for, in order, and is the   *)
(* one the language asks for (js_async_generator_resume_next).             *)
AnswersInOrder == IsPrefix(answers, Expected)

(* The frame of the body is freed once and does not run after that, and    *)
(* the assertions of js_async_generator_resolve_function hold.             *)
FrameSound ==
    /\ ~failed
    /\ frees = IF state \in {"COMPLETED", "AWAITING_RETURN"} THEN 1 ELSE 0
    /\ body = "running" => frees = 0

(* No request is lost: each is answered or waits in the queue, behind the  *)
(* ones made before it; and when no code runs and no promise is waited     *)
(* for, nothing waits, except behind the end of a generator: there the     *)
(* loop answers one request for every call (quickjs.c:19589).              *)
NoneForgotten ==
    /\ Len(answers) + Len(queue) = Len(requests)
    /\ \A i \in 1..Len(queue) :
          queue[i] = Req(Len(answers) + i, requests[Len(answers) + i])
    /\ ~looping /\ awaiting = "none" /\ state # "COMPLETED" => Len(queue) = 0

AnswersExact == AnswersInOrder /\ FrameSound /\ NoneForgotten
=============================================================================
