----------------------------- MODULE MCRuntime ------------------------------
(***************************************************************************)
(* What the engine does step by step, for TLC: in each behaviour promises  *)
(* with their jobs, an async generator or a regular expression.            *)
(***************************************************************************)
EXTENDS AsyncGenerator

CONSTANT Parts                                      \* what behaviours are about

VARIABLES
    part,                                           \* what this behaviour is about
    s, ran,                                         \* Promise
    re, prog, input, start, pc, cptr, capture, stack, states, ret     \* Regexp

promiseVars == <<s, ran>>
regexpVars == <<re, prog, input, start, pc, cptr, capture, stack, states, ret>>
runtimeVars == <<part, promiseVars, regexpVars, vars>>

Off == "off"
NoPromise == s = Off /\ ran = Off
NoRegexp == /\ re = Off /\ prog = Off /\ input = Off /\ start = Off /\ pc = Off
            /\ cptr = Off /\ capture = Off /\ stack = Off /\ states = Off /\ ret = Off

-----------------------------------------------------------------------------
(* A handler that returns a value, and one that throws when fulfilled and  *)
(* returns the first promise when rejected.                                *)
Value(v) == [type |-> "plain", v |-> v]
OnSettled(fulfilled, rejected) == [r \in BOOLEAN |-> IF r THEN rejected ELSE fulfilled]
SomeHandlers ==
    {OnSettled([does |-> "return", value |-> Value("a")], [does |-> "nothing"]),
     OnSettled([does |-> "throw", value |-> Value("a")],
               [does |-> "return", value |-> [type |-> "promise", p |-> 1]])}

Promises == INSTANCE Promise WITH
    Plain <- {"b"}, Handlers <- SomeHandlers, MaxPromises <- 3

Patterns == INSTANCE MCRegexp
Matching == INSTANCE Regexp WITH
    Cases <- Patterns!SomeCases, CAPTURE_COUNT_MAX <- 255, STACK_SIZE_MAX <- 255, STATES_MAX <- 20

-----------------------------------------------------------------------------
(* The generator rests where the behaviour is about another part.          *)
RuntimeInit ==
    /\ part \in Parts /\ Init
    /\ IF part = "promises" THEN Promises!Init ELSE NoPromise
    /\ IF part = "regexps" THEN Matching!Init ELSE NoRegexp

GeneratorNext == part = "generator" /\ Next /\ UNCHANGED <<part, promiseVars, regexpVars>>
PromisesNext == part = "promises" /\ Promises!Next /\ UNCHANGED <<part, regexpVars, vars>>
RegexpNext == part = "regexps" /\ Matching!Next /\ UNCHANGED <<part, promiseVars, vars>>

RuntimeNext == GeneratorNext \/ PromisesNext \/ RegexpNext

(* The machine of a regular expression is a loop in one call: it goes on   *)
(* while it can.                                                           *)
RuntimeSpec ==
    RuntimeInit /\ [][RuntimeNext]_runtimeVars /\ WF_runtimeVars(RegexpNext)

-----------------------------------------------------------------------------
(* No promise is settled twice, reactions to a promise run once and in the *)
(* order of the then calls, and once no job is pending every promise has   *)
(* the outcome its origin says (fulfill_or_reject_promise, JS_EnqueueJob,  *)
(* js_promise_all, js_promise_finally).                                    *)
PromisesExact ==
    part = "promises" => Promises!SettledOnce /\ Promises!ReactionsInOrder /\ Promises!OutcomesAgree

(* What a pattern compiles to and how it matches is what ECMAScript says,  *)
(* but for the patterns that MCRegexp leaves out, and the stack of         *)
(* counters never outgrows the size computed for it (lre_compile,          *)
(* compute_stack_size, lre_exec_backtrack).                                *)
RegularMatchExact ==
    part = "regexps" =>
        /\ Matching!StackFits
        /\ re \notin Patterns!EmptyPatterns => Matching!MatchExact

(* Executing a pattern comes to an end, by a match, by none or because the *)
(* memory for saved states is used up, whatever is repeated, greedily or   *)
(* not, unless a lazy repetition without an upper bound is over something  *)
(* that can match nothing (re_parse_term, "avoid infinite loop by stoping  *)
(* the recursion if no advance was made in the atom").                     *)
MatchingEnds ==
    part = "regexps" /\ ~Patterns!LazyOnEmpty(Patterns!Tree(re)) ~> ret # "run"

(* The same without an exception.                                          *)
EveryMatchingEnds == part = "regexps" ~> ret # "run"
=============================================================================
