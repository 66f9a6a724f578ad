----------------------------- MODULE LLMRouter -----------------------------
(***************************************************************************)
(* The one LLMRouter object of a process (agent/llm_router.py) with the    *)
(* retry loops its callers put around it: in the API _call_groq            *)
(* (agent_loop.py), the intent classifier and HyDE, from several threads   *)
(* at once, in the ingestion the summary generator, from its only one.     *)
(* The Groq service is external: a request to it succeeds, is refused with *)
(* 429, or fails in another way.                                           *)
(*                                                                         *)
(* The statistics are plain Python attributes without a lock.  The updates *)
(* of _call_counts and _model_errors call dict.get between reading and     *)
(* writing, where another thread may run, and are two steps here;          *)
(* "_rate_limit_hits += 1" contains no call and is one step.               *)
(***************************************************************************)
EXTENDS Integers, FiniteSets

CONSTANTS Threads,       \* threads of the process that call the model
          CallTypes,     \* the call types they use, of CallType
          MaxCalls       \* bound: calls each thread makes

CallType == {"summary", "intent", "hyde", "agent"}

ASSUME CallTypesAssumption == CallTypes \subseteq CallType /\ CallTypes # {}
ASSUME MaxCallsAssumption == MaxCalls \in Nat

Processes == {"api", "ingestion"}
Callers(process) == IF process = "ingestion" THEN {"summary"} ELSE CallType \ {"summary"}

(* The tenacity decorators of the callers.  Those of the classifier and of *)
(* HyDE wrap a function that swallows every exception and so never retry.  *)
Attempts(type) == IF type \in {"agent", "summary"} THEN 4 ELSE 1

(* How a call ends that neither replies nor meets the limit: with an       *)
(* APIError of the service ("failed"), or with another exception           *)
(* ("broken"), like the one over a reply without a content.                *)
Failures == {"failed", "broken"}

RetriedOutcomes(type) ==
    IF type = "summary" THEN {"rate_limited", "failed"}
    ELSE IF type = "agent" THEN {"rate_limited"} ELSE {}

(* _build_model_map: the statistics of errors are kept per model. *)
Models == {"fast", "large"}
ModelOf(type) == IF type = "agent" THEN "large" ELSE "fast"

VARIABLES process,   \* which of the two this is
          hasSecondary, \* is a second API key configured?  Fixed for the process
          pc,        \* per thread: where it is
          type,      \* per thread: the type of its call
          attempt,   \* per thread: the attempt of the caller's retry loop
          read,      \* per thread: the counter value it read
          outcome,   \* per thread: how its last call ended
          counts,    \* _call_counts
          hits,      \* _rate_limit_hits
          errors,    \* _model_errors
          calls,     \* history: invocations of complete(), per type
          failures,  \* history: errors the handler counted, per model
          sent,      \* history, per thread: requests of the current call
          limited,   \* history, per thread: 429s among them
          begun      \* history, per thread: calls begun

stats == <<counts, hits, errors>>
setup == <<process, hasSecondary>>
vars == <<setup, pc, type, attempt, read, outcome, stats, calls, failures, sent, limited, begun>>

Init ==
    /\ process \in Processes /\ hasSecondary \in BOOLEAN
    /\ pc = [t \in Threads |-> "idle"]
    /\ type = [t \in Threads |-> CHOOSE ct \in CallTypes : TRUE]
    /\ attempt = [t \in Threads |-> 0]
    /\ read = [t \in Threads |-> 0]
    /\ outcome = [t \in Threads |-> "none"]
    /\ counts = [ct \in CallTypes |-> 0]
    /\ hits = 0
    /\ errors = [m \in Models |-> 0]
    /\ calls = [ct \in CallTypes |-> 0]
    /\ failures = [m \in Models |-> 0]
    /\ sent = [t \in Threads |-> 0]
    /\ limited = [t \in Threads |-> 0]
    /\ begun = [t \in Threads |-> 0]

Goto(t, place) == pc' = [pc EXCEPT ![t] = place]

NextAttempt(t) == attempt[t] + 1

Begin(t, ct) ==
    /\ pc[t] = "idle"
    /\ begun[t] < MaxCalls
    /\ ct \in Callers(process)
    /\ process = "ingestion" => \A u \in Threads : pc[u] = "idle"
    /\ begun' = [begun EXCEPT ![t] = @ + 1]
    /\ type' = [type EXCEPT ![t] = ct]
    /\ attempt' = [attempt EXCEPT ![t] = 1]
    /\ sent' = [sent EXCEPT ![t] = 0]
    /\ limited' = [limited EXCEPT ![t] = 0]
    /\ outcome' = [outcome EXCEPT ![t] = "none"]
    /\ Goto(t, "count")
    /\ UNCHANGED <<read, stats, calls, failures>>

CountsTwice(t) == read[t] + 2
AddsToRead(t) == read[t] + 1

(* complete(): reading and writing the counter of the call's type. *)
ReadCount(t) ==
    /\ pc[t] = "count"
    /\ read' = [read EXCEPT ![t] = counts[type[t]]]
    /\ calls' = [calls EXCEPT ![type[t]] = @ + 1]
    /\ Goto(t, "count_write")
    /\ UNCHANGED <<type, attempt, outcome, stats, failures, sent, limited, begun>>

WriteCount(t) ==
    /\ pc[t] = "count_write"
    /\ counts' = [counts EXCEPT ![type[t]] = AddsToRead(t)]
    /\ Goto(t, "primary")
    /\ UNCHANGED <<type, attempt, read, outcome, hits, errors, calls, failures, sent,
                   limited, begun>>

(* What the caller's retry loop makes of an exception, and of a reply.     *)
RetriesOnce(t, result) == result \in RetriedOutcomes(type[t]) /\ attempt[t] = 1
Retries(t, result) == result \in RetriedOutcomes(type[t]) /\ attempt[t] < Attempts(type[t])

Finish(t, result) ==
    IF Retries(t, result)
    THEN Goto(t, "backoff") /\ UNCHANGED outcome
    ELSE Goto(t, "idle") /\ outcome' = [outcome EXCEPT ![t] = result]

(* All callers but the agent strip the reply's content, which None has no  *)
(* method for.                                                             *)
Replies(t) == Finish(t, "ok") \/ (type[t] # "agent" /\ Finish(t, "broken"))

(* _call_with_fallback: the request with the primary key. *)
Primary(t) ==
    /\ pc[t] = "primary"
    /\ sent' = [sent EXCEPT ![t] = @ + 1]
    /\ \/ Replies(t) /\ UNCHANGED <<hits, limited>>
       \/ /\ hits' = hits + 1
          /\ limited' = [limited EXCEPT ![t] = @ + 1]
          /\ IF hasSecondary
             THEN Goto(t, "secondary") /\ UNCHANGED outcome
             ELSE Finish(t, "rate_limited")
       \/ Goto(t, "error") /\ UNCHANGED <<outcome, hits, limited>>
    /\ UNCHANGED <<type, attempt, read, counts, errors, calls, failures, begun>>

(* The secondary key's request.  Its 429 brings back the primary's; any    *)
(* other error of it leaves the handler uncounted.                         *)
Secondary(t) ==
    /\ pc[t] = "secondary"
    /\ sent' = [sent EXCEPT ![t] = @ + 1]
    /\ \/ Replies(t) /\ UNCHANGED limited
       \/ Finish(t, "rate_limited") /\ limited' = [limited EXCEPT ![t] = @ + 1]
       \/ (\E failure \in Failures : Finish(t, failure)) /\ UNCHANGED limited
    /\ UNCHANGED <<type, attempt, read, stats, calls, failures, begun>>

ReadErrors(t) ==
    /\ pc[t] = "error"
    /\ read' = [read EXCEPT ![t] = errors[ModelOf(type[t])]]
    /\ failures' = [failures EXCEPT ![ModelOf(type[t])] = @ + 1]
    /\ Goto(t, "error_write")
    /\ UNCHANGED <<type, attempt, outcome, stats, calls, sent, limited, begun>>

WriteErrors(t) ==
    /\ pc[t] = "error_write"
    /\ errors' = [errors EXCEPT ![ModelOf(type[t])] = read[t] + 1]
    /\ \E failure \in Failures : Finish(t, failure)
    /\ UNCHANGED <<type, attempt, read, counts, hits, calls, failures, sent, limited, begun>>

WakesAfterOthers(t) == \A u \in Threads \ {t} : pc[u] # "backoff"
WakesByItself(t) == TRUE

(* The wait between two attempts, after which complete() is called again.  *)
Backoff(t) ==
    /\ pc[t] = "backoff"
    /\ WakesByItself(t)
    /\ attempt' = [attempt EXCEPT ![t] = NextAttempt(t)]
    /\ Goto(t, "count")
    /\ UNCHANGED <<type, read, outcome, stats, calls, failures, sent, limited, begun>>

Step(t) ==
    /\ \/ ReadCount(t) \/ WriteCount(t) \/ Primary(t) \/ Secondary(t)
       \/ ReadErrors(t) \/ WriteErrors(t) \/ Backoff(t)
    /\ UNCHANGED setup

Next ==
    \/ \E t \in Threads : Step(t)
    \/ \E t \in Threads, ct \in CallTypes : Begin(t, ct) /\ UNCHANGED setup

(* A request to the service ends (the client has a timeout) and a backoff  *)
(* is a finite sleep.                                                      *)
Spec == Init /\ [][Next]_vars /\ \A t \in Threads : WF_vars(Step(t))

-----------------------------------------------------------------------------
Keys == IF hasSecondary THEN 2 ELSE 1

TypeOK ==
    /\ process \in Processes /\ hasSecondary \in BOOLEAN
    /\ pc \in [Threads -> {"idle", "count", "count_write", "primary", "secondary",
                          "error", "error_write", "backoff"}]
    /\ type \in [Threads -> CallTypes]
    /\ attempt \in [Threads -> 0..4]
    /\ read \in [Threads -> Nat]
    /\ outcome \in [Threads -> {"none", "ok", "rate_limited", "failed", "broken"}]
    /\ counts \in [CallTypes -> Nat] /\ calls \in [CallTypes -> Nat]
    /\ errors \in [Models -> Nat] /\ failures \in [Models -> Nat]
    /\ hits \in Nat
    /\ sent \in [Threads -> 0..8] /\ limited \in [Threads -> 0..8]
    /\ begun \in [Threads -> 0..MaxCalls]

(* A call that ends with the rate limit has used every attempt its caller  *)
(* allows and met the limit with every key; where the caller repeats only  *)
(* for the limit, all its requests met it.  Nobody is told of the limit    *)
(* while a key or an attempt was left.                                     *)
LimitedOnlyAfterAll ==
    \A t \in Threads : outcome[t] = "rate_limited" =>
        /\ attempt[t] = Attempts(type[t]) /\ limited[t] >= Keys
        /\ "failed" \notin RetriedOutcomes(type[t]) =>
              limited[t] = sent[t] /\ sent[t] = Attempts(type[t]) * Keys

(* The unlocked counters lose updates when threads overlap, but they never *)
(* report more than what happened, and when no thread is between its read  *)
(* and its write after only one thread ever ran, they are exact.           *)
StatsNeverOverReport ==
    /\ \A ct \in CallTypes : counts[ct] <= calls[ct]
    /\ \A m \in Models : errors[m] <= failures[m]
    /\ \A t \in Threads :
          (/\ \A u \in Threads \ {t} : begun[u] = 0
           /\ pc[t] \notin {"count_write", "error_write"})
              => counts = calls /\ errors = failures

(* Every call of the model comes back to its caller. *)
CallsReturn == \A t \in Threads : pc[t] # "idle" ~> pc[t] = "idle"
=============================================================================
