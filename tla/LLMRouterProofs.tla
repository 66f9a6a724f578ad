-------------------------- MODULE LLMRouterProofs ---------------------------
(* Proofs about LLMRouter for any number of threads and of calls.          *)
EXTENDS LLMRouter, TLAPS

Results == {"ok", "rate_limited", "failed", "broken"}
Places == {"idle", "count", "count_write", "primary", "secondary", "error", "error_write",
           "backoff"}

(* Requests of the attempts before the present one, or of all when the     *)
(* attempt is over.                                                        *)
Complete(t) == IF pc[t] \in {"idle", "backoff"} THEN attempt[t] ELSE attempt[t] - 1

(* How many requests a call has made, and how many of them met the limit:  *)
(* where only the limit is repeated, each attempt before met it with every *)
(* key.                                                                    *)
SentInv(t) ==
    /\ attempt[t] <= Attempts(type[t])
    /\ pc[t] # "idle" => attempt[t] >= 1
    /\ pc[t] = "backoff" => attempt[t] < Attempts(type[t])
    /\ limited[t] <= sent[t]
    /\ sent[t] <= 2 * Complete(t) +
                      (IF pc[t] \in {"secondary", "error", "error_write"} THEN 1 ELSE 0)
    /\ pc[t] = "secondary" => hasSecondary /\ limited[t] >= 1

LimitInv(t) ==
    "failed" \notin RetriedOutcomes(type[t]) =>
        /\ pc[t] \in {"count", "count_write", "primary"} =>
               limited[t] = sent[t] /\ sent[t] = (attempt[t] - 1) * Keys
        /\ pc[t] = "backoff" => limited[t] = sent[t] /\ sent[t] = attempt[t] * Keys
        /\ pc[t] = "secondary" =>
               limited[t] = sent[t] /\ sent[t] = (attempt[t] - 1) * Keys + 1

(* A thread that is about to write a counter has read less than happened.  *)
CountInv ==
    /\ \A ct \in CallTypes : counts[ct] <= calls[ct]
    /\ \A m \in Models : errors[m] <= failures[m]
    /\ \A t \in Threads : pc[t] = "count_write" => read[t] < calls[type[t]]
    /\ \A t \in Threads : pc[t] = "error_write" => read[t] < failures[ModelOf(type[t])]

(* As long as one thread is alone, its counters are exact but for the one  *)
(* it is about to write.                                                   *)
Alone(t) == \A u \in Threads \ {t} : begun[u] = 0
SoloInv(t) ==
    Alone(t) =>
        /\ pc[t] \notin {"count_write", "error_write"} => counts = calls /\ errors = failures
        /\ pc[t] = "count_write" =>
              /\ read[t] = counts[type[t]] /\ errors = failures
              /\ calls = [counts EXCEPT ![type[t]] = @ + 1]
        /\ pc[t] = "error_write" =>
              /\ read[t] = errors[ModelOf(type[t])] /\ counts = calls
              /\ failures = [errors EXCEPT ![ModelOf(type[t])] = @ + 1]

(* A thread has begun a call before it is in one, and its outcome is set   *)
(* at the end of it.                                                       *)
IdleInv ==
    \A t \in Threads : /\ begun[t] = 0 => pc[t] = "idle"
                       /\ pc[t] # "idle" => outcome[t] = "none"

IInv ==
    /\ TypeOK /\ IdleInv /\ CountInv
    /\ \A t \in Threads : SentInv(t) /\ LimitInv(t) /\ SoloInv(t)
    /\ LimitedOnlyAfterAll

LEMMA Facts ==
    /\ MaxCalls \in Nat /\ Keys \in {1, 2} /\ (hasSecondary => Keys = 2)
    /\ \A ct \in CallTypes : /\ Attempts(ct) \in {1, 4} /\ ModelOf(ct) \in Models
                             /\ RetriedOutcomes(ct) \subseteq {"rate_limited", "failed"}
                             /\ Attempts(ct) = 4 => "rate_limited" \in RetriedOutcomes(ct)
BY MaxCallsAssumption, CallTypesAssumption DEF Keys, Attempts, ModelOf, Models, RetriedOutcomes

LEMMA Initially == Init => IInv
<1> SUFFICES ASSUME Init PROVE IInv OBVIOUS
<1>0. (CHOOSE ct \in CallTypes : TRUE) \in CallTypes BY CallTypesAssumption
<1>1. TypeOK BY <1>0, Facts DEF Init, TypeOK
<1>2. IdleInv /\ CountInv /\ LimitedOnlyAfterAll
  BY DEF Init, IdleInv, CountInv, LimitedOnlyAfterAll
<1>3. \A t \in Threads : type[t] \in CallTypes BY <1>0 DEF Init
<1>4. \A t \in Threads : SentInv(t) BY <1>3, Facts DEF Init, SentInv, Complete
<1>5. \A t \in Threads : LimitInv(t) /\ SoloInv(t) BY DEF Init, LimitInv, SoloInv
<1>6. QED BY <1>1, <1>2, <1>4, <1>5 DEF IInv

-----------------------------------------------------------------------------
(* What a step of one thread leaves alone.                                 *)
Place(t) == <<pc[t], type[t], attempt[t], sent[t], limited[t], outcome[t], begun[t]>>

OthersStay(t) ==
    /\ UNCHANGED setup
    /\ \A u \in Threads \ {t} : UNCHANGED Place(u)

LimitedOnly(t) ==
    outcome[t] = "rate_limited" =>
        /\ attempt[t] = Attempts(type[t]) /\ limited[t] >= Keys
        /\ "failed" \notin RetriedOutcomes(type[t]) =>
              limited[t] = sent[t] /\ sent[t] = Attempts(type[t]) * Keys

(* It remains to look at the thread that moved; another one is not alone.  *)
LEMMA OneThreadMoves ==
    ASSUME IInv, NEW t \in Threads, OthersStay(t), begun'[t] # 0,
           TypeOK', CountInv',
           pc'[t] # "idle" => outcome'[t] = "none",
           SentInv(t)', LimitInv(t)', SoloInv(t)', LimitedOnly(t)'
    PROVE  IInv'
<1>1. IdleInv' BY DEF IInv, IdleInv, OthersStay, Place
<1>2. ASSUME NEW u \in Threads \ {t} PROVE SentInv(u)' /\ LimitInv(u)' /\ LimitedOnly(u)'
  <2>1. SentInv(u) /\ LimitInv(u) /\ LimitedOnly(u)
    BY DEF IInv, LimitedOnlyAfterAll, LimitedOnly
  <2>2. UNCHANGED <<Place(u), setup, Keys>> BY DEF OthersStay, setup, Keys
  <2>3. SentInv(u)' BY <2>1, <2>2 DEF SentInv, Complete, Place, setup
  <2>4. LimitInv(u)' BY <2>1, <2>2 DEF LimitInv, Place
  <2>5. LimitedOnly(u)' BY <2>1, <2>2 DEF LimitedOnly, Place
  <2>6. QED BY <2>3, <2>4, <2>5
<1>3. \A u \in Threads \ {t} : SoloInv(u)' BY DEF SoloInv, Alone
<1>4. LimitedOnlyAfterAll' BY <1>2 DEF LimitedOnlyAfterAll, LimitedOnly
<1>5. QED BY <1>1, <1>2, <1>3, <1>4 DEF IInv

LEMMA Solo ==
    ASSUME IInv, NEW t \in Threads
    PROVE  TypeOK /\ IdleInv /\ CountInv /\ SentInv(t) /\ LimitInv(t) /\ SoloInv(t)
           /\ LimitedOnly(t)
BY DEF IInv, LimitedOnlyAfterAll, LimitedOnly

LEMMA BeginStep ==
    ASSUME IInv, NEW t \in Threads, NEW ct \in CallTypes, Begin(t, ct), UNCHANGED setup
    PROVE  IInv'
<1> USE Facts
<1>0. TypeOK /\ IdleInv /\ CountInv /\ SoloInv(t) BY Solo
<1>1. /\ pc'[t] = "count" /\ type'[t] = ct /\ attempt'[t] = 1 /\ sent'[t] = 0
      /\ limited'[t] = 0 /\ outcome'[t] = "none" /\ begun'[t] = begun[t] + 1 /\ pc[t] = "idle"
  BY <1>0 DEF TypeOK, Begin, Goto
<1>2. OthersStay(t) BY <1>0 DEF OthersStay, Place, Begin, Goto, TypeOK
<1>3. TypeOK' BY <1>0 DEF TypeOK, Begin, Goto, setup, stats
<1>4. CountInv' BY <1>0 DEF CountInv, TypeOK, Begin, Goto, stats
<1>5. SentInv(t)' /\ LimitInv(t)' /\ LimitedOnly(t)'
  <2>1. Attempts(ct) \in {1, 4} OBVIOUS
  <2>2. Complete(t)' = 0 BY <1>1 DEF Complete
  <2>3. SentInv(t)' BY <1>1, <2>1, <2>2 DEF SentInv
  <2>4. LimitedOnly(t)' BY <1>1 DEF LimitedOnly
  <2>5. Keys' \in Int /\ (1 - 1) * Keys' = 0 BY DEF Keys
  <2>6. LimitInv(t)' BY <1>1, <2>5 DEF LimitInv
  <2>7. QED BY <2>3, <2>4, <2>6
<1>6. SoloInv(t)'
  BY <1>0, <1>1, <1>2 DEF SoloInv, Alone, OthersStay, Place, Begin, stats
<1>7. begun'[t] # 0 BY <1>0, <1>1 DEF TypeOK
<1>8. QED BY <1>1, <1>2, <1>3, <1>4, <1>5, <1>6, <1>7, OneThreadMoves

LEMMA ReadCountStep ==
    ASSUME IInv, NEW t \in Threads, ReadCount(t), UNCHANGED setup
    PROVE  IInv'
<1> USE Facts
<1>0. TypeOK /\ IdleInv /\ CountInv /\ SentInv(t) /\ LimitInv(t) /\ SoloInv(t) /\ LimitedOnly(t)
  BY Solo
<1>1. /\ pc[t] = "count" /\ pc'[t] = "count_write" /\ type[t] \in CallTypes
      /\ read'[t] = counts[type[t]] /\ calls'[type[t]] = calls[type[t]] + 1
  BY <1>0 DEF TypeOK, ReadCount, Goto
<1>2. OthersStay(t) BY <1>0 DEF OthersStay, Place, ReadCount, Goto, TypeOK
<1>3. TypeOK' BY <1>0, <1>1 DEF TypeOK, ReadCount, Goto, setup, stats
<1>4. CountInv'
  <2>1. \A c \in CallTypes : counts'[c] = counts[c] /\ calls'[c] >= calls[c]
    BY <1>0, <1>1 DEF TypeOK, ReadCount, stats
  <2>2. errors' = errors /\ failures' = failures /\ type' = type BY DEF ReadCount, stats
  <2>3. \A u \in Threads \ {t} : read'[u] = read[u] /\ pc'[u] = pc[u]
    BY <1>0 DEF TypeOK, ReadCount, Goto
  <2>4. read'[t] < calls'[type[t]] BY <1>0, <1>1 DEF TypeOK, CountInv
  <2>5. \A u \in Threads : type[u] \in CallTypes /\ read[u] \in Nat BY <1>0 DEF TypeOK
  <2>6. \A c \in CallTypes : counts[c] \in Nat /\ calls[c] \in Nat /\ calls'[c] \in Nat
    BY <1>0, <1>3 DEF TypeOK
  <2>7. QED BY <1>0, <1>1, <2>1, <2>2, <2>3, <2>4, <2>5, <2>6 DEF CountInv
<1>5. SentInv(t)' /\ LimitInv(t)' /\ LimitedOnly(t)'
  BY <1>0, <1>1 DEF SentInv, Complete, LimitInv, LimitedOnly, ReadCount, setup, Keys
<1>6. SoloInv(t)'
  BY <1>0, <1>1, <1>2 DEF SoloInv, Alone, OthersStay, Place, ReadCount, stats, TypeOK
<1>7. begun'[t] # 0 /\ outcome'[t] = "none" BY <1>0, <1>1 DEF IdleInv, ReadCount
<1>8. QED BY <1>2, <1>3, <1>4, <1>5, <1>6, <1>7, OneThreadMoves

LEMMA WriteCountStep ==
    ASSUME IInv, NEW t \in Threads, WriteCount(t), UNCHANGED setup
    PROVE  IInv'
<1> USE Facts
<1>0. TypeOK /\ IdleInv /\ CountInv /\ SentInv(t) /\ LimitInv(t) /\ SoloInv(t) /\ LimitedOnly(t)
  BY Solo
<1>1. /\ pc[t] = "count_write" /\ pc'[t] = "primary" /\ type[t] \in CallTypes
      /\ counts' = [counts EXCEPT ![type[t]] = read[t] + 1]
  BY <1>0 DEF TypeOK, WriteCount, AddsToRead, Goto
<1>2. OthersStay(t) BY <1>0 DEF OthersStay, Place, WriteCount, Goto, TypeOK
<1>3. TypeOK' BY <1>0, <1>1 DEF TypeOK, WriteCount, Goto, setup
<1>4. CountInv'
  <2>1. \A c \in CallTypes : counts'[c] <= calls[c]
    BY <1>0, <1>1 DEF TypeOK, CountInv
  <2>2. QED BY <1>0, <1>1, <2>1 DEF CountInv, TypeOK, WriteCount, Goto
<1>5. SentInv(t)' /\ LimitInv(t)' /\ LimitedOnly(t)'
  BY <1>0, <1>1 DEF SentInv, Complete, LimitInv, LimitedOnly, WriteCount, setup, Keys
<1>6. SoloInv(t)'
  BY <1>0, <1>1, <1>2 DEF SoloInv, Alone, OthersStay, Place, WriteCount, TypeOK
<1>7. begun'[t] # 0 /\ outcome'[t] = "none" BY <1>0, <1>1 DEF IdleInv, WriteCount
<1>8. QED BY <1>2, <1>3, <1>4, <1>5, <1>6, <1>7, OneThreadMoves

-----------------------------------------------------------------------------
(* The end of an attempt: the caller repeats it, or is told the result.    *)
LEMMA FinishEnds ==
    ASSUME IInv, NEW t \in Threads, NEW result \in Results,
           pc[t] # "idle", Finish(t, result)
    PROVE  /\ pc' \in [Threads -> Places]
           /\ outcome' \in [Threads -> {"none", "ok", "rate_limited", "failed", "broken"}]
           /\ \A u \in Threads \ {t} : pc'[u] = pc[u] /\ outcome'[u] = outcome[u]
           /\ \/ /\ pc'[t] = "backoff" /\ outcome'[t] = "none"
                 /\ attempt[t] < Attempts(type[t]) /\ result \in RetriedOutcomes(type[t])
              \/ /\ pc'[t] = "idle" /\ outcome'[t] = result
                 /\ result = "rate_limited" => attempt[t] = Attempts(type[t])
<1> USE DEF Results
<1>0. TypeOK /\ IdleInv /\ SentInv(t) BY Solo
<1>1. type[t] \in CallTypes /\ attempt[t] \in Nat /\ outcome[t] = "none"
  BY <1>0 DEF TypeOK, IdleInv
<1>2. CASE Retries(t, result)
  BY <1>0, <1>1, <1>2 DEF TypeOK, Finish, Goto, Retries, Places
<1>3. CASE ~Retries(t, result)
  <2>1. result = "rate_limited" => attempt[t] = Attempts(type[t])
    <3>1. attempt[t] >= 1 /\ attempt[t] <= Attempts(type[t]) BY <1>0 DEF SentInv
    <3>2. Attempts(type[t]) \in {1, 4} BY <1>1, Facts
    <3>3. QED BY <1>1, <1>3, <3>1, <3>2, Facts DEF Retries
  <2>2. QED BY <1>0, <1>3, <2>1 DEF TypeOK, Finish, Goto, Places
<1>4. QED BY <1>2, <1>3

(* An attempt that ended, by what its requests were.                       *)
LEMMA AttemptEnds ==
    ASSUME IInv, NEW t \in Threads, NEW result \in Results,
           pc[t] # "idle", Finish(t, result), UNCHANGED <<setup, attempt, type>>,
           sent'[t] \in Nat, limited'[t] \in Nat,
           limited'[t] <= sent'[t], sent'[t] <= 2 * attempt[t],
           result = "rate_limited" => limited'[t] >= Keys,
           result = "rate_limited" /\ "failed" \notin RetriedOutcomes(type[t]) =>
               limited'[t] = sent'[t] /\ sent'[t] = attempt[t] * Keys
    PROVE  /\ SentInv(t)' /\ LimitInv(t)' /\ LimitedOnly(t)'
           /\ pc'[t] # "idle" => outcome'[t] = "none"
<1>0. TypeOK /\ SentInv(t) BY Solo
<1>1. Keys' = Keys BY DEF Keys, setup
<1>2. type[t] \in CallTypes /\ attempt[t] \in 0..4 /\ Attempts(type[t]) \in {1, 4}
      /\ 1 <= attempt[t] /\ attempt[t] <= Attempts(type[t])
  BY <1>0, Facts DEF TypeOK, SentInv
<1>3. CASE /\ pc'[t] = "backoff" /\ outcome'[t] = "none"
           /\ attempt[t] < Attempts(type[t]) /\ result \in RetriedOutcomes(type[t])
  <2>0. Complete(t)' = attempt[t] BY <1>3 DEF Complete
  <2>1. SentInv(t)' BY <1>2, <1>3, <2>0 DEF SentInv
  <2>2. result \in {"rate_limited", "failed"} BY <1>2, <1>3, Facts DEF Results
  <2>3. LimitInv(t)' BY <1>1, <1>3, <2>2 DEF LimitInv
  <2>4. QED BY <1>3, <2>1, <2>3 DEF LimitedOnly
<1>4. CASE /\ pc'[t] = "idle" /\ outcome'[t] = result
           /\ result = "rate_limited" => attempt[t] = Attempts(type[t])
  <2>0. Complete(t)' = attempt[t] BY <1>4 DEF Complete
  <2>1. SentInv(t)' BY <1>2, <1>4, <2>0 DEF SentInv
  <2>2. LimitInv(t)' BY <1>4 DEF LimitInv
  <2>3. LimitedOnly(t)' BY <1>1, <1>4 DEF LimitedOnly
  <2>4. QED BY <1>4, <2>1, <2>2, <2>3
<1>5. QED BY <1>3, <1>4, FinishEnds

(* A step that touches no counter but the hits.                            *)
LEMMA QuietStep ==
    ASSUME IInv, NEW t \in Threads, pc[t] \notin {"idle", "count_write", "error_write"},
           UNCHANGED <<setup, type, read, counts, errors, calls, failures, begun>>,
           pc' \in [Threads -> Places], pc'[t] \notin {"count_write", "error_write"},
           outcome' \in [Threads -> {"none", "ok", "rate_limited", "failed", "broken"}],
           attempt' \in [Threads -> 0..4],
           sent' \in [Threads -> 0..8], limited' \in [Threads -> 0..8], hits' \in Nat,
           \A u \in Threads \ {t} : /\ pc'[u] = pc[u] /\ outcome'[u] = outcome[u]
                                    /\ attempt'[u] = attempt[u] /\ sent'[u] = sent[u]
                                    /\ limited'[u] = limited[u],
           SentInv(t)', LimitInv(t)', LimitedOnly(t)', pc'[t] # "idle" => outcome'[t] = "none"
    PROVE  IInv'
<1>0. TypeOK /\ IdleInv /\ CountInv /\ SoloInv(t) BY Solo
<1>1. TypeOK' BY <1>0 DEF TypeOK, setup, Places
<1>2. OthersStay(t) BY DEF OthersStay, Place
<1>3. CountInv' BY <1>0 DEF CountInv
<1>4. SoloInv(t)' BY <1>0 DEF SoloInv, Alone
<1>5. begun'[t] # 0 BY <1>0 DEF IdleInv
<1>6. QED BY <1>1, <1>2, <1>3, <1>4, <1>5, OneThreadMoves

LEMMA PrimaryStep ==
    ASSUME IInv, NEW t \in Threads, Primary(t), UNCHANGED setup
    PROVE  IInv'
<1> USE Facts
<1>0. TypeOK /\ IdleInv /\ CountInv /\ SentInv(t) /\ LimitInv(t) /\ SoloInv(t) /\ LimitedOnly(t)
  BY Solo
<1>1. /\ pc[t] = "primary" /\ type[t] \in CallTypes /\ outcome[t] = "none"
      /\ attempt[t] \in 1..4 /\ sent'[t] = sent[t] + 1 /\ sent[t] \in 0..2 * (attempt[t] - 1)
      /\ limited[t] \in 0..sent[t]
  <2>1. pc[t] = "primary" /\ sent' = [sent EXCEPT ![t] = @ + 1] BY DEF Primary
  <2>2. /\ type[t] \in CallTypes /\ attempt[t] \in 0..4 /\ sent[t] \in 0..8 /\ limited[t] \in 0..8
        /\ sent'[t] = sent[t] + 1 /\ outcome[t] = "none"
    BY <1>0, <2>1 DEF TypeOK, IdleInv
  <2>3. Complete(t) = attempt[t] - 1 BY <2>1 DEF Complete
  <2>4. attempt[t] >= 1 /\ sent[t] <= 2 * (attempt[t] - 1) /\ limited[t] <= sent[t]
    BY <1>0, <2>1, <2>2, <2>3 DEF SentInv
  <2>5. QED BY <2>1, <2>2, <2>4
<1>2. "failed" \notin RetriedOutcomes(type[t]) =>
          limited[t] = sent[t] /\ sent[t] = (attempt[t] - 1) * Keys
  BY <1>0, <1>1 DEF LimitInv
<1>3. UNCHANGED <<type, attempt, read, counts, errors, calls, failures, begun>> BY DEF Primary
<1>4. sent' = [sent EXCEPT ![t] = @ + 1] /\ sent' \in [Threads -> 0..8]
  BY <1>0, <1>1 DEF TypeOK, Primary
<1>5. ASSUME NEW result \in {"ok", "broken"}, Finish(t, result), UNCHANGED <<hits, limited>>
      PROVE  IInv'
  <2>0. result \in Results /\ result # "rate_limited" BY DEF Results
  <2>1. /\ SentInv(t)' /\ LimitInv(t)' /\ LimitedOnly(t)'
        /\ pc'[t] # "idle" => outcome'[t] = "none"
    BY <1>1, <1>3, <1>5, <2>0, AttemptEnds
  <2>2. /\ pc' \in [Threads -> Places] /\ pc'[t] \in {"idle", "backoff"}
        /\ outcome' \in [Threads -> {"none", "ok", "rate_limited", "failed", "broken"}]
        /\ \A u \in Threads \ {t} : pc'[u] = pc[u] /\ outcome'[u] = outcome[u]
    BY <1>1, <1>5, <2>0, FinishEnds
  <2>3. \A u \in Threads \ {t} : sent'[u] = sent[u] BY <1>0, <1>4 DEF TypeOK
  <2>4. QED BY <1>0, <1>1, <1>3, <1>4, <1>5, <2>1, <2>2, <2>3, QuietStep DEF TypeOK
<1>6. ASSUME hits' = hits + 1, limited' = [limited EXCEPT ![t] = @ + 1]
      PROVE  /\ limited' \in [Threads -> 0..8] /\ hits' \in Nat /\ limited'[t] = limited[t] + 1
             /\ \A u \in Threads \ {t} : limited'[u] = limited[u] /\ sent'[u] = sent[u]
  BY <1>0, <1>1, <1>4, <1>6 DEF TypeOK
<1>7. CASE /\ hits' = hits + 1 /\ limited' = [limited EXCEPT ![t] = @ + 1]
           /\ ~hasSecondary /\ Finish(t, "rate_limited")
  <2>1. Keys = 1 /\ attempt[t] * Keys = attempt[t] /\ (attempt[t] - 1) * Keys = attempt[t] - 1
    BY <1>1, <1>7 DEF Keys
  <2>2. /\ SentInv(t)' /\ LimitInv(t)' /\ LimitedOnly(t)'
        /\ pc'[t] # "idle" => outcome'[t] = "none"
    <3>1. limited'[t] \in Nat /\ sent'[t] \in Nat /\ limited'[t] <= sent'[t]
          /\ limited'[t] >= Keys /\ sent'[t] <= 2 * attempt[t]
      BY <1>1, <1>6, <1>7, <2>1
    <3>2. "failed" \notin RetriedOutcomes(type[t]) =>
              limited'[t] = sent'[t] /\ sent'[t] = attempt[t] * Keys
      BY <1>1, <1>2, <1>6, <1>7, <2>1
    <3>3. QED BY <1>1, <1>3, <1>7, <3>1, <3>2, AttemptEnds DEF Results
  <2>3. /\ pc' \in [Threads -> Places] /\ pc'[t] \in {"idle", "backoff"}
        /\ outcome' \in [Threads -> {"none", "ok", "rate_limited", "failed", "broken"}]
        /\ \A u \in Threads \ {t} : pc'[u] = pc[u] /\ outcome'[u] = outcome[u]
    BY <1>1, <1>7, FinishEnds DEF Results
  <2>4. QED BY <1>0, <1>1, <1>3, <1>4, <1>6, <1>7, <2>2, <2>3, QuietStep DEF TypeOK
<1>8. CASE /\ hits' = hits + 1 /\ limited' = [limited EXCEPT ![t] = @ + 1]
           /\ hasSecondary /\ Goto(t, "secondary") /\ UNCHANGED outcome
  <2>1. Keys = 2 /\ Keys' = 2 /\ hasSecondary' BY <1>8 DEF Keys, setup
  <2>2. /\ pc' \in [Threads -> Places] /\ pc'[t] = "secondary"
        /\ \A u \in Threads \ {t} : pc'[u] = pc[u] /\ outcome'[u] = outcome[u]
    BY <1>0, <1>8 DEF Goto, Places, TypeOK
  <2>3. Complete(t)' = attempt[t] - 1 BY <1>3, <2>2 DEF Complete
  <2>4. SentInv(t)' BY <1>0, <1>1, <1>3, <1>6, <1>8, <2>1, <2>2, <2>3 DEF SentInv
  <2>5. LimitInv(t)' BY <1>1, <1>2, <1>3, <1>6, <1>8, <2>1, <2>2 DEF LimitInv
  <2>6. LimitedOnly(t)' BY <1>1, <1>8 DEF LimitedOnly
  <2>7. QED
    BY <1>0, <1>1, <1>3, <1>4, <1>6, <1>8, <2>2, <2>4, <2>5, <2>6, QuietStep DEF TypeOK
<1>9. CASE Goto(t, "error") /\ UNCHANGED <<outcome, hits, limited>>
  <2>1. /\ pc' \in [Threads -> Places] /\ pc'[t] = "error"
        /\ \A u \in Threads \ {t} : pc'[u] = pc[u] /\ outcome'[u] = outcome[u] /\ sent'[u] = sent[u]
    BY <1>0, <1>4, <1>9 DEF Goto, Places, TypeOK
  <2>2. Complete(t)' = attempt[t] - 1 BY <1>3, <2>1 DEF Complete
  <2>3. SentInv(t)' BY <1>0, <1>1, <1>3, <1>9, <2>1, <2>2 DEF SentInv
  <2>4. LimitInv(t)' /\ LimitedOnly(t)' BY <1>1, <1>9, <2>1 DEF LimitInv, LimitedOnly
  <2>5. QED BY <1>0, <1>1, <1>3, <1>4, <1>9, <2>1, <2>3, <2>4, QuietStep DEF TypeOK
<1>10. QED BY <1>5, <1>7, <1>8, <1>9 DEF Primary, Replies

LEMMA SecondaryStep ==
    ASSUME IInv, NEW t \in Threads, Secondary(t), UNCHANGED setup
    PROVE  IInv'
<1> USE Facts
<1>0. TypeOK /\ IdleInv /\ CountInv /\ SentInv(t) /\ LimitInv(t) /\ SoloInv(t) /\ LimitedOnly(t)
  BY Solo
<1>1. /\ pc[t] = "secondary" /\ type[t] \in CallTypes /\ outcome[t] = "none"
      /\ attempt[t] \in 1..4 /\ sent'[t] = sent[t] + 1 /\ sent[t] \in 0..2 * (attempt[t] - 1) + 1
      /\ limited[t] \in 1..sent[t]
  <2>1. pc[t] = "secondary" /\ sent' = [sent EXCEPT ![t] = @ + 1] BY DEF Secondary
  <2>2. /\ type[t] \in CallTypes /\ attempt[t] \in 0..4 /\ sent[t] \in 0..8 /\ limited[t] \in 0..8
        /\ sent'[t] = sent[t] + 1 /\ outcome[t] = "none"
    BY <1>0, <2>1 DEF TypeOK, IdleInv
  <2>3. Complete(t) = attempt[t] - 1 BY <2>1 DEF Complete
  <2>4. /\ attempt[t] >= 1 /\ sent[t] <= 2 * (attempt[t] - 1) + 1
        /\ 1 <= limited[t] /\ limited[t] <= sent[t]
    BY <1>0, <2>1, <2>2, <2>3 DEF SentInv
  <2>5. QED BY <2>1, <2>2, <2>4
<1>2. Keys = 2 BY <1>0, <1>1 DEF SentInv
<1>3. "failed" \notin RetriedOutcomes(type[t]) =>
          limited[t] = sent[t] /\ sent[t] = (attempt[t] - 1) * 2 + 1
  BY <1>0, <1>1, <1>2 DEF LimitInv
<1>4. UNCHANGED <<type, attempt, read, counts, hits, errors, calls, failures, begun>>
  BY DEF Secondary, stats
<1>5. /\ sent' = [sent EXCEPT ![t] = @ + 1] /\ sent' \in [Threads -> 0..8]
      /\ \A u \in Threads \ {t} : sent'[u] = sent[u]
  BY <1>0, <1>1 DEF TypeOK, Secondary
<1>6. PICK result \in Results :
          /\ Finish(t, result)
          /\ limited' = IF result = "rate_limited" THEN [limited EXCEPT ![t] = @ + 1] ELSE limited
  BY DEF Secondary, Replies, Results, Failures
<1>7. /\ limited' \in [Threads -> 0..8] /\ \A u \in Threads \ {t} : limited'[u] = limited[u]
      /\ limited'[t] = IF result = "rate_limited" THEN limited[t] + 1 ELSE limited[t]
  BY <1>0, <1>1, <1>6 DEF TypeOK
<1>8. /\ SentInv(t)' /\ LimitInv(t)' /\ LimitedOnly(t)'
      /\ pc'[t] # "idle" => outcome'[t] = "none"
  <2>1. limited'[t] \in Nat /\ sent'[t] \in Nat /\ limited'[t] <= sent'[t]
        /\ sent'[t] <= 2 * attempt[t]
    BY <1>1, <1>7
  <2>2. result = "rate_limited" => limited'[t] >= Keys BY <1>1, <1>2, <1>7
  <2>3. result = "rate_limited" /\ "failed" \notin RetriedOutcomes(type[t]) =>
            limited'[t] = sent'[t] /\ sent'[t] = attempt[t] * Keys
    BY <1>1, <1>2, <1>3, <1>7
  <2>4. QED BY <1>1, <1>4, <1>6, <2>1, <2>2, <2>3, AttemptEnds
<1>9. /\ pc' \in [Threads -> Places] /\ pc'[t] \in {"idle", "backoff"}
      /\ outcome' \in [Threads -> {"none", "ok", "rate_limited", "failed", "broken"}]
      /\ \A u \in Threads \ {t} : pc'[u] = pc[u] /\ outcome'[u] = outcome[u]
  BY <1>1, <1>6, FinishEnds
<1>10. QED BY <1>0, <1>1, <1>4, <1>5, <1>7, <1>8, <1>9, QuietStep DEF TypeOK

LEMMA ReadErrorsStep ==
    ASSUME IInv, NEW t \in Threads, ReadErrors(t), UNCHANGED setup
    PROVE  IInv'
<1> USE Facts
<1>0. TypeOK /\ IdleInv /\ CountInv /\ SentInv(t) /\ LimitInv(t) /\ SoloInv(t) /\ LimitedOnly(t)
  BY Solo
<1>1. /\ pc[t] = "error" /\ pc'[t] = "error_write" /\ type[t] \in CallTypes
      /\ ModelOf(type[t]) \in Models
      /\ read'[t] = errors[ModelOf(type[t])]
      /\ failures'[ModelOf(type[t])] = failures[ModelOf(type[t])] + 1
  <2>1. type[t] \in CallTypes BY <1>0 DEF TypeOK
  <2>2. QED BY <1>0, <2>1 DEF TypeOK, ReadErrors, Goto
<1>2. OthersStay(t) BY <1>0 DEF OthersStay, Place, ReadErrors, Goto, TypeOK
<1>3. TypeOK' BY <1>0, <1>1 DEF TypeOK, ReadErrors, Goto, setup, stats
<1>4. CountInv'
  <2>1. \A m \in Models : errors'[m] = errors[m] /\ failures'[m] >= failures[m]
    BY <1>0, <1>1 DEF TypeOK, ReadErrors, stats
  <2>2. counts' = counts /\ calls' = calls /\ type' = type BY DEF ReadErrors, stats
  <2>3. \A u \in Threads \ {t} : read'[u] = read[u] /\ pc'[u] = pc[u]
    BY <1>0 DEF TypeOK, ReadErrors, Goto
  <2>4. read'[t] < failures'[ModelOf(type[t])] BY <1>0, <1>1 DEF TypeOK, CountInv
  <2>5. \A u \in Threads : type[u] \in CallTypes /\ read[u] \in Nat BY <1>0 DEF TypeOK
  <2>6. \A m \in Models : errors[m] \in Nat /\ failures[m] \in Nat /\ failures'[m] \in Nat
    BY <1>0, <1>3 DEF TypeOK
  <2>7. \A u \in Threads : ModelOf(type[u]) \in Models BY <2>5
  <2>8. QED BY <1>0, <1>1, <2>1, <2>2, <2>3, <2>4, <2>5, <2>6, <2>7 DEF CountInv
<1>5. SentInv(t)' /\ LimitInv(t)' /\ LimitedOnly(t)'
  <2>1. Complete(t)' = Complete(t) BY <1>1 DEF Complete, ReadErrors
  <2>2. SentInv(t)' BY <1>0, <1>1, <2>1 DEF SentInv, ReadErrors
  <2>3. LimitInv(t)' BY <1>1 DEF LimitInv
  <2>4. LimitedOnly(t)' BY <1>0 DEF LimitedOnly, ReadErrors, setup, Keys
  <2>5. QED BY <2>2, <2>3, <2>4
<1>6. SoloInv(t)'
  BY <1>0, <1>1, <1>2 DEF SoloInv, Alone, OthersStay, Place, ReadErrors, stats, TypeOK
<1>7. begun'[t] # 0 /\ outcome'[t] = "none" BY <1>0, <1>1 DEF IdleInv, ReadErrors
<1>8. QED BY <1>2, <1>3, <1>4, <1>5, <1>6, <1>7, OneThreadMoves

LEMMA WriteErrorsStep ==
    ASSUME IInv, NEW t \in Threads, WriteErrors(t), UNCHANGED setup
    PROVE  IInv'
<1> USE Facts
<1>0. TypeOK /\ IdleInv /\ CountInv /\ SentInv(t) /\ LimitInv(t) /\ SoloInv(t) /\ LimitedOnly(t)
  BY Solo
<1>1. /\ pc[t] = "error_write" /\ type[t] \in CallTypes /\ ModelOf(type[t]) \in Models
      /\ errors' = [errors EXCEPT ![ModelOf(type[t])] = read[t] + 1]
      /\ UNCHANGED <<type, attempt, read, counts, hits, calls, failures, sent, limited, begun>>
  <2>1. type[t] \in CallTypes BY <1>0 DEF TypeOK
  <2>2. QED BY <2>1 DEF WriteErrors
<1>2. PICK result \in {"failed", "broken"} : Finish(t, result) BY DEF WriteErrors, Failures
<1>3. /\ pc' \in [Threads -> Places] /\ pc'[t] \in {"idle", "backoff"}
      /\ outcome' \in [Threads -> {"none", "ok", "rate_limited", "failed", "broken"}]
      /\ \A u \in Threads \ {t} : pc'[u] = pc[u] /\ outcome'[u] = outcome[u]
  BY <1>1, <1>2, FinishEnds DEF Results
<1>4. OthersStay(t) BY <1>1, <1>3 DEF OthersStay, Place
<1>5. TypeOK' BY <1>0, <1>1, <1>3 DEF TypeOK, setup, Places
<1>6. CountInv'
  <2>1. \A m \in Models : errors'[m] <= failures[m]
    BY <1>0, <1>1 DEF TypeOK, CountInv
  <2>2. QED BY <1>0, <1>1, <1>3, <2>1 DEF CountInv
<1>7. /\ SentInv(t)' /\ LimitInv(t)' /\ LimitedOnly(t)'
      /\ pc'[t] # "idle" => outcome'[t] = "none"
  <2>1. attempt[t] \in 0..4 /\ sent[t] \in 0..8 /\ limited[t] \in 0..8 BY <1>0 DEF TypeOK
  <2>2. Complete(t) = attempt[t] - 1 BY <1>1 DEF Complete
  <2>3. sent[t] <= 2 * attempt[t] /\ limited[t] <= sent[t]
    BY <1>0, <1>1, <2>1, <2>2 DEF SentInv
  <2>4. QED BY <1>1, <1>2, <2>1, <2>3, AttemptEnds DEF Results
<1>8. SoloInv(t)'
  BY <1>0, <1>1, <1>3 DEF SoloInv, Alone, TypeOK
<1>9. begun'[t] # 0 BY <1>0, <1>1 DEF IdleInv
<1>10. QED BY <1>4, <1>5, <1>6, <1>7, <1>8, <1>9, OneThreadMoves

LEMMA BackoffStep ==
    ASSUME IInv, NEW t \in Threads, Backoff(t), UNCHANGED setup
    PROVE  IInv'
<1> USE Facts
<1>0. TypeOK /\ IdleInv /\ CountInv /\ SentInv(t) /\ LimitInv(t) /\ SoloInv(t) /\ LimitedOnly(t)
  BY Solo
<1>1. /\ pc[t] = "backoff" /\ pc'[t] = "count" /\ attempt'[t] = attempt[t] + 1
      /\ type[t] \in CallTypes /\ attempt[t] \in 0..4 /\ outcome[t] = "none"
  BY <1>0 DEF TypeOK, IdleInv, Backoff, NextAttempt, Goto
<1>2. UNCHANGED <<type, read, outcome, counts, hits, errors, calls, failures, sent, limited, begun>>
  BY DEF Backoff, stats
<1>3. attempt[t] < Attempts(type[t]) /\ Attempts(type[t]) \in {1, 4}
  BY <1>0, <1>1 DEF SentInv
<1>4. /\ pc' \in [Threads -> Places] /\ attempt' \in [Threads -> 0..4]
      /\ \A u \in Threads \ {t} : pc'[u] = pc[u] /\ attempt'[u] = attempt[u]
  BY <1>0, <1>1, <1>3 DEF TypeOK, Backoff, NextAttempt, Goto, Places
<1>5. Complete(t)' = attempt[t] /\ Complete(t) = attempt[t] BY <1>1 DEF Complete
<1>6. SentInv(t)' BY <1>0, <1>1, <1>2, <1>3, <1>5 DEF SentInv
<1>7. LimitInv(t)'
  <2>1. Keys' = Keys /\ (attempt'[t] - 1) * Keys' = attempt[t] * Keys
    <3>1. Keys' = Keys BY DEF Keys, setup
    <3>2. attempt'[t] - 1 = attempt[t] BY <1>1
    <3>3. QED BY <3>1, <3>2
  <2>2. QED BY <1>0, <1>1, <1>2, <2>1 DEF LimitInv
<1>8. LimitedOnly(t)' BY <1>1, <1>2 DEF LimitedOnly
<1>9. QED BY <1>0, <1>1, <1>2, <1>4, <1>6, <1>7, <1>8, QuietStep DEF TypeOK

LEMMA NextStep == IInv /\ [Next]_vars => IInv'
<1> SUFFICES ASSUME IInv, [Next]_vars PROVE IInv' OBVIOUS
<1>1. CASE \E t \in Threads : Step(t)
  BY <1>1, ReadCountStep, WriteCountStep, PrimaryStep, SecondaryStep, ReadErrorsStep,
     WriteErrorsStep, BackoffStep DEF Step
<1>2. CASE \E t \in Threads, ct \in CallTypes : Begin(t, ct) /\ UNCHANGED setup
  BY <1>2, BeginStep
<1>3. CASE UNCHANGED vars
  <2>1. TypeOK' /\ IdleInv' /\ CountInv' /\ LimitedOnlyAfterAll'
    BY <1>3 DEF IInv, TypeOK, IdleInv, CountInv, LimitedOnlyAfterAll, Keys, vars, setup, stats
  <2>2. \A t \in Threads : SentInv(t)' /\ LimitInv(t)' /\ SoloInv(t)'
    BY <1>3 DEF IInv, SentInv, Complete, LimitInv, SoloInv, Alone, Keys, vars, setup, stats
  <2>3. QED BY <2>1, <2>2 DEF IInv
<1>4. QED BY <1>1, <1>2, <1>3 DEF Next

(* The invariant behind the three theorems below.                          *)
THEOREM InvariantHolds == Spec => []IInv
BY Initially, NextStep, PTL DEF Spec

(* The type invariant of the router, with its bound of eight requests in a *)
(* call whatever fails.                                                    *)
THEOREM TypeCorrect == Spec => []TypeOK
<1>1. IInv => TypeOK BY DEF IInv
<1>2. QED BY <1>1, InvariantHolds, PTL

(* For any number of threads nobody is told of the rate limit while a key  *)
(* or an attempt was left.                                                 *)
THEOREM LimitIsTheLastResort == Spec => []LimitedOnlyAfterAll
<1>1. IInv => LimitedOnlyAfterAll BY DEF IInv
<1>2. QED BY <1>1, InvariantHolds, PTL

(* For any number of threads and calls the unlocked counters report no     *)
(* more than what happened, and exactly that to a thread that is alone.    *)
THEOREM StatsStayBelow == Spec => []StatsNeverOverReport
<1>1. IInv => StatsNeverOverReport
  BY DEF IInv, CountInv, SoloInv, Alone, StatsNeverOverReport
<1>2. QED BY <1>1, InvariantHolds, PTL
=============================================================================
