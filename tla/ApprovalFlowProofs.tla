------------------------- MODULE ApprovalFlowProofs -------------------------
(* Proofs about ApprovalFlow for any sessions and any number of requests.  *)
EXTENDS ApprovalFlow, FiniteSetTheorems, TLAPS

Decides(i) == requests[i].kind \in {"allow", "deny"}
Ran(i) == \/ requests[i].stage = "executing"
          \/ requests[i].reply \in {"executed", "ask_dropped", "raised"}

(* How far a request of each kind gets and how it can be answered.  A      *)
(* decision is about a call that was asked for in the same session.        *)
RequestFits(i) == LET r == requests[i] IN
    /\ Asks(i) => r.stage = "done"
    /\ r.kind = "chat" => r.stage # "executing"
    /\ Decides(i) => /\ r.call \in DOMAIN requests /\ Asks(r.call)
                     /\ requests[r.call].session = r.session
                     /\ ~Asks(i)
    /\ r.kind = "deny" => r.stage # "executing" /\ r.reply # "raised"
    /\ r.kind = "allow" /\ Ran(i) => executed[r.call] > 0
    /\ r.kind = "allow" /\ r.stage = "done" /\ AsksWellFormed(r.call) => Ran(i)
RequestsInv == \A i \in DOMAIN requests : RequestFits(i)

(* A session waits for a request of its own, and for a decision only while *)
(* the call it is about is pending.                                        *)
WaitingInv ==
    \A s \in Sessions : waiting[s] # None =>
        /\ waiting[s] \in DOMAIN requests /\ requests[waiting[s]].session = s
        /\ Decides(waiting[s]) => pending[s] = requests[waiting[s]].call

(* The answer that asked for a call is not waited for any more when the    *)
(* call is shown, nor when the user has been told its end.                 *)
OpenInv ==
    /\ GateShowsOpenCall
    /\ \A s, t \in Sessions : pending[s] # None => pending[s] # waiting[t]
    /\ \A a \in Approvals : told[a] # "nothing" =>
           a \in DOMAIN requests /\ Asks(a) /\ \A s \in Sessions : waiting[s] # a

(* Every Allow click is waited for, or the user was told its success, or   *)
(* its outcome was lost.                                                   *)
AwaitsAllow(s, a) ==
    /\ waiting[s] # None
    /\ requests[waiting[s]].kind = "allow" /\ requests[waiting[s]].call = a
Acknowledged(a) == told[a] = "executed" \/ \E s \in Sessions : AwaitsAllow(s, a)
LedgerInv ==
    \A a \in Approvals :
        allowed[a] = unanswered[a] + (IF Acknowledged(a) THEN 1 ELSE 0)

(* A click is spent by at most one execution: those that are still on      *)
(* their way are not spent yet.                                            *)
OnTheirWay(a) ==
    {i \in DOMAIN requests : /\ requests[i].kind = "allow" /\ requests[i].call = a
                             /\ requests[i].stage = "sent"}
SpentInv ==
    \A a \in Approvals : /\ executed[a] + Cardinality(OnTheirWay(a)) <= allowed[a]
                         /\ allowed[a] <= Len(requests)

(* What the user is told has run has run, if its arguments were accepted.  *)
ToldInv == \A a \in Approvals : told[a] = "executed" /\ AsksWellFormed(a) => executed[a] > 0

IInv == TypeOK /\ RequestsInv /\ WaitingInv /\ OpenInv /\ LedgerInv /\ SpentInv /\ ToldInv

-----------------------------------------------------------------------------
RequestRecords ==
    [session : Sessions, kind : {"chat", "allow", "deny"}, call : Approvals \cup {None},
     stage : {"sent", "lost", "executing", "done"}, reply : Replies]

(* What TypeOK says of the requests, in the form the other proofs use.     *)
LEMMA RequestTypes ==
    ASSUME TypeOK
    PROVE  /\ requests \in Seq(RequestRecords) /\ Len(requests) \in 0..MaxRequests
           /\ DOMAIN requests = 1..Len(requests)
           /\ \A i \in DOMAIN requests :
                 /\ i \in Approvals /\ i \in Nat \ {0}
                 /\ requests[i] \in RequestRecords
           /\ Approvals \subseteq Nat \ {0} /\ None = 0
<1>1. requests \in Seq(RequestRecords) BY DEF TypeOK, RequestRecords
<1>2. Len(requests) \in 0..MaxRequests BY <1>1, RequestsAssumption DEF TypeOK
<1>3. DOMAIN requests = 1..Len(requests) BY <1>1
<1>4. \A i \in DOMAIN requests : requests[i] \in RequestRecords BY <1>1, <1>3
<1>5. QED BY <1>1, <1>2, <1>3, <1>4, RequestsAssumption DEF Approvals, None

(* Sending leaves the earlier requests as they are.                        *)
LEMMA SendFacts ==
    ASSUME TypeOK, NEW s \in Sessions, NEW kind \in {"chat", "allow", "deny"},
           NEW a \in Approvals \cup {None}, Send(s, kind, a)
    PROVE  /\ requests' \in Seq(RequestRecords)
           /\ Len(requests') = Len(requests) + 1 /\ Len(requests') <= MaxRequests
           /\ DOMAIN requests' = DOMAIN requests \cup {Len(requests) + 1}
           /\ \A i \in DOMAIN requests : requests'[i] = requests[i]
           /\ requests'[Len(requests) + 1] = Request(s, kind, a)
           /\ waiting[s] = None /\ waiting'[s] = Len(requests) + 1
           /\ \A t \in Sessions \ {s} : waiting'[t] = waiting[t]
           /\ waiting' \in [Sessions -> 0..MaxRequests]
<1>1. Request(s, kind, a) \in RequestRecords
  BY DEF Request, RequestRecords, Replies
<1>2. requests \in Seq(RequestRecords) /\ Len(requests) \in Nat BY RequestTypes
<1>3. requests' = Append(requests, Request(s, kind, a)) /\ Len(requests) < MaxRequests
  BY DEF Send
<1>4. /\ requests' \in Seq(RequestRecords) /\ Len(requests') = Len(requests) + 1
      /\ \A i \in DOMAIN requests : requests'[i] = requests[i]
      /\ requests'[Len(requests) + 1] = Request(s, kind, a)
  BY <1>1, <1>2, <1>3
<1>5. DOMAIN requests' = DOMAIN requests \cup {Len(requests) + 1}
  BY <1>2, <1>4
<1>6. waiting \in [Sessions -> 0..MaxRequests] BY DEF TypeOK
<1>7. Len(requests) + 1 \in 0..MaxRequests BY <1>2, <1>3, RequestsAssumption
<1>8. QED BY <1>2, <1>3, <1>4, <1>5, <1>6, <1>7, RequestsAssumption DEF Send

(* Serving a request changes nothing but how far it got and its answer.    *)
LEMMA StageFacts ==
    ASSUME TypeOK, NEW i \in DOMAIN requests,
           NEW stage \in {"sent", "lost", "executing", "done"}, NEW reply \in Replies,
           SetStage(i, stage, reply)
    PROVE  /\ requests' \in Seq(RequestRecords) /\ Len(requests') = Len(requests)
           /\ DOMAIN requests' = DOMAIN requests
           /\ \A j \in DOMAIN requests :
                 /\ requests'[j].session = requests[j].session
                 /\ requests'[j].kind = requests[j].kind
                 /\ requests'[j].call = requests[j].call
           /\ \A j \in DOMAIN requests \ {i} : requests'[j] = requests[j]
           /\ requests'[i].stage = stage /\ requests'[i].reply = reply
<1>1. /\ requests \in Seq(RequestRecords) /\ DOMAIN requests = 1..Len(requests)
      /\ requests[i] \in RequestRecords
  BY RequestTypes
<1> DEFINE new == [session |-> requests[i].session, kind |-> requests[i].kind,
                   call |-> requests[i].call, stage |-> stage, reply |-> reply]
<1>2. requests[i] = [session |-> requests[i].session, kind |-> requests[i].kind,
                     call |-> requests[i].call, stage |-> requests[i].stage,
                     reply |-> requests[i].reply]
  BY <1>1 DEF RequestRecords
<1> DEFINE staged == [requests[i] EXCEPT !.stage = stage]
<1>3. requests' = [requests EXCEPT ![i] = new]
  <2>1. staged = [session |-> requests[i].session, kind |-> requests[i].kind,
                  call |-> requests[i].call, stage |-> stage, reply |-> requests[i].reply]
    BY <1>1, <1>2
  <2>2. [requests[i] EXCEPT !.stage = stage, !.reply = reply] = [staged EXCEPT !.reply = reply]
    BY DEF staged
  <2> HIDE DEF staged
  <2>3. [staged EXCEPT !.reply = reply] = new BY <2>1
  <2> HIDE DEF new
  <2>4. QED BY <2>2, <2>3, Zenon DEF SetStage
<1>4. new \in RequestRecords BY <1>1 DEF RequestRecords
<1>5. /\ requests' \in Seq(RequestRecords) /\ Len(requests') = Len(requests)
      /\ DOMAIN requests' = DOMAIN requests
  BY <1>1, <1>3, <1>4
<1>6. /\ \A j \in DOMAIN requests \ {i} : requests'[j] = requests[j]
      /\ requests'[i] = new
  BY <1>1, <1>3
<1>7. QED BY <1>2, <1>5, <1>6

-----------------------------------------------------------------------------
LEMMA Initially == Init => IInv
<1> SUFFICES ASSUME Init PROVE IInv OBVIOUS
<1>1. TypeOK BY RequestsAssumption DEF Init, TypeOK, Approvals, None
<1>2. RequestsInv BY DEF Init, RequestsInv
<1>3. WaitingInv BY DEF Init, WaitingInv
<1>4. OpenInv BY DEF Init, OpenInv, GateShowsOpenCall
<1>5. LedgerInv BY DEF Init, LedgerInv, Acknowledged, AwaitsAllow
<1>6. SpentInv
  <2>1. \A a \in Approvals : OnTheirWay(a) = {} BY DEF Init, OnTheirWay
  <2>2. \A a \in Approvals : Cardinality(OnTheirWay(a)) = 0 BY <2>1, FS_EmptySet
  <2>3. QED BY <2>2 DEF Init, SpentInv
<1>7. ToldInv BY DEF Init, ToldInv
<1>8. QED BY <1>1, <1>2, <1>3, <1>4, <1>5, <1>6, <1>7 DEF IInv

(* The clicks that are on their way are finitely many.                     *)
LEMMA OnTheirWayFinite ==
    ASSUME TypeOK, NEW a
    PROVE  IsFiniteSet(OnTheirWay(a)) /\ Cardinality(OnTheirWay(a)) \in Nat
<1>1. Len(requests) \in Nat /\ DOMAIN requests = 1..Len(requests) BY RequestTypes
<1>2. IsFiniteSet(1..Len(requests)) BY <1>1, FS_Interval
<1>3. OnTheirWay(a) \subseteq 1..Len(requests) BY <1>1 DEF OnTheirWay
<1>4. QED BY <1>2, <1>3, FS_Subset, FS_CardinalityType

(* The session that waits for a decision on a call is the one that was     *)
(* asked for it, so no two sessions do.                                    *)
LEMMA OneSessionDecides ==
    ASSUME TypeOK, RequestsInv, WaitingInv, NEW s \in Sessions, NEW a \in Approvals,
           AwaitsAllow(s, a)
    PROVE  pending[s] = a /\ s = requests[a].session
BY RequestTypes DEF AwaitsAllow, WaitingInv, RequestsInv, RequestFits, Decides

(* A session sends a request: a message, or its decision on what is        *)
(* pending.                                                                *)
LEMMA SendStep ==
    ASSUME IInv, NEW s \in Sessions, NEW kind \in {"chat", "allow", "deny"}, NEW a,
           IF kind = "chat" THEN a = None ELSE pending[s] # None /\ a = pending[s],
           Send(s, kind, a),
           allowed' = IF kind = "allow" THEN [allowed EXCEPT ![a] = @ + 1] ELSE allowed,
           UNCHANGED <<pending, told, executed, unanswered>>
    PROVE  IInv'
<1> DEFINE n == Len(requests) + 1
<1>0. TypeOK BY DEF IInv
<1>1. a \in Approvals \cup {None} /\ (kind # "chat" => a \in Approvals)
  BY <1>0 DEF TypeOK
<1>2. /\ requests' \in Seq(RequestRecords)
      /\ Len(requests') = n /\ n <= MaxRequests
      /\ DOMAIN requests' = DOMAIN requests \cup {n} /\ n \notin DOMAIN requests
      /\ \A i \in DOMAIN requests : requests'[i] = requests[i]
      /\ requests'[n] = Request(s, kind, a)
      /\ waiting[s] = None /\ waiting'[s] = n
      /\ \A t \in Sessions \ {s} : waiting'[t] = waiting[t]
      /\ waiting' \in [Sessions -> 0..MaxRequests]
  <2>1. n \notin DOMAIN requests BY <1>0, RequestTypes
  <2>2. QED BY <1>0, <1>1, <2>1, SendFacts
<1> USE RequestTypes DEF IInv
<1>3. /\ requests'[n].session = s /\ requests'[n].kind = kind /\ requests'[n].call = a
      /\ requests'[n].stage = "sent" /\ requests'[n].reply = "none"
  BY <1>2 DEF Request
<1>4. /\ \A b \in Approvals : allowed'[b] =
             allowed[b] + (IF kind = "allow" /\ b = a THEN 1 ELSE 0)
      /\ \A b \in Approvals : allowed[b] \in Nat /\ allowed[b] <= Len(requests)
      /\ DOMAIN allowed' = Approvals /\ allowed' \in [Approvals -> 0..MaxRequests]
  BY <1>1, <1>2, RequestsAssumption DEF TypeOK, SpentInv
<1>5. n \in Approvals /\ n # None BY <1>2, RequestsAssumption DEF Approvals
<1>6. kind # "chat" => /\ a \in DOMAIN requests /\ Asks(a) /\ requests[a].session = s
                       /\ told[a] = "nothing"
  BY DEF OpenInv, GateShowsOpenCall
<1>7. TypeOK'
  BY <1>2, <1>4 DEF TypeOK, RequestRecords
<1>8. RequestsInv'
  <2>1. ASSUME NEW i \in DOMAIN requests PROVE
           /\ requests'[i] = requests[i]
           /\ (Decides(i) => requests'[requests[i].call] = requests[requests[i].call])
    BY <1>2 DEF RequestsInv, RequestFits, Decides
  <2>2. a \in DOMAIN requests => requests'[a] = requests[a] BY <1>2
  <2>3. QED
    BY <1>2, <1>3, <1>6, <2>1, <2>2
    DEF RequestsInv, RequestFits, Decides, Asks, AsksWellFormed, Ran
<1>9. WaitingInv'
  BY <1>2, <1>3 DEF WaitingInv, Decides
<1>10. OpenInv'
  <2>1. \A i \in DOMAIN requests : /\ i \in DOMAIN requests' /\ (Asks(i)' <=> Asks(i))
                                   /\ requests'[i].session = requests[i].session
                                   /\ i # n
    BY <1>2 DEF Asks
  <2>2. GateShowsOpenCall' BY <2>1 DEF OpenInv, GateShowsOpenCall
  <2>3. \A t, u \in Sessions : pending[t] # None => pending[t] # waiting'[u]
    BY <1>2, <2>1 DEF OpenInv, GateShowsOpenCall
  <2>4. \A b \in Approvals : told[b] # "nothing" =>
            b \in DOMAIN requests' /\ Asks(b)' /\ \A u \in Sessions : waiting'[u] # b
    BY <1>2, <2>1 DEF OpenInv
  <2>5. QED BY <2>2, <2>3, <2>4 DEF OpenInv
<1>11. LedgerInv'
  <2> SUFFICES ASSUME NEW b \in Approvals
               PROVE  (allowed[b] = unanswered[b] + (IF Acknowledged(b) THEN 1 ELSE 0))'
    BY DEF LedgerInv
  <2>1. \A t \in Sessions \ {s} : AwaitsAllow(t, b)' <=> AwaitsAllow(t, b)
    BY <1>2 DEF AwaitsAllow, WaitingInv
  <2>2. AwaitsAllow(s, b)' <=> kind = "allow" /\ b = a
    BY <1>2, <1>3, <1>5 DEF AwaitsAllow
  <2>3. ~AwaitsAllow(s, b) BY <1>2 DEF AwaitsAllow
  <2>4. CASE kind = "allow" /\ b = a
    <3>1. \A t \in Sessions \ {s} : ~AwaitsAllow(t, b)
      BY <1>6, <2>4, OneSessionDecides
    <3>2. ~Acknowledged(b) BY <1>6, <2>3, <2>4, <3>1 DEF Acknowledged
    <3>3. Acknowledged(b)' BY <2>2, <2>4 DEF Acknowledged
    <3>4. unanswered[b] \in Nat /\ unanswered'[b] = unanswered[b] BY DEF TypeOK
    <3>5. QED BY <1>4, <2>4, <3>2, <3>3, <3>4 DEF LedgerInv
  <2>5. CASE ~(kind = "allow" /\ b = a)
    <3>1. Acknowledged(b)' <=> Acknowledged(b) BY <2>1, <2>2, <2>3, <2>5 DEF Acknowledged
    <3>2. allowed'[b] = allowed[b] BY <1>4, <2>5
    <3>3. QED BY <3>1, <3>2 DEF LedgerInv
  <2>6. QED BY <2>4, <2>5
<1>12. SpentInv'
  <2> SUFFICES ASSUME NEW b \in Approvals
               PROVE  /\ (executed[b] + Cardinality(OnTheirWay(b)) <= allowed[b])'
                      /\ allowed'[b] <= Len(requests')
    BY DEF SpentInv
  <2>1. IsFiniteSet(OnTheirWay(b)) /\ Cardinality(OnTheirWay(b)) \in Nat
    BY OnTheirWayFinite
  <2>2. allowed'[b] <= Len(requests') BY <1>2, <1>4
  <2>3. executed'[b] = executed[b] /\ executed[b] \in Nat BY DEF TypeOK
  <2>4. CASE kind = "allow" /\ b = a
    <3>1. OnTheirWay(b)' = OnTheirWay(b) \cup {n} BY <1>2, <1>3, <2>4 DEF OnTheirWay
    <3>2. n \notin OnTheirWay(b) BY <1>2 DEF OnTheirWay
    <3>3. Cardinality(OnTheirWay(b)') = Cardinality(OnTheirWay(b)) + 1
      BY <2>1, <3>1, <3>2, FS_AddElement
    <3>4. QED BY <1>4, <2>1, <2>2, <2>3, <2>4, <3>3 DEF SpentInv
  <2>5. CASE ~(kind = "allow" /\ b = a)
    <3>1. OnTheirWay(b)' = OnTheirWay(b) BY <1>2, <1>3, <2>5 DEF OnTheirWay
    <3>2. QED BY <1>4, <2>2, <2>3, <2>5, <3>1 DEF SpentInv
  <2>6. QED BY <2>4, <2>5
<1>13. ToldInv'
  BY <1>2 DEF ToldInv, OpenInv, AsksWellFormed
<1>14. QED BY <1>7, <1>8, <1>9, <1>10, <1>11, <1>12, <1>13

(* The server takes a request a step further: what it does must fit the    *)
(* kind of the request, and it executes a call only for an allowing        *)
(* request that was not served before.                                     *)
LEMMA ServeStep ==
    ASSUME IInv, NEW i \in DOMAIN requests,
           NEW stage \in {"lost", "executing", "done"}, NEW reply \in Replies,
           requests[i].stage \in {"sent", "executing"},
           SetStage(i, stage, reply),
           UNCHANGED <<uiVars, allowed, unanswered>>,
           \/ executed' = executed
           \/ /\ requests[i].kind = "allow" /\ requests[i].stage = "sent"
              /\ executed' = [executed EXCEPT ![requests[i].call] = @ + 1],
           reply \in {"ask", "ask_malformed"} => stage = "done" /\ requests[i].kind = "chat",
           requests[i].kind = "chat" => stage # "executing",
           requests[i].kind = "deny" => stage # "executing" /\ reply # "raised",
           requests[i].kind = "allow" =>
              LET ran == stage = "executing" \/ reply \in {"executed", "ask_dropped", "raised"}
              IN  /\ ran => executed'[requests[i].call] > 0
                  /\ stage = "done" /\ AsksWellFormed(requests[i].call) => ran
    PROVE  IInv'
<1>0. TypeOK BY DEF IInv
<1>1. /\ requests' \in Seq(RequestRecords) /\ Len(requests') = Len(requests)
      /\ DOMAIN requests' = DOMAIN requests
      /\ \A j \in DOMAIN requests :
            /\ requests'[j].session = requests[j].session
            /\ requests'[j].kind = requests[j].kind
            /\ requests'[j].call = requests[j].call
      /\ \A j \in DOMAIN requests \ {i} : requests'[j] = requests[j]
      /\ requests'[i].stage = stage /\ requests'[i].reply = reply
  BY <1>0, StageFacts
<1>2. UNCHANGED <<pending, waiting, told, allowed, unanswered>> BY DEF uiVars
<1> USE RequestTypes DEF IInv
<1>3. ~Asks(i) BY DEF RequestsInv, RequestFits
<1>4. \A j \in DOMAIN requests : Asks(j) => j # i /\ Asks(j)'
  BY <1>1, <1>3 DEF Asks
<1>5. \A j \in DOMAIN requests : Asks(j) => (AsksWellFormed(j)' <=> AsksWellFormed(j))
  BY <1>1, <1>4 DEF AsksWellFormed
<1>6. requests[i].kind = "allow" => requests[i].call \in Approvals
  BY DEF RequestsInv, RequestFits, Decides
<1>7. /\ \A a \in Approvals : executed'[a] \in Nat /\ executed'[a] >= executed[a]
      /\ \A a \in Approvals : executed'[a] # executed[a] =>
            /\ requests[i].kind = "allow" /\ requests[i].stage = "sent"
            /\ a = requests[i].call /\ executed'[a] = executed[a] + 1
      /\ DOMAIN executed' = Approvals
      /\ executed' = [a \in Approvals |-> executed'[a]]
  <2>1. executed \in [Approvals -> Nat] BY RequestsAssumption DEF TypeOK
  <2>2. CASE executed' = executed BY <2>1, <2>2
  <2>3. CASE executed' # executed
    <3>1. /\ requests[i].kind = "allow" /\ requests[i].stage = "sent"
          /\ executed' = [executed EXCEPT ![requests[i].call] = @ + 1]
      BY <2>3
    <3>2. executed' \in [Approvals -> Nat] BY <1>6, <2>1, <3>1
    <3>3. \A a \in Approvals : executed'[a] = IF a = requests[i].call THEN executed[a] + 1
                                              ELSE executed[a]
      BY <1>6, <2>1, <3>1
    <3>4. /\ DOMAIN executed' = Approvals
          /\ executed' = [a \in Approvals |-> executed'[a]]
      BY <3>2
    <3>5. \A a \in Approvals : executed[a] \in Nat BY <2>1
    <3>6. QED BY <3>1, <3>3, <3>4, <3>5
  <2>4. QED BY <2>2, <2>3
<1>8. SpentInv'
  <2> SUFFICES ASSUME NEW b \in Approvals
               PROVE  /\ (executed[b] + Cardinality(OnTheirWay(b)) <= allowed[b])'
                      /\ (allowed[b] <= Len(requests))'
    BY DEF SpentInv
  <2>1. IsFiniteSet(OnTheirWay(b)) /\ Cardinality(OnTheirWay(b)) \in Nat
    BY OnTheirWayFinite
  <2>2. (allowed[b] <= Len(requests))' BY <1>1, <1>2 DEF SpentInv
  <2>3. OnTheirWay(b)' = OnTheirWay(b) \ {i} BY <1>1 DEF OnTheirWay
  <2>4. executed[b] \in Nat /\ allowed[b] \in Nat /\ allowed'[b] = allowed[b]
    BY <1>2 DEF TypeOK
  <2>5. CASE i \in OnTheirWay(b)
    <3>1. Cardinality(OnTheirWay(b)') = Cardinality(OnTheirWay(b)) - 1
      BY <2>1, <2>3, <2>5, FS_RemoveElement
    <3>2. QED BY <1>7, <2>1, <2>2, <2>4, <3>1 DEF SpentInv
  <2>6. CASE i \notin OnTheirWay(b)
    <3>1. OnTheirWay(b)' = OnTheirWay(b) BY <2>3, <2>6
    <3>2. executed'[b] = executed[b] BY <1>7, <2>6 DEF OnTheirWay
    <3>3. QED BY <2>2, <2>4, <3>1, <3>2 DEF SpentInv
  <2>7. QED BY <2>5, <2>6
<1>9. TypeOK'
  <2>1. ASSUME NEW a \in Approvals PROVE executed'[a] \in 0..MaxRequests
    <3>1. TypeOK /\ allowed'[a] \in 0..MaxRequests BY <1>2 DEF TypeOK
    <3>2. executed'[a] <= allowed'[a]
      <4>1. DOMAIN requests' = 1..Len(requests) /\ Len(requests) \in Nat BY <1>1
      <4>2. IsFiniteSet(1..Len(requests)) BY <4>1, FS_Interval
      <4>3. OnTheirWay(a)' \subseteq 1..Len(requests) BY <4>1 DEF OnTheirWay
      <4>4. Cardinality(OnTheirWay(a)') \in Nat BY <4>2, <4>3, FS_Subset, FS_CardinalityType
      <4>5. QED BY <1>7, <1>8, <3>1, <4>4 DEF SpentInv
    <3>3. QED BY <1>7, <3>1, <3>2, RequestsAssumption
  <2>2. executed' \in [Approvals -> 0..MaxRequests] BY <1>7, <2>1
  <2>3. QED BY <1>1, <1>2, <2>2 DEF TypeOK, RequestRecords
<1>10. RequestsInv'
  <2> SUFFICES ASSUME NEW j \in DOMAIN requests PROVE RequestFits(j)'
    BY <1>1 DEF RequestsInv
  <2> DEFINE c == requests[j].call
  <2>1. RequestFits(j) BY DEF RequestsInv
  <2>2. requests'[j].kind = requests[j].kind /\ requests'[j].call = c
    BY <1>1
  <2>3. Decides(j) => /\ c \in DOMAIN requests /\ c \in Approvals /\ Asks(c)
                      /\ Asks(c)' /\ (AsksWellFormed(c)' <=> AsksWellFormed(c))
                      /\ requests'[c].session = requests'[j].session
    BY <1>1, <1>4, <1>5, <2>1 DEF RequestFits
  <2>4. Asks(j)' => requests'[j].stage = "done" /\ requests'[j].kind = "chat"
    BY <1>1, <2>1 DEF RequestFits, Asks, Decides, RequestRecords
  <2>5. requests'[j].kind = "chat" => requests'[j].stage # "executing"
    BY <1>1, <2>1 DEF RequestFits
  <2>6. requests'[j].kind = "deny" =>
            requests'[j].stage # "executing" /\ requests'[j].reply # "raised"
    BY <1>1, <2>1 DEF RequestFits
  <2>7. ASSUME requests[j].kind = "allow", Ran(j)' PROVE executed'[c] > 0
    <3>1. CASE j = i BY <1>1, <2>7, <3>1 DEF Ran
    <3>2. CASE j # i
      <4>1. Ran(j) BY <1>1, <2>7, <3>2 DEF Ran
      <4>2. c \in Approvals /\ executed[c] > 0 BY <2>1, <2>3, <2>7, <4>1 DEF RequestFits, Decides
      <4>3. executed[c] \in Nat BY <4>2 DEF TypeOK
      <4>4. QED BY <1>7, <4>2, <4>3
    <3>3. QED BY <3>1, <3>2
  <2>8. ASSUME requests[j].kind = "allow", requests'[j].stage = "done", AsksWellFormed(c)'
        PROVE  Ran(j)'
    <3>1. AsksWellFormed(c) BY <2>3, <2>8 DEF Decides
    <3>2. CASE j = i BY <1>1, <2>8, <3>1, <3>2 DEF Ran
    <3>3. CASE j # i BY <1>1, <2>1, <2>8, <3>1, <3>3 DEF RequestFits, Ran
    <3>4. QED BY <3>2, <3>3
  <2>9. Decides(j)' => Decides(j) /\ ~Asks(j)'
    BY <2>2, <2>4 DEF Decides
  <2>10. QED
    BY <1>1, <2>2, <2>3, <2>4, <2>5, <2>6, <2>7, <2>8, <2>9 DEF RequestFits
<1>11. WaitingInv' BY <1>1, <1>2 DEF WaitingInv, Decides
<1>12. OpenInv'
  <2>1. GateShowsOpenCall' BY <1>1, <1>2, <1>4 DEF OpenInv, GateShowsOpenCall
  <2>2. QED BY <1>1, <1>2, <1>4, <2>1 DEF OpenInv
<1>13. LedgerInv'
  <2>1. \A s \in Sessions, a \in Approvals : AwaitsAllow(s, a)' <=> AwaitsAllow(s, a)
    BY <1>1, <1>2 DEF AwaitsAllow, WaitingInv
  <2>2. \A a \in Approvals : Acknowledged(a)' <=> Acknowledged(a)
    BY <1>2, <2>1 DEF Acknowledged
  <2>3. QED BY <1>2, <2>2 DEF LedgerInv
<1>14. ToldInv'
  <2>1. \A a \in Approvals : executed[a] \in Nat BY DEF TypeOK
  <2>2. QED BY <1>2, <1>5, <1>7, <2>1 DEF ToldInv, OpenInv
<1>15. QED BY <1>8, <1>9, <1>10, <1>11, <1>12, <1>13, <1>14

(* A session that stops waiting disturbs neither the requests nor what     *)
(* other sessions wait for.                                                *)
LEMMA WaitEnds ==
    ASSUME IInv, NEW s \in Sessions, waiting[s] # None,
           waiting' = [waiting EXCEPT ![s] = None],
           UNCHANGED <<requests, allowed, executed>>,
           \A t \in Sessions \ {s} : pending'[t] = pending[t]
    PROVE  /\ RequestsInv' /\ SpentInv' /\ WaitingInv'
           /\ waiting' \in [Sessions -> 0..MaxRequests] /\ waiting'[s] = None
           /\ \A t \in Sessions \ {s} : waiting'[t] = waiting[t]
           /\ \A t \in Sessions, a \in Approvals :
                 AwaitsAllow(t, a)' <=> t # s /\ AwaitsAllow(t, a)
           /\ waiting[s] \in DOMAIN requests /\ requests[waiting[s]].session = s
           /\ Decides(waiting[s]) => /\ pending[s] = requests[waiting[s]].call
                                     /\ pending[s] \in Approvals /\ told[pending[s]] = "nothing"
                                     /\ requests[pending[s]].session = s
<1> USE RequestTypes DEF IInv
<1>1. waiting \in [Sessions -> 0..MaxRequests] BY DEF TypeOK
<1>2. /\ waiting'[s] = None /\ \A t \in Sessions \ {s} : waiting'[t] = waiting[t]
      /\ waiting' \in [Sessions -> 0..MaxRequests]
  BY <1>1, RequestsAssumption
<1>3. RequestsInv' BY DEF RequestsInv, RequestFits, Asks, AsksWellFormed, Decides, Ran
<1>4. SpentInv' BY DEF SpentInv, OnTheirWay
<1>5. WaitingInv' BY <1>2 DEF WaitingInv, Decides
<1>6. \A t \in Sessions, a \in Approvals : AwaitsAllow(t, a)' <=> t # s /\ AwaitsAllow(t, a)
  BY <1>2 DEF AwaitsAllow
<1>7. waiting[s] \in DOMAIN requests /\ requests[waiting[s]].session = s BY DEF WaitingInv
<1>8. Decides(waiting[s]) => /\ pending[s] = requests[waiting[s]].call
                             /\ pending[s] \in Approvals /\ told[pending[s]] = "nothing"
                             /\ requests[pending[s]].session = s
  BY <1>7 DEF WaitingInv, RequestsInv, RequestFits, OpenInv, GateShowsOpenCall
<1>9. QED BY <1>2, <1>3, <1>4, <1>5, <1>6, <1>7, <1>8

(* The outcome of an Allow click that the session does not learn enters    *)
(* the ledger as unanswered, and stays within its type.                    *)
LEMMA LedgerMoves ==
    ASSUME IInv, NEW s \in Sessions, waiting[s] # None,
           waiting' = [waiting EXCEPT ![s] = None],
           UNCHANGED <<requests, allowed, executed, told>>,
           \A t \in Sessions \ {s} : pending'[t] = pending[t],
           unanswered' = IF requests[waiting[s]].kind = "allow"
                         THEN [unanswered EXCEPT ![requests[waiting[s]].call] = @ + 1]
                         ELSE unanswered
    PROVE  LedgerInv' /\ unanswered' \in [Approvals -> 0..MaxRequests]
<1> USE DEF IInv
<1> DEFINE c == requests[waiting[s]].call
<1>1. /\ allowed \in [Approvals -> 0..MaxRequests]
      /\ unanswered \in [Approvals -> 0..MaxRequests]
  BY DEF TypeOK
<1>2. requests[waiting[s]].kind = "allow" =>
          /\ c \in Approvals /\ AwaitsAllow(s, c) /\ told[c] = "nothing"
          /\ requests[c].session = s
          /\ \A t \in Sessions \ {s} : ~AwaitsAllow(t, c)
  <2> SUFFICES ASSUME requests[waiting[s]].kind = "allow"
               PROVE  /\ c \in Approvals /\ AwaitsAllow(s, c) /\ told[c] = "nothing"
                      /\ requests[c].session = s
                      /\ \A t \in Sessions \ {s} : ~AwaitsAllow(t, c)
    OBVIOUS
  <2>1. c \in Approvals /\ told[c] = "nothing" /\ requests[c].session = s
    BY WaitEnds DEF Decides
  <2>2. AwaitsAllow(s, c) BY DEF AwaitsAllow
  <2>3. \A t \in Sessions \ {s} : ~AwaitsAllow(t, c) BY <2>1, OneSessionDecides
  <2>4. QED BY <2>1, <2>2, <2>3
<1>3. \A t \in Sessions, a \in Approvals : AwaitsAllow(t, a)' <=> t # s /\ AwaitsAllow(t, a)
  BY WaitEnds
<1>4. ASSUME NEW a \in Approvals
      PROVE  /\ allowed'[a] = unanswered'[a] + (IF Acknowledged(a)' THEN 1 ELSE 0)
             /\ unanswered'[a] \in 0..MaxRequests
  <2>1. allowed[a] = unanswered[a] + (IF Acknowledged(a) THEN 1 ELSE 0) BY DEF LedgerInv
  <2>2. /\ allowed[a] \in 0..MaxRequests /\ unanswered[a] \in 0..MaxRequests
        /\ allowed'[a] = allowed[a]
    BY <1>1
  <2>3. CASE requests[waiting[s]].kind = "allow" /\ a = c
    <3>1. Acknowledged(a) BY <1>2, <2>3 DEF Acknowledged
    <3>2. ~Acknowledged(a)' BY <1>2, <1>3, <2>3 DEF Acknowledged
    <3>3. unanswered'[a] = unanswered[a] + 1 BY <1>1, <1>2, <2>3
    <3>4. QED BY <2>1, <2>2, <3>1, <3>2, <3>3, RequestsAssumption
  <2>4. CASE ~(requests[waiting[s]].kind = "allow" /\ a = c)
    <3>1. ~AwaitsAllow(s, a) BY <2>4 DEF AwaitsAllow
    <3>2. Acknowledged(a)' <=> Acknowledged(a) BY <1>3, <3>1 DEF Acknowledged
    <3>3. unanswered'[a] = unanswered[a] BY <1>1, <1>2, <2>4
    <3>4. QED BY <2>1, <2>2, <3>2, <3>3
  <2>5. QED BY <2>3, <2>4
<1>5. unanswered' \in [Approvals -> 0..MaxRequests]
  <2>1. \E f \in [Approvals -> Int] : unanswered' = f
    BY <1>1, <1>2, RequestsAssumption
  <2>2. QED BY <1>4, <2>1
<1>6. QED BY <1>4, <1>5 DEF LedgerInv

LEMMA ReceiveChatStep ==
    ASSUME IInv, NEW s \in Sessions, ReceiveChat(s)
    PROVE  IInv'
<1>1. /\ waiting[s] # None /\ waiting' = [waiting EXCEPT ![s] = None]
      /\ UNCHANGED <<requests, allowed, executed, told, unanswered>>
      /\ requests[waiting[s]].kind = "chat"
      /\ pending' = [pending EXCEPT ![s] = IF Asks(waiting[s]) THEN waiting[s] ELSE @]
  BY DEF ReceiveChat, Answered
<1>2. pending \in [Sessions -> Approvals \cup {None}] BY DEF IInv, TypeOK
<1>3. \A t \in Sessions \ {s} : pending'[t] = pending[t] BY <1>1, <1>2
<1>4. /\ RequestsInv' /\ SpentInv' /\ WaitingInv'
      /\ waiting' \in [Sessions -> 0..MaxRequests] /\ waiting'[s] = None
      /\ \A t \in Sessions \ {s} : waiting'[t] = waiting[t]
      /\ waiting[s] \in DOMAIN requests /\ requests[waiting[s]].session = s
  BY <1>1, <1>3, WaitEnds
<1>5. LedgerInv' BY <1>1, <1>3, LedgerMoves
<1> USE RequestTypes DEF IInv
<1>6. TypeOK' BY <1>1, <1>2, <1>4 DEF TypeOK
<1>7. OpenInv'
  <2>1. pending'[s] = IF Asks(waiting[s]) THEN waiting[s] ELSE pending[s] BY <1>1, <1>2
  <2>2. told[waiting[s]] = "nothing" BY <1>4 DEF OpenInv
  <2>3. GateShowsOpenCall'
    BY <1>1, <1>3, <1>4, <2>1, <2>2 DEF OpenInv, GateShowsOpenCall, Asks
  <2>4. \A t \in Sessions \ {s} : waiting[t] # waiting[s]
    BY <1>1, <1>4 DEF WaitingInv
  <2>5. \A t, u \in Sessions : pending'[t] # None => pending'[t] # waiting'[u]
    BY <1>1, <1>3, <1>4, <2>1, <2>4 DEF OpenInv
  <2>6. \A a \in Approvals : told[a] # "nothing" =>
            a \in DOMAIN requests /\ Asks(a) /\ \A u \in Sessions : waiting'[u] # a
    BY <1>4 DEF OpenInv
  <2>7. QED BY <1>1, <2>3, <2>5, <2>6 DEF OpenInv, Asks
<1>8. ToldInv' BY <1>1 DEF ToldInv, AsksWellFormed
<1>9. QED BY <1>4, <1>5, <1>6, <1>7, <1>8

LEMMA GiveUpStep ==
    ASSUME IInv, NEW s \in Sessions, GiveUp(s)
    PROVE  IInv'
<1>1. /\ waiting[s] # None /\ waiting' = [waiting EXCEPT ![s] = None]
      /\ UNCHANGED <<pending, requests, allowed, executed, told>>
      /\ unanswered' = IF requests[waiting[s]].kind = "allow"
                       THEN [unanswered EXCEPT ![requests[waiting[s]].call] = @ + 1]
                       ELSE unanswered
  BY DEF GiveUp, Handled, GiveUpPending
<1>2. /\ RequestsInv' /\ SpentInv' /\ WaitingInv'
      /\ waiting' \in [Sessions -> 0..MaxRequests] /\ waiting'[s] = None
      /\ \A t \in Sessions \ {s} : waiting'[t] = waiting[t]
  BY <1>1, WaitEnds
<1>3. LedgerInv' /\ unanswered' \in [Approvals -> 0..MaxRequests]
  BY <1>1, LedgerMoves
<1> USE RequestTypes DEF IInv
<1>4. TypeOK' BY <1>1, <1>2, <1>3 DEF TypeOK
<1>5. OpenInv' BY <1>1, <1>2 DEF OpenInv, GateShowsOpenCall, Asks
<1>6. ToldInv' BY <1>1 DEF ToldInv, AsksWellFormed
<1>7. QED BY <1>2, <1>3, <1>4, <1>5, <1>6

LEMMA ReceiveDecisionStep ==
    ASSUME IInv, NEW s \in Sessions, ReceiveDecision(s)
    PROVE  IInv'
<1> DEFINE r == requests[waiting[s]]
           c == r.call
<1>1. /\ waiting[s] # None /\ waiting' = [waiting EXCEPT ![s] = None]
      /\ r.stage = "done" /\ Decides(waiting[s])
      /\ UNCHANGED <<requests, allowed, executed>>
      /\ IF r.reply = "raised"
         THEN /\ unanswered' = [unanswered EXCEPT ![c] = @ + 1]
              /\ UNCHANGED <<pending, told>>
         ELSE /\ pending' = [pending EXCEPT ![s] = None]
              /\ told' = [told EXCEPT ![c] = IF r.kind = "allow" THEN "executed" ELSE "denied"]
              /\ UNCHANGED unanswered
  BY DEF ReceiveDecision, Answered, Handled, Settled, Decides
<1>2. /\ pending \in [Sessions -> Approvals \cup {None}]
      /\ told \in [Approvals -> {"nothing", "executed", "denied"}]
  BY DEF IInv, TypeOK
<1>3. \A t \in Sessions \ {s} : pending'[t] = pending[t] BY <1>1, <1>2
<1>4. /\ RequestsInv' /\ SpentInv' /\ WaitingInv'
      /\ waiting' \in [Sessions -> 0..MaxRequests] /\ waiting'[s] = None
      /\ \A t \in Sessions \ {s} : waiting'[t] = waiting[t]
      /\ \A t \in Sessions, a \in Approvals : AwaitsAllow(t, a)' <=> t # s /\ AwaitsAllow(t, a)
      /\ waiting[s] \in DOMAIN requests
      /\ pending[s] = c /\ c \in Approvals /\ told[c] = "nothing" /\ requests[c].session = s
  BY <1>1, <1>3, WaitEnds
<1>5. RequestFits(waiting[s]) BY <1>4 DEF IInv, RequestsInv
<1>6. CASE r.reply = "raised"
  <2>1. r.kind = "allow" BY <1>1, <1>5, <1>6 DEF RequestFits, Decides
  <2>2. LedgerInv' /\ unanswered' \in [Approvals -> 0..MaxRequests]
    BY <1>1, <1>3, <1>6, <2>1, LedgerMoves
  <2> USE RequestTypes DEF IInv
  <2>3. TypeOK' BY <1>1, <1>4, <1>6, <2>2 DEF TypeOK
  <2>4. OpenInv' BY <1>1, <1>4, <1>6 DEF OpenInv, GateShowsOpenCall, Asks
  <2>5. ToldInv' BY <1>1, <1>6 DEF ToldInv, AsksWellFormed
  <2>6. QED BY <1>4, <2>2, <2>3, <2>4, <2>5
<1>7. CASE r.reply # "raised"
  <2>1. /\ pending'[s] = None /\ pending' \in [Sessions -> Approvals \cup {None}]
        /\ told'[c] = IF r.kind = "allow" THEN "executed" ELSE "denied"
        /\ \A a \in Approvals \ {c} : told'[a] = told[a]
        /\ told' \in [Approvals -> {"nothing", "executed", "denied"}]
        /\ unanswered' = unanswered
    BY <1>1, <1>2, <1>4, <1>7
  <2> USE RequestTypes DEF IInv
  <2>2. TypeOK' BY <1>1, <1>4, <2>1 DEF TypeOK
  <2>3. OpenInv'
    <3>1. \A t \in Sessions \ {s} : pending[t] # c BY <1>4 DEF OpenInv, GateShowsOpenCall
    <3>2. GateShowsOpenCall'
      BY <1>1, <1>3, <2>1, <3>1 DEF OpenInv, GateShowsOpenCall, Asks
    <3>3. \A t, u \in Sessions : pending'[t] # None => pending'[t] # waiting'[u]
      BY <1>3, <1>4, <2>1 DEF OpenInv
    <3>4. c \in DOMAIN requests /\ Asks(c) /\ \A u \in Sessions : waiting[u] # c
      BY <1>4 DEF OpenInv, GateShowsOpenCall
    <3>5. \A a \in Approvals : told'[a] # "nothing" =>
              a \in DOMAIN requests /\ Asks(a) /\ \A u \in Sessions : waiting'[u] # a
      <4> SUFFICES ASSUME NEW a \in Approvals, told'[a] # "nothing"
                   PROVE  a \in DOMAIN requests /\ Asks(a) /\ \A u \in Sessions : waiting'[u] # a
        OBVIOUS
      <4>1. a \in DOMAIN requests /\ Asks(a) /\ \A u \in Sessions : waiting[u] # a
        BY <2>1, <3>4 DEF OpenInv
      <4>2. a # None OBVIOUS
      <4>3. QED BY <1>4, <4>1, <4>2
    <3>6. QED BY <1>1, <3>2, <3>3, <3>5 DEF OpenInv, Asks
  <2>4. LedgerInv'
    <3> SUFFICES ASSUME NEW a \in Approvals
                 PROVE  allowed[a] = unanswered[a] + (IF Acknowledged(a)' THEN 1 ELSE 0)
      BY <1>1, <2>1 DEF LedgerInv
    <3>1. allowed[a] = unanswered[a] + (IF Acknowledged(a) THEN 1 ELSE 0) BY DEF LedgerInv
    <3>2. CASE a = c
      <4>1. AwaitsAllow(s, a) <=> r.kind = "allow" BY <1>1, <3>2 DEF AwaitsAllow
      <4>2. \A t \in Sessions \ {s} : ~AwaitsAllow(t, a) BY <1>4, <3>2, OneSessionDecides
      <4>3. Acknowledged(a) <=> r.kind = "allow"
        BY <1>4, <3>2, <4>1, <4>2 DEF Acknowledged
      <4>4. Acknowledged(a)' <=> r.kind = "allow"
        BY <1>4, <2>1, <3>2, <4>2 DEF Acknowledged
      <4>5. QED BY <3>1, <4>3, <4>4
    <3>3. CASE a # c
      <4>1. ~AwaitsAllow(s, a) BY <3>3 DEF AwaitsAllow
      <4>2. Acknowledged(a)' <=> Acknowledged(a)
        BY <1>4, <2>1, <3>3, <4>1 DEF Acknowledged
      <4>3. QED BY <3>1, <4>2
    <3>4. QED BY <3>2, <3>3
  <2>5. ToldInv'
    <3>1. r.kind = "allow" /\ AsksWellFormed(c) => executed[c] > 0
      BY <1>1, <1>5 DEF RequestFits
    <3>2. \A a \in Approvals : AsksWellFormed(a)' <=> AsksWellFormed(a)
      BY <1>1 DEF AsksWellFormed
    <3>3. QED BY <1>1, <2>1, <3>1, <3>2 DEF ToldInv
  <2>6. QED BY <1>4, <2>2, <2>3, <2>4, <2>5
<1>8. QED BY <1>6, <1>7

-----------------------------------------------------------------------------
LEMMA UiStep ==
    ASSUME IInv, NEW s \in Sessions, Ui(s)
    PROVE  IInv'
<1> USE DEF IInv
<1>1. CASE SendChat(s)
  BY <1>1, SendStep DEF SendChat
<1>2. CASE ClickAllow(s)
  BY <1>2, SendStep DEF ClickAllow
<1>3. CASE ClickDeny(s)
  BY <1>3, SendStep DEF ClickDeny
<1>4. CASE ReceiveChat(s) BY <1>4, ReceiveChatStep
<1>5. CASE ReceiveDecision(s) BY <1>5, ReceiveDecisionStep
<1>6. CASE GiveUp(s) BY <1>6, GiveUpStep
<1>7. QED BY <1>1, <1>2, <1>3, <1>4, <1>5, <1>6 DEF Ui

LEMMA ServerStep ==
    ASSUME IInv, NEW i \in 1..MaxRequests, Server(i)
    PROVE  IInv'
<1>1. CASE Lose(i)
  BY <1>1, ServeStep DEF Lose, Replies
<1>2. CASE ServeChat(i)
  <2>1. PICK reply \in {"text", "ask", "ask_malformed", "raised"} : SetStage(i, "done", reply)
    BY <1>2 DEF ServeChat
  <2>2. reply \in Replies BY DEF Replies
  <2>3. QED BY <1>2, <2>1, <2>2, ServeStep DEF ServeChat, Sent
<1>3. CASE ServeDeny(i)
  <2>1. executed' = executed BY <1>3 DEF ServeDeny, RunsNothing
  <2>2. PICK reply \in {"denied", "invalid"} : SetStage(i, "done", reply)
    BY <1>3 DEF ServeDeny
  <2>3. reply \in Replies BY DEF Replies
  <2>4. QED BY <1>3, <2>1, <2>2, <2>3, ServeStep DEF ServeDeny, Sent
<1>4. CASE ServeAllow(i)
  <2>0. i \in DOMAIN requests /\ requests[i].stage = "sent" /\ requests[i].kind = "allow"
    BY <1>4 DEF ServeAllow, Sent
  <2>1. CASE AsksWellFormed(requests[i].call)
    <3>1. /\ SetStage(i, "executing", "none")
          /\ executed' = [executed EXCEPT ![requests[i].call] = @ + 1]
      BY <1>4, <2>1 DEF ServeAllow
    <3>2. executed \in [Approvals -> 0..MaxRequests] BY DEF IInv, TypeOK
    <3>3. requests[i].call \in Approvals
      BY <2>0, RequestTypes DEF IInv, RequestsInv, RequestFits, Decides
    <3>4. executed'[requests[i].call] > 0 BY <3>1, <3>2, <3>3, RequestsAssumption
    <3>5. QED BY <1>4, <2>0, <3>1, <3>4, ServeStep DEF ServeAllow, Replies
  <2>2. CASE ~AsksWellFormed(requests[i].call)
    BY <1>4, <2>0, <2>2, ServeStep DEF ServeAllow, Replies
  <2>3. QED BY <2>1, <2>2
<1>5. CASE EndAllow(i)
  <2>1. PICK reply \in {"executed", "ask_dropped", "raised"} : SetStage(i, "done", reply)
    BY <1>5 DEF EndAllow
  <2>2. reply \in Replies BY DEF Replies
  <2>3. i \in DOMAIN requests /\ requests[i].stage = "executing" BY <1>5 DEF EndAllow
  <2>4. requests[i].kind = "allow" /\ executed[requests[i].call] > 0
    BY <2>3, RequestTypes DEF IInv, RequestsInv, RequestFits, Ran, RequestRecords
  <2>5. executed' = executed /\ UNCHANGED <<uiVars, allowed, unanswered>>
    BY <1>5 DEF EndAllow
  <2>6. QED BY <2>1, <2>2, <2>3, <2>4, <2>5, ServeStep
<1>6. QED BY <1>1, <1>2, <1>3, <1>4, <1>5 DEF Server

LEMMA NextStep == IInv /\ [Next]_vars => IInv'
<1> SUFFICES ASSUME IInv, [Next]_vars PROVE IInv' OBVIOUS
<1>1. CASE \E s \in Sessions : Ui(s) BY <1>1, UiStep
<1>2. CASE \E i \in 1..MaxRequests : Server(i) BY <1>2, ServerStep
<1>3. CASE UNCHANGED vars
  <2> USE <1>3 DEF vars, uiVars, IInv
  <2>1. TypeOK' BY DEF TypeOK
  <2>2. RequestsInv' BY DEF RequestsInv, RequestFits, Asks, AsksWellFormed, Decides, Ran
  <2>3. WaitingInv' BY DEF WaitingInv, Decides
  <2>4. OpenInv' BY DEF OpenInv, GateShowsOpenCall, Asks
  <2>5. LedgerInv' BY DEF LedgerInv, Acknowledged, AwaitsAllow
  <2>6. SpentInv' BY DEF SpentInv, OnTheirWay
  <2>7. ToldInv' BY DEF ToldInv, AsksWellFormed
  <2>8. QED BY <2>1, <2>2, <2>3, <2>4, <2>5, <2>6, <2>7
<1>4. QED BY <1>1, <1>2, <1>3 DEF Next

(* The invariant that carries all theorems below, at every step of         *)
(* sessions, network and server.                                           *)
THEOREM Invariance == Spec => []IInv
BY Initially, NextStep, PTL DEF Spec

(* The type invariant: no more clicks, executions and lost outcomes than   *)
(* requests were sent.                                                     *)
THEOREM TypeCorrect == Spec => []TypeOK
<1>1. IInv => TypeOK BY DEF IInv
<1>2. QED BY <1>1, Invariance, PTL

(* For any number of sessions and requests, however they are lost and      *)
(* reordered, the buttons a session shows belong to a call that was asked  *)
(* for in that session and whose end its user was not told.                *)
THEOREM GateStaysOpen == Spec => []GateShowsOpenCall
<1>1. IInv => GateShowsOpenCall BY DEF IInv, OpenInv
<1>2. QED BY <1>1, Invariance, PTL

(* Executions are covered by clicks, and clicks by outcomes.               *)
LEMMA ExecutionsCovered ==
    ASSUME IInv, NEW a \in Approvals
    PROVE  /\ executed[a] <= allowed[a]
           /\ allowed[a] = unanswered[a] + (IF Acknowledged(a) THEN 1 ELSE 0)
           /\ executed[a] \in Nat /\ allowed[a] \in Nat /\ unanswered[a] \in Nat
<1>1. executed[a] \in Nat /\ allowed[a] \in Nat /\ unanswered[a] \in Nat
  BY RequestsAssumption DEF IInv, TypeOK
<1>2. Cardinality(OnTheirWay(a)) \in Nat BY OnTheirWayFinite DEF IInv
<1>3. QED BY <1>1, <1>2 DEF IInv, SpentInv, LedgerInv

(* A call runs twice only if the outcome of a click for it was lost.       *)
THEOREM RepeatsExplained == Spec => []RepeatsNeedLostAnswers
<1>1. IInv => RepeatsNeedLostAnswers
  BY ExecutionsCovered DEF RepeatsNeedLostAnswers
<1>2. QED BY <1>1, Invariance, PTL

(* Without a lost outcome, a call the user is told was executed ran exactly*)
(* once, and one the user is told was denied never ran.                    *)
THEOREM TruthIsTold == Spec => []ToldTheTruth
<1>1. ASSUME IInv PROVE ToldTheTruth
  <2> SUFFICES ASSUME NEW a \in Approvals, unanswered[a] = 0
               PROVE  /\ told[a] = "executed" /\ AsksWellFormed(a) => executed[a] = 1
                      /\ told[a] = "denied" => executed[a] = 0
    BY DEF ToldTheTruth
  <2>1. /\ executed[a] <= allowed[a] /\ executed[a] \in Nat /\ allowed[a] \in Nat
        /\ allowed[a] = IF Acknowledged(a) THEN 1 ELSE 0
    BY <1>1, ExecutionsCovered
  <2>2. told[a] = "executed" /\ AsksWellFormed(a) => executed[a] > 0
    BY <1>1 DEF IInv, ToldInv
  <2>3. ASSUME NEW s \in Sessions, AwaitsAllow(s, a) PROVE told[a] = "nothing"
    <3>1. pending[s] = a BY <1>1, <2>3, OneSessionDecides DEF IInv
    <3>2. a # None BY RequestTypes, <1>1 DEF IInv
    <3>3. QED BY <1>1, <3>1, <3>2 DEF IInv, OpenInv, GateShowsOpenCall
  <2>4. told[a] = "denied" => ~Acknowledged(a) BY <2>3 DEF Acknowledged
  <2>5. QED BY <2>1, <2>2, <2>4
<1>2. QED BY <1>1, Invariance, PTL

-----------------------------------------------------------------------------
(* An error, a timeout or the answer of another session never takes an     *)
(* approval away from the session that shows it.                           *)
THEOREM ApprovalsKept == Spec => ApprovalKept
<1>1. ASSUME IInv, [Next]_vars PROVE [KeepsApprovals]_vars
  <2> SUFFICES ASSUME Next, NEW s \in Sessions, pending[s] # None
               PROVE  pending'[s] # None \/ told'[pending[s]] # "nothing"
    BY <1>1 DEF KeepsApprovals
  <2>0. /\ pending \in [Sessions -> Approvals \cup {None}]
        /\ told \in [Approvals -> {"nothing", "executed", "denied"}]
    BY <1>1 DEF IInv, TypeOK
  <2>1. ASSUME NEW t \in Sessions, ReceiveChat(t) PROVE pending'[s] # None
    BY <2>0, <2>1 DEF ReceiveChat, Answered
  <2>2. ASSUME NEW t \in Sessions, ReceiveDecision(t)
        PROVE  pending'[s] # None \/ told'[pending[s]] # "nothing"
    <3>1. CASE t = s
      <4>1. requests[waiting[s]].call = pending[s]
        BY <1>1, <2>2, <3>1 DEF ReceiveDecision, Answered, IInv, WaitingInv, Decides
      <4>2. QED BY <2>0, <2>2, <3>1, <4>1 DEF ReceiveDecision, Settled
    <3>2. CASE t # s BY <2>0, <2>2, <3>2 DEF ReceiveDecision, Settled
    <3>3. QED BY <3>1, <3>2
  <2>3. ASSUME NEW t \in Sessions, SendChat(t) \/ ClickAllow(t) \/ ClickDeny(t) \/ GiveUp(t)
        PROVE  pending' = pending
    BY <2>3 DEF SendChat, ClickAllow, ClickDeny, GiveUp, GiveUpPending
  <2>4. ASSUME NEW i \in 1..MaxRequests, Server(i) PROVE pending' = pending
    BY <2>4 DEF Server, Lose, ServeChat, ServeDeny, ServeAllow, EndAllow, uiVars
  <2>5. QED BY <2>1, <2>2, <2>3, <2>4 DEF Next, Ui
<1>2. QED BY <1>1, Invariance, PTL DEF Spec, ApprovalKept

(* The whole path of an approval implements the gate of HumanGate: each    *)
(* execution spends a click of its own, and nothing but a click allows.    *)
THEOREM GateImplemented == Spec => ImplementsHumanGate
<1>1. Init => Gate!Init BY DEF Init, Gate!Init
<1>2. ASSUME IInv, [Next]_vars PROVE [Gate!Next]_(Gate!gateVars)
  <2>1. ASSUME NEW s \in Sessions, ClickAllow(s) PROVE Gate!Next
    <3>1. pending[s] \in Approvals BY <1>2, <2>1 DEF ClickAllow, IInv, TypeOK
    <3>2. Gate!Allow(pending[s]) BY <2>1 DEF ClickAllow, Gate!Allow
    <3>3. QED BY <3>1, <3>2 DEF Gate!Next
  <2>2. ASSUME NEW s \in Sessions, Ui(s), ~ClickAllow(s) PROVE UNCHANGED Gate!gateVars
    BY <2>2 DEF Ui, SendChat, ClickDeny, ReceiveChat, ReceiveDecision, GiveUp, Gate!gateVars
  <2>3. ASSUME NEW i \in 1..MaxRequests, ServeAllow(i)
        PROVE  Gate!Next \/ UNCHANGED Gate!gateVars
    <3> DEFINE a == requests[i].call
    <3>1. CASE AsksWellFormed(a)
      <4>1. i \in DOMAIN requests /\ requests[i].kind = "allow" /\ requests[i].stage = "sent"
        BY <2>3 DEF ServeAllow, Sent
      <4>2. a \in Approvals
        BY <1>2, <4>1, RequestTypes DEF IInv, RequestsInv, RequestFits, Decides
      <4>3. executed[a] < allowed[a]
        <5>1. i \in OnTheirWay(a) BY <4>1 DEF OnTheirWay
        <5>2. IsFiniteSet(OnTheirWay(a)) /\ Cardinality(OnTheirWay(a)) \in Nat
          BY <1>2, OnTheirWayFinite DEF IInv
        <5>3. Cardinality(OnTheirWay(a)) # 0 BY <5>1, <5>2, FS_EmptySet
        <5>4. executed[a] \in Nat /\ allowed[a] \in Nat
          BY <1>2, <4>2, ExecutionsCovered
        <5>5. executed[a] + Cardinality(OnTheirWay(a)) <= allowed[a]
          BY <1>2, <4>2 DEF IInv, SpentInv
        <5>6. QED BY <5>2, <5>3, <5>4, <5>5
      <4>4. Gate!Execute(a) BY <2>3, <3>1, <4>3 DEF ServeAllow, Gate!Execute
      <4>5. QED BY <4>2, <4>4 DEF Gate!Next
    <3>2. CASE ~AsksWellFormed(a)
      BY <2>3, <3>2 DEF ServeAllow, Gate!gateVars
    <3>3. QED BY <3>1, <3>2
  <2>4. ASSUME NEW i \in 1..MaxRequests, Server(i), ~ServeAllow(i)
        PROVE  UNCHANGED Gate!gateVars
    BY <2>4 DEF Server, Lose, ServeChat, ServeDeny, EndAllow, RunsNothing, Gate!gateVars
  <2>5. CASE UNCHANGED vars BY <2>5 DEF vars, Gate!gateVars
  <2>6. QED BY <1>2, <2>1, <2>2, <2>3, <2>4, <2>5 DEF Next
<1>3. QED BY <1>1, <1>2, Invariance, PTL DEF Spec, ImplementsHumanGate, Gate!Spec
=============================================================================
