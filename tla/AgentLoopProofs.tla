-------------------------- MODULE AgentLoopProofs --------------------------
(***************************************************************************)
(* Proofs about AgentLoop, for every set of calls the model may make and   *)
(* every number of calls in one of its messages.                           *)
(***************************************************************************)
EXTENDS AgentLoop, TLAPS

(* The requests made so far, at each place of the run: at most two in each *)
(* iteration behind it.  RequestsBounded and the bounds in TypeOK follow,  *)
(* but neither is inductive without it.                                    *)
RequestsInv ==
    /\ pc = "start" => requests = 0 /\ iteration = 0
    /\ pc = "direct" => requests = 0 /\ Budget = 0
    /\ pc = "direct_again" => requests = 1 /\ Budget = 0
    /\ pc \in {"ask", "recover", "calls"} => iteration < Budget
    /\ pc = "ask" => requests <= 2 * iteration
    /\ pc = "recover" => requests <= 2 * iteration + 1
    /\ pc = "calls" => requests <= 2 * iteration + 2
    /\ pc = "synthesise" =>
           iteration = Budget /\ requests <= 2 * Budget /\ Budget > 0
    /\ pc = "end" => RequestsBounded

(* Before the loop starts nothing was executed. *)
GateInv ==
    /\ pc = "start" => made = <<>>
    /\ GateHolds

IInv == TypeOK /\ RequestsInv /\ GateInv

-----------------------------------------------------------------------------
(* The table of budgets: at most five iterations, and none exactly for the *)
(* intents that offer no tool.                                             *)
LEMMA Budgets ==
    ASSUME intent \in Intents
    PROVE  /\ Budget \in 0..5
           /\ INTENT_TOOL_ALLOWLIST[intent] = {} <=> Budget = 0
BY DEF Budget, Intents, INTENT_MAX_ITERATIONS, INTENT_TOOL_ALLOWLIST, TOOL_REGISTRY

(* Heads, tails and appended elements keep a sequence over its set. *)
LEMMA SequenceTypes ==
    ASSUME NEW S, NEW s \in Seq(S)
    PROVE  /\ \A x \in S : Append(s, x) \in Seq(S)
           /\ s # <<>> => Head(s) \in S /\ Tail(s) \in Seq(S)
OBVIOUS

(* The messages the run itself writes, and what it returns. *)
LEMMA MessageTypes ==
    /\ \A role \in Roles : Message(role) \in MessageType
    /\ \A id \in Ids : ToolMessage(id) \in MessageType
    /\ ApprovedId \in Ids
<1>1. \A id \in Ids : <<id>> \in Seq(Ids)
    OBVIOUS
<1>2. <<>> \in Seq(Ids) /\ "tool" \in Roles
    BY DEF Roles
<1> QED
    BY <1>1, <1>2 DEF Message, ToolMessage, MessageType, ApprovedId, Ids

LEMMA ResultTypes ==
    /\ Raised \in ResultType /\ Pending \in ResultType
    /\ \A n \in 0..5 : Answer(n) \in ResultType
    /\ \A n \in 0..5, tool \in ToolNames : AskApproval(n, tool) \in ResultType
BY DEF Raised, Pending, Answer, AskApproval, ResultType

-----------------------------------------------------------------------------
LEMMA InitInv == Init => IInv
<1> SUFFICES ASSUME Init PROVE IInv
    OBVIOUS
<1>1. TypeOK
    <2>1. messages \in Seq(MessageType)
        BY MessageTypes DEF Init, Roles
    <2> QED
        BY <2>1, ResultTypes DEF Init, TypeOK, Intents
<1>2. RequestsInv /\ GateInv
    BY DEF Init, RequestsInv, GateInv, GateHolds
<1> QED
    BY <1>1, <1>2 DEF IInv

(* What a reply of the model to a request with tools leaves behind, for    *)
(* the request of an iteration and for the one after a refused call.       *)
LEMMA ReplyTypes ==
    ASSUME TypeOK, iteration < Budget,
           ReplyText \/ ReplyCalls \/ ReplyError \/ ReplySchemaError
    PROVE  /\ pc' \in {"end", "calls", "recover"}
           /\ messages' \in Seq(MessageType)
           /\ calls' \in Seq(CallType)
           /\ result' \in ResultType
<1>1. iteration + 1 \in 0..5
    BY Budgets DEF TypeOK
<1>2. CASE ReplyText \/ ReplyError
    BY <1>1, <1>2, ResultTypes DEF TypeOK, ReplyText, ReplyError, Return
<1>3. CASE ReplySchemaError
    BY <1>3, SequenceTypes, MessageTypes DEF TypeOK, ReplySchemaError, Roles
<1>4. CASE ReplyCalls
    <2>1. PICK asked \in CallLists :
              /\ calls' = [k \in DOMAIN asked |->
                              [id |-> <<iteration + 1, k>>, tool |-> asked[k].tool,
                               args |-> asked[k].args]]
              /\ messages' = Append(messages,
                                [role |-> "assistant",
                                 ids |-> [k \in DOMAIN asked |-> <<iteration + 1, k>>]])
              /\ pc' = "calls"
              /\ UNCHANGED result
        BY <1>4 DEF ReplyCalls
    <2>2. PICK n \in 1..MaxCalls : asked \in [1..n -> ToolCalls]
        BY DEF CallLists
    <2>3. n \in Nat /\ DOMAIN asked = 1..n
        BY <2>2, BoundAssumption
    <2>4. \A k \in 1..n : asked[k].tool \in ToolNames /\ asked[k].args \in ArgShapes
        BY <2>2, CallsAssumption DEF ToolNames
    <2>5. \A k \in 1..n : <<iteration + 1, k>> \in Ids
        BY <1>1, <2>3 DEF Ids
    <2>6. [k \in DOMAIN asked |-> <<iteration + 1, k>>] \in Seq(Ids)
        BY <2>3, <2>5
    <2>7. calls' \in Seq(CallType)
        BY <2>1, <2>3, <2>4, <2>5 DEF CallType
    <2>8. messages' \in Seq(MessageType)
        BY <2>1, <2>6, SequenceTypes DEF TypeOK, MessageType, Roles
    <2> QED
        BY <2>1, <2>7, <2>8 DEF TypeOK
<1> QED
    BY <1>2, <1>3, <1>4

(* A request with tools, in an iteration's own place or after a refusal.   *)
LEMMA RequestStep ==
    ASSUME IInv, Request \/ Recover
    PROVE  IInv'
<1>1. iteration < Budget /\ Budget \in 0..5 /\ iteration \in 0..5 /\ requests \in 0..12
    BY Budgets DEF IInv, TypeOK, RequestsInv, Request, Recover
<1>2. ReplyText \/ ReplyCalls \/ ReplyError \/ ReplySchemaError
    BY DEF Request, Recover, RecoveryReplies
<1>3. /\ requests' = requests + 1
      /\ UNCHANGED <<inputs, iteration, made>>
    BY DEF Request, Recover
<1>4. Budget' = Budget
    BY <1>3 DEF Budget, inputs
<1>5. /\ pc = "ask" => requests <= 2 * iteration
      /\ pc = "recover" => requests <= 2 * iteration + 1 /\ pc' # "recover"
      /\ pc \in {"ask", "recover"}
    <2>1. pc = "recover" => pc' # "recover"
        BY DEF Request, Recover, RecoveryReplies, ReplyText, ReplyCalls, ReplyError, Return
    <2> QED
        BY <2>1 DEF IInv, RequestsInv, Request, Recover
<1>6. pc' \in {"end", "calls", "recover"}
    BY <1>1, <1>2, ReplyTypes DEF IInv
<1>7. TypeOK'
    BY <1>1, <1>2, <1>3, <1>5, <1>6, ReplyTypes DEF IInv, TypeOK, inputs
<1>8. RequestsInv'
    BY <1>1, <1>3, <1>4, <1>5, <1>6 DEF RequestsInv, RequestsBounded
<1>9. GateInv'
    BY <1>3, <1>6 DEF IInv, GateInv, GateHolds, inputs
<1> QED
    BY <1>7, <1>8, <1>9 DEF IInv

(* The runs without tools. *)
LEMMA DirectStep ==
    ASSUME IInv, StartDirect \/ DirectRequest \/ DirectAgain
    PROVE  IInv'
<1>1. UNCHANGED <<intent, approved, iteration, calls, made>>
    BY DEF StartDirect, DirectRequest, DirectAgain, inputs
<1>2. Budget' = Budget /\ Budget \in 0..5
    BY <1>1, Budgets DEF Budget, IInv, TypeOK
<1>3. TypeOK'
    <2>1. CASE StartDirect
        BY <1>1, <2>1 DEF IInv, TypeOK, StartDirect
    <2>2. CASE DirectRequest
        <3>1. messages' \in Seq(MessageType)
            BY <2>2, MessageTypes, SequenceTypes DEF IInv, TypeOK, DirectRequest, Roles
        <3>2. result' \in ResultType
            BY <2>2, ResultTypes DEF IInv, TypeOK, DirectRequest, Return
        <3>3. requests' \in 0..12 /\ pc' \in {"end", "direct_again"}
            BY <2>2 DEF IInv, RequestsInv, DirectRequest, Return
        <3> QED
            BY <1>1, <3>1, <3>2, <3>3 DEF IInv, TypeOK
    <2>3. CASE DirectAgain
        BY <1>1, <2>3, ResultTypes DEF IInv, TypeOK, RequestsInv, DirectAgain, Return
    <2> QED
        BY <2>1, <2>2, <2>3
<1>4. RequestsInv'
    <2>1. CASE StartDirect
        BY <1>1, <1>2, <2>1, Budgets DEF IInv, TypeOK, RequestsInv, StartDirect
    <2>2. CASE DirectRequest \/ DirectAgain
        BY <1>1, <1>2, <2>2
        DEF IInv, RequestsInv, RequestsBounded, DirectRequest, DirectAgain, Return
    <2> QED
        BY <2>1, <2>2
<1>5. GateInv'
    BY <1>1 DEF IInv, GateInv, GateHolds, StartDirect, DirectRequest, DirectAgain, Return
<1> QED
    BY <1>3, <1>4, <1>5 DEF IInv

(* The start of the loop, where the approved call is executed. *)
LEMMA StartLoopStep ==
    ASSUME IInv, StartLoop
    PROVE  IInv'
<1>1. Budget' = Budget /\ Budget \in 1..5
    BY Budgets DEF IInv, TypeOK, StartLoop, inputs, Budget
<1>2. TypeOK'
    <2>1. messages' \in Seq(MessageType)
        BY SequenceTypes, MessageTypes DEF IInv, TypeOK, StartLoop
    <2>2. made' \in Seq(EntryType)
        <3>1. CASE ExecutesApproval
            <4> DEFINE entry == [tool |-> approved, approved |-> TRUE]
            <4>1. entry \in EntryType
                BY <3>1 DEF IInv, TypeOK, EntryType, ExecutesApproval
            <4>2. made' = <<entry>>
                BY <3>1 DEF StartLoop
            <4> HIDE DEF entry
            <4> QED
                BY <4>1, <4>2
        <3>2. CASE ~ExecutesApproval
            BY <3>2 DEF IInv, TypeOK, StartLoop
        <3> QED
            BY <3>1, <3>2
    <2> QED
        BY <2>1, <2>2 DEF IInv, TypeOK, StartLoop, inputs
<1>3. RequestsInv'
    BY <1>1 DEF IInv, RequestsInv, StartLoop
<1>4. GateInv'
    BY DEF IInv, GateInv, GateHolds, StartLoop, ExecutesApproval, inputs
<1> QED
    BY <1>2, <1>3, <1>4 DEF IInv

(* The handling of one call.  Only ExecuteCall adds to tool_calls_made,    *)
(* and it adds no gated tool.                                              *)
LEMMA CallStep ==
    ASSUME IInv, CoercionFails \/ RequestApproval \/ ExecuteCall
    PROVE  IInv'
<1>1. /\ pc = "calls" /\ calls # <<>>
      /\ UNCHANGED <<intent, approved, iteration, requests>>
    BY DEF CoercionFails, RequestApproval, ExecuteCall, inputs
<1>2. Budget' = Budget /\ Budget \in 0..5 /\ iteration + 1 \in 0..5
    BY <1>1, Budgets DEF Budget, IInv, TypeOK, RequestsInv
<1>3. /\ Head(calls) \in CallType /\ Tail(calls) \in Seq(CallType)
      /\ Head(calls).id \in Ids /\ Head(calls).tool \in ToolNames
    <2>1. Head(calls) \in CallType /\ Tail(calls) \in Seq(CallType)
        BY <1>1, SequenceTypes DEF IInv, TypeOK
    <2> QED
        BY <2>1 DEF CallType
<1>4. TypeOK'
    <2>1. CASE CoercionFails
        BY <1>1, <2>1, ResultTypes DEF IInv, TypeOK, CoercionFails, Return
    <2>2. CASE RequestApproval
        BY <1>1, <1>2, <1>3, <2>2, ResultTypes DEF IInv, TypeOK, RequestApproval, Return
    <2>3. CASE ExecuteCall
        <3>1. messages' \in Seq(MessageType)
            BY <1>3, <2>3, SequenceTypes, MessageTypes
            DEF IInv, TypeOK, ExecuteCall, AppendResult
        <3>2. made' \in Seq(EntryType)
            BY <1>3, <2>3 DEF IInv, TypeOK, ExecuteCall, EntryType
        <3> QED
            BY <1>1, <1>3, <2>3, <3>1, <3>2 DEF IInv, TypeOK, ExecuteCall
    <2> QED
        BY <2>1, <2>2, <2>3
<1>5. RequestsInv'
    BY <1>1, <1>2 DEF IInv, TypeOK, RequestsInv, RequestsBounded, CoercionFails,
                      RequestApproval, ExecuteCall, Return
<1>6. GateInv'
    <2>1. CASE CoercionFails \/ RequestApproval
        BY <1>1, <2>1 DEF IInv, GateInv, GateHolds, CoercionFails, RequestApproval, Return
    <2>2. CASE ExecuteCall
        BY <1>1, <2>2 DEF IInv, TypeOK, GateInv, GateHolds, ExecuteCall, NeedsApproval
    <2> QED
        BY <2>1, <2>2
<1> QED
    BY <1>4, <1>5, <1>6 DEF IInv

(* The end of an iteration and the final synthesis. *)
LEMMA EndStep ==
    ASSUME IInv, EndIteration \/ Synthesise
    PROVE  IInv'
<1>1. UNCHANGED <<intent, approved, calls, made>>
    BY DEF EndIteration, Synthesise, inputs
<1>2. Budget' = Budget /\ Budget \in 0..5
    BY <1>1, Budgets DEF Budget, IInv, TypeOK
<1>3. TypeOK'
    <2>1. CASE EndIteration
        <3>1. iteration' \in 0..5 /\ pc' \in {"ask", "synthesise"}
            BY <1>2, <2>1
            DEF IInv, TypeOK, RequestsInv, EndIteration, NextIteration, AfterIteration
        <3>2. messages' \in Seq(MessageType)
            BY <2>1, SequenceTypes, MessageTypes
            DEF IInv, TypeOK, EndIteration, AfterIteration, Roles
        <3> QED
            BY <1>1, <2>1, <3>1, <3>2 DEF IInv, TypeOK, EndIteration
    <2>2. CASE Synthesise
        <3>1. requests' \in 0..12 /\ iteration' \in 0..5
            BY <1>2, <2>2 DEF IInv, TypeOK, RequestsInv, Synthesise
        <3> QED
            BY <1>1, <1>2, <2>2, <3>1, ResultTypes DEF IInv, TypeOK, Synthesise, Return
    <2> QED
        BY <2>1, <2>2
<1>4. RequestsInv'
    BY <1>1, <1>2 DEF IInv, TypeOK, RequestsInv, RequestsBounded, EndIteration, Synthesise,
                      NextIteration, AfterIteration, Return
<1>5. GateInv'
    BY <1>1 DEF IInv, GateInv, GateHolds, EndIteration, Synthesise, AfterIteration, Return
<1> QED
    BY <1>3, <1>4, <1>5 DEF IInv

LEMMA StepInv == IInv /\ [Next]_vars => IInv'
<1> SUFFICES ASSUME IInv, [Next]_vars PROVE IInv'
    OBVIOUS
<1>1. CASE Next
    BY <1>1, DirectStep, StartLoopStep, RequestStep, CallStep, EndStep DEF Next
<1>2. CASE UNCHANGED vars
    BY <1>2 DEF vars, IInv, TypeOK, RequestsInv, RequestsBounded, GateInv, GateHolds, Budget
<1> QED
    BY <1>1, <1>2

-----------------------------------------------------------------------------
(* The inductive invariant holds in every state of a run.                  *)
THEOREM Invariance == Spec => []IInv
    BY InitInv, StepInv, PTL DEF Spec

(* Type correctness, with the bounds of the loop variable and of the       *)
(* number of requests.                                                     *)
THEOREM TypeCorrect == Spec => []TypeOK
<1>1. IInv => TypeOK
    BY DEF IInv
<1> QED
    BY <1>1, Invariance, PTL

(* The human gate of agent_loop.py: whatever calls the model asks for, the *)
(* only gated call a run executes is the one a human approved, first.      *)
THEOREM GateSafety == Spec => []GateHolds
<1>1. IInv => GateHolds
    BY DEF IInv, GateInv
<1> QED
    BY <1>1, Invariance, PTL

(* The cost of a run: at most 2 * budget + 1 requests to the model, two    *)
(* for the intents without tools.                                          *)
THEOREM RequestSafety == Spec => []RequestsBounded
<1>1. IInv => RequestsBounded
    BY Budgets DEF IInv, TypeOK, RequestsInv, RequestsBounded
<1> QED
    BY <1>1, Invariance, PTL

-----------------------------------------------------------------------------
(* The conversation.  While the calls of the last message are handled, the *)
(* tool messages behind it answer the first of them in order, and those    *)
(* that are left are the rest; every other message is answered in full.    *)
Answered(i) ==
    \A k \in DOMAIN messages[i].ids :
        /\ i + k \in DOMAIN messages
        /\ messages[i + k] = ToolMessage(messages[i].ids[k])

Half(i) == LET n == Len(messages) - i
               ids == messages[i].ids
           IN  /\ messages[i].role = "assistant"
               /\ Len(ids) = n + Len(calls)
               /\ \A k \in 1..n : messages[i + k] = ToolMessage(ids[k])
               /\ \A k \in 1..Len(calls) : calls[k].id = ids[n + k]

AnsweredBut(S) == \A i \in DOMAIN messages \ S : messages[i].role = "assistant" => Answered(i)

(* The tool message at k, if there is one, answers a call. *)
Asked(k) ==
    messages[k].role = "tool" =>
        \/ k = 3 /\ approved # NoTool /\ messages[k] = ToolMessage(ApprovedId)
        \/ \E i \in 1..(k - 1) : /\ messages[i].role = "assistant"
                                 /\ k - i \in DOMAIN messages[i].ids
                                 /\ messages[i].ids[k - i] = messages[k].ids[1]

ConversationInv ==
    /\ pc \in {"start", "direct"} => messages = <<Message("system"), Message("user")>>
    /\ ResultsAsked
    /\ pc = "calls" => \E i \in DOMAIN messages : Half(i) /\ AnsweredBut({i})
    /\ pc \notin {"calls", "end"} => AnsweredBut({})

(* A message that is appended moves no other: calls that were answered     *)
(* stay answered, and results that were asked for stay asked for.          *)
LEMMA AppendKeeps ==
    ASSUME messages \in Seq(MessageType), NEW m \in MessageType,
           messages' = Append(messages, m), UNCHANGED approved
    PROVE  /\ DOMAIN messages = 1..Len(messages)
           /\ DOMAIN messages' = 1..(Len(messages) + 1)
           /\ Len(messages) \in Nat
           /\ Len(messages') = Len(messages) + 1
           /\ \A i \in DOMAIN messages : messages'[i] = messages[i]
           /\ messages'[Len(messages) + 1] = m
           /\ \A i \in DOMAIN messages : Answered(i) => Answered(i)'
           /\ \A i \in DOMAIN messages : Asked(i) => Asked(i)'
<1>1. /\ DOMAIN messages = 1..Len(messages)
      /\ DOMAIN messages' = 1..(Len(messages) + 1)
      /\ Len(messages) \in Nat
      /\ Len(messages') = Len(messages) + 1
      /\ \A i \in DOMAIN messages : messages'[i] = messages[i]
      /\ messages'[Len(messages) + 1] = m
    OBVIOUS
<1>2. \A i \in DOMAIN messages : messages[i] \in MessageType
    BY <1>1
<1>3. ASSUME NEW i \in DOMAIN messages, Answered(i)
      PROVE  Answered(i)'
    BY <1>1, <1>2, <1>3 DEF Answered
<1>4. ASSUME NEW k \in DOMAIN messages, Asked(k)
      PROVE  Asked(k)'
    <2>1. \A i \in 1..(k - 1) : i \in DOMAIN messages
        BY <1>1
    <2> QED
        BY <1>1, <1>4, <2>1 DEF Asked
<1> QED
    BY <1>1, <1>3, <1>4

(* What an appended message must be for the invariant's parts to stay. *)
LEMMA AppendFits ==
    ASSUME messages \in Seq(MessageType), NEW m \in MessageType, NEW S,
           messages' = Append(messages, m), UNCHANGED approved,
           AnsweredBut(S), ResultsAsked
    PROVE  /\ m.role # "assistant" \/ Len(messages) + 1 \in S \/ m.ids = <<>>
                 => AnsweredBut(S)'
           /\ m.role # "tool" => ResultsAsked'
           /\ (\A k \in Nat : k = Len(messages) + 1 => Asked(k)') => ResultsAsked'
<1>1. /\ DOMAIN messages = 1..Len(messages)
      /\ DOMAIN messages' = 1..(Len(messages) + 1)
      /\ Len(messages) \in Nat
      /\ \A i \in DOMAIN messages : messages'[i] = messages[i]
      /\ messages'[Len(messages) + 1] = m
      /\ \A i \in DOMAIN messages : Answered(i) => Answered(i)'
      /\ \A i \in DOMAIN messages : Asked(i) => Asked(i)'
    BY AppendKeeps
<1>2. \A k \in DOMAIN messages : Asked(k)
    BY DEF ResultsAsked, Asked
<1>3. \A k \in DOMAIN messages : Asked(k)'
    BY <1>1, <1>2
<1>4. \A k \in DOMAIN messages' : k \in DOMAIN messages \/ k = Len(messages) + 1
    BY <1>1
<1>5. (\A k \in DOMAIN messages' : Asked(k)') => ResultsAsked'
    BY DEF ResultsAsked, Asked
<1>6. ASSUME m.role # "tool" PROVE ResultsAsked'
    <2>1. \A k \in Nat : k = Len(messages) + 1 => Asked(k)'
        BY <1>1, <1>6 DEF Asked
    <2> QED
        BY <1>1, <1>3, <1>4, <1>5, <2>1
<1>7. ASSUME \A k \in Nat : k = Len(messages) + 1 => Asked(k)' PROVE ResultsAsked'
    BY <1>1, <1>3, <1>4, <1>5, <1>7
<1>8. ASSUME m.role # "assistant" \/ Len(messages) + 1 \in S \/ m.ids = <<>>
      PROVE  AnsweredBut(S)'
    <2>1. SUFFICES ASSUME NEW i \in DOMAIN messages' \ S, messages'[i].role = "assistant"
                   PROVE  Answered(i)'
        BY DEF AnsweredBut
    <2>2. CASE i \in DOMAIN messages
        BY <1>1, <2>1, <2>2 DEF AnsweredBut
    <2>3. CASE i = Len(messages) + 1
        <3>1. m.ids = <<>>
            BY <1>1, <1>8, <2>1, <2>3
        <3> QED
            BY <1>1, <2>3, <3>1 DEF Answered
    <2> QED
        BY <1>4, <2>2, <2>3
<1> QED
    BY <1>6, <1>7, <1>8

(* The steps that leave the conversation alone, and those that end the run. *)
LEMMA ConversationFrame ==
    ASSUME IInv, ConversationInv, UNCHANGED <<messages, approved>>,
           \/ UNCHANGED <<pc, calls>>
           \/ pc' = "end"
           \/ pc \notin {"calls", "end"} /\ pc' \notin {"calls", "start", "direct"}
           \/ pc = "start" /\ pc' = "direct"
    PROVE  ConversationInv'
<1>1. ResultsAsked'
    BY DEF ConversationInv, ResultsAsked
<1>2. AnsweredBut({}) => AnsweredBut({})'
    BY DEF AnsweredBut, Answered
<1>3. ASSUME UNCHANGED <<pc, calls>>, pc = "calls"
      PROVE  \E i \in DOMAIN messages' : Half(i)' /\ AnsweredBut({i})'
    <2>1. PICK i \in DOMAIN messages : Half(i) /\ AnsweredBut({i})
        BY <1>3 DEF ConversationInv
    <2>2. Half(i)'
        BY <1>3, <2>1 DEF Half
    <2>3. AnsweredBut({i})'
        BY <2>1 DEF AnsweredBut, Answered
    <2> QED
        BY <2>1, <2>2, <2>3
<1> QED
    BY <1>1, <1>2, <1>3 DEF ConversationInv

(* The result of an approved call opens the conversation of its run. *)
LEMMA ConversationStart ==
    ASSUME IInv, ConversationInv, StartLoop
    PROVE  ConversationInv'
<1>1. CASE ExecutesApproval
    <2> DEFINE m == ToolMessage(ApprovedId)
    <2>1. m \in MessageType /\ m.role = "tool" /\ "tool" # "assistant"
        BY MessageTypes DEF ToolMessage
    <2>2. messages' = Append(messages, m) /\ pc = "start" /\ pc' = "ask" /\ UNCHANGED approved
        BY <1>1 DEF StartLoop, inputs
    <2>3. Len(messages) = 2 /\ messages \in Seq(MessageType)
        BY <2>2 DEF ConversationInv, IInv, TypeOK
    <2>4. AnsweredBut({}) /\ ResultsAsked
        BY <2>2 DEF ConversationInv
    <2>5. messages'[3] = m
        BY <2>1, <2>2, <2>3, AppendKeeps
    <2>6. \A k \in Nat : k = Len(messages) + 1 => Asked(k)'
        <3>1. approved' # NoTool
            BY <1>1, <2>2 DEF ExecutesApproval
        <3> QED
            BY <2>3, <2>5, <3>1 DEF Asked
    <2> HIDE DEF m
    <2>7. AnsweredBut({})' /\ ResultsAsked'
        BY <2>1, <2>2, <2>3, <2>4, <2>6, AppendFits
    <2> QED
        BY <2>2, <2>7 DEF ConversationInv
<1>2. CASE ~ExecutesApproval
    <2>1. UNCHANGED <<messages, approved>> /\ pc = "start" /\ pc' = "ask"
        BY <1>2 DEF StartLoop, inputs
    <2> QED
        BY <2>1, ConversationFrame
<1> QED
    BY <1>1, <1>2

(* The messages with which the run asks the model once more. *)
LEMMA ConversationPrompt ==
    ASSUME IInv, ConversationInv, AnsweredBut({}), UNCHANGED approved,
           messages' = Append(messages, Message("user")),
           pc' \notin {"start", "direct", "calls"}
    PROVE  ConversationInv'
<1>1. Message("user") \in MessageType /\ Message("user").role = "user"
    BY MessageTypes DEF Message, Roles
<1>2. messages \in Seq(MessageType) /\ ResultsAsked
    BY DEF IInv, TypeOK, ConversationInv
<1>3. AnsweredBut({})' /\ ResultsAsked'
    BY <1>1, <1>2, AppendFits
<1> QED
    BY <1>3 DEF ConversationInv

(* A message of the model with calls: none of them is answered yet. *)
LEMMA ConversationReply ==
    ASSUME IInv, ConversationInv, pc \in {"ask", "recover"}, ReplyCalls, UNCHANGED approved
    PROVE  ConversationInv'
<1>1. PICK asked \in CallLists :
          /\ calls' = [k \in DOMAIN asked |->
                          [id |-> <<iteration + 1, k>>, tool |-> asked[k].tool,
                           args |-> asked[k].args]]
          /\ messages' = Append(messages,
                            [role |-> "assistant",
                             ids |-> [k \in DOMAIN asked |-> <<iteration + 1, k>>]])
          /\ pc' = "calls"
          /\ UNCHANGED result
    BY DEF ReplyCalls
<1>2. PICK n \in 1..MaxCalls : asked \in [1..n -> ToolCalls]
    BY DEF CallLists
<1>3. n \in Nat /\ DOMAIN asked = 1..n
    BY <1>2, BoundAssumption
<1> DEFINE ids == [k \in 1..n |-> <<iteration + 1, k>>]
           m == [role |-> "assistant", ids |-> ids]
<1>4. ids \in Seq(Ids) /\ Len(ids) = n
    <2>1. \A k \in 1..n : <<iteration + 1, k>> \in Ids
        BY <1>3 DEF IInv, TypeOK, Ids
    <2> QED
        BY <1>3, <2>1
<1>5. m \in MessageType /\ m.role = "assistant" /\ m.ids = ids
    BY <1>4 DEF MessageType, Roles
<1>6. messages' = Append(messages, m) /\ messages \in Seq(MessageType)
    BY <1>1, <1>3 DEF IInv, TypeOK
<1>7. /\ Len(calls') = n
      /\ \A k \in 1..n : calls'[k].id = ids[k]
    BY <1>1, <1>3
<1> HIDE DEF ids, m
<1>8. Len(messages) \in Nat
    BY <1>6
<1>9. PICK L \in Nat : L = Len(messages) + 1
    BY <1>8
<1>10. L \in DOMAIN messages' /\ messages'[L] = m /\ Len(messages') = L
    BY <1>5, <1>6, <1>9, AppendKeeps
<1>11. Half(L)'
    BY <1>3, <1>4, <1>5, <1>7, <1>10 DEF Half
<1>12. AnsweredBut({L}) /\ ResultsAsked
    BY DEF ConversationInv, AnsweredBut
<1>13. AnsweredBut({L})' /\ ResultsAsked'
    <2>1. m.role # "tool" /\ Len(messages) + 1 \in {L}
        BY <1>5, <1>9
    <2> QED
        BY <1>5, <1>6, <1>12, <2>1, AppendFits
<1> QED
    BY <1>1, <1>10, <1>11, <1>13 DEF ConversationInv

(* The result of the first call that is left is what the conversation      *)
(* waits for, and the next call is the one after it.                       *)
LEMMA ConversationResult ==
    ASSUME IInv, ConversationInv, ExecuteCall
    PROVE  ConversationInv'
<1>1. /\ pc = "calls" /\ pc' = "calls" /\ calls # <<>> /\ calls' = Tail(calls)
      /\ messages' = Append(messages, ToolMessage(Head(calls).id))
      /\ UNCHANGED approved
      /\ messages \in Seq(MessageType) /\ calls \in Seq(CallType)
    BY DEF ExecuteCall, AppendResult, inputs, IInv, TypeOK
<1>2. PICK i \in DOMAIN messages : Half(i) /\ AnsweredBut({i})
    BY <1>1 DEF ConversationInv
<1> DEFINE m == ToolMessage(Head(calls).id)
           n == Len(messages) - i
<1>3. m \in MessageType /\ m.role = "tool" /\ m.ids = <<Head(calls).id>>
    <2>1. Head(calls) \in CallType
        BY <1>1, SequenceTypes
    <2>2. Head(calls).id \in Ids
        BY <2>1 DEF CallType
    <2> QED
        BY <2>2, MessageTypes DEF ToolMessage
<1>4. /\ messages[i] \in MessageType
      /\ i \in Nat /\ n \in Nat /\ i + n = Len(messages) /\ i + (n + 1) = Len(messages) + 1
    BY <1>1
<1>5. /\ Len(calls) \in Nat /\ Len(calls) >= 1
      /\ Len(calls') = Len(calls) - 1
      /\ Head(calls) = calls[1]
      /\ \A k \in 1..Len(calls') : calls'[k] = calls[k + 1]
    BY <1>1
<1>6. /\ messages[i].role = "assistant"
      /\ Len(messages[i].ids) = n + Len(calls)
      /\ \A k \in 1..n : messages[i + k] = ToolMessage(messages[i].ids[k])
      /\ \A k \in 1..Len(calls) : calls[k].id = messages[i].ids[n + k]
      /\ messages[i].ids \in Seq(Ids)
    BY <1>2, <1>4 DEF Half, MessageType
<1>7. /\ Len(messages') = Len(messages) + 1 /\ i \in DOMAIN messages'
      /\ \A j \in DOMAIN messages : messages'[j] = messages[j]
      /\ messages'[Len(messages) + 1] = m
      /\ DOMAIN messages = 1..Len(messages)
    BY <1>1, <1>3, AppendKeeps
<1>8. m = ToolMessage(messages[i].ids[n + 1]) /\ n + 1 \in DOMAIN messages[i].ids
    <2>1. Head(calls).id = messages[i].ids[n + 1]
        BY <1>5, <1>6
    <2>2. n + 1 \in 1..Len(messages[i].ids)
        BY <1>4, <1>5, <1>6
    <2> QED
        BY <1>6, <2>1, <2>2
<1>9. messages'[i] = messages[i]
    BY <1>7
<1> HIDE DEF m
<1>10. Half(i)'
    <2>1. Len(messages') - i = n + 1
        BY <1>4, <1>7
    <2>2. Len(messages'[i].ids) = (n + 1) + Len(calls')
        BY <1>4, <1>5, <1>6, <1>9
    <2>3. ASSUME NEW k \in 1..(n + 1)
          PROVE  messages'[i + k] = ToolMessage(messages'[i].ids[k])
        <3>1. CASE k = n + 1
            BY <1>4, <1>7, <1>8, <1>9, <3>1
        <3>2. CASE k # n + 1
            <4>1. k \in 1..n /\ i + k \in DOMAIN messages
                BY <1>4, <1>7, <3>2
            <4> QED
                BY <1>6, <1>7, <1>9, <4>1
        <3> QED
            BY <3>1, <3>2
    <2>4. ASSUME NEW k \in 1..Len(calls')
          PROVE  calls'[k].id = messages'[i].ids[(n + 1) + k]
        <3>1. k + 1 \in 1..Len(calls) /\ n + (k + 1) = (n + 1) + k
            BY <1>4, <1>5
        <3> QED
            BY <1>5, <1>6, <1>9, <3>1
    <2> HIDE DEF n
    <2> QED
        BY <1>6, <1>9, <2>1, <2>2, <2>3, <2>4 DEF Half
<1>11. \A k \in Nat : k = Len(messages) + 1 => Asked(k)'
    <2>1. SUFFICES ASSUME NEW k \in Nat, k = Len(messages) + 1
                   PROVE  Asked(k)'
        OBVIOUS
    <2>2. /\ i \in 1..(k - 1) /\ k - i = n + 1 /\ messages'[k] = m
        BY <1>4, <1>7, <2>1
    <2>3. messages'[k].ids[1] = messages'[i].ids[k - i]
        <3>1. m.ids[1] = messages[i].ids[n + 1]
            BY <1>8 DEF ToolMessage
        <3> QED
            BY <1>9, <2>2, <3>1
    <2> QED
        BY <1>6, <1>8, <1>9, <2>2, <2>3 DEF Asked
<1>12. ResultsAsked
    BY DEF ConversationInv
<1>13. AnsweredBut({i})' /\ ResultsAsked'
    <2>1. m.role # "assistant" /\ messages' = Append(messages, m)
        BY <1>1, <1>3 DEF m
    <2> QED
        BY <1>1, <1>2, <1>3, <1>11, <1>12, <2>1, AppendFits
<1> QED
    BY <1>1, <1>7, <1>10, <1>13 DEF ConversationInv

(* When no call is left the last message of the model is answered too. *)
LEMMA ConversationEnd ==
    ASSUME IInv, ConversationInv, EndIteration
    PROVE  ConversationInv'
<1>1. /\ pc = "calls" /\ calls = <<>> /\ UNCHANGED approved
      /\ \/ pc' = "ask" /\ UNCHANGED messages
         \/ pc' = "synthesise" /\ messages' = Append(messages, Message("user"))
      /\ messages \in Seq(MessageType)
    BY DEF EndIteration, AfterIteration, inputs, IInv, TypeOK
<1>2. PICK i \in DOMAIN messages : Half(i) /\ AnsweredBut({i})
    BY <1>1 DEF ConversationInv
<1>3. Answered(i)
    <2>1. /\ messages[i] \in MessageType
          /\ i \in 1..Len(messages) /\ DOMAIN messages = 1..Len(messages)
          /\ Len(messages) \in Nat
        BY <1>1
    <2>2. messages[i].ids \in Seq(Ids)
        BY <2>1 DEF MessageType
    <2>3. Len(messages[i].ids) = Len(messages) - i
        BY <1>1, <1>2, <2>1 DEF Half
    <2>4. DOMAIN messages[i].ids = 1..(Len(messages) - i)
        BY <2>2, <2>3
    <2>5. \A k \in 1..(Len(messages) - i) : i + k \in DOMAIN messages
        BY <2>1
    <2> QED
        BY <1>2, <2>4, <2>5 DEF Half, Answered
<1>4. AnsweredBut({})
    BY <1>2, <1>3 DEF AnsweredBut
<1>5. CASE pc' = "ask" /\ UNCHANGED messages
    <2>1. ResultsAsked' /\ AnsweredBut({})'
        BY <1>1, <1>4, <1>5 DEF ConversationInv, ResultsAsked, AnsweredBut, Answered
    <2> QED
        BY <1>5, <2>1 DEF ConversationInv
<1>6. CASE pc' = "synthesise" /\ messages' = Append(messages, Message("user"))
    BY <1>1, <1>4, <1>6, ConversationPrompt
<1> QED
    BY <1>1, <1>5, <1>6

(* A run without tools adds a message of the model that makes no call. *)
LEMMA ConversationDirect ==
    ASSUME IInv, ConversationInv, DirectRequest
    PROVE  ConversationInv'
<1>1. CASE pc' = "end" /\ UNCHANGED messages
    BY <1>1, ConversationFrame DEF DirectRequest, inputs
<1>2. CASE /\ pc' = "direct_again"
           /\ messages' = Append(Append(messages, Message("assistant")), Message("user"))
    <2> DEFINE Plain == {Message(role) : role \in {"system", "user", "assistant"}}
    <2>1. \A m \in Plain : m.role # "tool" /\ m.ids = <<>>
        BY DEF Message
    <2>2. messages \in Seq(Plain) /\ Message("assistant") \in Plain /\ Message("user") \in Plain
        <3>1. \A role \in {"system", "user", "assistant"} : Message(role) \in Plain
            OBVIOUS
        <3> HIDE DEF Plain
        <3>2. messages = <<Message("system"), Message("user")>>
            BY DEF ConversationInv, DirectRequest
        <3> QED
            BY <3>1, <3>2
    <2> HIDE DEF Plain
    <2>3. \A i \in DOMAIN messages' : messages'[i].role # "tool" /\ messages'[i].ids = <<>>
        <3>1. Append(messages, Message("assistant")) \in Seq(Plain)
            BY <2>2, SequenceTypes
        <3>2. messages' \in Seq(Plain)
            BY <1>2, <2>2, <3>1, SequenceTypes
        <3>3. \A i \in DOMAIN messages' : messages'[i] \in Plain
            BY <3>2
        <3> QED
            BY <2>1, <3>3
    <2>4. ResultsAsked' /\ AnsweredBut({})'
        BY <2>3 DEF ResultsAsked, AnsweredBut, Answered
    <2> QED
        BY <1>2, <2>4 DEF ConversationInv
<1> QED
    BY <1>1, <1>2 DEF DirectRequest, Return

LEMMA ConversationStep ==
    ASSUME IInv, ConversationInv, [Next]_vars
    PROVE  ConversationInv'
<1>1. CASE StartDirect
    BY <1>1, ConversationFrame DEF StartDirect, inputs
<1>2. CASE StartLoop
    BY <1>2, ConversationStart
<1>3. CASE DirectRequest
    BY <1>3, ConversationDirect
<1>4. CASE DirectAgain
    BY <1>4, ConversationFrame DEF DirectAgain, Return, inputs
<1>5. CASE Request \/ Recover
    <2>1. pc \in {"ask", "recover"} /\ UNCHANGED approved /\ AnsweredBut({})
        BY <1>5 DEF Request, Recover, inputs, ConversationInv
    <2>2. CASE ReplyText \/ ReplyError
        BY <2>1, <2>2, ConversationFrame DEF ReplyText, ReplyError, Return
    <2>3. CASE ReplyCalls
        BY <2>1, <2>3, ConversationReply
    <2>4. CASE ReplySchemaError
        BY <2>1, <2>4, ConversationPrompt DEF ReplySchemaError
    <2> QED
        BY <1>5, <2>2, <2>3, <2>4 DEF Request, Recover, RecoveryReplies
<1>6. CASE CoercionFails \/ RequestApproval
    BY <1>6, ConversationFrame DEF CoercionFails, RequestApproval, Return, inputs
<1>7. CASE ExecuteCall
    BY <1>7, ConversationResult
<1>8. CASE EndIteration
    BY <1>8, ConversationEnd
<1>9. CASE Synthesise
    BY <1>9, ConversationFrame DEF Synthesise, Return, inputs
<1>10. CASE UNCHANGED vars
    BY <1>10, ConversationFrame DEF vars
<1> QED
    BY <1>1, <1>2, <1>3, <1>4, <1>5, <1>6, <1>7, <1>8, <1>9, <1>10 DEF Next

LEMMA ConversationInit == Init => ConversationInv
<1> SUFFICES ASSUME Init PROVE ConversationInv
    OBVIOUS
<1>1. messages = <<Message("system"), Message("user")>> /\ pc = "start"
    BY DEF Init
<1>2. \A i \in DOMAIN messages : messages[i].role \in {"system", "user"}
    <2>1. DOMAIN messages = 1..2 /\ (\A i \in 1..2 : i = 1 \/ i = 2)
        BY <1>1
    <2> QED
        BY <1>1, <2>1 DEF Message
<1>3. ResultsAsked /\ AnsweredBut({})
    BY <1>2 DEF ResultsAsked, AnsweredBut
<1> QED
    BY <1>1, <1>3 DEF ConversationInv

(* Whenever agent_loop.py asks the model, with tools, after a refused      *)
(* call, or for the final text, each tool call in the conversation is      *)
(* answered right behind the message that made it, in order, and each tool *)
(* message but an approved call's answers one.                             *)
THEOREM ConversationSafety == Spec => []ConversationComplete
<1>1. ConversationInv => ConversationComplete
    BY DEF ConversationInv, ConversationComplete, AboutToRequest, CallsAnswered,
           AnsweredBut, Answered
<1>2. IInv /\ ConversationInv /\ [Next]_vars => ConversationInv'
    BY ConversationStep
<1> QED
    BY <1>1, <1>2, Invariance, ConversationInit, PTL DEF Spec

-----------------------------------------------------------------------------
(* The promise of AgentRun.  A run with an approval is one of the intent   *)
(* ACTION, so it takes the loop, and past its start the approved call has  *)
(* been executed; until the end nothing was returned.                      *)
RunInv ==
    /\ approved # NoTool => intent = "ACTION"
    /\ approved # NoTool /\ pc # "start" => made # <<>>
    /\ pc # "end" => result = Pending

Attempts == [i \in DOMAIN made |-> made[i].tool]

LEMMA RunInit == Init => RunInv
BY CallsAssumption DEF Init, RunInv

LEMMA RunStep == IInv /\ RunInv /\ [Next]_vars => RunInv'
<1> SUFFICES ASSUME IInv, RunInv, [Next]_vars PROVE RunInv'
    OBVIOUS
<1>1. UNCHANGED <<intent, approved>>
    BY DEF Next, vars, inputs, StartDirect, StartLoop, DirectRequest, DirectAgain, Request,
           Recover, CoercionFails, RequestApproval, ExecuteCall, EndIteration, Synthesise
<1>2. CASE StartDirect
    <2>1. intent # "ACTION"
        BY <1>2 DEF StartDirect, INTENT_TOOL_ALLOWLIST, TOOL_REGISTRY, Intents
    <2> QED
        BY <1>1, <1>2, <2>1 DEF RunInv, StartDirect
<1>3. CASE StartLoop
    BY <1>1, <1>3 DEF RunInv, StartLoop, ExecutesApproval
<1>4. CASE DirectRequest \/ DirectAgain
    BY <1>1, <1>4 DEF RunInv, DirectRequest, DirectAgain, Return
<1>5. CASE Request \/ Recover
    BY <1>1, <1>5 DEF RunInv, Request, Recover, RecoveryReplies, ReplyText, ReplyCalls,
                      ReplyError, ReplySchemaError, Return
<1>6. CASE CoercionFails \/ RequestApproval
    BY <1>1, <1>6 DEF RunInv, CoercionFails, RequestApproval, Return
<1>7. CASE ExecuteCall
    BY <1>1, <1>7 DEF RunInv, ExecuteCall, IInv, TypeOK
<1>8. CASE EndIteration \/ Synthesise
    BY <1>1, <1>8 DEF RunInv, EndIteration, AfterIteration, Synthesise, Return
<1>9. CASE UNCHANGED vars
    BY <1>9 DEF RunInv, vars
<1> QED
    BY <1>2, <1>3, <1>4, <1>5, <1>6, <1>7, <1>8, <1>9 DEF Next

(* The kinds of result, as the status that AgentRun sees. *)
LEMMA Kinds ==
    /\ Pending.kind = "pending" /\ Pending.tool = NoTool
    /\ Raised.kind = "raised" /\ Raised.tool = NoTool
    /\ \A n : Answer(n).kind = "answered" /\ Answer(n).tool = NoTool
    /\ \A n, tool : AskApproval(n, tool).kind = "asking" /\ AskApproval(n, tool).tool = tool
BY DEF Pending, Raised, Answer, AskApproval

(* The steps of the loop that do not concern its caller. *)
LEMMA RunStutters ==
    ASSUME UNCHANGED <<approved, made, result>>
    PROVE  UNCHANGED Abstract!vars
BY DEF Abstract!vars

(* Whatever ends the run with an answer or an exception. *)
LEMMA RunEnds ==
    ASSUME IInv, RunInv, pc \notin {"start", "end"}, UNCHANGED <<approved, made>>,
           NEW n, result' \in {Answer(n), Raised}
    PROVE  Abstract!Next
<1>1. result.kind = "pending" /\ result.tool = NoTool
    BY Kinds DEF RunInv
<1>2. result'.kind \in {"answered", "raised"} /\ result'.tool = NoTool
    BY Kinds
<1>3. approved = NoTool \/ Attempts # <<>>
    BY DEF RunInv, Attempts, IInv, TypeOK
<1>4. Abstract!End
    BY <1>1, <1>2, <1>3 DEF Abstract!End, Attempts
<1> QED
    BY <1>4 DEF Abstract!Next

LEMMA RunImplements ==
    ASSUME IInv, RunInv, [Next]_vars
    PROVE  [Abstract!Next]_(Abstract!vars)
<1>1. CASE StartDirect \/ EndIteration \/ UNCHANGED vars
    BY <1>1, RunStutters DEF StartDirect, EndIteration, vars, inputs
<1>2. CASE StartLoop
    <2>1. CASE ExecutesApproval
        <3>1. result.kind = "pending"
            BY <1>2, Kinds DEF RunInv, StartLoop
        <3>2. made = <<>> /\ made' = <<[tool |-> approved, approved |-> TRUE]>>
            BY <1>2, <2>1 DEF StartLoop, IInv, GateInv
        <3>3. Attempts = <<>> /\ Attempts' = <<approved>>
            BY <3>2, <1>2 DEF Attempts
        <3>4. Abstract!ExecuteApproved
            BY <1>2, <2>1, <3>1, <3>3
            DEF Abstract!ExecuteApproved, Attempts, StartLoop, ExecutesApproval, inputs
        <3> QED
            BY <3>4 DEF Abstract!Next
    <2>2. CASE ~ExecutesApproval
        BY <1>2, <2>2, RunStutters DEF StartLoop, inputs
    <2> QED
        BY <2>1, <2>2
<1>3. CASE DirectRequest
    <2>1. pc = "direct" /\ UNCHANGED <<approved, made>>
        BY <1>3 DEF DirectRequest, inputs
    <2>2. CASE result' \in {Answer(1), Raised}
        BY <2>1, <2>2, RunEnds
    <2>3. CASE UNCHANGED result
        BY <2>1, <2>3, RunStutters
    <2> QED
        BY <1>3, <2>2, <2>3 DEF DirectRequest, Return
<1>4. CASE DirectAgain
    BY <1>4, RunEnds DEF DirectAgain, Return, inputs
<1>5. CASE Request \/ Recover
    <2>1. pc \notin {"start", "end"} /\ UNCHANGED <<approved, made>>
        BY <1>5 DEF Request, Recover, inputs
    <2>2. CASE ReplyText \/ ReplyError
        BY <2>1, <2>2, RunEnds DEF ReplyText, ReplyError, Return
    <2>3. CASE ReplyCalls \/ ReplySchemaError
        BY <2>1, <2>3, RunStutters DEF ReplyCalls, ReplySchemaError
    <2> QED
        BY <1>5, <2>2, <2>3 DEF Request, Recover, RecoveryReplies
<1>6. CASE CoercionFails
    BY <1>6, RunEnds DEF CoercionFails, Return, inputs
<1>7. CASE RequestApproval
    <2>1. Head(calls).tool \in ToolNames
        <3>1. Head(calls) \in CallType
            BY <1>7, SequenceTypes DEF RequestApproval, IInv, TypeOK
        <3> QED
            BY <3>1 DEF CallType
    <2>2. Head(calls).tool \in APPROVAL_REQUIRED_TOOLS
        BY <1>7 DEF RequestApproval, NeedsApproval
    <2>3. result.kind = "pending" /\ result'.kind = "asking" /\ result'.tool = Head(calls).tool
        BY <1>7, Kinds DEF RunInv, RequestApproval, Return
    <2>4. approved = NoTool \/ Attempts # <<>>
        BY <1>7 DEF RunInv, Attempts, IInv, TypeOK, RequestApproval
    <2>5. Abstract!Ask(Head(calls).tool)
        BY <1>7, <2>2, <2>3, <2>4 DEF Abstract!Ask, Attempts, RequestApproval, inputs
    <2> QED
        BY <2>1, <2>5 DEF Abstract!Next
<1>8. CASE ExecuteCall
    <2>1. Head(calls).tool \in ToolNames
        <3>1. Head(calls) \in CallType
            BY <1>8, SequenceTypes DEF ExecuteCall, IInv, TypeOK
        <3> QED
            BY <3>1 DEF CallType
    <2>2. Head(calls).tool \notin APPROVAL_REQUIRED_TOOLS
        BY <1>8 DEF ExecuteCall, NeedsApproval
    <2>3. result.kind = "pending" /\ UNCHANGED <<approved, result>>
        BY <1>8, Kinds DEF RunInv, ExecuteCall, inputs
    <2>4. approved = NoTool \/ Attempts # <<>>
        BY <1>8 DEF RunInv, Attempts, IInv, TypeOK, ExecuteCall
    <2>5. Attempts' = Append(Attempts, Head(calls).tool)
        <3> DEFINE entry == [tool |-> Head(calls).tool, approved |-> FALSE]
        <3>1. made' = Append(made, entry) /\ made \in Seq(EntryType)
            BY <1>8 DEF ExecuteCall, IInv, TypeOK
        <3>2. entry.tool = Head(calls).tool
            OBVIOUS
        <3> HIDE DEF entry
        <3> QED
            BY <3>1, <3>2 DEF Attempts
    <2>6. PICK tool \in ToolNames : tool = Head(calls).tool
        BY <2>1
    <2>7. Abstract!Execute(tool)
        BY <2>2, <2>3, <2>4, <2>5, <2>6 DEF Abstract!Execute, Attempts
    <2> QED
        BY <2>7 DEF Abstract!Next
<1>9. CASE Synthesise
    <2>1. pc \notin {"start", "end"} /\ UNCHANGED <<approved, made>>
        BY <1>9 DEF Synthesise, inputs
    <2>2. result' \in {Answer(Budget), Raised}
        BY <1>9 DEF Synthesise, Return
    <2> QED
        BY <2>1, <2>2, RunEnds
<1> QED
    BY <1>1, <1>2, <1>3, <1>4, <1>5, <1>6, <1>7, <1>8, <1>9 DEF Next

(* AgentLoop.run does what AgentRun promises its callers in every step:    *)
(* the tools it attempts, their order, the gate and the ways to end.  (That *)
(* it does end, the fairness of AgentRun!Spec, is left to model checking.) *)
THEOREM RunImplemented == Spec => Abstract!Safety
<1>1. Init => Abstract!Init
    BY Kinds DEF Init, Abstract!Init
<1>2. IInv /\ RunInv /\ [Next]_vars => [Abstract!Next]_(Abstract!vars)
    BY RunImplements
<1> QED
    BY <1>1, <1>2, RunInit, RunStep, Invariance, PTL DEF Spec, Abstract!Safety
=============================================================================
