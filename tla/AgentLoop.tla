----------------------------- MODULE AgentLoop -----------------------------
(***************************************************************************)
(* One call of AgentLoop.run (agent/agent_loop.py): the function-calling   *)
(* loop between the language model, which answers in text or asks for tool *)
(* calls, and the tools.  The text of messages and the results of tools    *)
(* are abstracted away; a message keeps its role and the ids of the tool   *)
(* calls it makes or answers, because the provider refuses a conversation  *)
(* in which a call is left unanswered.  A tool that fails or does not      *)
(* exist is a tool that returned (_execute_tool turns both into an error   *)
(* value), so attempting a call never ends the run.                        *)
(***************************************************************************)
EXTENDS Integers, Sequences, FiniteSets

CONSTANTS ToolCalls,  \* the calls the model may ask for: [tool, args] records
          MaxCalls,   \* bound: tool calls in one message of the model
          NoTool      \* no tool

ToolNames == {c.tool : c \in ToolCalls}

(* What json.loads may make of a call's arguments, by what _coerce_args    *)
(* does with it where it converts any.  "refused": dict(args) raises, as   *)
(* for a number, null or a list of names, or int() overflows, as for       *)
(* Infinity.  "accepted": the rest, an object ({} also when they do not    *)
(* parse), an empty list or string, pairs, and numbers int() cannot read.  *)
ArgShapes == {"accepted", "refused"}

ASSUME CallsAssumption == /\ \A c \in ToolCalls : c.args \in ArgShapes
                          /\ NoTool \notin ToolNames
ASSUME BoundAssumption == MaxCalls \in Nat \ {0}

-----------------------------------------------------------------------------
(* The tables at the head of the source file. *)

TOOL_REGISTRY == {"get_lineage_graph", "search_pii_tables", "get_pipeline_status",
                  "get_slo_report", "trigger_dq_check", "analyze_lineage_impact",
                  "list_catalogue_tables", "list_pipeline_ids"}

(* "None" stands for Python's None, a request whose intent is unknown. *)
Intents == {"CODE_QA", "CATALOGUE", "HEALTH", "ACTION", "GENERAL", "None"}

INTENT_TOOL_ALLOWLIST ==
    [name \in Intents |->
        IF name \in {"CODE_QA", "GENERAL"} THEN {}
        ELSE IF name = "CATALOGUE"
             THEN {"list_catalogue_tables", "get_lineage_graph", "search_pii_tables"}
        ELSE IF name = "HEALTH"
             THEN {"list_pipeline_ids", "get_pipeline_status", "get_slo_report"}
        ELSE TOOL_REGISTRY]

INTENT_MAX_ITERATIONS ==
    [name \in Intents |->
        IF name \in {"CODE_QA", "GENERAL"} THEN 0
        ELSE IF name \in {"CATALOGUE", "HEALTH"} THEN 2
        ELSE IF name = "ACTION" THEN 5 ELSE 3]

APPROVAL_REQUIRED_TOOLS == {"trigger_dq_check"}

(* The tools whose integer parameters _coerce_args converts: it copies     *)
(* their arguments outside any try and catches only ValueError and         *)
(* TypeError of int(), so the other exceptions end the whole run.          *)
CoercedTools == {"get_lineage_graph", "get_pipeline_status", "get_slo_report"}

CoercionRaises(call) == call.tool \in CoercedTools /\ call.args = "refused"

FirstNeedsApproval(call) == call.tool \in APPROVAL_REQUIRED_TOOLS /\ call.id[2] = 1
NeedsApproval(call) == call.tool \in APPROVAL_REQUIRED_TOOLS

-----------------------------------------------------------------------------
VARIABLES intent,     \* the intent the caller passes
          approved,   \* the tool of pending_approval, or NoTool
          pc,         \* where the run is
          iteration,  \* the loop variable of the same name
          messages,   \* the conversation: [role, ids] records
          calls,      \* the calls of the model's last message still to be handled
          made,       \* tool_calls_made: [tool, approved] records
          requests,   \* history: requests made to the model
          result      \* what the caller got

vars == <<intent, approved, pc, iteration, messages, calls, made, requests, result>>
inputs == <<intent, approved>>

Budget == INTENT_MAX_ITERATIONS[intent]

Message(role) == [role |-> role, ids |-> <<>>]
ToolMessage(id) == [role |-> "tool", ids |-> <<id>>]

(* The id under which the approved call's result enters the conversation. *)
ApprovedId == <<0, 0>>

Pending == [kind |-> "pending", iterations |-> 0, tool |-> NoTool]
Answer(n) == [kind |-> "answered", iterations |-> n, tool |-> NoTool]
AskApproval(n, tool) == [kind |-> "asking", iterations |-> n, tool |-> tool]
Raised == [kind |-> "raised", iterations |-> 0, tool |-> NoTool]

Return(r) == pc' = "end" /\ result' = r

-----------------------------------------------------------------------------
(* The chat handler starts runs with any intent and no approval, the       *)
(* approve handler runs with an approval and the intent ACTION.            *)
Init ==
    /\ \/ intent \in Intents /\ approved = NoTool
       \/ intent = "ACTION" /\ approved \in ToolNames
    /\ pc = "start"
    /\ iteration = 0
    /\ messages = <<Message("system"), Message("user")>>
    /\ calls = <<>>
    /\ made = <<>>
    /\ requests = 0
    /\ result = Pending

(* Without tools the model is asked once, outside any try. *)
StartDirect ==
    /\ pc = "start"
    /\ INTENT_TOOL_ALLOWLIST[intent] = {}
    /\ pc' = "direct"
    /\ UNCHANGED <<inputs, iteration, messages, calls, made, requests, result>>

(* The approved call is executed before the model is asked anything. *)
IgnoresApproval == FALSE
ExecutesApproval == approved # NoTool

StartLoop ==
    /\ pc = "start"
    /\ INTENT_TOOL_ALLOWLIST[intent] # {}
    /\ pc' = "ask"
    /\ IF ExecutesApproval
       THEN /\ messages' = Append(messages, ToolMessage(ApprovedId))
            /\ made' = <<[tool |-> approved, approved |-> TRUE]>>
       ELSE UNCHANGED <<messages, made>>
    /\ UNCHANGED <<inputs, iteration, calls, requests, result>>

(* A text that announces a tool call is stripped; when little is left of   *)
(* it the model is asked once more, without a test of the second text.     *)
DirectRequest ==
    /\ pc = "direct"
    /\ requests' = requests + 1
    /\ \/ Return(Answer(1)) /\ UNCHANGED messages
       \/ Return(Raised) /\ UNCHANGED messages
       \/ /\ pc' = "direct_again"
          /\ messages' = Append(Append(messages, Message("assistant")), Message("user"))
          /\ UNCHANGED result
    /\ UNCHANGED <<inputs, iteration, calls, made>>

DirectAgain ==
    /\ pc = "direct_again"
    /\ requests' = requests + 1
    /\ Return(Answer(1)) \/ Return(Raised)
    /\ UNCHANGED <<inputs, iteration, messages, calls, made>>

-----------------------------------------------------------------------------
(* The model's reply to a request that offers tools.  Nothing in run()     *)
(* compares the calls with the intent's allowlist.                         *)
ReplyText ==
    /\ Return(Answer(iteration + 1))
    /\ UNCHANGED <<messages, calls>>

CallLists == UNION {[1..n -> ToolCalls] : n \in 1..MaxCalls}

ReplyCalls ==
    \E asked \in CallLists :
        /\ calls' = [k \in DOMAIN asked |->
                        [id |-> <<iteration + 1, k>>, tool |-> asked[k].tool,
                         args |-> asked[k].args]]
        /\ messages' = Append(messages,
                          [role |-> "assistant",
                           ids |-> [k \in DOMAIN asked |-> <<iteration + 1, k>>]])
        /\ pc' = "calls"
        /\ UNCHANGED result

ReplyError ==
    /\ Return(Answer(iteration + 1))
    /\ UNCHANGED <<messages, calls>>

(* The provider refused a call the model produced: the model is told so    *)
(* and asked once more within the same iteration.                          *)
ReplySchemaError ==
    /\ pc' = "recover"
    /\ messages' = Append(messages, Message("user"))
    /\ UNCHANGED <<calls, result>>

Request ==
    /\ pc = "ask"
    /\ requests' = requests + 1
    /\ ReplyText \/ ReplyCalls \/ ReplySchemaError \/ ReplyError
    /\ UNCHANGED <<inputs, iteration, made>>

RecoversForever == ReplyText \/ ReplyCalls \/ ReplyError \/ ReplySchemaError
RecoveryReplies == ReplyText \/ ReplyCalls \/ ReplyError

Recover ==
    /\ pc = "recover"
    /\ requests' = requests + 1
    /\ RecoveryReplies
    /\ UNCHANGED <<inputs, iteration, made>>

-----------------------------------------------------------------------------
(* The calls of one message are handled in order. *)

CoercionFails ==
    /\ pc = "calls" /\ calls # <<>>
    /\ CoercionRaises(Head(calls))
    /\ Return(Raised)
    /\ UNCHANGED <<inputs, iteration, messages, calls, made, requests>>

(* Returning here drops the calls behind this one; those before it have    *)
(* taken effect and are reported in tool_calls_made.                       *)
RequestApproval ==
    /\ pc = "calls" /\ calls # <<>>
    /\ ~CoercionRaises(Head(calls))
    /\ NeedsApproval(Head(calls))
    /\ Return(AskApproval(iteration + 1, Head(calls).tool))
    /\ UNCHANGED <<inputs, iteration, messages, calls, made, requests>>

DropsResult(id) == messages
AppendResult(id) == Append(messages, ToolMessage(id))

ExecuteCall ==
    /\ pc = "calls" /\ calls # <<>>
    /\ ~CoercionRaises(Head(calls))
    /\ ~NeedsApproval(Head(calls))
    /\ made' = Append(made, [tool |-> Head(calls).tool, approved |-> FALSE])
    /\ messages' = AppendResult(Head(calls).id)
    /\ calls' = Tail(calls)
    /\ UNCHANGED <<inputs, pc, iteration, requests, result>>

NextIteration == iteration + 1

LeavesSilently(i) == i < Budget /\ pc' = "ask" /\ UNCHANGED messages
AfterIteration(i) ==
    IF i < Budget
    THEN pc' = "ask" /\ UNCHANGED messages
    ELSE pc' = "synthesise" /\ messages' = Append(messages, Message("user"))

(* The end of the for body: the next iteration, or the forced synthesis. *)
EndIteration ==
    /\ pc = "calls" /\ calls = <<>>
    /\ iteration' = NextIteration
    /\ AfterIteration(NextIteration)
    /\ UNCHANGED <<inputs, calls, made, requests, result>>

(* The last request, without tools and outside any try. *)
Synthesise ==
    /\ pc = "synthesise"
    /\ requests' = requests + 1
    /\ Return(Answer(Budget)) \/ Return(Raised)
    /\ UNCHANGED <<inputs, iteration, messages, calls, made>>

Next ==
    \/ StartDirect \/ StartLoop
    \/ DirectRequest \/ DirectAgain
    \/ Request \/ Recover
    \/ CoercionFails \/ RequestApproval \/ ExecuteCall \/ EndIteration
    \/ Synthesise

(* run() executes in one thread that nothing blocks for ever: a request to *)
(* the model ends with a reply or, at the client's timeout, with an error. *)
Spec == Init /\ [][Next]_vars /\ WF_vars(Next)

-----------------------------------------------------------------------------
Roles == {"system", "user", "assistant", "tool"}
Ids == Nat \X Nat
MessageType == [role : Roles, ids : Seq(Ids)]
CallType == [id : Ids, tool : ToolNames, args : ArgShapes]
EntryType == [tool : ToolNames, approved : BOOLEAN]
ResultType == [kind : {"pending", "answered", "asking", "raised"},
               iterations : 0..5, tool : ToolNames \cup {NoTool}]

TypeOK ==
    /\ intent \in Intents
    /\ approved \in ToolNames \cup {NoTool}
    /\ pc \in {"start", "direct", "direct_again", "ask", "recover", "calls",
               "synthesise", "end"}
    /\ iteration \in 0..5
    /\ messages \in Seq(MessageType)
    /\ calls \in Seq(CallType)
    /\ made \in Seq(EntryType)
    /\ requests \in 0..12
    /\ result \in ResultType

(* The human gate: of all calls a run executes, only the first can be of a *)
(* gated tool, and then it is the very call a human approved.  The loop's  *)
(* own calls never are, whatever the model asks for and in whatever        *)
(* position of a message with several calls.                               *)
GateHolds ==
    \A i \in DOMAIN made :
        made[i].tool \in APPROVAL_REQUIRED_TOOLS =>
            i = 1 /\ made[i].approved /\ made[i].tool = approved

AboutToRequest == pc \in {"direct", "direct_again", "ask", "recover", "synthesise"}

CallsAnswered ==
    \A i \in DOMAIN messages : messages[i].role = "assistant" =>
        \A k \in DOMAIN messages[i].ids :
            /\ i + k \in DOMAIN messages
            /\ messages[i + k] = ToolMessage(messages[i].ids[k])

ResultsAsked ==
    \A k \in DOMAIN messages : messages[k].role = "tool" =>
        \/ k = 3 /\ approved # NoTool /\ messages[k] = ToolMessage(ApprovedId)
        \/ \E i \in 1..(k - 1) : /\ messages[i].role = "assistant"
                                 /\ k - i \in DOMAIN messages[i].ids
                                 /\ messages[i].ids[k - i] = messages[k].ids[1]

(* The conversation the model is given: every tool call of an assistant    *)
(* message is answered by the tool messages right behind it, in order,     *)
(* before the model is asked again; and a tool message answers a call, but *)
(* for the result of an approved call, which stands third and answers      *)
(* nothing, because the message that asked for it belonged to another run. *)
ConversationComplete == ResultsAsked /\ (AboutToRequest => CallsAnswered)

(* One iteration makes at most two requests (the second is the recovery    *)
(* from a refused call), and one run at most one more for the synthesis.   *)
(* The runs without tools make at most two.                                *)
RequestsBounded == requests <= 2 * Budget + (IF Budget = 0 THEN 2 ELSE 1)

(* A run ends: with an answer, with a request for approval, or by an       *)
(* exception that reaches its caller.                                      *)
Termination == <>(pc = "end")

Abstract == INSTANCE AgentRun WITH
    GatedTools <- APPROVAL_REQUIRED_TOOLS,
    status     <- IF result.kind = "pending" THEN "running" ELSE result.kind,
    attempts   <- [i \in DOMAIN made |-> made[i].tool],
    asked      <- result.tool

(* A run does what AgentRun promises the chat and approve handlers. *)
ImplementsAgentRun == Abstract!Spec
=============================================================================
