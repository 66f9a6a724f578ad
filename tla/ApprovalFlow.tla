---------------------------- MODULE ApprovalFlow ----------------------------
(***************************************************************************)
(* The path of an approval: the Streamlit sessions (ui/components), the    *)
(* chat and approve handlers (api/routers/chat.py) and the agent runs they *)
(* start, each run taken as AgentRun describes it.  The server keeps no    *)
(* record of what it asked approval for: a request to /chat/approve names  *)
(* the call itself, and the only memory of it is the session's             *)
(* approval_pending.  A request may never arrive, and a session may give   *)
(* up on a request that the server goes on serving (timeouts of 120 and    *)
(* 60 seconds, a broken connection, a rerun of the script).                *)
(***************************************************************************)
EXTENDS Integers, Sequences, FiniteSets

CONSTANTS Sessions,     \* browser sessions of the UI
          MaxRequests   \* bound: requests the sessions send altogether

ASSUME RequestsAssumption == MaxRequests \in Nat

(* A call that needs approval is known by the chat request whose run asked *)
(* for it; 0 is no call.                                                   *)
Approvals == 1..MaxRequests
None == 0

VARIABLES pending,   \* per session: approval_pending, a call or None
          waiting,   \* per session: the request it waits for, or None
          requests,  \* the requests sent, in order
          allowed,   \* history: how often Allow was clicked for a call
          executed,  \* history: how often a call was executed
          unanswered,\* history: Allow clicks whose outcome the session never learnt
          told       \* history: what the session told its user about a call

uiVars == <<pending, waiting, told>>
vars == <<uiVars, requests, allowed, executed, unanswered>>

(* A request: who sent it, what it asks for ("chat", "allow", "deny"), the *)
(* call it decides on, how far it got and how it was answered.             *)
Request(s, kind, a) ==
    [session |-> s, kind |-> kind, call |-> a, stage |-> "sent", reply |-> "none"]

(* The arguments the model gave a call: an object, or JSON of another      *)
(* form, which ToolApprovalRequest refuses (422).                          *)
AsksWellFormed(i) == requests[i].reply = "ask"
Asks(i) == requests[i].reply \in {"ask", "ask_malformed"}

Init ==
    /\ pending = [s \in Sessions |-> None]
    /\ waiting = [s \in Sessions |-> None]
    /\ requests = <<>>
    /\ allowed = [a \in Approvals |-> 0]
    /\ executed = [a \in Approvals |-> 0]
    /\ unanswered = [a \in Approvals |-> 0]
    /\ told = [a \in Approvals |-> "nothing"]

-----------------------------------------------------------------------------
(* The session's actions.  The script waits for the answer of the request  *)
(* it sent before the user can do anything else.                           *)

Send(s, kind, a) ==
    /\ waiting[s] = None
    /\ Len(requests) < MaxRequests
    /\ requests' = Append(requests, Request(s, kind, a))
    /\ waiting' = [waiting EXCEPT ![s] = Len(requests) + 1]

(* The chat input stays usable while an approval is pending. *)
SendChat(s) ==
    /\ Send(s, "chat", None)
    /\ UNCHANGED <<pending, told, allowed, executed, unanswered>>

ClickAllow(s) ==
    /\ pending[s] # None
    /\ Send(s, "allow", pending[s])
    /\ allowed' = [allowed EXCEPT ![pending[s]] = @ + 1]
    /\ UNCHANGED <<pending, told, executed, unanswered>>

ClickDeny(s) ==
    /\ pending[s] # None
    /\ Send(s, "deny", pending[s])
    /\ UNCHANGED <<pending, told, allowed, executed, unanswered>>

HandledAgain(s) == UNCHANGED waiting
Handled(s) == waiting' = [waiting EXCEPT ![s] = None]

KeepsPending(s) == pending
Settled(s) == [pending EXCEPT ![s] = None]

Answered(s) == waiting[s] # None /\ requests[waiting[s]].stage = "done"

(* _stream_chat and what render_chat_panel does with its result: a request *)
(* for approval replaces one that is still pending; an exception (the run  *)
(* raised, the stream broke) leaves everything as it was.                  *)
ReceiveChat(s) ==
    /\ Answered(s)
    /\ requests[waiting[s]].kind = "chat"
    /\ waiting' = [waiting EXCEPT ![s] = None]
    /\ pending' = [pending EXCEPT ![s] = IF Asks(waiting[s]) THEN waiting[s] ELSE @]
    /\ UNCHANGED <<told, requests, allowed, executed, unanswered>>

(* The answer of /chat/approve is taken for success whatever its status,   *)
(* if it is JSON; a server error (500) is plain text, which fails to parse *)
(* and leaves the approval pending.                                        *)
ReceiveDecision(s) ==
    LET r == requests[waiting[s]] IN
    /\ Answered(s)
    /\ r.kind \in {"allow", "deny"}
    /\ Handled(s)
    /\ IF r.reply = "raised"
       THEN /\ unanswered' = [unanswered EXCEPT ![r.call] = @ + 1]
            /\ UNCHANGED <<pending, told>>
       ELSE /\ pending' = Settled(s)
            /\ told' = [told EXCEPT ![r.call] =
                           IF r.kind = "allow" THEN "executed" ELSE "denied"]
            /\ UNCHANGED unanswered
    /\ UNCHANGED <<requests, allowed, executed>>

GiveUpSettles(s) == [pending EXCEPT ![s] = None]
GiveUpPending(s) == pending

(* A timeout or a lost connection: an error is shown and nothing else      *)
(* changes.  The server is not told.                                       *)
GiveUp(s) ==
    /\ waiting[s] # None
    /\ Handled(s)
    /\ LET r == requests[waiting[s]] IN
       unanswered' = IF r.kind = "allow"
                     THEN [unanswered EXCEPT ![r.call] = @ + 1] ELSE unanswered
    /\ pending' = GiveUpPending(s)
    /\ UNCHANGED <<told, requests, allowed, executed>>

-----------------------------------------------------------------------------
(* The server's actions.  Runs execute in a thread pool, so requests are   *)
(* served in any order.                                                    *)

SetStage(i, stage, reply) ==
    requests' = [requests EXCEPT ![i] = [@ EXCEPT !.stage = stage, !.reply = reply]]

Sent(i, kind) ==
    /\ i \in DOMAIN requests
    /\ requests[i].stage = "sent"
    /\ requests[i].kind = kind

Lose(i) ==
    /\ i \in DOMAIN requests
    /\ requests[i].stage = "sent"
    /\ SetStage(i, "lost", "none")
    /\ UNCHANGED <<uiVars, allowed, executed, unanswered>>

(* A chat run executes ungated tools only (AgentRun). *)
ServeChat(i) ==
    /\ Sent(i, "chat")
    /\ \E reply \in {"text", "ask", "ask_malformed", "raised"} :
           SetStage(i, "done", reply)
    /\ UNCHANGED <<uiVars, allowed, executed, unanswered>>

(* approve_tool returns before it starts a run. *)
RunsBeforeDenying(a) == [executed EXCEPT ![a] = @ + 1]
RunsNothing(a) == executed

ServeDeny(i) ==
    /\ Sent(i, "deny")
    /\ IF AsksWellFormed(requests[i].call)
       THEN SetStage(i, "done", "denied") /\ executed' = RunsNothing(requests[i].call)
       ELSE SetStage(i, "done", "invalid") /\ UNCHANGED executed
    /\ UNCHANGED <<uiVars, allowed, unanswered>>

(* The run that was started with the approval executes the call first. *)
ServeAllow(i) ==
    /\ Sent(i, "allow")
    /\ IF AsksWellFormed(requests[i].call)
       THEN /\ SetStage(i, "executing", "none")
            /\ executed' = [executed EXCEPT ![requests[i].call] = @ + 1]
       ELSE /\ SetStage(i, "done", "invalid")
            /\ UNCHANGED executed
    /\ UNCHANGED <<uiVars, allowed, unanswered>>

DiesWithClient(i) == waiting[requests[i].session] = i
OutlivesClient(i) == TRUE

(* The rest of that run: it answers, or asks for another approval, which   *)
(* the handler drops ("ask_dropped"), or raises.                           *)
EndAllow(i) ==
    /\ i \in DOMAIN requests
    /\ requests[i].stage = "executing"
    /\ OutlivesClient(i)
    /\ \E reply \in {"executed", "ask_dropped", "raised"} : SetStage(i, "done", reply)
    /\ UNCHANGED <<uiVars, allowed, executed, unanswered>>

Ui(s) == \/ SendChat(s) \/ ClickAllow(s) \/ ClickDeny(s)
         \/ ReceiveChat(s) \/ ReceiveDecision(s) \/ GiveUp(s)
Server(i) == Lose(i) \/ ServeChat(i) \/ ServeDeny(i) \/ ServeAllow(i) \/ EndAllow(i)

Next == \/ \E s \in Sessions : Ui(s)
        \/ \E i \in 1..MaxRequests : Server(i)

(* A session's HTTP client always comes back: with the answer, or with a   *)
(* timeout.  The server finishes what it starts (AgentLoop terminates).    *)
(* Nobody has to click or to chat.                                         *)
Fairness ==
    /\ \A s \in Sessions : WF_vars(ReceiveChat(s) \/ ReceiveDecision(s) \/ GiveUp(s))
    /\ \A i \in 1..MaxRequests : WF_vars(Server(i))

Spec == Init /\ [][Next]_vars /\ Fairness

-----------------------------------------------------------------------------
Replies == {"none", "text", "ask", "ask_malformed", "raised", "denied", "invalid",
            "executed", "ask_dropped"}

TypeOK ==
    /\ pending \in [Sessions -> Approvals \cup {None}]
    /\ waiting \in [Sessions -> 0..MaxRequests]
    /\ requests \in Seq([session : Sessions, kind : {"chat", "allow", "deny"},
                         call : Approvals \cup {None},
                         stage : {"sent", "lost", "executing", "done"}, reply : Replies])
    /\ Len(requests) <= MaxRequests
    /\ allowed \in [Approvals -> 0..MaxRequests]
    /\ executed \in [Approvals -> 0..MaxRequests]
    /\ unanswered \in [Approvals -> 0..MaxRequests]
    /\ told \in [Approvals -> {"nothing", "executed", "denied"}]

(* The Allow button a session shows belongs to a call that a run asked     *)
(* approval for in this session and that the user has not been told the    *)
(* end of: no old approval comes back, none crosses sessions.              *)
GateShowsOpenCall ==
    \A s \in Sessions : pending[s] # None =>
        /\ pending[s] \in DOMAIN requests
        /\ requests[pending[s]].session = s
        /\ Asks(pending[s])
        /\ told[pending[s]] = "nothing"

(* A call runs more than once only if the outcome of all runs but the last *)
(* never reached the session that allowed it.                              *)
RepeatsNeedLostAnswers ==
    \A a \in Approvals : executed[a] <= unanswered[a] + 1

(* What the user is told is true as long as no answer was lost: "executed" *)
(* for a well-formed call means that it ran exactly once, "denied" that it *)
(* never did.                                                              *)
ToldTheTruth ==
    \A a \in Approvals :
        /\ told[a] = "executed" /\ AsksWellFormed(a) /\ unanswered[a] = 0 => executed[a] = 1
        /\ told[a] = "denied" /\ unanswered[a] = 0 => executed[a] = 0

(* approval_gate.py tells the user who denies a call that no changes were  *)
(* made.                                                                   *)
DeniedMeansUnchanged ==
    \A a \in Approvals : told[a] = "denied" => executed[a] = 0

(* An approval leaves a session only when the user is told its end, or     *)
(* when a later request for approval takes its place: an error, however it *)
(* arises, leaves the buttons where they were.                             *)
KeepsApprovals ==
    \A s \in Sessions : pending[s] # None =>
        pending'[s] # None \/ told'[pending[s]] # "nothing"
ApprovalKept == [][KeepsApprovals]_vars

(* A request that arrived is served to its end even when nobody waits for  *)
(* it any more.                                                            *)
RequestServed ==
    \A i \in 1..MaxRequests :
        i \in DOMAIN requests ~>
            (i \in DOMAIN requests /\ requests[i].stage \in {"done", "lost"})

Gate == INSTANCE HumanGate

(* The code keeps the promise of the human gate. *)
ImplementsHumanGate == Gate!Spec
=============================================================================
