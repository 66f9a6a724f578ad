------------------------------ MODULE AgentRun ------------------------------
(***************************************************************************)
(* What one call of AgentLoop.run promises to its callers, the chat and    *)
(* approve handlers of api/routers/chat.py: which tools it attempts, in    *)
(* which order, and how it can end.  AgentLoop implements it and assumes   *)
(* that NoTool is not the name of a tool.                                  *)
(*                                                                         *)
(* A gated tool is attempted only as the very first call of a run that     *)
(* was started with an approval for it.  A run that meets any other call   *)
(* of a gated tool stops, asks for approval, and attempts nothing more.    *)
(***************************************************************************)
EXTENDS Sequences

CONSTANTS ToolNames,   \* the names a tool call can carry
          GatedTools,  \* the tools that need a human's approval
          NoTool       \* no tool: the run carries no approval, or asks for none

VARIABLES approved,  \* the tool whose approval started the run, or NoTool
          status,    \* "running", "answered", "asking" for approval or "raised"
          attempts,  \* the tools whose execution was attempted, in order
          asked      \* the gated tool the run asks approval for, or NoTool

vars == <<approved, status, attempts, asked>>

Init ==
    /\ approved \in ToolNames \cup {NoTool}
    /\ status = "running"
    /\ attempts = <<>>
    /\ asked = NoTool

(* The approved call is executed before anything else, and only once. *)
ExecuteApproved ==
    /\ status = "running"
    /\ approved # NoTool
    /\ attempts = <<>>
    /\ attempts' = <<approved>>
    /\ UNCHANGED <<approved, status, asked>>

Execute(tool) ==
    /\ status = "running"
    /\ tool \notin GatedTools
    /\ approved = NoTool \/ attempts # <<>>
    /\ attempts' = Append(attempts, tool)
    /\ UNCHANGED <<approved, status, asked>>

Ask(tool) ==
    /\ status = "running"
    /\ tool \in GatedTools
    /\ approved = NoTool \/ attempts # <<>>
    /\ status' = "asking"
    /\ asked' = tool
    /\ UNCHANGED <<approved, attempts>>

(* An approved run never ends without having executed what was approved. *)
End ==
    /\ status = "running"
    /\ approved = NoTool \/ attempts # <<>>
    /\ status' \in {"answered", "raised"}
    /\ UNCHANGED <<approved, attempts, asked>>

Next ==
    \/ ExecuteApproved
    \/ \E tool \in ToolNames : Execute(tool) \/ Ask(tool)
    \/ End

Safety == Init /\ [][Next]_vars

Spec == Safety /\ WF_vars(Next)
=============================================================================
