----------------------------- MODULE MCAgentLoop -----------------------------
(***************************************************************************)
(* AgentLoop for TLC: a tool whose arguments are coerced, called well and  *)
(* badly, and the gated tool.                                              *)
(***************************************************************************)
EXTENDS AgentLoop

MCToolCalls ==
    {[tool |-> "get_lineage_graph", args |-> "accepted"],
     [tool |-> "get_lineage_graph", args |-> "refused"],
     [tool |-> "trigger_dq_check",  args |-> "accepted"]}
=============================================================================
