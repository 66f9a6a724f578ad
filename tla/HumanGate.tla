----------------------------- MODULE HumanGate -----------------------------
(***************************************************************************)
(* What the approval gate promises: a gated call takes effect only on the  *)
(* strength of a decision to allow it, a decision is used at most once,    *)
(* and a decision to deny allows nothing.  It does not promise that a call *)
(* takes effect at most once: a human who is not told what became of the   *)
(* first decision can allow the same call again.                           *)
(***************************************************************************)
EXTENDS Naturals

CONSTANT Approvals  \* the calls the agent may ask approval for

VARIABLES allowed,  \* how often each was allowed
          executed  \* how often each was executed

gateVars == <<allowed, executed>>

Init ==
    /\ allowed = [a \in Approvals |-> 0]
    /\ executed = [a \in Approvals |-> 0]

Allow(a) ==
    /\ allowed' = [allowed EXCEPT ![a] = @ + 1]
    /\ UNCHANGED executed

Execute(a) ==
    /\ executed[a] < allowed[a]
    /\ executed' = [executed EXCEPT ![a] = @ + 1]
    /\ UNCHANGED allowed

Next == \E a \in Approvals : Allow(a) \/ Execute(a)

Spec == Init /\ [][Next]_gateVars
=============================================================================
