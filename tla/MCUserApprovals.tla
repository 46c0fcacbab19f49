-------------------------- MODULE MCUserApprovals --------------------------
(* Small instances of UserApprovals for TLC.                               *)
EXTENDS UserApprovals, TLC

CONSTANTS o, s1, p1, r1, r2, x1, x2

MCSymmetry == Permutations(Slots) \cup Permutations(Approvals)

(* Bound for the runs with two slots: the specialist is spawned and then   *)
(* left alone and the project stays open, so that the two transactions in  *)
(* flight meet on the orchestrator, whose approvals these are.             *)
OrchestratorOnly ==
    /\ project = "active"
    /\ status[s1] \in {"none", "waiting"}
    /\ \A t \in Slots : s1 \in slot[t].targets => slot[t].w.status = "waiting"
=============================================================================
