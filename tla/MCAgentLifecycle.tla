------------------------- MODULE MCAgentLifecycle -------------------------
(* Small instances of AgentLifecycle for TLC.  Specialists and posts are   *)
(* interchangeable; the orchestrator is not.                               *)
EXTENDS AgentLifecycle, TLC

CONSTANTS o, s1, p1, p2, r1, r2

\* Without a monitor time plays no part: nothing ages, nobody falls silent.
MCNext == Next /\ UNCHANGED <<age, old>>
MCSpec == Init /\ [][MCNext]_vars

MCSymmetry == Permutations(Posts) \cup Permutations(Slots)
=============================================================================
