---------------------------- MODULE MCHandlers ----------------------------
(* Small instances of AgentLifecycle for TLC: one request beside the       *)
(* health monitor, and two requests in flight at once.  `part' is the      *)
(* instance that moves in a behaviour; their state spaces add up.          *)
EXTENDS AgentLifecycle, TLC

CONSTANTS Callers,     \* the requests in flight at once
          CallerRests  \* the statuses they report

VARIABLE part

\* AgentLifecycle itself is the instance beside the monitor.
Requests == INSTANCE AgentLifecycle
    WITH Slots <- Callers, Monitors <- {}, Rests <- CallerRests

MCInit ==
    /\ part \in {"requests", "health"}
    /\ IF part = "health" THEN Init ELSE Requests!Init

MCNext ==
    /\ UNCHANGED part
    /\ \/ part = "health" /\ Next
       \/ part = "requests" /\ Requests!Next

MCSpec == MCInit /\ [][MCNext]_<<vars, part>>

MCSymmetry == Permutations(Callers)

\* Completion and the health monitor leave the two rows of an agent in step.
WatchedJobsFollow == part = "health" => JobFollowsExecution
===========================================================================
