--------------------------- MODULE ChainContract ---------------------------
(***************************************************************************)
(* What the chain runs promise when requests are served one at a time,     *)
(* without the copies, the indexes and the conductors: a project is under  *)
(* one run at most, one that is deleted is enrolled no more, nobody joins  *)
(* a chain and nobody leaves it while it is under way, a run that ended is *)
(* not taken up again, and one is deleted only with all its members over.  *)
(***************************************************************************)
CONSTANTS Runs, Projects

VARIABLES
    stage,      \* of each run
    members,    \* the projects of each run
    over,       \* the projects that have finished or are being closed out
    gone        \* the projects that are deleted

vars == <<stage, members, over, gone>>

Init ==
    /\ stage = [r \in Runs |-> "none"]
    /\ members = [r \in Runs |-> {}]
    /\ over = {} /\ gone = {}

Held(r) == stage[r] \in {"open", "underway"}

Enrol(r, chain) ==
    /\ stage[r] = "none" /\ chain # {} /\ chain \cap gone = {}
    /\ \A q \in Runs : Held(q) => chain \cap members[q] = {}
    /\ stage' = [stage EXCEPT ![r] = "open"]
    /\ members' = [members EXCEPT ![r] = chain]
    /\ UNCHANGED <<over, gone>>

Leave(r, p) ==
    /\ stage[r] # "underway"
    /\ members' = [members EXCEPT ![r] = @ \ {p}]
    /\ UNCHANGED <<stage, over, gone>>

Set(r, from, to) ==
    /\ stage[r] \in from
    /\ stage' = [stage EXCEPT ![r] = to]
    /\ UNCHANGED <<members, over, gone>>
GetUnderWay(r) == Set(r, {"open"}, "underway")
End(r) == Set(r, {"open", "underway"}, "ended")

Purge(r) ==
    /\ Held(r) /\ members[r] \subseteq over
    /\ stage' = [stage EXCEPT ![r] = "purged"]
    /\ members' = [members EXCEPT ![r] = {}]
    /\ UNCHANGED <<over, gone>>

Finish(p) == over' = over \cup {p} /\ UNCHANGED <<stage, members, gone>>
Delete(p) == over' = over \cup {p} /\ gone' = gone \cup {p} /\ UNCHANGED <<stage, members>>

Next ==
    \/ \E r \in Runs :
         \/ \E chain \in SUBSET Projects : Enrol(r, chain)
         \/ \E p \in Projects : Leave(r, p)
         \/ GetUnderWay(r) \/ End(r) \/ Purge(r)
    \/ \E p \in Projects : Finish(p) \/ Delete(p)

Spec == Init /\ [][Next]_vars
=============================================================================
