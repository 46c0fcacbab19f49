---------------------------- MODULE ProductSwitch ----------------------------
(***************************************************************************)
(* The products of a tenant switched on and off, with their projects, the  *)
(* job of each project's orchestrator, and the template roster a product   *)
(* gets when it is switched on.                                            *)
(*                                                                         *)
(* A request is a slot: it reads, changes and thereby locks other rows, and *)
(* commits.  The two unique indexes decide at the commit.                   *)
(***************************************************************************)
EXTENDS Integers, FiniteSets

CONSTANTS Products, Projects,
          Slots,        \* requests at a time (a bound)
          Ops,          \* the operations called
          Interleaved   \* FALSE: one request after the other

VARIABLES on,           \* products whose is_active is true
          deleted,      \* products with a deletion mark
          roster,       \* products that have their templates assigned
          owner,        \* the product of each project
          running,      \* projects whose status is active
          job,          \* the status of each orchestrator's job
          slot

vars == <<on, deleted, roster, owner, running, job, slot>>

None == "none"
Idle == [pc |-> "idle", op |-> None, target |-> None, was |-> FALSE, off |-> {},
         stop |-> {}, cancel |-> {}, why |-> None]

Of(ps) == {j \in Projects : owner[j] \in ps}

Init ==
    /\ on = {} /\ deleted = {} /\ roster = {} /\ running = {}
    /\ owner \in [Projects -> Products]
    /\ job = [j \in Projects |-> None]
    /\ slot = [s \in Slots |-> Idle]

Quiet == Interleaved \/ \A t \in Slots : slot[t].pc = "idle"
Called(op) == op \in Ops /\ Quiet
End(s, why) == slot' = [slot EXCEPT ![s] = [Idle EXCEPT !.why = why, !.op = slot[s].op,
                                                        !.target = slot[s].target]]
Store == <<on, deleted, roster, owner, running, job>>

(* Rows that a request has changed and not yet committed. *)
ProductFree(s, p) == \A t \in Slots \ {s} : ~(slot[t].pc = "cascaded" /\ p \in slot[t].off)
ProjectFree(s, j) == \A t \in Slots \ {s} : j \notin slot[t].stop

(* activate_product reads the product and the others that are active, the   *)
(* deleted ones included.                                                   *)
BeginActivate(s, p) ==
    /\ Called("activate") /\ slot[s].pc = "idle"
    /\ p \notin deleted
    /\ slot' = [slot EXCEPT ![s] = [Idle EXCEPT !.pc = "read", !.op = "activate", !.target = p,
                                                !.was = p \in on, !.off = on \ {p}]]
    /\ UNCHANGED Store

(* deactivate_product always runs its cascade; the flag is written only if *)
(* it was read as true.                                                     *)
BeginDeactivate(s, p) ==
    /\ Called("deactivate") /\ slot[s].pc = "idle"
    /\ p \notin deleted
    /\ slot' = [slot EXCEPT ![s] = [Idle EXCEPT !.pc = "read", !.op = "deactivate", !.target = p,
                                                !.was = p \in on, !.off = {p}]]
    /\ UNCHANGED Store

(* The flush of the products switched off and the two bulk updates, each of *)
(* which touches the rows it finds.                                         *)
ToStop(ps) == running \intersect Of(ps)

ToCancel(ps) == {j \in Of(ps) : job[j] = "active"}
Cascade(s) ==
    /\ slot[s].pc = "read"
    /\ \A p \in slot[s].off : ProductFree(s, p)
    /\ \A j \in ToStop(slot[s].off) : ProjectFree(s, j)
    /\ slot' = [slot EXCEPT ![s].pc = "cascaded", ![s].stop = ToStop(slot[s].off),
                            ![s].cancel = ToCancel(slot[s].off)]
    /\ UNCHANGED Store

(* Mutant of Conflict: without the unique index. *)
NoConflict(s) == FALSE

(* One commit.  The product's own flag is written only if it was read as    *)
(* false; another active product by then fails the whole.                   *)
Conflict(s) == ~slot[s].was /\ on \ (slot[s].off \union {slot[s].target}) # {}
Settle(s) ==
    /\ running' = running \ slot[s].stop
    /\ job' = [j \in Projects |-> IF j \in slot[s].cancel THEN "cancelled" ELSE job[j]]
CommitActivate(s) ==
    /\ slot[s].pc = "cascaded" /\ slot[s].op = "activate"
    /\ ProductFree(s, slot[s].target)
    /\ IF Conflict(s)
       THEN End(s, "refused") /\ UNCHANGED <<on, running, job>>
       ELSE /\ on' = (on \ slot[s].off) \union (IF slot[s].was THEN {} ELSE {slot[s].target})
            /\ Settle(s)
            /\ slot' = [slot EXCEPT ![s] = [Idle EXCEPT !.pc = "switched", !.op = "activate",
                                                        !.target = slot[s].target]]
    /\ UNCHANGED <<deleted, roster, owner>>
CommitDeactivate(s) ==
    /\ slot[s].pc = "cascaded" /\ slot[s].op = "deactivate"
    /\ on' = IF slot[s].was THEN on \ slot[s].off ELSE on
    /\ Settle(s)
    /\ End(s, "done")
    /\ UNCHANGED <<deleted, roster, owner>>

(* bulk_assign_all_templates, after the commit: the templates that have no   *)
(* assignment yet are read, then inserted under a unique constraint, whose   *)
(* error is none of those the caller catches.                                *)
ReadRoster(s) ==
    /\ slot[s].pc = "switched"
    /\ IF slot[s].target \in roster
       THEN End(s, "done")
       ELSE slot' = [slot EXCEPT ![s].pc = "assigning"]
    /\ UNCHANGED Store
Assign(s) ==
    /\ slot[s].pc = "assigning"
    /\ End(s, IF slot[s].target \in roster THEN "failed" ELSE "done")
    /\ roster' = roster \union {slot[s].target}
    /\ UNCHANGED <<on, deleted, owner, running, job>>

(* delete_product marks the product and switches it off, nothing else. *)
Delete(p) ==
    /\ Called("delete")
    /\ p \notin deleted /\ \A t \in Slots : ProductFree(t, p)
    /\ deleted' = deleted \union {p} /\ on' = on \ {p}
    /\ UNCHANGED <<roster, owner, running, job, slot>>

Restore(p) ==
    /\ Called("restore")
    /\ p \in deleted /\ \A t \in Slots : ProductFree(t, p)
    /\ deleted' = deleted \ {p}
    /\ UNCHANGED <<on, roster, owner, running, job, slot>>

(***************************************************************************)
(* activate_project stops the product's other project and starts this one, *)
(* whether or not the product is active; the orchestrator's fixture is     *)
(* made if the project has none.                                           *)
(***************************************************************************)
Siblings(j) == {k \in running \ {j} : owner[k] = owner[j]}
BeginStart(s, j) ==
    /\ Called("start") /\ slot[s].pc = "idle"
    /\ j \notin running
    /\ slot' = [slot EXCEPT ![s] = [Idle EXCEPT !.pc = "starting", !.op = "start", !.target = j,
                                                !.off = Siblings(j)]]
    /\ UNCHANGED Store
CommitStart(s) ==
    /\ slot[s].pc = "starting"
    /\ LET j == slot[s].target IN
       /\ \A k \in slot[s].off \union {j} : ProjectFree(s, k)
       /\ IF Siblings(j) \ slot[s].off # {}
          THEN End(s, "refused") /\ UNCHANGED <<running, job>>
          ELSE /\ running' = (running \ slot[s].off) \union {j}
               /\ job' = IF job[j] = None THEN [job EXCEPT ![j] = "active"] ELSE job
               /\ End(s, "done")
    /\ UNCHANGED <<on, deleted, roster, owner>>

(* deactivate_project; an orchestrator that never ran goes with its job. *)
Stop(j) ==
    /\ Called("stop")
    /\ j \in running /\ \A t \in Slots : ProjectFree(t, j)
    /\ running' = running \ {j}
    /\ \/ UNCHANGED job
       \/ job' = [job EXCEPT ![j] = None]
    /\ UNCHANGED <<on, deleted, roster, owner, slot>>

(* complete_job does not look at the job's status. *)
JobCompletes(j) ==
    /\ Called("complete")
    /\ job[j] \in {"active", "cancelled"} /\ \A t \in Slots : j \notin slot[t].cancel
    /\ job' = [job EXCEPT ![j] = "completed"]
    /\ UNCHANGED <<on, deleted, roster, owner, running, slot>>

Next ==
    \/ \E s \in Slots :
         \/ \E p \in Products : BeginActivate(s, p) \/ BeginDeactivate(s, p)
         \/ Cascade(s) \/ CommitActivate(s) \/ CommitDeactivate(s)
         \/ ReadRoster(s) \/ Assign(s)
         \/ \E j \in Projects : BeginStart(s, j)
         \/ CommitStart(s)
    \/ \E p \in Products : Delete(p) \/ Restore(p)
    \/ \E j \in Projects : Stop(j) \/ JobCompletes(j)

Spec == Init /\ [][Next]_vars

-----------------------------------------------------------------------------
(* Every variable has the values the code gives it. *)
TypeOK ==
    /\ on \subseteq Products /\ deleted \subseteq Products /\ roster \subseteq Products
    /\ owner \in [Projects -> Products]
    /\ running \subseteq Projects
    /\ job \in [Projects -> {None, "active", "cancelled", "completed"}]
    /\ \A s \in Slots : slot[s].pc \in {"idle", "read", "cascaded", "switched", "assigning",
                                        "starting"}

(* However activations, deactivations and deletions overlap, a tenant has at *)
(* most one active product, and a product at most one active project.        *)
OneActiveEach ==
    /\ Cardinality(on) <= 1
    /\ \A p \in Products : Cardinality(ToStop({p})) <= 1

(* The tenant has one active project: that of its active product.            *)
OneActiveProject == Cardinality(running) <= 1

(* A product in the trash has no active project. *)
DeletedStops == \A p \in deleted : ToStop({p}) = {}

(* A caller told that the activation failed finds it undone, and a template  *)
(* roster that could not be assigned is no reason to tell it.                *)
NoFalseFailure == \A s \in Slots : slot[s].why # "failed"
=============================================================================
