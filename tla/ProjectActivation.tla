------------------------- MODULE ProjectActivation -------------------------
(***************************************************************************)
(* The projects of one product: which of them is active, how far each is   *)
(* staged, whether its implementation is launched, and the rows of its     *)
(* orchestrator and specialists that these operations create, resume,      *)
(* decommission and delete.                                                *)
(*                                                                         *)
(* A request is a slot.  It reads the project and the executions it is     *)
(* about, decides, and writes them with its commit; other requests may     *)
(* commit in between.  The session writes the columns that differ from     *)
(* what it read (Merge), and an execution by its id.  An activation and a  *)
(* restage then look for an orchestrator and create a fixture in a second  *)
(* transaction; the staging prompt creates one and marks the project       *)
(* staged in two.  Without Interleaved and with one slot the calls are      *)
(* served one at a time.                                                   *)
(***************************************************************************)
EXTENDS Naturals, FiniteSets

CONSTANTS
    Projects,       \* the projects of the product
    ChainProjects,  \* those driven by a chain, which launch without a press
    Orchs,          \* execution rows of orchestrators (a bound)
    Workers,        \* execution rows of specialists (a bound)
    NoProject,
    Slots,          \* requests in flight
    Interleaved,    \* other calls are served while a request is in flight
    Ops             \* the operations that are called

ASSUME ProjectsAssumption ==
    /\ ChainProjects \subseteq Projects
    /\ NoProject \notin Projects
    /\ Orchs \cap Workers = {}
    /\ Interleaved \in BOOLEAN

VARIABLES
    project,  \* rows of projects
    owner,    \* the project of each execution, NoProject when there is no row
    st,       \* agent_executions.status
    ran,      \* agent_executions.working_started_at is set
    slot      \* requests in flight

vars == <<project, owner, st, ran, slot>>

Execs == Orchs \cup Workers
Statuses == {"inactive", "active", "completed", "cancelled", "deleted"}
Immutable == {"completed", "cancelled"}
Rows == [status : Statuses, deleted : BOOLEAN, launched : BOOLEAN, ever : BOOLEAN,
         staging : {"none", "staging", "staged", "complete"}]
NewRow == [status |-> "inactive", deleted |-> FALSE, launched |-> FALSE, ever |-> FALSE,
           staging |-> "none"]
Phases == {"idle", "begun", "ensure", "create", "generate", "mark"}
Idle == [phase |-> "idle", op |-> "none", p |-> NoProject, read |-> NewRow, new |-> NewRow,
         rivals |-> {}, execs |-> {}]

TypeOK ==
    /\ project \in [Projects -> Rows]
    /\ owner \in [Execs -> Projects \cup {NoProject}]
    /\ st \in [Execs -> {"none", "waiting", "working", "complete", "decommissioned"}]
    /\ ran \in [Execs -> BOOLEAN]
    /\ \A e \in Execs : st[e] = "none" <=> owner[e] = NoProject
    /\ slot \in [Slots -> [phase : Phases, op : Ops \cup {"none"},
                           p : Projects \cup {NoProject}, read : Rows, new : Rows,
                           rivals : SUBSET Projects, execs : SUBSET Execs]]

Init ==
    /\ project = [p \in Projects |-> NewRow]
    /\ owner = [e \in Execs |-> NoProject]
    /\ st = [e \in Execs |-> "none"]
    /\ ran = [e \in Execs |-> FALSE]
    /\ slot = [t \in Slots |-> Idle]

-----------------------------------------------------------------------------
Of(p) == {e \in Execs : owner[e] = p}
Live(p) == {o \in Orchs \cap Of(p) : st[o] # "decommissioned"}
ActiveExecs(p) == {e \in Of(p) : st[e] \in {"waiting", "working"}}
LiveWorkers(p) == {w \in Workers \cap Of(p) : st[w] # "decommissioned"}
(* Mutant of NeverRun: only the specialists are looked at.                  *)
NeverStaffed(p) == LiveWorkers(p) = {}
NeverRun(p) ==
    /\ \A o \in Live(p) : st[o] = "waiting" /\ ~ran[o]
    /\ LiveWorkers(p) = {}

(* Rows no request still refers to.  A request that may create one is       *)
(* admitted while a row is left for it and for every request in flight.     *)
Unused == {o \in Orchs : st[o] = "none" /\ \A t \in Slots : o \notin slot[t].execs}
Admitted == Cardinality(Unused) > Cardinality({t \in Slots : slot[t].phase # "idle"})

(* The columns a session changed, laid over the row as it is now.           *)
Merge(now, read, new) ==
    [c \in DOMAIN now |-> IF new[c] = read[c] THEN now[c] ELSE new[c]]

Rivals(p) == {q \in Projects \ {p} : project[q].status = "active"}

(* The calls of one transaction are admitted between requests, or at any    *)
(* moment.                                                                  *)
Served == Interleaved \/ \A t \in Slots : slot[t].phase = "idle"

Begin(t, op, p, new, execs) ==
    /\ op \in Ops
    /\ slot[t].phase = "idle"
    /\ op \in {"activate", "restage"} => Admitted
    /\ slot' = [slot EXCEPT ![t] =
                  [phase |-> "begun", op |-> op, p |-> p, read |-> project[p], new |-> new,
                   rivals |-> IF op = "activate" THEN Rivals(p) ELSE {}, execs |-> execs]]
    /\ UNCHANGED <<project, owner, st, ran>>

Activate(t, p) ==
    /\ project[p].status = "inactive"
    /\ Begin(t, "activate", p, [project[p] EXCEPT !.status = "active"], {})

(* An orchestrator that never ran goes, with the traces of its staging.     *)
Deactivate(t, p) ==
    /\ project[p].status = "active"
    /\ IF Live(p) # {} /\ NeverRun(p)
         THEN Begin(t, "deactivate", p,
                    [project[p] EXCEPT !.status = "inactive", !.staging = "none",
                                       !.launched = FALSE], Live(p))
         ELSE Begin(t, "deactivate", p, [project[p] EXCEPT !.status = "inactive"], {})

(* The forced closeout of the dashboard.  An active orchestrator other than *)
(* an idle leftover keeps every agent as it is; the project completes.      *)
Complete(t, p) ==
    LET callers == Live(p) \cap ActiveExecs(p)
        leftover == \A o \in callers : st[o] = "waiting" /\ ActiveExecs(p) \cap Workers = {}
    IN  /\ Cardinality(callers) <= 1
        /\ Begin(t, "complete", p, [project[p] EXCEPT !.status = "completed"],
                 IF leftover THEN ActiveExecs(p) ELSE {})

ContinueWorking(t, p) ==
    /\ project[p].status = "completed"
    /\ Begin(t, "continue", p, [project[p] EXCEPT !.status = "inactive"],
             {e \in Of(p) : st[e] = "decommissioned"})

Delete(t, p) ==
    /\ ~project[p].deleted
    /\ Begin(t, "delete", p, [project[p] EXCEPT !.status = "deleted", !.deleted = TRUE],
             ActiveExecs(p))

Restore(t, p) ==
    Begin(t, "restore", p, [project[p] EXCEPT !.status = "inactive", !.deleted = FALSE], {})

ResetToPrestage(t, p) ==
    Begin(t, "reset", p, [NewRow EXCEPT !.deleted = project[p].deleted], Of(p))

UpdateMission(t, p) ==
    /\ project[p].status \notin Immutable
    /\ Begin(t, "mission", p,
             [project[p] EXCEPT !.staging = IF @ = "complete" THEN @ ELSE "staging"], {})

Unstage(t, p) ==
    /\ project[p].staging = "staged"
    /\ Begin(t, "unstage", p, [project[p] EXCEPT !.staging = "none"], {})

(* Mutant of Restage: a launched project is restaged too.                   *)
RestageLaunched(t, p) ==
    /\ project[p].staging \in {"staging", "complete"}
    /\ Cardinality(Live(p)) <= 1
    /\ \A o \in Live(p) : st[o] \in {"waiting", "complete"}
    /\ Begin(t, "restage", p, [project[p] EXCEPT !.staging = "none", !.launched = FALSE], Live(p))

Restage(t, p) ==
    /\ project[p].staging \in {"staging", "complete"}
    /\ ~(project[p].staging = "complete" /\ project[p].launched)
    /\ Cardinality(Live(p)) <= 1
    /\ \A o \in Live(p) : st[o] \in {"waiting", "complete"}
    /\ Begin(t, "restage", p, [project[p] EXCEPT !.staging = "none", !.launched = FALSE], Live(p))

CancelStaging(t, p) ==
    /\ project[p].staging = "staging"
    /\ project[p].status = "inactive"
    /\ Begin(t, "cancel_staging", p, [project[p] EXCEPT !.status = "cancelled"], {})

LaunchImplementation(t, p) ==
    /\ ~project[p].launched
    /\ project[p].staging = "complete"
    /\ Begin(t, "launch", p, [project[p] EXCEPT !.launched = TRUE, !.ever = TRUE], {})

-----------------------------------------------------------------------------
(* What a commit makes of the executions the request chose.                 *)
Fate(op) ==
    CASE op \in {"deactivate", "reset"} -> "none"
      [] op = "continue" -> "waiting"
      [] OTHER -> "decommissioned"

(* Mutant of Written: the UPDATE matches the row as it was read, and nobody *)
(* looks at how many rows it changed.                                       *)
WrittenIfUnchanged(s) ==
    [q \in Projects |-> IF q = s.p THEN IF project[q] = s.read THEN s.new ELSE project[q]
                        ELSE IF q \in s.rivals THEN [project[q] EXCEPT !.status = "inactive"]
                        ELSE project[q]]

Written(s) ==
    [q \in Projects |-> IF q = s.p THEN Merge(project[q], s.read, s.new)
                        ELSE IF q \in s.rivals THEN [project[q] EXCEPT !.status = "inactive"]
                        ELSE project[q]]

(* idx_project_single_active_per_product.                                   *)
UniqueActive(rows) ==
    \A p, q \in Projects : rows[p].status = "active" /\ rows[q].status = "active" => p = q

(* An UPDATE of a row that is gone fails; a bulk DELETE does not.           *)
Writable(s) ==
    /\ UniqueActive(Written(s))
    /\ Fate(s.op) = "none" \/ \A e \in s.execs : st[e] # "none"

AfterCommit(op) == IF op \in {"activate", "restage"} THEN "ensure" ELSE "idle"

Commit(t) ==
    LET s == slot[t] IN
    /\ s.phase = "begun"
    /\ Writable(s)
    /\ project' = Written(s)
    /\ st' = [e \in Execs |-> IF e \in s.execs THEN Fate(s.op) ELSE st[e]]
    /\ owner' = [e \in Execs |-> IF st'[e] = "none" THEN NoProject ELSE owner[e]]
    /\ ran' = [e \in Execs |-> ran[e] /\ st'[e] # "none"]
    /\ slot' = [slot EXCEPT ![t] = IF AfterCommit(s.op) = "idle" THEN Idle
                                   ELSE [Idle EXCEPT !.phase = "ensure", !.op = s.op, !.p = s.p]]

Rollback(t) ==
    /\ slot[t].phase = "begun"
    /\ ~Writable(slot[t])
    /\ slot' = [slot EXCEPT ![t] = Idle]
    /\ UNCHANGED <<project, owner, st, ran>>

(* The lookup of the fixture; with two orchestrators it raises.             *)
EnsureFixture(t) ==
    /\ slot[t].phase = "ensure"
    /\ slot' = [slot EXCEPT ![t] = IF Live(slot[t].p) = {} THEN [@ EXCEPT !.phase = "create"]
                                   ELSE Idle]
    /\ UNCHANGED <<project, owner, st, ran>>

AddOrchestrator(p) ==
    \E o \in Unused :
        /\ owner' = [owner EXCEPT ![o] = p]
        /\ st' = [st EXCEPT ![o] = "waiting"]

CreateFixture(t) ==
    /\ slot[t].phase = "create"
    /\ AddOrchestrator(slot[t].p)
    /\ slot' = [slot EXCEPT ![t] = Idle]
    /\ UNCHANGED <<project, ran>>

(* The staging prompt: refused while staged or staging.  A launched project *)
(* is staged again only when the callers do so.                             *)
StagePrompt(t, p) ==
    /\ "stage" \in Ops
    /\ slot[t].phase = "idle"
    /\ Admitted
    /\ project[p].staging \notin {"staged", "staging"}
    /\ project[p].launched => "stage_launched" \in Ops
    /\ slot' = [slot EXCEPT ![t] =
                  [Idle EXCEPT !.phase = IF Live(p) = {} THEN "generate" ELSE "mark",
                               !.op = "stage", !.p = p, !.read = project[p]]]
    /\ UNCHANGED <<project, owner, st, ran>>

GenerateNew(t) ==
    LET p == slot[t].p IN
    /\ slot[t].phase = "generate"
    /\ AddOrchestrator(p)
    /\ project' = [project EXCEPT ![p].staging = "staging"]
    /\ slot' = [slot EXCEPT ![t].phase = "mark"]
    /\ UNCHANGED ran

MarkStaged(t) ==
    /\ slot[t].phase = "mark"
    /\ project' = [project EXCEPT ![slot[t].p].staging = "staged"]
    /\ slot' = [slot EXCEPT ![t] = Idle]
    /\ UNCHANGED <<owner, st, ran>>

(* One bulk UPDATE each.                                                    *)
Cancel(p) ==
    /\ Served
    /\ "cancel" \in Ops
    /\ project' = [project EXCEPT ![p].status = "cancelled"]
    /\ UNCHANGED <<owner, st, ran, slot>>

DeactivateProduct ==
    /\ Served
    /\ "deactivate_product" \in Ops
    /\ \E p \in Projects : project[p].status = "active"
    /\ project' = [p \in Projects |-> IF project[p].status = "active"
                                        THEN [project[p] EXCEPT !.status = "inactive"]
                                        ELSE project[p]]
    /\ UNCHANGED <<owner, st, ran, slot>>

-----------------------------------------------------------------------------
(* The agents, as far as the operations above depend on them.               *)
GetJobMission(e) ==
    /\ Served
    /\ st[e] = "waiting"
    /\ e \in Workers => project[owner[e]].launched
    /\ st' = [st EXCEPT ![e] = "working"]
    /\ ran' = [ran EXCEPT ![e] = TRUE]
    /\ UNCHANGED <<project, owner, slot>>

SpawnJob(o, w) ==
    /\ Served
    /\ st[o] = "working"
    /\ st[w] = "none"
    /\ \A t \in Slots : w \notin slot[t].execs
    /\ project[owner[o]].status \notin Immutable
    /\ st' = [st EXCEPT ![w] = "waiting"]
    /\ owner' = [owner EXCEPT ![w] = owner[o]]
    /\ UNCHANGED <<project, ran, slot>>

(* The staging end; a member of a chain is launched by it.                  *)
EndStaging(o) ==
    LET p == owner[o] IN
    /\ Served
    /\ st[o] = "working"
    /\ ~project[p].launched
    /\ Workers \cap Of(p) # {}
    /\ st' = [st EXCEPT ![o] = "waiting"]
    /\ project' = [project EXCEPT ![p].staging = "complete", ![p].launched = p \in ChainProjects]
    /\ UNCHANGED <<owner, ran, slot>>

CompleteJob(e) ==
    /\ Served
    /\ st[e] = "working"
    /\ e \in Orchs => project[owner[e]].launched
    /\ st' = [st EXCEPT ![e] = "complete"]
    /\ UNCHANGED <<project, owner, ran, slot>>

-----------------------------------------------------------------------------
Request(t, p) ==
    \/ Activate(t, p)
    \/ Deactivate(t, p)
    \/ Complete(t, p)
    \/ ContinueWorking(t, p)
    \/ Delete(t, p)
    \/ Restore(t, p)
    \/ ResetToPrestage(t, p)
    \/ UpdateMission(t, p)
    \/ Unstage(t, p)
    \/ Restage(t, p)
    \/ CancelStaging(t, p)
    \/ LaunchImplementation(t, p)
    \/ StagePrompt(t, p)

Serve(t) ==
    \/ Commit(t)
    \/ Rollback(t)
    \/ EnsureFixture(t)
    \/ CreateFixture(t)
    \/ GenerateNew(t)
    \/ MarkStaged(t)

Agent(e) ==
    \/ GetJobMission(e)
    \/ CompleteJob(e)

Next ==
    \/ \E t \in Slots, p \in Projects : Request(t, p)
    \/ \E t \in Slots : Serve(t)
    \/ \E p \in Projects : Cancel(p)
    \/ DeactivateProduct
    \/ \E e \in Execs : Agent(e)
    \/ \E o \in Orchs, w \in Workers : SpawnJob(o, w)
    \/ \E o \in Orchs : EndStaging(o)

Spec == Init /\ [][Next]_vars

-----------------------------------------------------------------------------
(* Between requests an active project has exactly one orchestrator that is  *)
(* not decommissioned, whatever was reset, restaged, closed or restored     *)
(* before.                                                                  *)
ActiveStaffed ==
    (\A t \in Slots : slot[t].phase = "idle") =>
        \A p \in Projects : project[p].status = "active" => Cardinality(Live(p)) = 1

(* However activations, deactivations, stagings and restages overlap, a     *)
(* project that is active when no request is in flight has an orchestrator  *)
(* that is not decommissioned: the one a deactivation deletes or a restage  *)
(* retires is never the last of a project that another request has made     *)
(* active meanwhile.                                                        *)
ActiveCrewed ==
    (\A t \in Slots : slot[t].phase = "idle") =>
        \A p \in Projects : project[p].status = "active" => Live(p) # {}

(* A specialist at work belongs to a project whose implementation is        *)
(* launched: neither a restage nor a deactivation takes the launch away     *)
(* under it.                                                                *)
WorkersLaunched == \A w \in Workers : st[w] = "working" => project[owner[w]].launched

(* The lasting mark never misses a launch.                                  *)
LaunchedEver == \A p \in Projects : project[p].launched => project[p].ever

(* A project has one orchestrator at most.                                  *)
OneOrchestrator == \A p \in Projects : Cardinality(Live(p)) <= 1

(* The row of an orchestrator that ran is deleted by a reset only: a        *)
(* deactivation deletes orchestrators that never ran.                       *)
RunsKept == [][\A o \in Orchs : ran[o] /\ st'[o] = "none" =>
                   \E t \in Slots : slot[t].op = "reset"]_vars

(* A completed project becomes inactive again by an operation that reopens  *)
(* or resets it, not by a deactivation or an activation that read it before.*)
CompletedStays == [][\A p \in Projects :
    project[p].status = "completed" /\ project'[p].status = "inactive" =>
        \E t \in Slots : slot[t].p = p /\ slot[t].op \in {"continue", "restore", "reset"}]_vars
=============================================================================
