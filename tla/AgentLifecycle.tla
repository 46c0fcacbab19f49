--------------------------- MODULE AgentLifecycle ---------------------------
(***************************************************************************)
(* The job and execution lifecycle of the agents of one solo project.      *)
(*                                                                         *)
(* Every MCP tool, REST endpoint and background monitor of the server runs *)
(* one SQLAlchemy transaction under READ COMMITTED without row locks: it   *)
(* selects rows, decides in Python, and at commit issues UPDATEs that name *)
(* the primary key and the changed columns only.  So each handler is two   *)
(* steps here: a Begin step that evaluates the handler's guards on the     *)
(* rows as they are and leaves the columns it will write in a transaction  *)
(* slot, and Commit, which writes those columns whatever the rows say by   *)
(* then.  With one slot and no monitor the handlers run one after another; *)
(* with more, every race between two of them is a behaviour of the model.  *)
(*                                                                         *)
(* An AgentJob has one AgentExecution (nothing in production spawns a      *)
(* second), so both rows are functions of the agent.                       *)
(***************************************************************************)
EXTENDS Naturals, FiniteSets

CONSTANTS
    Agents,         \* agent executions, each with its job
    Orchestrators,  \* the project's orchestrators among them
    Slots,          \* request handlers that may be in flight at once
    Monitors,       \* background loops that run: a subset of MonitorNames
    Posts,          \* directed, action-required posts to the project thread
    NoPost,         \* the slot routes no post
    Todos,          \* what a progress report may leave of the todo list
    Rests           \* what set_agent_status is asked for: some of Resting

MonitorNames == {"silence", "health"}
Resting      == {"blocked", "idle", "sleeping"}

ASSUME ConstantsAssumption ==
    /\ Orchestrators \subseteq Agents
    /\ Monitors \subseteq MonitorNames
    /\ Slots \cap MonitorNames = {}
    /\ NoPost \notin Posts
    /\ Todos \subseteq {"clear", "open"}
    /\ Rests \subseteq Resting

Txns == Slots \cup Monitors

(* agent_executions.status; "none" is a row that does not exist yet.        *)
Statuses == {"none", "staged", "waiting", "working", "blocked", "idle",
             "sleeping", "silent", "awaiting_user", "complete", "closed",
             "decommissioned"}
Inactive == {"complete", "closed", "decommissioned"}
Ages     == {"fresh", "stale", "abandoned"}

VARIABLES
    status,    \* agent_executions.status
    done,      \* agent_executions.completed_at: "set" or "unset"
    job,       \* agent_jobs.status
    todo,      \* agent_todo_items: "open" when some item is not completed
    age,       \* last_progress_at against the two monitors' thresholds
    old,       \* agent_jobs.created_at lies before the health monitor's ceiling
    inbox,     \* action-required posts to the agent it has not acknowledged
    project,   \* projects.status
    staging,   \* projects.staging_status
    launched,  \* projects.implementation_launched_at is set
    slot,      \* the transactions in flight
    sent,      \* posts committed so far
    waived     \* history: unread posts that were dismissed, or not routed

rows == <<status, done, job, todo, age, staging, project>>
vars == <<status, done, job, todo, age, old, inbox, project, staging,
          launched, slot, sent, waived>>

(***************************************************************************)
(* Write sets.  A column holds the value to write, or Keep when the        *)
(* transaction leaves it alone.  Assigning the value an ORM object already *)
(* has is no change and emits no UPDATE, hence Net.                        *)
(***************************************************************************)
Keep == "keep"
Net(old_value, new) == IF new = old_value THEN Keep ELSE new
(* Mutant of Patch: an UPDATE that names every column.                      *)
PatchEveryColumn(write, current) == write
Patch(write, current) == IF write = Keep THEN current ELSE write

Writes == [status : (Statuses \ {"none"}) \cup {Keep}, done : {"set", "unset", Keep},
           job : {"active", "completed", Keep}, todo : {"clear", "open", Keep},
           age : {"fresh", Keep}, staging : {"complete", Keep},
           project : {"inactive", Keep}]
NoWrite == [status |-> Keep, done |-> Keep, job |-> Keep, todo |-> Keep,
            age |-> Keep, staging |-> Keep, project |-> Keep]

(* What a slot is up to; "gate" and "decide" belong to UserApprovals.       *)
Phases   == {"idle", "write", "route", "archived", "gate", "decide"}
Transactions == [phase : Phases, targets : SUBSET Agents,
                 post : Posts \cup {NoPost}, w : Writes]
IdleSlot == [phase |-> "idle", targets |-> {}, post |-> NoPost, w |-> NoWrite]

TypeOK ==
    /\ status \in [Agents -> Statuses]
    /\ done \in [Agents -> {"set", "unset"}]
    /\ job \in [Agents -> {"none", "active", "completed"}]
    /\ todo \in [Agents -> {"clear", "open"}]
    /\ age \in [Agents -> Ages]
    /\ old \in [Agents -> BOOLEAN]
    /\ inbox \in [Agents -> SUBSET Posts]
    /\ project \in {"active", "inactive", "completed"}
    /\ staging \in {"staging", "complete"}
    /\ launched \in BOOLEAN
    /\ slot \in [Txns -> Transactions]
    /\ \A t \in Txns : slot[t].phase = "route" => slot[t].post \in Posts
    /\ sent \subseteq Posts
    /\ waived \subseteq Posts

(* An activated project whose staging session has begun: activation minted *)
(* the orchestrator fixture, 'waiting' with an active job.                 *)
Init ==
    /\ status = [a \in Agents |-> IF a \in Orchestrators THEN "waiting" ELSE "none"]
    /\ done = [a \in Agents |-> "unset"]
    /\ job = [a \in Agents |-> IF a \in Orchestrators THEN "active" ELSE "none"]
    /\ todo = [a \in Agents |-> "clear"]
    /\ age = [a \in Agents |-> "fresh"]
    /\ old = [a \in Agents |-> FALSE]
    /\ inbox = [a \in Agents |-> {}]
    /\ project = "active"
    /\ staging = "staging"
    /\ launched = FALSE
    /\ slot = [t \in Txns |-> IdleSlot]
    /\ sent = {}
    /\ waived = {}

(***************************************************************************)
(* Helpers shared by the handlers.                                         *)
(***************************************************************************)
(* Mutant of Active: the closed status is missing from the not_in list.     *)
ActiveWithClosed(a) == status[a] \notin {"none", "complete", "decommissioned"}
Exists(a) == status[a] # "none"
Active(a) == Exists(a) /\ status[a] \notin Inactive
Immutable == project = "completed"
Specialists == Agents \ Orchestrators

(* Specialists that count as spawned, and those still in flight.           *)
SpawnedSpecialists  == {a \in Specialists : status[a] \notin {"none", "decommissioned"}}
FinaleRecorded ==
    /\ \E a \in Specialists : Exists(a)
    /\ \A a \in Specialists : ~Active(a)

Free(t) == slot[t].phase = "idle"

(* A handler has read what it needs and holds its writes until Commit.     *)
Hold(t, agents, writes) ==
    slot' = [slot EXCEPT ![t] = [phase |-> "write", targets |-> agents,
                                 post |-> NoPost, w |-> writes]]
Begin(t, agents, writes) ==
    /\ Free(t)
    /\ Hold(t, agents, writes)
    /\ UNCHANGED <<rows, old, inbox, launched, sent, waived>>

(* session.commit(): one UPDATE per changed row, by primary key.           *)
Commit(t) ==
    /\ slot[t].phase = "write"
    /\ LET w == slot[t].w
           Merge(write, column) == [a \in Agents |->
               IF a \in slot[t].targets THEN Patch(write, column[a]) ELSE column[a]]
       IN /\ status' = Merge(w.status, status)
          /\ done' = Merge(w.done, done)
          /\ job' = Merge(w.job, job)
          /\ todo' = Merge(w.todo, todo)
          /\ age' = Merge(w.age, age)
          /\ staging' = Patch(w.staging, staging)
          /\ project' = Patch(w.project, project)
    /\ slot' = [slot EXCEPT ![t] = IdleSlot]
    /\ UNCHANGED <<old, inbox, launched, sent, waived>>

(***************************************************************************)
(* The agent's and the orchestrator's tools.                               *)
(***************************************************************************)
(* spawn_job: refused on an immutable project; a mission-less spawn is     *)
(* 'staged' until its mission is written.  The ids are fresh uuids.        *)
SpawnJob(t, a) ==
    /\ ~Exists(a)
    /\ \A u \in Txns : a \notin slot[u].targets
    /\ ~Immutable
    /\ \E first \in {"staged", "waiting"} :
         Begin(t, {a}, [NoWrite EXCEPT !.status = first, !.job = "active"])

(* update_agent_mission: unlocks a staged agent; the orchestrator's        *)
(* mission ends staging once a specialist has been spawned.                *)
UpdateAgentMission(t, a) ==
    /\ Exists(a)
    /\ \/ /\ status[a] = "staged"
          /\ Begin(t, {a}, [NoWrite EXCEPT !.status = "waiting"])
       \/ /\ a \in Orchestrators
          /\ SpawnedSpecialists # {}
          /\ staging # "complete"
          /\ Begin(t, {a}, [NoWrite EXCEPT !.staging = "complete"])

(* get_job_mission: the first fetch past the implementation gate starts    *)
(* the job.                                                                *)
GetJobMission(t, a) ==
    /\ status[a] = "waiting"
    /\ launched
    /\ Begin(t, {a}, [NoWrite EXCEPT !.status = "working", !.age = "fresh"])

(* report_progress: any active execution; a resting agent wakes up; the    *)
(* todo list is replaced or appended to.                                   *)
ReportProgress(t, a) ==
    /\ Active(a)
    /\ \E todos \in Todos :
         Begin(t, {a}, [NoWrite EXCEPT
             !.status = IF status[a] \in Resting THEN "working" ELSE Keep,
             !.age = "fresh",
             !.todo = Net(todo[a], todos)])

(* Mutant of SetAgentStatus: without the staging lock.                      *)
SetAgentStatusUnlocked(t, a) ==
    /\ Active(a)
    /\ \E rest \in Rests : Begin(t, {a}, [NoWrite EXCEPT !.status = Net(status[a], rest)])

(* set_agent_status: any active execution may be put to rest, except an    *)
(* orchestrator whose project is still staging (STAGING_LOCK).             *)
SetAgentStatus(t, a) ==
    /\ Active(a)
    /\ a \in Orchestrators => staging = "complete"
    /\ \E rest \in Rests : Begin(t, {a}, [NoWrite EXCEPT !.status = Net(status[a], rest)])

(* An orchestrator's complete_job pauses it between staging and            *)
(* implementation, unless implementation was launched or every specialist  *)
(* it spawned has already finished.                                        *)
IsStagingEnd(a) ==
    /\ a \in Orchestrators
    /\ ~(launched /\ staging = "complete")
    /\ ~FinaleRecorded

(* While staging, the orchestrator's todos are the plan for later agents.  *)
TodosAreThePlan(a) == a \in Orchestrators /\ ~launched

(* What complete_job asks for before it writes: no approval awaited, no     *)
(* post unread and no todo open.  A todo here is an ordinary one: those     *)
(* about an orchestrator's own closeout are ticked off on its closeout      *)
(* call instead of blocking it, which TodoList models.                      *)
(* Mutant of CompletionAllowed: the unread-posts gate is dropped.           *)
CompletionAllowedUnread(a) ==
    /\ Active(a)
    /\ status[a] # "awaiting_user"
    /\ todo[a] = "clear" \/ TodosAreThePlan(a)

CompletionAllowed(a) ==
    /\ Active(a)
    /\ status[a] # "awaiting_user"
    /\ inbox[a] = {}
    /\ todo[a] = "clear" \/ TodosAreThePlan(a)

(* complete_job at the end of staging: back to 'waiting', the job stays    *)
(* active; refused without a spawned specialist.                           *)
EndStaging(t, a) ==
    /\ CompletionAllowed(a)
    /\ IsStagingEnd(a)
    /\ SpawnedSpecialists # {}
    /\ Begin(t, {a}, [NoWrite EXCEPT !.status = Net(status[a], "waiting"),
                                     !.done = Net(done[a], "unset"),
                                     !.staging = Net(staging, "complete")])

(* Mutant of CompleteJob: the job row is not finalized.                     *)
CompleteJobOnly(t, a) ==
    /\ CompletionAllowed(a)
    /\ ~IsStagingEnd(a)
    /\ Begin(t, {a}, [NoWrite EXCEPT !.status = "complete", !.done = "set"])

(* complete_job otherwise: the execution completes and, being its job's    *)
(* only one, the job with it.                                              *)
CompleteJob(t, a) ==
    /\ CompletionAllowed(a)
    /\ ~IsStagingEnd(a)
    /\ Begin(t, {a}, [NoWrite EXCEPT !.status = "complete", !.done = "set",
                                     !.job = Net(job[a], "completed")])

(* resolve_reactivation("resume").                                         *)
ReactivateJob(t, a) ==
    /\ status[a] = "blocked"
    /\ ~Immutable
    /\ Begin(t, {a}, [NoWrite EXCEPT !.status = "working",
                                     !.done = Net(done[a], "unset"),
                                     !.job = Net(job[a], "active")])

(* resolve_reactivation("dismiss"): the unread posts are waived.           *)
DismissReactivation(t, a) ==
    /\ status[a] = "blocked"
    /\ Free(t)
    /\ Hold(t, {a}, [NoWrite EXCEPT !.status = "complete",
                                    !.job = Net(job[a], "completed")])
    /\ waived' = waived \cup inbox[a]
    /\ UNCHANGED <<rows, old, inbox, launched, sent>>

(* Mutant of CloseJob: accepts a reactivated agent too.                     *)
CloseJobReactivated(t, a) ==
    /\ status[a] \in {"complete", "blocked"}
    /\ Begin(t, {a}, [NoWrite EXCEPT !.status = "closed"])

(* close_job: final acceptance of a completed agent.                       *)
CloseJob(t, a) ==
    /\ status[a] = "complete"
    /\ Begin(t, {a}, [NoWrite EXCEPT !.status = "closed"])

(***************************************************************************)
(* Posts.  post_to_thread commits the post; its wrapper then opens a       *)
(* second transaction that blocks a completed recipient.                   *)
(***************************************************************************)
PostToThread(t, p, a) ==
    /\ Free(t)
    /\ Exists(a)
    /\ p \notin sent
    /\ sent' = sent \cup {p}
    /\ inbox' = [inbox EXCEPT ![a] = @ \cup {p}]
    /\ slot' = [slot EXCEPT ![t] = [IdleSlot EXCEPT !.phase = "route",
                                    !.targets = {a}, !.post = p]]
    /\ UNCHANGED <<rows, old, launched, waived>>

(* _auto_block_completed_recipients, on a completed recipient.             *)
AutoBlock(t) ==
    /\ slot[t].phase = "route"
    /\ ~Immutable
    /\ \E a \in slot[t].targets : status[a] = "complete"
    /\ slot' = [slot EXCEPT ![t].phase = "write",
                            ![t].w = [NoWrite EXCEPT !.status = "blocked"]]
    /\ UNCHANGED <<rows, old, inbox, launched, sent, waived>>

(* The same, on a recipient that is not complete: nothing to do.           *)
SkipAutoBlock(t) ==
    /\ slot[t].phase = "route"
    /\ ~Immutable
    /\ \A a \in slot[t].targets : status[a] # "complete"
    /\ slot' = [slot EXCEPT ![t] = IdleSlot]
    /\ UNCHANGED <<rows, old, inbox, launched, sent, waived>>

(* The project is closed, or the best-effort routing raised: the post      *)
(* stands and nobody is blocked.                                           *)
LoseAutoBlock(t) ==
    /\ slot[t].phase = "route"
    /\ waived' = waived \cup {slot[t].post}
    /\ slot' = [slot EXCEPT ![t] = IdleSlot]
    /\ UNCHANGED <<rows, old, inbox, launched, sent>>

(* get_thread_history(mark_read): one transaction acknowledges the posts   *)
(* it returns; acknowledgements are rows of their own and conflict with    *)
(* nothing.                                                                *)
ReadThread(a) ==
    /\ inbox[a] # {}
    /\ inbox' = [inbox EXCEPT ![a] = {}]
    /\ UNCHANGED <<rows, old, launched, slot, sent, waived>>

(***************************************************************************)
(* The user.                                                               *)
(***************************************************************************)
(* Mutant of LaunchImplementation: without the staging-complete guard.      *)
LaunchUnstaged ==
    /\ ~launched
    /\ launched' = TRUE
    /\ UNCHANGED <<rows, old, inbox, slot, sent, waived>>

LaunchImplementation ==
    /\ staging = "complete"
    /\ ~launched
    /\ launched' = TRUE
    /\ UNCHANGED <<rows, old, inbox, slot, sent, waived>>

(* deactivate_project, the user's or the first transaction of an archive.  *)
(* (It deletes the never-run orchestrator of a project that spawned no     *)
(* specialist; not modelled, hence the second guard here and below.)       *)
DeactivateProject ==
    /\ project = "active"
    /\ \E a \in Specialists : Exists(a)
    /\ project' = "inactive"
    /\ UNCHANGED <<status, done, job, todo, age, staging, old, inbox, launched,
                   slot, sent, waived>>

(* archive_project: update_project commits, then another transaction       *)
(* closes the completed agents.                                            *)
ArchiveProject(t) ==
    /\ Free(t)
    /\ ~Immutable
    /\ \E a \in Specialists : Exists(a)
    /\ project' = "completed"
    /\ slot' = [slot EXCEPT ![t] = [IdleSlot EXCEPT !.phase = "archived"]]
    /\ UNCHANGED <<status, done, job, todo, age, staging, old, inbox, launched,
                   sent, waived>>

CloseCompletedAgents(t) ==
    /\ slot[t].phase = "archived"
    /\ Hold(t, {a \in Agents : status[a] = "complete"},
            [NoWrite EXCEPT !.status = "closed"])
    /\ UNCHANGED <<rows, old, inbox, launched, sent, waived>>

(* continue_working: reopens a completed project as inactive and sets its  *)
(* decommissioned agents waiting.                                          *)
ContinueWorking(t) ==
    /\ Immutable
    /\ Begin(t, {a \in Agents : status[a] = "decommissioned"},
             [NoWrite EXCEPT !.status = "waiting", !.project = "inactive"])

(* activate_project, from inactive.  (Where the only orchestrator has been  *)
(* decommissioned it mints another one; not modelled.)                     *)
ActivateProject ==
    /\ project = "inactive"
    /\ project' = "active"
    /\ UNCHANGED <<status, done, job, todo, age, staging, old, inbox, launched,
                   slot, sent, waived>>

(***************************************************************************)
(* Time and the monitors.                                                  *)
(***************************************************************************)
(* Time passes: an agent's last progress crosses the next threshold, or    *)
(* its job outlives the health monitor's ceiling.  Only thresholds that a  *)
(* running monitor reads are told apart.                                   *)
Tick(a) ==
    /\ Exists(a)
    /\ \/ /\ Monitors # {}
          /\ age[a] = "fresh"
          /\ age' = [age EXCEPT ![a] = "stale"]
          /\ old' = old
       \/ /\ "health" \in Monitors
          /\ age[a] = "stale"
          /\ age' = [age EXCEPT ![a] = "abandoned"]
          /\ old' = old
       \/ /\ "health" \in Monitors
          /\ ~old[a]
          /\ old' = [old EXCEPT ![a] = TRUE]
          /\ age' = age
    /\ UNCHANGED <<status, done, job, todo, staging, project, inbox, launched,
                   slot, sent, waived>>

(* The silence detector marks the stale working agents it selected, after  *)
(* awaiting its broadcasts.                                                *)
(* Mutant of StaleWorkers: selects by the wrong status.                     *)
StaleWaiters == {a \in Agents : status[a] = "waiting" /\ age[a] # "fresh"}
StaleWorkers == {a \in Agents : status[a] = "working" /\ age[a] # "fresh"}
DetectSilentAgents(t) ==
    /\ t = "silence"
    /\ StaleWorkers # {}
    /\ Begin(t, StaleWorkers, [NoWrite EXCEPT !.status = "silent"])

(* auto_clear_silent, after any successful tool call of the agent.         *)
AutoClearSilent(t, a) ==
    /\ status[a] = "silent"
    /\ Begin(t, {a}, [NoWrite EXCEPT !.status = "working", !.age = "fresh"])

(* The health monitor gives up on an execution: a waiting one by the age   *)
(* of its job or its last activity, a working one by its last progress.    *)
HandleUnhealthyJob(t, a) ==
    /\ t = "health"
    /\ project = "active"
    /\ \/ status[a] = "waiting" /\ (old[a] \/ age[a] = "abandoned")
       \/ status[a] = "working" /\ age[a] = "abandoned"
    /\ Begin(t, {a}, [NoWrite EXCEPT !.status = "decommissioned"])

(***************************************************************************)
(* The specification.                                                      *)
(***************************************************************************)
AgentHandler(t, a) ==
    \/ SpawnJob(t, a)
    \/ UpdateAgentMission(t, a)
    \/ GetJobMission(t, a)
    \/ ReportProgress(t, a)
    \/ SetAgentStatus(t, a)
    \/ EndStaging(t, a)
    \/ ReactivateJob(t, a)
    \/ DismissReactivation(t, a)
    \/ CloseJob(t, a)
    \/ AutoClearSilent(t, a)
    \/ \E p \in Posts : PostToThread(t, p, a)

RequestStep(t) ==
    \/ \E a \in Agents : AgentHandler(t, a)
    \/ AutoBlock(t)
    \/ SkipAutoBlock(t)
    \/ LoseAutoBlock(t)
    \/ ArchiveProject(t)
    \/ CloseCompletedAgents(t)
    \/ ContinueWorking(t)

MonitorStep(m) ==
    \/ DetectSilentAgents(m)
    \/ \E a \in Agents : HandleUnhealthyJob(m, a)

Environment ==
    \/ LaunchImplementation
    \/ ActivateProject
    \/ DeactivateProject
    \/ \E a \in Agents : ReadThread(a) \/ Tick(a)

Next ==
    \/ \E t \in Slots : RequestStep(t)
    \/ \E t \in Slots, a \in Agents : CompleteJob(t, a)
    \/ \E m \in Monitors : MonitorStep(m)
    \/ \E t \in Txns : Commit(t)
    \/ Environment

Spec == Init /\ [][Next]_vars

(* A transaction in flight commits, and a monitor's loop, which wakes up   *)
(* every scan interval, keeps scanning.                                    *)
Fairness ==
    /\ \A t \in Txns : WF_vars(Commit(t))
    /\ \A m \in Monitors : WF_vars(MonitorStep(m))

FairSpec == Spec /\ Fairness

-----------------------------------------------------------------------------
(***************************************************************************)
(* Properties.                                                             *)
(***************************************************************************)
(* complete_job, dismiss_reactivation, close_job and reactivate_job keep   *)
(* the two rows in step: an execution that is complete or closed belongs   *)
(* to a completed job.                                                     *)
JobFollowsExecution ==
    \A a \in Agents : status[a] \in {"complete", "closed"} => job[a] = "completed"

(* A post some transaction in flight still has to route to the agent.      *)
Routing(a) == {slot[t].post : t \in {u \in Txns : slot[u].phase = "route"
                                                 /\ a \in slot[u].targets}}

(* An agent is reactivated by whatever is pending for it: the transaction  *)
(* in flight will block it.                                                *)
BeingBlocked(a) == \E t \in Txns : /\ slot[t].phase = "write"
                                   /\ a \in slot[t].targets
                                   /\ slot[t].w.status = "blocked"

(* A completed agent has no unread action-required post left behind: the   *)
(* completion gate refuses while one is unread, and a later one reopens    *)
(* the agent (_auto_block_completed_recipients), unless it was dismissed,  *)
(* the project was closed, or the best-effort routing failed.              *)
NoStrandedPost ==
    \A a \in Agents : status[a] = "complete" =>
        inbox[a] \subseteq waived \cup Routing(a) \/ BeingBlocked(a)

(* What is over stays over: a closed execution never changes status, and a *)
(* decommissioned one only when the user continues a completed project,    *)
(* which sets it waiting.                                                  *)
TerminalStep ==
    \A a \in Agents :
        /\ status[a] = "closed" => status'[a] = "closed"
        /\ status[a] = "decommissioned" =>
             \/ status'[a] = "decommissioned"
             \/ status'[a] = "waiting" /\ project = "completed" /\ project' = "inactive"
TerminalIsFinal == [][TerminalStep]_vars

(* "Closed jobs are terminal": the transaction that routes a post never    *)
(* lands on an agent that is closed by the time it commits.                *)
RoutingStep == \A t \in Txns :
    slot[t].phase = "write" /\ slot[t].post # NoPost /\ slot'[t].phase = "idle" =>
        \A a \in slot[t].targets : status[a] # "closed"
ClosedNotAutoBlocked == [][RoutingStep]_vars

(* The contract of JobContract, under the mapping from execution status.   *)
StageOf(x) ==
    CASE x = "none"           -> "absent"
      [] x = "complete"       -> "finished"
      [] x = "closed"         -> "accepted"
      [] x = "decommissioned" -> "abandoned"
      [] OTHER                -> "open"
Contract == INSTANCE JobContract WITH
    stage <- [a \in Agents |-> StageOf(status[a])], unread <- inbox
ContractHonoured == Contract!Spec

(* STAGING_LOCK: while its project is staging the orchestrator is neither  *)
(* idle nor asleep, in any interleaving of the handlers.                   *)
StagingLockHeld ==
    \A a \in Orchestrators : status[a] \in {"idle", "sleeping"} => staging = "complete"

(* Implementation is only ever launched on a project whose staging is over *)
(* and with a specialist behind it, in any interleaving.                   *)
LaunchedAfterStaging ==
    launched => /\ staging = "complete"
                /\ \E a \in Specialists : Exists(a)

(* A completed job is resumed through reactivate_job or dismissed: no      *)
(* agent works under a completed job.                                      *)
WorkingJobIsActive ==
    \A a \in Agents : status[a] = "working" => job[a] = "active"

(* A working agent whose progress went stale does not stay that way: it    *)
(* reports, ends, or is flagged by a monitor.                              *)
StaleWorkerNoticed ==
    \A a \in Agents : (status[a] = "working" /\ age[a] # "fresh")
                        ~> ~(status[a] = "working" /\ age[a] # "fresh")

(* An agent of an active project that is silent past the hard ceiling is   *)
(* decommissioned, or shows up again, or the project is closed.            *)
SilentPastCeiling(a) == status[a] = "silent" /\ age[a] = "abandoned" /\ project = "active"
AbandonedIsDecommissioned ==
    \A a \in Agents : SilentPastCeiling(a) ~> ~SilentPastCeiling(a)
=============================================================================
