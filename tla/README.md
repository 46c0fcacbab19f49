# GiljoAI MCP: a verification project in TLA+

GiljoAI MCP is a server that coordinates coding agents. A user describes a
project; an *orchestrator* agent plans it (staging), the user launches the
implementation, *specialist* agents carry it out, and everybody reports through
MCP tools that read and write rows of one PostgreSQL database. The agents, the
user's dashboard, and background loops are clients that run concurrently and
meet only in those rows and in the events the server pushes to browsers.

This directory holds TLA+ modules for the parts of the program where that
concurrency matters, TLC configurations that check them on small instances, and
theorems about them that TLAPS checks for every instance. File names below are
relative to the repository (`src/giljo_mcp/...`, `api/...`, `frontend/...`).

| section | |
| --- | --- |
| 1 | the system's parts, their state, how they interact, what is hard |
| 2 | the modules and how they correspond to the code |
| 3 | the runs, their bounds, the fairness they assume |
| 4 | the theorems, their assumptions, the invariants they rest on |
| 5 | where the code and its own text disagree |
| 6 | what is only model-checked, what is not modelled |
| 7 | the plan: what is done and what is left |

## 1. Inventory

A *service* handler opens a session, reads rows, decides in Python, and at its
commit emits one UPDATE per row it changed, naming the primary key and the
changed columns only. PostgreSQL runs at READ COMMITTED, and few handlers lock.
So nearly every handler is **read, decide, write later**, and what it read may
be stale when it writes. Most hazards below are of that form; `PROJECT.json`
lists each at its line.

| component | state | operations | what makes it correct |
| --- | --- | --- | --- |
| Agent jobs and executions (`job_lifecycle_service`, `job_completion_*`, `orchestration_agent_state_service`, `progress_service`, `mission_*`) | `agent_jobs`, `agent_executions`, todos | spawn, mission, progress, status, complete, resume, dismiss, close | the two rows of an agent stay in step; a terminal status stays; staging locks; nothing is launched before staging ended |
| Posts and reactivation (`message_routing_service`, `comm_thread_*`) | messages, recipients, acknowledgements | post, route, acknowledge | an action-required post is read, or brings its recipient back |
| Silence detector, health monitor (`silence_detector`, `agent_health_monitor`) | none: they write executions from old reads | mark silent, clear, decommission | a stale worker is noticed; nobody else's rows are spoilt |
| User approvals (`user_approval_*`, `job_completion_closeout_gate`) | `user_approvals` | request, decide, gate a closeout | a parked orchestrator has something to decide, at most one thing; decisions stand |
| Projects (`project_staging_*`, `project_launch_*`, `project_lifecycle_*`, `project_closeout_*`) | `projects`, executions of their agents | activate, stage, restage, launch, complete, continue, delete, restore | one active project of a product, led by an orchestrator; no running execution is erased |
| Chain runs (`sequence_run_*`, `project_helpers`, `_chain_tools`) | `sequence_runs` with a JSON copy of member statuses | start, advance, mark, heal, settle, purge, cancel, remove, resume, deactivate | the copy is truthful; a run is passed on and purged only over finished members |
| Threads (`comm_thread_service`, `loop_directive_composer`) | threads, posts, cursors, acknowledgements | resolve, post, drain, trash | a drain skips nothing; everybody meets on the bound thread; loops end |
| Todo list (`progress_service`, `progress_repository`) | `agent_todo_items` | replace, append | order and completed work are kept |
| Work items (`project_service`, `task_*`, `roadmap_service`) | projects, tasks, roadmap, serial numbers | create, trash, restore, purge, convert, plan, renumber | one counter; a live item keeps its number; a plan keeps its items |
| Products (`product_lifecycle_service`) | `products.is_active` | activate, deactivate, delete, restore | one active product |
| 360 memory (`write_memory_entry`, `project_closeout`, `product_memory_*`) | numbered entries, closeout stamps | write, force-close, tune, delete | the closeout stamp says what was closed out; entries stay |
| Accounts (`oauth_refresh_service`, `session_eviction`) | refresh tokens, families, epochs, an answer cache | refresh, retry, evict | one successor per token; nothing survives an eviction |
| Event bus, WebSocket server (`api/websocket.py`) | connections, subscriptions | register, subscribe, broadcast, evict | what a client asked for is what it is subscribed to |
| Dashboard (`frontend/src/stores/...`) | stores fed by fetches and events | connect, subscribe, fetch, merge | a page at rest shows what was asked for, and the agents and flags the server holds |
| Notifications, tuning reminder (`notification_service`, `update_checker`, `context_tuning_banner`) | open rows per dedupe key | emit, dismiss, resolve, scan, purge | banners say what is true; a warning is given once |

Around these are components with no lifecycle of their own: middleware
counters, the tenant guard (a query-time filter), the MCP boundary and REST
endpoints (validation and dispatch), prompt and protocol text, vision documents,
startup and reapers. They are listed in `PROJECT.json` as not modelled.

Who meets whom: agents and the user through the job, approval and project rows;
a closeout through the project, its chain run, its memory entry and its todos;
the monitors through executions; the conductor of a chain through the member
copy; the dashboard through events that a service pushes around its commit.

## 2. Modules

One convention runs through all of them. A request in flight is a **slot** that
holds what the request read and what it will write; its phases are its
transactions. `Interleaved = FALSE`, or a single slot, means that requests are
served one after another. `Ops` and `Faults` name the optional operations and
failures of an instance, so that one module serves several questions. Refused
calls change no row and are not steps.

### `AgentLifecycle`, `JobContract`
One solo project with its agents.

| variable | code |
| --- | --- |
| `status`, `done`, `age` | `agent_executions.status`, `.completed_at`, `.last_progress_at` |
| `job`, `old` | `agent_jobs.status`, `.created_at` against the monitor's ceiling |
| `todo` | `agent_todo_items`: some item is open, or none is |
| `inbox` | action-required posts addressed to the agent without its acknowledgement |
| `project`, `staging`, `launched` | `projects.status`, `.staging_status`, `.implementation_launched_at` |
| `slot` | the transactions in flight and the columns they will write |
| `sent`, `waived` | which posts exist; history of those that were dismissed or never routed |

An operation's `Begin` evaluates every guard of the code on the rows as they are
and puts the columns it will write into a slot; `Commit` writes those columns
(`Patch`), whatever the rows say by then. A column set to the value it had emits
no UPDATE (`Net`). Where the code commits in between there is a phase of its own:
`post_to_thread` (post, then routing), `archive_project`, and the closeout gate.
Actions carry the handlers' names; a handler with two disjoint outcomes is two
actions (`EndStaging` and `CompleteJob` for `complete_job`, `AutoBlock`,
`SkipAutoBlock` and `LoseAutoBlock` for the routing of a post). `Tick` moves time
across the thresholds a running monitor reads.

`JobContract` is what an orchestrator may rely on: a job is absent, open,
finished, accepted or abandoned; finishing needs every action-required post
settled; an accepted job never comes back. `AgentLifecycle!Contract` is its
instance under the map `StageOf`, and `ContractHonoured` the refinement.

### `UserApprovals`
EXTENDS the lifecycle. An approval row is absent, pending or decided, belongs to
an execution, says whether the gate made it, and remembers the status to
restore. A decided one keeps the choice, which the gate does not look at
(section 5, `FindingsApproved`). `DecideRead` is `mark_decided`'s first SELECT, `DecideFlush` its UPDATE,
which waits for the row's lock and then reads the execution, `CommitA` the
commit.

### `ProjectActivation`, `ProductSwitch`
`ProjectActivation` is the projects of one product and the rows of their
orchestrators and specialists. A slot is a request with what it read, its
second transaction (the fixture) and its commit; `Merge` is the ORM, which
writes the columns that differ from what was read (`Written`). The partial unique
index of active projects decides at the commit: that a product has one active
project is a guard of `Commit` and so is not stated as a property. `Orchs` bounds the rows, and `Served`
keeps agents' own calls out when requests are served one at a time.
`ProductSwitch` is the switching of products: an activation reads the other
products, deleted ones too, writes `is_active` only where it read it false, and
assigns its templates after the commit.

### `SequenceRun`
Chain runs. The truth about a member is its project row; the run holds a copy
that writers read, and write back whole, in another transaction. `ended` and
`asked` are history variables. `project_ids` and `resolved_order` are one list.
The advance, the mark of a closeout, the guard's and the teardown's heal, the
settlement, the purge, removal and deletion of members, resume and deactivation
are actions, one per transaction. `Faults` may lose a mark, an advance or a
closeout's commit.

### `HubThread`, `TodoList`
`HubThread`: posts and threads are named by the time their transaction
*started*, because `created_at` is the database's `now()`, and become visible at
their commit. A read moves the cursor to the newest post it returned and may be
stale by then. With `Interleaved = FALSE` posts commit in the order they
started. `TodoList`: a report's first query flushes `last_progress_at`, so a
report holds its execution's row from its read to its commit and read and write
are one step; replacing renumbers, appending counts from a maximum.

### `WorkItems`, `ProductMemory`
`WorkItems`: an item's kind says which table its row is in, so a conversion
changes the kind. `held` is the advisory lock of the allocation and the row
locks, up to the commit; `Top` stands for the 9999 numbers, `Legacy` for tasks
from before tasks had numbers. `ProductMemory`: entries of one product. A call
looks through its gates, takes `MAX + 1`, and commits under the unique index;
executions that it decommissions are locked from the number to the commit;
`working` stands for working, blocked and silent, `resting` for idle and sleeping.
Three ways to close a project out are told apart. `write_project_closeout` writes
entry, stamp and decommissioning in one commit, unless the project is a member of a
chain (`Chained`): then marking it in its run commits the call's own session first
(`Midway`), and the status of its row follows in a transaction of its own
(`CompleteMember`). The dashboard's completion sets status and stamp, calls a
forced closeout on the same session, and commits also when that is refused
(`ForceClose` with `completes`), but not when the number is taken. And
`close_out_project` (`CloseOut`) stamps and decommissions without an entry. A
completion holds the project's row from its first query on, because the session
flushes the changed row before it (`RowFree`).

### `TokenRefresh`
The refresh grant of one user: lookup, answer cache, row lock, rotation, reuse
detection, eviction. The cache is no part of the transaction. Two behaviours
the properties leave open are traces of this module: after a commit that fails,
a retry is answered from the cache with a pair the database never held
(`oauth_refresh_service.py:491`); and two evictions at once may raise the epoch
by one only; each still revokes the tokens it sees.

### The dashboard: `LiveSocket`, `ProjectList`, `StageFlags`, `JobBoard`
`LiveSocket`: the websocket store with its attempts, timers, queue and pins, and
the server's registry. A socket is named while a callback of it can still run;
`missed` and `pending` are abstract events. `ProjectList`: the list of projects and
one project on it that is followed. A list is fetched by the page, by bare
refreshes, by `created` events and by reconnects, with overlapping, failing and
overtaken calls, of which the older lose (`fetchSeq`). Any other event fetches its
project alone (`Notice`), and the answer replaces its row in place (`Upserted`),
whatever the filter and whichever answer is newer. A list on screen is its query,
the version it was read at and the version its row of the followed project shows;
`owed` is the newest change for which some list is fetched. `StageFlags`:
the row's staging state against the page's flags; `ending` is a staging end that
was announced before its commit. `JobBoard`: the agents on the project page,
with versions for statuses and progress. The last three name in `Ops` the
overlaps that the code does not survive (`"stray"`, `"blind"`, `"late"`, `"hasty"`,
`"overlap"`, `"overtake"`); the checked instances leave them out and section 5
says what they show.

### `Notifications`, `TuningReminder`
The open row of a dedupe key is its state. Emitters read a condition and write a
banner later; `Versions` and `MaxBoots` are bounds.

### MC modules
A run checks an MC module. `MCHandlers`, `MCProjects`, `MCChains`, `MCMessages`,
`MCRecords`, `MCLoops` and `MCLiveness` hold several small instances each: a
variable `part` says which of them moves in a behaviour, the others stay as they
start, so state spaces add up and each instance has constants of its own. A
property of such a run speaks of one part (`part = "races" => ...`) or of an
INSTANCE, whose variables do not move in the other parts (`CrewKept` speaks of two). Their constants are as
general as those of the modules they instantiate, and so are the theorems about
them: the configuration alone makes the instances small.

### Proof modules
| module | proves about | extends |
| --- | --- | --- |
| `AgentLifecycleProofs` | the lifecycle, its refinement, the approvals | `MCHandlers`, `UserApprovals` |
| `ProjectActivationProofs` | projects, and `ProductSwitch` as an instance | `MCProjects` |
| `SequenceRunProofs` | chain runs and their refinement of `ChainContract` | `SequenceRun` |
| `WorkItemsProofs`, `ProductMemoryProofs` | their modules | `WorkItems`, `ProductMemory` |
| `MessageProofs` | threads, and as instances the todo list and the dashboard | `MCMessages` |
| `ChainProofs`, `RecordProofs` | tokens; the parts of runs `chains` and `records` | `MCChains`, `MCRecords` |

`MCChains` holds `SequenceRun` three times and `MCRecords` holds `WorkItems` and
`ProductMemory` twice, with other constants each time. They instantiate the proof
module of what they hold, so that a theorem can be cited of each instance
(`Serial!PassedFinishedHolds`), whose hypotheses the instance's constants decide.

## 3. Runs

| run | parts and bounds | what it shows |
| --- | --- | --- |
| `serial` | an orchestrator, a specialist, one slot, two posts | types; the two rows in step; no stranded post; terminal statuses final; the refinement of `JobContract` |
| `handlers` | `requests`: two slots; `health`: one slot and the health monitor | staging lock and launch gate in every interleaving; the rows in step beside a give-up; 2,559,642 states |
| `approvals` | one slot, two approvals, approve or reject | one pending approval; decisions stand; restoring a status keeps the types |
| `approval_races` | two slots, two approvals, `OrchestratorOnly` | a parked orchestrator has a pending approval |
| `projects` | `activation`: two projects, one slot, two orchestrator rows, a worker, every operation but `stage_launched` and `continue`; `reopened`: the same with `continue` beside five operations; `races`: two slots, three orchestrator rows, activations, deactivations, stagings and restages; `switch`: two products, two projects, two callers | an active project has exactly one orchestrator and workers are launched (`SerialCrew`); also where completed projects are continued, and, at least one, where requests overlap (`CrewKept`); no execution that ran is erased; one active product each; 1,170,077 states |
| `chains` | `tokens`: two families of four tokens, three slots, two evictions; `races`: a run of two projects, two callers, a failing advance; `serial`: a run of three, one request at a time, every operation but resume and deactivation; `turns`: two runs that want the same two projects, with deactivation and a failing advance | one successor; nothing survives an eviction; truthful copies; purged and passed members are finished; the serial parts implement `ChainContract` (`RunsHonoured`); 833,857 states |
| `messages` | `drain`: three posts, an agent with two open reads, deletions; `rendezvous`: two agents on the bound thread; `todo`: two reports, five rows; `socket`: two sockets, one fault; `list`: two queries, two calls, one change, with searches, leaving, activations and failures; `rows`: two calls for the list and one for the followed project, two changes; `flags`: two events on the wire; `board`: an agent, two projects, two versions, four events | nothing skipped; decisions meet; order and completed todos kept; subscriptions agree; list and page settle; 1,221,427 states |
| `records` | `races`: three items, two slots; `plain`: two items, one slot, every operation; `memory`: a project in a chain, an orchestrator, two calls that overlap; `ledger`: the project alone, one call at a time, `close_out_project` included | one counter; live items keep numbers; the roadmap keeps items; the stamp agrees with entry and row (`StampAgrees`); entries stay; 383,949 states |
| `loops` | `notes`, `keys`, `tuning`, `silence` | banners settle, and a dismissed warning stays dismissed (`BannersSettle`); a stale worker is noticed |
| `liveness` | `chain`: two projects, marks may be lost; `unread`, `full`: two posts, an agent that drains; `socket`: three sockets, two faults | a finished chain ends; broadcasts are read and loops end; a lost connection recovers |
| `stranded_post` | two slots, one post | *violation*, section 5 |
| `decided_twice` | two slots, one approval | *violation*, section 5 |

`drain` and `rendezvous` are one `HubThread`, whose steps `MCMessages` restricts: in
the first the second agent takes no part, in the second nobody drains and every
post is a decision.

Why the bounds are enough to be of use. A handler's outcome depends on what one
other transaction committed between its read and its write, so two slots reach
any such race; a third is there for tokens, where a retry meets a refresh and an
eviction. One orchestrator and one specialist reach every guard, which speaks of
the agent itself, of some specialist, or of all. Two posts let one be read while
another arrives; three let a drain stop in between. A run of two projects has an
order, one of three a middle member to remove. Two versions of a status are an
old answer and a newer event. `OrchestratorOnly` leaves the specialist alone
after its spawn so that both transactions meet on the orchestrator. Where a
theorem of section 4 states the property, the bounds no longer matter.

Deadlock is checked in the lifecycle runs. The others say `CHECK_DEADLOCK FALSE`
because a bound (tokens, posts, numbers, boots) ends their behaviours, and so may
a user who does nothing more.

**Fairness.** No fairness is assumed of the user, nor of agents except where
their protocol text tells them to repeat a call. A transaction in flight commits
(handlers do not wait for people between read and commit); loops scan again
(they catch a scan's errors and sleep); timers and socket callbacks run (the
browser's event loop); a server that went down comes back. Strong fairness is
stated for a conductor's `complete_job`, for the decision of a settlement (a run
waits for it), and for an agent's next drain: each is tried again and again
though another request may hold the slot at times. In the MC modules each
fairness conjunct holds for its own `part` only. Liveness properties say that a
condition ends, by whatever means, since agents may keep a monitor busy forever.

## 4. Theorems

Every theorem is about a specification with arbitrary constants: any number of
agents, projects, items, tokens, requests in flight. It rests on the named
assumption of its module (finiteness and disjointness of the constants) and on
the hypotheses listed here. A hypothesis `Interleaved = FALSE` or `OneAtATime`
(at most one slot) is there because the code fails the property when requests
race: section 5 shows the race. The pattern is the same throughout: the property
is not inductive, because a decision taken earlier is written later, so the
invariant says of each request *in flight* that what it read is still so, or that
what it will write is harmless; one lemma per action shows that a step keeps it.

Every safety property and every action property of a run that passes is stated by
a theorem, under these hypotheses, but for half of one: the part `reopened` of
`CrewKept` is left to TLC, and so are the liveness properties (section 6).
The hypotheses hold of the constants of the run.

| run | property | theorem | hypotheses |
| --- | --- | --- | --- |
| `serial` | `TypeOK` | `TypeCorrect` | |
| | `JobFollowsExecution`, `NoStrandedPost` | `JobsInStep`, `PostsAnswered` | one request |
| | `TerminalIsFinal`, `ContractHonoured` | `TerminalStays`, `HonoursContract` | one request, no monitor |
| `handlers` | `StagingLockHeld`, `LaunchedAfterStaging` | `StagingLock`, `LaunchGate` | |
| | `WatchedJobsFollow` | `WatchedJobsFollowHolds` | one request |
| `approvals` | `TypeOKA` | `ApprovalTypes` | |
| | `SinglePending`, `DecisionsAreFinal` | `OnePending`, `DecisionsStand` | one request |
| `approval_races` | `AwaitingHasPendingApproval` | `ParkedCanBeReleased` | |
| `projects` | `OneActiveEach` | `OneActiveEachAlways` | |
| | `CrewKept` (its part `races`) | `ActiveCrewedHolds` | no `complete`, `delete`, `reset` |
| | `SerialCrew` | `SerialCrewHolds` | one request in its part, no `stage_launched`, no `continue` |
| | `SerialRunsKept` | `SerialRunsKeptHolds` | one request in its part, no `stage_launched` |
| `chains` | `OneSuccessor`, `NothingSurvivesEviction` | `OneSuccessorHolds`, `NothingSurvivesHolds` | |
| | `TruthfulCopies`, `RunsHonoured` | `TruthfulCopiesHolds`, `RunsHonouredHolds` | |
| | `PurgedAreFinished` | `PurgedAreFinishedHolds` | the races take no member out |
| | `PassedAreFinished` | `PassedAreFinishedHolds` | the serial part has no resume and no deactivation; a chain names a project once |
| `messages` | `NothingSkipped`, `DecisionsMeet` | `NothingSkippedHolds`, `DecisionsMeetHolds` | posts commit in order; one resolver at a time |
| | `OrderKept` | `OrderKeptComposed` | `Anchors` |
| | `CompletedKept` | `CompletedKeptComposed` | `NoEmptyWork` |
| | `SubscriptionsAgree` | `SubscriptionsAgreeComposed` | finitely many entities |
| | `ListSettled` | `ListSettledComposed` | no `stray` |
| | `PageSettled` | `PageSettledHolds` | no `blind`, `late`, `hasty`, `overlap`, `overtake` |
| `records` | `OneCounter` | `OneCounterHolds` | numbers come from the counter |
| | `PlainKeepsNumber`, `PlainRoadmapKept` | `PlainKeepsNumberHolds`, `PlainRoadmapKeptHolds` | |
| | `StampAgrees`, `EntriesKept` | `StampAgreesComposed`, `EntriesKeptComposed` | |

A row with no hypothesis about interleaving may still be about a part that serves
one request at a time, which is then its instance (`serial`, `turns`, `plain`,
`ledger`). The argument for each follows.

**`AgentLifecycleProofs`**
- `TypeCorrect`, `StagingLock`, `LaunchGate`: any interleaving, any monitors.
  `StagingInv` adds that a write in flight that puts an orchestrator to rest was
  begun when staging was complete, or completes it; nothing takes a completed
  staging back, so what was read still holds.
- `JobsInStep`, `PostsAnswered`: one request beside any monitors (which is what
  run `handlers` explores as `WatchedJobsFollow`). `SerialInv` is `Settling` (a
  write that completes an agent was begun with its posts settled), `Pairing` (it
  writes both rows of an agent or keeps them in step), `MonitorWrite` (monitors
  write `silent` or `decommissioned` only) and `PostsAccounted` (a completed
  agent's post is waived, about to be routed, or about to block it).
- `TerminalStays`, and `HonoursContract`, **the refinement of `JobContract`**: one
  request, no monitor. `ContractInv` adds that each write in flight is one of the
  contract's moves on the rows as they are (`Allowed`), so its commit is that move;
  every other step is a stutter or a post, an acknowledgement, a waiver.
- `ApprovalTypes`, `ParkedCanBeReleased`: any interleaving.
  A pending row could be in the hands of a decision that has already read its
  agent as not parked; `ApprovalInv` says that a parked agent has a pending row
  that no such decision holds (`Releasable`), and that a row in a transaction's
  hands is none, a fresh one that parks its agent, or a decision on an existing
  one (`Plain`, `Creating`, `Deciding`).
- `OnePending`, `DecisionsStand`: one request, from `StillTrue`.

**`ProjectActivationProofs`**
- `ActivationTypes`: any interleaving.
- `ActiveCrewedHolds` (at rest, an active project has an orchestrator that is not
  decommissioned): any interleaving, any number of requests, without `complete`,
  `delete` and `reset` (`Blunt`), which retire the orchestrator whatever the status
  of the project has become; section 5 shows the reset. `CrewInv` is `Attended`
  (an active project has an orchestrator or a request that is about to look for
  one) and `Careful` (a request that will retire orchestrators takes an active
  project out of that status in the same commit, or looks for one afterwards; only
  an activation makes a project active).
- `ActiveStaffedHolds` (an active project at rest has its orchestrator),
  `WorkersLaunchedHolds`, `RunsKeptHolds`: one at a time, and without staging a
  launched project through the prompt endpoint (`"stage_launched"`, which the code
  lets through and which breaks them) or, for the first, `continue`.
  `SerialCrewHolds` and `SerialRunsKeptHolds` state them of run `projects`: while
  its part that serves one request moves, every step is one of `ProjectActivation`.
- `OneActiveEachAlways`, about `ProductSwitch`: any interleaving, no hypothesis.
  `OneEach` states it without cardinalities: two active products, or two active
  projects of one product, are the same; the indexes decide at the commit.

**`SequenceRunProofs`**
- `TruthfulCopyHolds`: any interleaving, any number of stale writes, as long as a
  closeout that marked the copy commits (`"rollback" \notin Faults`). `RunInv` says
  that every copy, in a row or in a request's hands, calls only finished members
  finished; finishing is never undone, so a stale copy stays truthful.
- `PurgedFinishedHolds`: in addition nothing takes members out of runs, or
  requests are served one at a time. `PurgeInv` follows a teardown from the row it
  read to the purge (`TearsDown`): the order it examined is the run's order still.
- `PassedFinishedHolds`: requests one at a time, a mark and a closeout do not fail,
  a chain names each project once, no resume and no deactivation (which take
  marks back; section 5, `PassedFinished`). `PassInv` is, of the rows: a closed
  member of an active run is marked in it, a project is a member of one active
  run, a closed project was launched (`Rows`); of a request: what it read is what
  the row holds (`Current`). The lemmas `WithoutOrdered`, `LeftDistinct` and
  `NoFurther` say that taking a member out keeps the others' order and never moves
  the index forward.
- `HonoursChain`, **the refinement of `ChainContract`**: requests one at a time, a
  closeout that marked the copy commits; resume, deactivation, failing marks and
  advances, and chains with repeats are allowed. The map `StageOf` forgets the copy,
  the index, the conductor and the teardowns; a member is `over` when its project
  finished or is being closed out. `ChainInv` adds to `PurgeInv` that two held
  runs share no project (`Apart`), that a deleted project is in no held run once its
  deletion has returned (`DeletedLeave`), and that a request in flight knows the
  rows as they are (`Knows`): a check made before the commit still holds at it.
- `OneRunPerProjectHolds`, `DeletedOutHolds`, `EndedStaysHolds`, `RemovedStaysHolds`:
  from `ChainInv` and from the contract, of which `ContractStep` shows that an ended
  run is not taken up and a member does not come back. With requests in flight each
  of the four fails (section 5), so the hypothesis is needed.
- `PurgedSettledHolds`: between a teardown's look for settlements and its purge
  nobody else asks for one (`FoundNone`), when requests are served one at a time.

**`ChainProofs`**
- `OneSuccessorHolds`, `OneLivePerFamilyHolds`, `NothingSurvivesHolds`: any
  interleaving of refreshes, retries and evictions. `TokenInv` is `Held` (only a
  request past its check holds the row lock), `Checked` (what it read there, a live
  row and the current epoch, is still so) and
  `Rotated` (a rotated token is revoked).
- `TruthfulCopiesHolds`, `PurgedAreFinishedHolds`, `PassedAreFinishedHolds`,
  `RunsHonouredHolds`: the theorems of `SequenceRunProofs` about the parts of run
  `chains`. A part stays the part, and its behaviours are those of its instance
  (`RacesRun`, `SerialRuns`, `TurnsRun`), whose hypotheses follow from its constants.

**`MessageProofs`**
- `NothingSkippedHolds`, `CursorRealHolds`: posts commit in the order they started.
  `CursorReal`: a cursor that moved is the time of a post committed in that thread;
  `InOrder`: no post started before a committed one is still to commit;
  `ReadersFit`: what a read in flight has seen is complete up to its newest post,
  except for acknowledged ones.
- `DecisionsMeetHolds`: one call at a time opens the bound thread, none is deleted
  (`MeetInv`).
- `OrderKeptComposed`, about `TodoList`: any interleaving. The rows ascend by their
  numbers and the last number is not zero (`OrderInv`): `max or -1` gives number 0
  out again after a highest number of 0. `Anchors` asks of the reported lists that
  one with content has content behind its first place; without it `OrderKept` fails
  (section 5).
- `CompletedKeptComposed`, about `TodoList`: any interleaving. The regression guard
  counts the completed entries of the reported list, which may be blank and are then
  dropped; `NoEmptyWork` excludes those, and without it `CompletedKept` fails (section
  5). Counts are cardinalities of sets of places (`PlacesCounted`), and a list that
  loses its blanks keeps the other places (`RowsOf`).
- `NothingOpenHolds`, about `TodoList`: reports do not overlap. `GateInv` follows the
  gate's ticks to the completion.
- `SubscriptionsAgreeComposed`: whatever is dropped, evicted or restarted. `SocketInv`:
  one live socket (`LiveOne`); the server's subscriptions, the frames on the wire
  and the queue, applied in order, add up to what is wanted (`QueueTrue`,
  `WireTrue`). A reopening or a logout sends one frame for each pinned entity, a
  sequence of a finite set, hence the finitely many entities.
- `ListSettledComposed` (without `"stray"`): the newest call answers the remembered
  query and, once read, brings every change owed unless the event of a creation is
  still on its way (`Newest`); with no such call the list on screen is its answer
  (`Answered`); the remembered query is the page's (`Remembered`). Rows replaced in
  between change neither. Of other people's changes to a listed project it says
  nothing: `ListRowsSettle` of section 5 is what the code does not keep.
- `PageSettledHolds`: `FlagsCatchUpHolds` (without `"blind"` and `"late"`; `CompleteKnown`,
  `LaunchKnown`, `ResetAlone`: what the page does not know yet is on the wire) and
  `RowsSettleHolds` (without `"hasty"`, `"overlap"`, `"overtake"`): an event that will
  correct a row is on the wire, in a debounce, or in a load in flight (`Told`,
  `DelayRight`). The excluded operations name an overlap each with which TLC finds
  the property violated: they are findings, not conveniences.

**`WorkItemsProofs`**
- `OneCounterHolds`: any interleaving of the calls that number by the counter
  (`ByCounter`: no number by hand, no renumbering, no conversion). `OneHolder`: one
  request of a product holds the allocation lock, and its number is free.
- `LiveKeepsNumberHolds`, `RoadmapKeptHolds`, `PurgedFromTrashHolds`,
  `AutoNeverCollidesHolds`, and `RoadmapOwnHolds` (without converting another
  product's task): one request at a time, every operation (`SoloInv`).

**`ProductMemoryProofs`**
- `MemoryTypes`, `EntriesKeptHolds`: any interleaving.
- `StampAgreesHolds`: any interleaving, any failures, chained or not. A project
  carries the closeout stamp exactly when a closeout entry tells of it or its row is
  completed, and a decommissioned agent means a stamp. It does not say that entry
  and row come together: they do not (section 5, `CompletedTold`, `MemberAtOnce`).
  `StampInv` adds that the project of a member's closeout between its two commits
  is stamped (`told`).
- `NumberFreeHolds`, `DeletedMarkedHolds`, `ClosingStepHolds`: one call at a time.

**`RecordProofs`** cites these of the parts of run `records`: `PlainKeepsNumberHolds`
and `PlainRoadmapKeptHolds` of `plain`, `StampAgreesComposed` and
`EntriesKeptComposed` of `memory` in every interleaving and of `ledger` one call at a
time.

Induction over data is replaced by minimal counterexamples. From induction on
numbers alone, `LeastExists` proves that a nonempty set of naturals has a least
element; the proofs about recursive functions (`Without` in `SequenceRun`, the
numbering in `TodoList`) take the least index at which the claim fails.

## 5. Where the code and its own text disagree

Each row is an entry of `findings` in `PROJECT.json`, which quotes the text. Two
have a run whose violation TLC finds. For the others the definition is in the
named module, stated there as a property, and TLC refutes it on an instance with
the constants given (other operations may be present; `1`/`2` are slots).

| property | instance | what happens |
| --- | --- | --- |
| `NoStrandedPost` (run `stranded_post`) | two slots | a post lands between `complete_job`'s gate and its commit: the agent is complete with an unread action-required post |
| `DecisionsAreFinal` (run `decided_twice`) | two slots | two decisions pass `mark_decided`'s recheck, which the identity map answers |
| `ClosedNotAutoBlocked` | `AgentLifecycle`, 2 | routing writes `blocked` over `closed` |
| `WorkingJobIsActive` | `AgentLifecycle`, 1, a post | a completed agent reports progress and works under a completed job |
| `AbandonedIsDecommissioned` | `AgentLifecycle`, both monitors | an agent marked silent is never given up |
| `OnlyDecisionsRelease` | `UserApprovals`, 1 | `set_agent_status` leaves `awaiting_user` |
| `FindingsApproved` | `UserApprovals`, 1 | a gate approval that was rejected, or decided for an earlier closeout, lets the next closeout with findings through |
| `OneOrchestrator` | `ProjectActivation`, 1 with `continue`, `restage`; or 2 with `activate` | replaced orchestrators resumed; two fixtures |
| `ActiveCrewed` | `ProjectActivation`, 2 with `activate`, `stage`, `reset` | a reset that read `inactive` does not write it and deletes the orchestrator an activation has just counted on |
| `RunsKept` | `ProjectActivation`, interleaved | an orchestrator that has just started is deleted |
| `CompletedStays` | `ProjectActivation`, 2 | an activation writes `inactive` over `completed` |
| `WorkersLaunched` | `ProjectActivation`, 1 with `stage_launched`, `restage` | a launch is cleared under working specialists |
| `LaunchedEver` | `ProjectActivation`, a chain project | a chain's launch leaves `ever_launched_at` null |
| `EndedStays` | `SequenceRun`, interleaved with `cancel` | an advance revives a cancelled run |
| `OneRunPerProject` | `SequenceRun`, 2 with `start` | a project is enrolled twice |
| `RemovedStays` | `SequenceRun`, 2 with `remove` | of two removals one is undone |
| `PurgedFinished` | `SequenceRun`, fault `rollback` | a run is purged over an open project |
| `PurgedByConductor` | `SequenceRun`, 1 with `settle`, `decide` | a decision purges the run under its conductor |
| `PassedFinished` | `SequenceRun`, two runs, `deactivate` | an old closeout stamp opens the next chain's gate |
| `DeletedOut` | `SequenceRun`, 2 with `delete` | a deleted project stays a member |
| `NothingSkipped` | `HubThread`, interleaved | a post that commits late is behind the cursor |
| `BlockersDrainable` | `HubThread`, `delete` | a trashed thread blocks completion and cannot be read |
| `DecisionOnKnownThread` | `HubThread`, two resolvers | two bound threads |
| `OrderKept`, `CompletedKept` | `TodoList`, 1, longer lists | appends tie on number 0; a blank stands in for completed work |
| `NothingOpenWhenDone` | `TodoList`, 2 | a late report writes under a completed job |
| `AutoNeverCollides` | `WorkItems`, 2 with `manual` | a number by hand beats the allocator |
| `OneCounter`, `RoadmapOwn` | `WorkItems`, `stale` or 2 with `convert`, `trash` | a conversion uses a stale product, number or trash mark |
| `RoadmapKept` | `WorkItems`, 2 with `convert`, `plan` | a roadmap entry goes with the task |
| `PurgedFromTrash` | `WorkItems`, 2 with `purge`, `restore` | a restored project is destroyed |
| `LiveKeepsNumber` | `WorkItems`, 2 with `restore` | a repeated restore renumbers |
| `ExhaustedWhenUsed` | `WorkItems`, `manual` | the top number ends all allocation |
| `StampIsLastTune`, `StaleMeansProjects`, `AnswerTruthful` | `ProductMemory`, 1 | a second tuning's stamp is not written; other entries count; blockers read as verified |
| `TicksWithEntry`, `ForcedLeavesNobody`, `NoWorkForcedOut` | `ProductMemory`, 1 | a refusal ticks off todos; a forced closeout leaves resting agents and ends working ones |
| `CompletedTold` | `ProductMemory`, 1 with `complete` | a completion whose closeout is refused completes the project without an entry |
| `MemberAtOnce` | `ProductMemory`, a chained project, `close` | a member's closeout stops between its two commits |
| `DeletedMarked` | `ProductMemory`, 2 | an entry escapes the marks of its project's deletion |
| `OneActiveProject`, `DeletedStops` | `ProductSwitch`, 1 | a project active in a product that is off, or deleted |
| `NoFalseFailure` | `ProductSwitch`, 2 | a committed activation is answered with an error |
| `NoFalseAlarm` | `TokenRefresh`, 2 | a retry that overlaps its first request revokes the family |
| `RaisedWhenDue`, `DismissedStays` | `TuningReminder`, 1 | the reminder of a second tuning is lost; a dismissed one comes back |
| `AnnouncedStays` | `Notifications`, mode `release`, `fail` | an outage clears a banner |
| `RevokedQuiet` | `Notifications`, interleaved, `revoke` | a revoked key is warned of |
| `ConnectedIsServed` | `LiveSocket`, fault `evict` | an evicted client believes itself connected |
| `RoutedInTheEnd`, `NothingMissedForGood` | `LiveSocket`, fault `restart`, or none | a first connection that fails is never routed; a gap before the first registration is never refetched |
| `StaysDisconnected` | `LiveSocket`, `logout` | a deliberate disconnect reconnects |
| `OthersGetTheDefault`, `RollbackRestores` | `ProjectList`, `stray`; none | a late fetch filters other pages; a rollback overwrites another row |
| `ListRowsSettle` | `ProjectList`, none | a row fetched alone stays on a list whose filter excludes it, is missing on one that selects it, or is older than the list |
| `LaunchOffered`, `FlagsCatchUp`, `FlagsConverge` | `StageFlags`, none; `blind`; none or `others` | launch hidden; announced before it is committed; an old answer takes a restage back |
| `RowsSettle` | `JobBoard`, `overlap` | an old answer replaces the board for good |

More traces worth a look: `dismiss` accepts an agent that blocked itself in
mid-work and completes its job past the gates
(`orchestration_agent_state_service.py:440`); two concurrent approval requests
are both pending (`user_approval_service.py:202`).

## 6. Only model-checked, and not modelled

Left to TLC, and why:

- **Liveness** (`StaleWorkerNoticed`, `BannersSettle`, `FinishedChainEnds`,
  `ThreadsServed`, `Recovers`): the prover handles neither fairness nor ENABLED.
  `BannersSettle` has a safety half, that a dismissed or aged key is not shown
  again, which is close to the shape of `Notifications` and was left with it.
- `CrewKept` where completed projects are continued (part `reopened`): with a restage
  among the operations it fails (`OneOrchestrator`), so the part names few.
- What a finding of section 5 shows: the theorems exclude those interleavings or
  operations by name, and TLC alone shows what happens with them.
- `PassedFinished` with a deactivation, which part `turns` does not state: a
  deactivation takes marks back, and the next chain passes on an old stamp.

Where a model is narrower than the code, or a run than its module:

- `close_out_project` has no endpoint; only tests call it. It is in part `ledger`, one
  call at a time, and in the theorems with any number.
- A forced closeout that meets two active orchestrators (the query expects one) is
  undone; the run has one orchestrator, the theorems any number.
- The self-closing of a CTX orchestrator (`mission_orchestration_service.py:507`)
  stamps and completes its project without an entry and is not modelled; it would
  keep `StampAgrees`. Nor are a project without a product and the refusal of a
  superseded one. A deadlock is ended at the expense of either call (`Fail`); a
  member's mark that fails on its own session is not told apart from that.
- The rows part of the project list follows one project. A deletion, which takes
  the row out of the list in place, the restoring of one, which puts it there, and
  the superseding dialog, which replaces it, are not modelled; nor are the local
  patches of other stores.
- An orchestrator's own closeout entries are ticked off by `complete_job` instead of
  blocking it (`job_completion_service.py:582-615`): `TodoList` and `ProductMemory`
  have them, `todo` of `AgentLifecycle` is about ordinary entries.
- `OrderKept` is about lists in which something stands behind the first place.
- Overlapping completions, deletions and resets of projects are not in `CrewKept`,
  continued projects only in its part `reopened`.

Not modelled: restage and its kin inside `AgentLifecycle` (they are in
`ProjectActivation`, so `StagingLock` is about a project that is staged once);
spawn-time checks on names, templates and predecessors; alert levels of the
health monitor below the give-up; posts that require no action, in the
lifecycle; reordering, edit lock, reviews and chain mission of a run; baton, search
and listing of threads; subtasks, subseries, types and statuses of items; the
code exchange, dashboard cookie and login lockout; the event bus and the broker
between several servers; the stores of messages, memory, tasks and settings. A
database failure in mid-transaction rolls it back, which is a request never made,
except at the phases above. The components listed as not modelled are validation,
text, filters and periodic deletes: they decide no transition.

## 7. Plan

Done: every component with lifecycle state has a module and a run; every safety
and action property that a passing run checks has a theorem (of `CrewKept`, one of
its two parts), the two contracts
(`JobContract`, `ChainContract`) are refined by their modules.

Left, in order of what they would say:

1. `ProductSwitch` and `Notifications`: their other safety properties one call at a
   time (`NoFalseFailure`, `RevokedQuiet`), which section 5 refutes with two.
2. `TuningReminder` and the silence detector: what their runs check is liveness.
3. The login lockout and the authorization-code exchange beside `TokenRefresh`.
4. The event bus and broker between several servers, beside `LiveSocket`.
