---------------------------- MODULE SequenceRun ----------------------------
(***************************************************************************)
(* The chain runs of a tenant: several projects driven one after another   *)
(* by a conductor.  A run keeps a copy of its members' statuses as one     *)
(* JSON map; the truth is in the project rows.  Nearly every writer reads  *)
(* the run, closes its session, and writes whole columns in a later        *)
(* transaction, best effort.                                               *)
(*                                                                         *)
(* A call that takes several transactions is a slot with the run it read   *)
(* (copy); every phase of it is one transaction.  Without Interleaved and  *)
(* with one slot the calls are served one at a time.  Which active run of  *)
(* a project is the most recently updated one is left open.                *)
(***************************************************************************)
EXTENDS Naturals, Sequences, FiniteSets, SequencesExt

CONSTANTS
    Projects,     \* the projects of the tenant
    Runs,         \* the runs that can be created (a bound)
    Chains,       \* the orders in which runs are requested
    NoProject, NoRun,
    Slots,        \* requests in flight
    Interleaved,  \* other calls are served while a request is in flight
    Ops,          \* the operations that are called
    Faults        \* what may fail: "mark", "advance", "rollback"

SequenceRunAssumption ==
    /\ NoProject \notin Projects /\ NoRun \notin Runs
    /\ \A c \in Chains : c \in Seq(Projects) /\ Len(c) >= 2
    /\ Interleaved \in BOOLEAN

VARIABLES
    run,        \* rows of sequence_runs
    conductor,  \* the execution of each run's conductor
    settle,     \* members whose settlement approval is pending, of each run
    member,     \* rows of the projects
    slot

vars == <<run, conductor, settle, member, slot>>

Active == {"pending", "running", "stalled"}
Ended == {"terminated", "cancelled"}
Terminal == {"completed", "terminated"}
Finished == {"completed", "terminated", "deleted"}

NewRun(order) == [status |-> "pending", order |-> order, index |-> 0, conducted |-> TRUE,
                  copy |-> [p \in Projects |-> "pending"]]
Absent == [NewRun(<<>>) EXCEPT !.status = "none", !.conducted = FALSE]
Idle == [op |-> "none", phase |-> "idle", p |-> NoProject, r |-> NoRun, read |-> Absent]

(* ended and asked are history: the project finished at some time, and it   *)
(* has asked for its settlement approval.                                   *)
NewMember == [row |-> "live", closed |-> FALSE, launched |-> FALSE, ended |-> FALSE,
              asked |-> FALSE]

IsRun(x) ==
    /\ x.status \in Active \cup Ended \cup {"none", "purged"}
    /\ \A i \in DOMAIN x.order : x.order[i] \in Projects
    /\ x.index \in Nat /\ x.conducted \in BOOLEAN
    /\ x.copy \in [Projects -> {"pending", "implementing"} \cup Terminal]

TypeOK ==
    /\ DOMAIN run = Runs /\ \A r \in Runs : IsRun(run[r])
    /\ conductor \in [Runs -> {"none", "working", "complete"}]
    /\ settle \in [Runs -> SUBSET Projects]
    /\ member \in [Projects -> [row : {"live"} \cup Finished, closed : BOOLEAN,
                                launched : BOOLEAN, ended : BOOLEAN, asked : BOOLEAN]]
    /\ \A s \in Slots :
         /\ slot[s].op \in Ops \cup {"none"} /\ IsRun(slot[s].read)
         /\ slot[s].p \in Projects \cup {NoProject} /\ slot[s].r \in Runs \cup {NoRun}
         /\ slot[s].phase = "idle" <=> slot[s] = Idle
    /\ \A r \in Runs : conductor[r] = "none" <=> run[r].status \in {"none", "purged"}

Init ==
    /\ run = [r \in Runs |-> Absent]
    /\ conductor = [r \in Runs |-> "none"]
    /\ settle = [r \in Runs |-> {}]
    /\ member = [p \in Projects |-> NewMember]
    /\ slot = [s \in Slots |-> Idle]

-----------------------------------------------------------------------------
Exists(r) == r # NoRun /\ run[r].status \notin {"none", "purged"}
ActiveRuns(p) == {r \in Runs : run[r].status \in Active /\ p \in ToSet(run[r].order)}
IsConducted(r) == run[r].status \in Active /\ run[r].conducted
Ultralocked(r) ==
    \/ run[r].status \in {"running", "stalled"}
    \/ \E p \in ToSet(run[r].order) : member[p].launched
InFlight(x) == IF x.index < Len(x.order) THEN x.order[x.index + 1] ELSE NoProject
Position(order, p) == (CHOOSE i \in DOMAIN order : order[i] = p) - 1

Is(s, op, phase) == slot[s].op = op /\ slot[s].phase = phase
Quiet == \A s \in Slots : slot[s].phase = "idle"
Served == Interleaved \/ Quiet
Goto(s, phase) == slot' = [slot EXCEPT ![s].phase = phase]
Return(s) == slot' = [slot EXCEPT ![s] = Idle]
Read(s, r, phase) == slot' = [slot EXCEPT ![s].r = r, ![s].read = run[r], ![s].phase = phase]
Begin(s, op, p, r, phase) ==
    /\ op \in Ops
    /\ slot[s].phase = "idle"
    /\ slot' = [slot EXCEPT ![s] = [Idle EXCEPT !.op = op, !.phase = phase, !.p = p, !.r = r]]

(* update(): the columns that are passed are written, whatever they hold.   *)
Update(r, columns) ==
    run' = [run EXCEPT ![r] = [c \in DOMAIN @ |-> IF c \in DOMAIN columns
                                                  THEN columns[c] ELSE @[c]]]

Finish(q, row, closed) ==
    member' = [member EXCEPT ![q].row = row, ![q].closed = @ \/ closed, ![q].ended = TRUE]

-----------------------------------------------------------------------------
(* start_chain_run: the members are checked, then the run and its conductor *)
(* are created in another transaction.                                      *)
(* Mutant of Start: a project that another run has enrolled is not refused. *)
StartEnrolled(s, chain) ==
    /\ \A p \in ToSet(chain) : member[p].row = "live" /\ ~member[p].launched
    /\ "start" \in Ops /\ slot[s].phase = "idle"
    /\ slot' = [slot EXCEPT ![s] = [Idle EXCEPT !.op = "start", !.phase = "create",
                                                !.read = NewRun(chain)]]
    /\ UNCHANGED <<run, conductor, settle, member>>
Start(s, chain) ==
    /\ \A p \in ToSet(chain) : /\ member[p].row = "live" /\ ~member[p].launched
                               /\ ActiveRuns(p) = {}
    /\ "start" \in Ops /\ slot[s].phase = "idle"
    /\ slot' = [slot EXCEPT ![s] = [Idle EXCEPT !.op = "start", !.phase = "create",
                                                !.read = NewRun(chain)]]
    /\ UNCHANGED <<run, conductor, settle, member>>
Create(s) ==
    /\ Is(s, "start", "create")
    /\ \E r \in Runs : /\ run[r].status = "none"
                       /\ run' = [run EXCEPT ![r] = slot[s].read]
                       /\ conductor' = [conductor EXCEPT ![r] = "working"]
    /\ Return(s)
    /\ UNCHANGED <<settle, member>>

(* A member's staging end launches it: the run is advanced in transactions  *)
(* of its own, before the launch itself is committed.                       *)
StagingEnd(s, p) ==
    /\ member[p].row = "live" /\ ~member[p].launched /\ ActiveRuns(p) # {}
    /\ Begin(s, "launch", p, NoRun, "read")
    /\ UNCHANGED <<run, conductor, settle, member>>
AdvanceRead(s) ==
    /\ Is(s, "launch", "read")
    /\ \/ ActiveRuns(slot[s].p) = {} /\ Goto(s, "stamp")
       \/ \E r \in ActiveRuns(slot[s].p) : Read(s, r, "index")
    /\ UNCHANGED <<run, conductor, settle, member>>
Forward(s) ==
    LET idx == Position(slot[s].read.order, slot[s].p)
    IN  IF slot[s].read.index > idx THEN slot[s].read.index ELSE idx
(* Mutant of LeftBehindClosed: the project left behind is not looked at.    *)
AnyLeftBehind(s) == TRUE
LeftBehindClosed(s) == member[slot[s].read.order[Forward(s)]].closed
AdvanceIndex(s) ==
    /\ Is(s, "launch", "index")
    /\ IF Forward(s) > 0 /\ LeftBehindClosed(s)
         THEN IF Exists(slot[s].r)
                THEN Update(slot[s].r, [index |-> Forward(s)]) /\ Goto(s, "write")
                ELSE Goto(s, "stamp") /\ UNCHANGED run
         ELSE Goto(s, "write") /\ UNCHANGED run
    /\ UNCHANGED <<conductor, settle, member>>
AdvanceWrite(s) ==
    /\ Is(s, "launch", "write")
    /\ \/ /\ Exists(slot[s].r)
          /\ LET implementing == [slot[s].read.copy EXCEPT ![slot[s].p] = "implementing"]
             IN  IF Forward(s) = 0
                   THEN Update(slot[s].r, [status |-> "running", copy |-> implementing, index |-> 0])
                   ELSE Update(slot[s].r, [status |-> "running", copy |-> implementing])
       \/ (~Exists(slot[s].r) \/ "advance" \in Faults) /\ UNCHANGED run
    /\ Goto(s, "stamp")
    /\ UNCHANGED <<conductor, settle, member>>
StampLaunch(s) ==
    /\ Is(s, "launch", "stamp")
    /\ \/ member' = [member EXCEPT ![slot[s].p].launched = TRUE]
       \/ "rollback" \in Faults /\ UNCHANGED member
    /\ Return(s)
    /\ UNCHANGED <<run, conductor, settle>>

(* The silence detector stalls the run whose in-flight member went silent.  *)
GoSilent(s, p) ==
    /\ member[p].row = "live" /\ member[p].launched
    /\ \E r \in ActiveRuns(p) :
         /\ InFlight(run[r]) = p /\ run[r].status # "stalled"
         /\ Begin(s, "stall", p, r, "write")
    /\ UNCHANGED <<run, conductor, settle, member>>
MarkStalled(s) ==
    /\ Is(s, "stall", "write")
    /\ IF Exists(slot[s].r) THEN Update(slot[s].r, [status |-> "stalled"]) ELSE UNCHANGED run
    /\ Return(s)
    /\ UNCHANGED <<conductor, settle, member>>

-----------------------------------------------------------------------------
(* Closeout of a member.  The tool an agent calls stamps the closeout in    *)
(* the transaction that marks the member, and completes the project row of  *)
(* a member in the next one.  The dashboard's complete_project marks the    *)
(* member in a session of its own and commits the project afterwards.       *)
CloseMember(s, op, p) ==
    /\ op \in {"close", "complete_project"}
    /\ member[p].row = "live" /\ member[p].launched
    /\ Begin(s, op, p, NoRun, "find")
    /\ UNCHANGED <<run, conductor, settle, member>>
MarkRead(s) ==
    /\ slot[s].op \in {"close", "complete_project"} /\ slot[s].phase = "find"
    /\ \/ ActiveRuns(slot[s].p) = {} /\ Goto(s, "commit")
       \/ \E r \in ActiveRuns(slot[s].p) : Read(s, r, "mark")
    /\ UNCHANGED <<run, conductor, settle, member>>
Mark(s) ==
    LET p == slot[s].p  old == slot[s].read.copy IN
    /\ slot[s].op \in {"close", "complete_project"} /\ slot[s].phase = "mark"
    /\ \/ old[p] = "completed" /\ Goto(s, "commit") /\ UNCHANGED <<run, member>>
       \/ /\ old[p] # "completed" /\ Exists(slot[s].r)
          /\ Update(slot[s].r, [copy |-> [old EXCEPT ![p] = "completed"]])
          /\ IF slot[s].op = "close" THEN Finish(p, member[p].row, TRUE) ELSE UNCHANGED member
          /\ Goto(s, "commit")
       \/ /\ slot[s].op = "complete_project" /\ "mark" \in Faults
          /\ Goto(s, "commit") /\ UNCHANGED <<run, member>>
       \/ /\ ~Exists(slot[s].r)
          /\ slot' = [slot EXCEPT ![s].r = NoRun, ![s].phase = "commit"]
          /\ UNCHANGED <<run, member>>
    /\ UNCHANGED <<conductor, settle>>
CommitCloseout(s) ==
    LET row == IF slot[s].op = "close" /\ slot[s].r = NoRun THEN member[slot[s].p].row
                                                             ELSE "completed"
    IN  /\ slot[s].op \in {"close", "complete_project"} /\ slot[s].phase = "commit"
        /\ \/ Finish(slot[s].p, row, TRUE)
           \/ "rollback" \in Faults /\ UNCHANGED member
        /\ Return(s)
        /\ UNCHANGED <<run, conductor, settle>>

(* Projects end, and come back, without a word to their run.                *)
Archive(p) ==
    /\ "archive" \in Ops /\ Served
    /\ member[p].row = "live"
    /\ Finish(p, "terminated", FALSE)
    /\ UNCHANGED <<run, conductor, settle, slot>>
Reopen(p) ==
    /\ "reopen" \in Ops /\ Served
    /\ member[p].row = "completed"
    /\ member' = [member EXCEPT ![p].row = "live"]
    /\ UNCHANGED <<run, conductor, settle, slot>>

-----------------------------------------------------------------------------
(* The conductor's complete_job: the guard reads the run and heals its copy *)
(* from the project rows, then the teardown does the same again, looks for  *)
(* a pending settlement and deletes the run with the conductor's rows.  A   *)
(* decided settlement runs the teardown alone.                              *)
(* Mutant of Healed: a member that is not finished is taken for completed.  *)
HealedBlindly(copy, order) ==
    [p \in Projects |-> IF p \in ToSet(order) THEN "completed" ELSE copy[p]]
(* Mutant of Healed: the copy is trusted.                                   *)
Trusted(copy, order) == copy
Healed(copy, order) ==
    [p \in Projects |->
        IF p \notin ToSet(order) \/ copy[p] \in Terminal \/ member[p].row = "live" THEN copy[p]
        ELSE IF member[p].row = "completed" THEN "completed" ELSE "terminated"]
(* Mutant of Remaining: only the last member counts.                        *)
LastRemaining(copy, order) ==
    {p \in ToSet(order) : p = order[Len(order)] /\ copy[p] \notin Terminal}
Remaining(copy, order) == {p \in ToSet(order) : copy[p] \notin Terminal}

CompleteJob(s, r) ==
    /\ conductor[r] = "working"
    /\ Begin(s, "complete", NoProject, r, "guard")
    /\ UNCHANGED <<run, conductor, settle, member>>
GuardRead(s) ==
    /\ Is(s, "complete", "guard")
    /\ IF IsConducted(slot[s].r) THEN Read(s, slot[s].r, "heal") ELSE Goto(s, "find")
    /\ UNCHANGED <<run, conductor, settle, member>>

(* The healed copy is persisted when something was healed.                  *)
Persist(s, healed) ==
    IF healed # slot[s].read.copy /\ Exists(slot[s].r)
      THEN Update(slot[s].r, [copy |-> healed]) ELSE UNCHANGED run
GuardHeal(s) ==
    LET healed == Healed(slot[s].read.copy, slot[s].read.order) IN
    /\ Is(s, "complete", "heal")
    /\ Persist(s, healed)
    /\ IF Remaining(healed, slot[s].read.order) = {} THEN Goto(s, "find") ELSE Return(s)
    /\ UNCHANGED <<conductor, settle, member>>

(* The request ends; the conductor's own complete_job completes it.         *)
Answer(s) ==
    /\ Return(s)
    /\ conductor' = IF slot[s].op = "complete" /\ conductor[slot[s].r] = "working"
                      THEN [conductor EXCEPT ![slot[s].r] = "complete"] ELSE conductor
Teardown(s, phase) == slot[s].op \in {"complete", "decide"} /\ slot[s].phase = phase
TeardownFind(s) ==
    /\ Teardown(s, "find")
    /\ IF IsConducted(slot[s].r)
         THEN Read(s, slot[s].r, "reheal") /\ UNCHANGED conductor
         ELSE Answer(s)
    /\ UNCHANGED <<run, settle, member>>
TeardownHeal(s) ==
    LET healed == Healed(slot[s].read.copy, slot[s].read.order) IN
    /\ Teardown(s, "reheal")
    /\ Persist(s, healed)
    /\ IF Remaining(healed, slot[s].read.order) = {}
         THEN Goto(s, "settlement") /\ UNCHANGED conductor
         ELSE Answer(s)
    /\ UNCHANGED <<settle, member>>
SettlementPending(r) == settle[r] # {}
CheckSettlement(s) ==
    /\ Teardown(s, "settlement")
    /\ IF SettlementPending(slot[s].r) THEN Answer(s) ELSE Goto(s, "purge") /\ UNCHANGED conductor
    /\ UNCHANGED <<run, settle, member>>
Purge(s) ==
    /\ Teardown(s, "purge")
    /\ run' = [run EXCEPT ![slot[s].r] = [Absent EXCEPT !.status = "purged"]]
    /\ conductor' = [conductor EXCEPT ![slot[s].r] = "none"]
    /\ Return(s)
    /\ UNCHANGED <<settle, member>>

(* A finished member's complete_job carries findings: it is accepted, and   *)
(* its settlement approval is created, once.                                *)
AskSettlement(p) ==
    /\ "settle" \in Ops /\ Served
    /\ member[p].closed /\ ~member[p].asked
    /\ \E r \in ActiveRuns(p) : settle' = [settle EXCEPT ![r] = @ \cup {p}]
    /\ member' = [member EXCEPT ![p].asked = TRUE]
    /\ UNCHANGED <<run, conductor, slot>>
Decide(s, r) ==
    /\ \E p \in settle[r] : settle' = [settle EXCEPT ![r] = @ \ {p}]
    /\ Begin(s, "decide", NoProject, r, "find")
    /\ UNCHANGED <<run, conductor, member>>

-----------------------------------------------------------------------------
(* Leaving a chain.                                                         *)
Cancel(r) ==
    /\ "cancel" \in Ops /\ Served
    /\ run[r].status \in Active
    /\ Update(r, [status |-> "cancelled"])
    /\ UNCHANGED <<conductor, settle, member, slot>>

ReleaseGracefully(s, r) ==
    /\ run[r].status \in Active
    /\ InFlight(run[r]) # NoProject => run[r].copy[InFlight(run[r])] \in Terminal
    /\ Begin(s, "release", NoProject, r, "write")
    /\ UNCHANGED <<run, conductor, settle, member>>
Release(s) ==
    /\ Is(s, "release", "write")
    /\ IF Exists(slot[s].r) THEN Update(slot[s].r, [status |-> "terminated"]) ELSE UNCHANGED run
    /\ Return(s)
    /\ UNCHANGED <<conductor, settle, member>>

(* The dashboard's Resume sends the map its page holds.                     *)
OpenPage(s, r) ==
    /\ run[r].status = "stalled" /\ InFlight(run[r]) # NoProject
    /\ "resume" \in Ops /\ slot[s].phase = "idle"
    /\ slot' = [slot EXCEPT ![s] = [op |-> "resume", phase |-> "write", p |-> InFlight(run[r]),
                                    r |-> r, read |-> run[r]]]
    /\ UNCHANGED <<run, conductor, settle, member>>
ResumeChain(s) ==
    /\ Is(s, "resume", "write")
    /\ IF Exists(slot[s].r)
         THEN Update(slot[s].r, [status |-> "running",
                                 copy |-> [slot[s].read.copy EXCEPT ![slot[s].p] = "pending"]])
         ELSE UNCHANGED run
    /\ Return(s)
    /\ UNCHANGED <<conductor, settle, member>>

(* Deactivation resets the members one by one, then cancels the run.  The   *)
(* reset keeps closeout_executed_at.                                        *)
DeactivateChain(s, r) ==
    /\ run[r].status \in Active
    /\ "deactivate" \in Ops /\ slot[s].phase = "idle"
    /\ slot' = [slot EXCEPT ![s] = [Idle EXCEPT !.op = "deactivate", !.phase = "reset",
                                                !.r = r, !.read = run[r]]]
    /\ UNCHANGED <<run, conductor, settle, member>>
ResetMember(s) ==
    /\ Is(s, "deactivate", "reset")
    /\ slot[s].read.order # <<>>
    /\ LET p == Head(slot[s].read.order) IN
         /\ member' = [member EXCEPT ![p].row = IF @ = "deleted" THEN @ ELSE "live",
                                     ![p].launched = FALSE, ![p].asked = FALSE]
         /\ settle' = [r \in Runs |-> settle[r] \ {p}]
    /\ slot' = [slot EXCEPT ![s].read.order = Tail(@)]
    /\ UNCHANGED <<run, conductor>>
Dissolve(s) ==
    /\ Is(s, "deactivate", "reset")
    /\ slot[s].read.order = <<>>
    /\ IF Exists(slot[s].r)
         THEN Update(slot[s].r, [status |-> "cancelled", conducted |-> FALSE])
         ELSE UNCHANGED run
    /\ Return(s)
    /\ UNCHANGED <<conductor, settle, member>>

(* Removal of a member: refused once ultralocked, no write when it is gone, *)
(* the end of the run when one project would be left.                       *)
RemoveMember(s, r, p) ==
    /\ Exists(r) /\ p \in ToSet(run[r].order)
    /\ ~Ultralocked(r)
    /\ Begin(s, "remove", p, r, "load")
    /\ UNCHANGED <<run, conductor, settle, member>>
LoadRun(s) ==
    /\ slot[s].op \in {"remove", "delete"} /\ slot[s].phase = "load"
    /\ IF ~Exists(slot[s].r) THEN Return(s)
       ELSE IF Ultralocked(slot[s].r)
         THEN IF slot[s].op = "delete" THEN Goto(s, "cancel") ELSE Return(s)
       ELSE IF slot[s].p \in ToSet(run[slot[s].r].order) THEN Read(s, slot[s].r, "write")
       ELSE Return(s)
    /\ UNCHANGED <<run, conductor, settle, member>>
Without(order, p) ==
    LET left[i \in 0..Len(order)] ==
          IF i = 0 THEN <<>>
          ELSE IF order[i] = p THEN left[i - 1] ELSE Append(left[i - 1], order[i])
    IN  left[Len(order)]
Reindexed(x, p) ==
    LET left == Without(x.order, p)
        last == IF left = <<>> THEN 0 ELSE Len(left) - 1
    IN  IF InFlight(x) \in ToSet(left) THEN Position(left, InFlight(x))
        ELSE IF x.index < last THEN x.index ELSE last
Columns(x, p) ==
    LET left == Without(x.order, p) IN
    IF Len(left) = 1 THEN [status |-> "cancelled"]
    ELSE IF Reindexed(x, p) = x.index
      THEN [order |-> left, copy |-> [x.copy EXCEPT ![p] = "pending"]]
      ELSE [order |-> left, copy |-> [x.copy EXCEPT ![p] = "pending"], index |-> Reindexed(x, p)]
DropMember(s) ==
    /\ slot[s].op \in {"remove", "delete"} /\ slot[s].phase = "write"
    /\ IF Exists(slot[s].r)
         THEN Update(slot[s].r, Columns(slot[s].read, slot[s].p)) ELSE UNCHANGED run
    /\ Return(s)
    /\ UNCHANGED <<conductor, settle, member>>

(* A deletion commits, then drops the project from its run or ends the run. *)
DeleteProject(s, p) ==
    /\ member[p].row # "deleted"
    /\ Finish(p, "deleted", FALSE)
    /\ Begin(s, "delete", p, NoRun, "find")
    /\ UNCHANGED <<run, conductor, settle>>
FindMembership(s) ==
    /\ Is(s, "delete", "find")
    /\ \/ ActiveRuns(slot[s].p) = {} /\ Return(s)
       \/ \E r \in ActiveRuns(slot[s].p) :
            slot' = [slot EXCEPT ![s].r = r,
                                 ![s].phase = IF run[r].status \in {"running", "stalled"}
                                                THEN "cancel" ELSE "load"]
    /\ UNCHANGED <<run, conductor, settle, member>>
EndMembership(s) ==
    /\ Is(s, "delete", "cancel")
    /\ IF Exists(slot[s].r) THEN Update(slot[s].r, [status |-> "cancelled"]) ELSE UNCHANGED run
    /\ Return(s)
    /\ UNCHANGED <<conductor, settle, member>>

-----------------------------------------------------------------------------
Proceed(s) ==
    \/ Create(s) \/ AdvanceRead(s) \/ AdvanceIndex(s) \/ AdvanceWrite(s) \/ StampLaunch(s)
    \/ MarkStalled(s) \/ MarkRead(s) \/ Mark(s) \/ CommitCloseout(s)
    \/ GuardRead(s) \/ GuardHeal(s) \/ TeardownFind(s) \/ TeardownHeal(s)
    \/ CheckSettlement(s) \/ Purge(s) \/ Release(s) \/ ResumeChain(s) \/ ResetMember(s)
    \/ Dissolve(s) \/ LoadRun(s) \/ DropMember(s) \/ FindMembership(s) \/ EndMembership(s)

Next ==
    \/ \E s \in Slots, p \in Projects :
         \/ StagingEnd(s, p) \/ GoSilent(s, p) \/ DeleteProject(s, p)
         \/ \E op \in Ops : CloseMember(s, op, p)
         \/ \E r \in Runs : RemoveMember(s, r, p)
    \/ \E s \in Slots, r \in Runs :
         CompleteJob(s, r) \/ Decide(s, r) \/ ReleaseGracefully(s, r) \/ OpenPage(s, r)
         \/ DeactivateChain(s, r)
    \/ \E s \in Slots, chain \in Chains : Start(s, chain)
    \/ \E s \in Slots : Proceed(s)
    \/ \E p \in Projects : Archive(p) \/ Reopen(p) \/ AskSettlement(p)
    \/ \E r \in Runs : Cancel(r)

Spec == Init /\ [][Next]_vars

(* Requests are served, the conductor calls complete_job again after a      *)
(* refusal, and the user decides settlement approvals.  A conductor that    *)
(* finds a slot now and then is strongly fair.                              *)
FairSpec ==
    /\ Spec
    /\ \A s \in Slots : WF_vars(Proceed(s))
    /\ \A r \in Runs : /\ SF_vars(\E s \in Slots : CompleteJob(s, r))
                       /\ SF_vars(\E s \in Slots : Decide(s, r))

-----------------------------------------------------------------------------
(* A project is a member of at most one active run: start_chain_run refuses *)
(* one that is enrolled already, and every lookup takes one run.            *)
OneRunPerProject == \A p \in Projects : Cardinality(ActiveRuns(p)) <= 1

(* Once its deletion has returned, a project is a member of no active run:  *)
(* the deletion drops it from its run or ends the run.                      *)
DeletedOut ==
    Quiet => \A p \in Projects : member[p].row = "deleted" => ActiveRuns(p) = {}

Closing(p) == \E s \in Slots : slot[s].p = p /\ slot[s].op \in {"close", "complete_project"}

(* An active run takes a member for finished only when the project has      *)
(* finished or its closeout is under way, whatever stale map was written    *)
(* back over the copy.                                                      *)
TruthfulCopy ==
    \A r \in Runs : run[r].status \in Active =>
        \A p \in ToSet(run[r].order) :
            run[r].copy[p] \in Terminal => member[p].ended \/ Closing(p)

Purged(r) == run[r].status # "purged" /\ run'[r].status = "purged"

(* A run is deleted only when each of its members has finished or is being  *)
(* closed out: the teardown keys on the copy and the project rows.          *)
PurgedFinished ==
    [][\A r \in Runs : Purged(r) =>
          \A p \in ToSet(run[r].order) : member[p].ended \/ Closing(p)]_vars

(* A run is deleted only with no settlement approval pending: the teardown  *)
(* looks for one and skips the purge.                                       *)
PurgedSettled == [][\A r \in Runs : Purged(r) => settle[r] = {}]_vars

(* A run is deleted with the rows of a conductor that has nothing left to   *)
(* do: by its own final complete_job or after it.                           *)
PurgedByConductor ==
    [][\A r \in Runs : Purged(r) =>
          \/ conductor[r] = "complete"
          \/ \E s \in Slots : slot[s].op = "complete" /\ slot[s].r = r]_vars

(* A run that has ended is never active again: the advance of a member      *)
(* resolves active runs only.                                               *)
EndedStays ==
    [][\A r \in Runs : run[r].status \in Ended \cup {"purged"} =>
          run'[r].status \notin Active]_vars

(* The index moves past a member only when the run knows the member to have *)
(* finished: the project left behind must have closed out.                  *)
PassedFinished ==
    [][\A r \in Runs : run'[r].index > run[r].index =>
          run[r].copy[run[r].order[run'[r].index]] \in Terminal]_vars

(* A member that was removed from a run does not come back into it.         *)
RemovedStays ==
    [][\A r \in Runs : Exists(r) => ToSet(run'[r].order) \subseteq ToSet(run[r].order)]_vars

(* A chain whose projects have all finished is not active for ever: a lost  *)
(* or overwritten member status is healed from the project rows.            *)
FinishedChainEnds ==
    \A r \in Runs :
        ~<>[](IsConducted(r) /\ \A p \in ToSet(run[r].order) : member[p].row \in Finished)

-----------------------------------------------------------------------------
(* The contract of ChainContract, under the mapping from the rows: what     *)
(* the runs promise when requests are served one at a time.                 *)
StageOf(status) ==
    CASE status = "pending"              -> "open"
      [] status \in {"running", "stalled"} -> "underway"
      [] status \in Ended                -> "ended"
      [] OTHER                           -> status
Contract == INSTANCE ChainContract WITH
    stage <- [r \in Runs |-> StageOf(run[r].status)],
    members <- [r \in Runs |-> ToSet(run[r].order)],
    over <- {p \in Projects : member[p].ended \/ Closing(p)},
    gone <- {p \in Projects : member[p].row = "deleted"}
ChainHonoured == Contract!Spec
=============================================================================
