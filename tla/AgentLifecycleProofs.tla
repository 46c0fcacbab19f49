------------------------ MODULE AgentLifecycleProofs ------------------------
(***************************************************************************)
(* Theorems about AgentLifecycle and UserApprovals, for every set of       *)
(* agents, posts, approval rows and transaction slots.                     *)
(*                                                                         *)
(* AgentLifecycle: types and the staging invariants in every interleaving; *)
(* the rows of an agent in step and no post left behind when requests are  *)
(* served one at a time beside the monitors; the refinement of JobContract *)
(* when no monitor runs either.                                            *)
(*                                                                         *)
(* UserApprovals, with any of the monitors running beside the requests: a  *)
(* parked orchestrator always has a pending approval.  With one request in *)
(* flight at most there is at most one pending approval and decisions      *)
(* stand.                                                                  *)
(***************************************************************************)
EXTENDS UserApprovals, MCHandlers, TLAPS


-----------------------------------------------------------------------------
(* Type correctness.                                                       *)

SlotsTyped == /\ slot \in [Txns -> Transactions]
              /\ \A t \in Txns : slot[t].phase = "route" => slot[t].post \in Posts

(* An idle slot is a transaction.                                          *)
LEMMA IdleSlotType == IdleSlot \in Transactions
  BY DEF IdleSlot, Transactions, Phases, Writes, NoWrite, Keep

(* Putting a transaction into a slot keeps the slots well typed.           *)
LEMMA SlotType ==
    ASSUME TypeOK, NEW t \in Txns, NEW T \in Transactions,
           T.phase = "route" => T.post \in Posts,
           slot' = [slot EXCEPT ![t] = T]
    PROVE  SlotsTyped'
  BY DEF TypeOK, SlotsTyped

(* Holding a well-typed write set keeps the slots well typed.              *)
LEMMA HoldType ==
    ASSUME TypeOK, NEW t \in Txns, NEW A \in SUBSET Agents, NEW w \in Writes,
           Hold(t, A, w)
    PROVE  SlotsTyped'
  <1> DEFINE T == [phase |-> "write", targets |-> A, post |-> NoPost, w |-> w]
  <1>1. T \in Transactions /\ T.phase # "route"
    BY DEF Transactions, Phases
  <1>2. slot' = [slot EXCEPT ![t] = T]
    BY DEF Hold
  <1> QED BY <1>1, <1>2, SlotType

(* A slot that becomes idle keeps the slots well typed.                    *)
LEMMA FreeType ==
    ASSUME TypeOK, NEW t \in Txns, slot' = [slot EXCEPT ![t] = IdleSlot]
    PROVE  SlotsTyped'
  <1>1. IdleSlot.phase # "route"
    BY DEF IdleSlot
  <1> QED BY <1>1, IdleSlotType, SlotType

(* Beginning a transaction with a well-typed write set preserves TypeOK.   *)
LEMMA BeginType ==
    ASSUME TypeOK, NEW t \in Txns, NEW A \in SUBSET Agents, NEW w \in Writes,
           Begin(t, A, w)
    PROVE  TypeOK'
  <1>1. SlotsTyped'
    BY HoldType DEF Begin
  <1> QED BY <1>1 DEF Begin, TypeOK, SlotsTyped, rows

(* Committing merges well-typed writes into well-typed rows.               *)
LEMMA CommitType ==
    ASSUME TypeOK, NEW t \in Txns, Commit(t)
    PROVE  TypeOK'
  <1>1. slot[t].w \in Writes
    BY DEF TypeOK, Transactions
  <1>2. SlotsTyped'
    BY FreeType DEF Commit
  <1>3. status' \in [Agents -> Statuses]
    BY <1>1 DEF Commit, TypeOK, Writes, Patch
  <1>4. done' \in [Agents -> {"set", "unset"}]
    BY <1>1 DEF Commit, TypeOK, Writes, Patch
  <1>5. job' \in [Agents -> {"none", "active", "completed"}]
    BY <1>1 DEF Commit, TypeOK, Writes, Patch
  <1>6. todo' \in [Agents -> {"clear", "open"}]
    BY <1>1 DEF Commit, TypeOK, Writes, Patch
  <1>7. age' \in [Agents -> Ages]
    BY <1>1 DEF Commit, TypeOK, Writes, Patch, Ages
  <1>8. /\ staging' \in {"staging", "complete"}
        /\ project' \in {"active", "inactive", "completed"}
    BY <1>1 DEF Commit, TypeOK, Writes, Patch
  <1> QED BY <1>2, <1>3, <1>4, <1>5, <1>6, <1>7, <1>8
          DEF Commit, TypeOK, SlotsTyped

(* Every tool call of an agent preserves TypeOK.                           *)
LEMMA HandlerType ==
    ASSUME TypeOK, NEW t \in Slots, NEW a \in Agents,
           AgentHandler(t, a) \/ CompleteJob(t, a)
    PROVE  TypeOK'
  <1>0. t \in Txns /\ {a} \in SUBSET Agents
    BY DEF Txns
  <1>1. CASE SpawnJob(t, a)
    <2>0. PICK first \in {"staged", "waiting"} : Begin(t, {a}, [NoWrite EXCEPT !.status = first, !.job = "active"])
      BY <1>1 DEF SpawnJob
    <2> DEFINE W == [NoWrite EXCEPT !.status = first, !.job = "active"]
    <2>1. W \in Writes
      BY DEF Writes, NoWrite, Keep, Statuses
    <2>2. Begin(t, {a}, W)
      BY <2>0
    <2> HIDE DEF W
    <2> QED BY <1>0, <2>1, <2>2, BeginType
  <1>2. CASE UpdateAgentMission(t, a)
    <2> DEFINE Unlock == [NoWrite EXCEPT !.status = "waiting"]
               End    == [NoWrite EXCEPT !.staging = "complete"]
    <2>1. Unlock \in Writes /\ End \in Writes
      BY DEF Writes, NoWrite, Keep, Statuses
    <2>2. Begin(t, {a}, Unlock) \/ Begin(t, {a}, End)
      BY <1>2 DEF UpdateAgentMission
    <2> HIDE DEF Unlock, End
    <2> QED BY <1>0, <2>1, <2>2, BeginType
  <1>3. CASE GetJobMission(t, a)
    <2> DEFINE W == [NoWrite EXCEPT !.status = "working", !.age = "fresh"]
    <2>1. W \in Writes
      BY DEF Writes, NoWrite, Keep, Statuses
    <2>2. Begin(t, {a}, W)
      BY <1>3 DEF GetJobMission
    <2> HIDE DEF W
    <2> QED BY <1>0, <2>1, <2>2, BeginType
  <1>4. CASE ReportProgress(t, a)
    <2>0. PICK todos \in Todos : Begin(t, {a}, [NoWrite EXCEPT
                    !.status = IF status[a] \in Resting THEN "working" ELSE Keep,
                    !.age = "fresh", !.todo = Net(todo[a], todos)])
      BY <1>4 DEF ReportProgress
    <2> DEFINE W == [NoWrite EXCEPT
                    !.status = IF status[a] \in Resting THEN "working" ELSE Keep,
                    !.age = "fresh", !.todo = Net(todo[a], todos)]
    <2>1. W \in Writes
      BY ConstantsAssumption DEF Writes, NoWrite, Keep, Statuses, Net, ConstantsAssumption
    <2>2. Begin(t, {a}, W)
      BY <2>0
    <2> HIDE DEF W
    <2> QED BY <1>0, <2>1, <2>2, BeginType
  <1>5. CASE SetAgentStatus(t, a)
    <2>0. PICK rest \in Rests : Begin(t, {a}, [NoWrite EXCEPT !.status = Net(status[a], rest)])
      BY <1>5 DEF SetAgentStatus
    <2> DEFINE W == [NoWrite EXCEPT !.status = Net(status[a], rest)]
    <2>1. W \in Writes
      BY ConstantsAssumption
      DEF Writes, NoWrite, Keep, Statuses, Net, Resting, ConstantsAssumption
    <2>2. Begin(t, {a}, W)
      BY <2>0
    <2> HIDE DEF W
    <2> QED BY <1>0, <2>1, <2>2, BeginType
  <1>6. CASE EndStaging(t, a)
    <2> DEFINE W == [NoWrite EXCEPT !.status = Net(status[a], "waiting"),
                                 !.done = Net(done[a], "unset"),
                                 !.staging = Net(staging, "complete")]
    <2>1. W \in Writes
      BY DEF Writes, NoWrite, Keep, Statuses, Net
    <2>2. Begin(t, {a}, W)
      BY <1>6 DEF EndStaging
    <2> HIDE DEF W
    <2> QED BY <1>0, <2>1, <2>2, BeginType
  <1>7. CASE CompleteJob(t, a)
    <2> DEFINE W == [NoWrite EXCEPT !.status = "complete", !.done = "set",
                                 !.job = Net(job[a], "completed")]
    <2>1. W \in Writes
      BY DEF Writes, NoWrite, Keep, Statuses, Net
    <2>2. Begin(t, {a}, W)
      BY <1>7 DEF CompleteJob
    <2> HIDE DEF W
    <2> QED BY <1>0, <2>1, <2>2, BeginType
  <1>8. CASE ReactivateJob(t, a)
    <2> DEFINE W == [NoWrite EXCEPT !.status = "working",
                                 !.done = Net(done[a], "unset"),
                                 !.job = Net(job[a], "active")]
    <2>1. W \in Writes
      BY DEF Writes, NoWrite, Keep, Statuses, Net
    <2>2. Begin(t, {a}, W)
      BY <1>8 DEF ReactivateJob
    <2> HIDE DEF W
    <2> QED BY <1>0, <2>1, <2>2, BeginType
  <1>9. CASE DismissReactivation(t, a)
    <2> DEFINE W == [NoWrite EXCEPT !.status = "complete",
                                    !.job = Net(job[a], "completed")]
    <2>1. W \in Writes
      BY DEF Writes, NoWrite, Keep, Statuses, Net
    <2>2. Hold(t, {a}, W)
      BY <1>9 DEF DismissReactivation
    <2> HIDE DEF W
    <2>3. SlotsTyped'
      BY <1>0, <2>1, <2>2, HoldType
    <2>4. waived' \subseteq Posts
      BY <1>9 DEF DismissReactivation, TypeOK
    <2> QED BY <1>9, <2>3, <2>4 DEF DismissReactivation, TypeOK, SlotsTyped, rows
  <1>10. CASE CloseJob(t, a)
    <2> DEFINE W == [NoWrite EXCEPT !.status = "closed"]
    <2>1. W \in Writes
      BY DEF Writes, NoWrite, Keep, Statuses
    <2>2. Begin(t, {a}, W)
      BY <1>10 DEF CloseJob
    <2> HIDE DEF W
    <2> QED BY <1>0, <2>1, <2>2, BeginType
  <1>11. CASE AutoClearSilent(t, a)
    <2> DEFINE W == [NoWrite EXCEPT !.status = "working", !.age = "fresh"]
    <2>1. W \in Writes
      BY DEF Writes, NoWrite, Keep, Statuses
    <2>2. Begin(t, {a}, W)
      BY <1>11 DEF AutoClearSilent
    <2> HIDE DEF W
    <2> QED BY <1>0, <2>1, <2>2, BeginType
  <1>12. CASE \E p \in Posts : PostToThread(t, p, a)
    <2>1. PICK p \in Posts : PostToThread(t, p, a)
      BY <1>12
    <2> DEFINE T == [IdleSlot EXCEPT !.phase = "route", !.targets = {a}, !.post = p]
    <2>2. T \in Transactions /\ T.post \in Posts
      BY DEF IdleSlot, Transactions, Phases, Writes, NoWrite, Keep
    <2>3. slot' = [slot EXCEPT ![t] = T]
      BY <2>1 DEF PostToThread
    <2>4. SlotsTyped'
      <3> HIDE DEF T
      <3> QED BY <1>0, <2>2, <2>3, SlotType
    <2>5. inbox' \in [Agents -> SUBSET Posts] /\ sent' \subseteq Posts
      BY <2>1 DEF PostToThread, TypeOK
    <2> QED BY <2>1, <2>4, <2>5 DEF PostToThread, TypeOK, SlotsTyped, rows
  <1> QED BY <1>1, <1>2, <1>3, <1>4, <1>5, <1>6, <1>7, <1>8, <1>9, <1>10,
             <1>11, <1>12 DEF AgentHandler

(* The steps of a request slot that are not an agent's tool call.          *)
LEMMA RequestType ==
    ASSUME TypeOK, NEW t \in Slots, RequestStep(t)
    PROVE  TypeOK'
  <1>0. t \in Txns
    BY DEF Txns
  <1>1. CASE \E a \in Agents : AgentHandler(t, a)
    BY <1>1, HandlerType
  <1>2. CASE AutoBlock(t)
    <2> DEFINE W == [NoWrite EXCEPT !.status = "blocked"]
               T == [slot[t] EXCEPT !.phase = "write", !.w = W]
    <2>1. W \in Writes
      BY DEF Writes, NoWrite, Keep, Statuses
    <2>2. slot' = [slot EXCEPT ![t] = T]
      BY <1>0, <1>2 DEF AutoBlock, TypeOK
    <2> HIDE DEF W
    <2>3. T \in Transactions /\ T.phase # "route"
      BY <1>0, <2>1, ZenonT(60) DEF TypeOK, Transactions, Phases
    <2> HIDE DEF T
    <2>4. SlotsTyped'
      BY <1>0, <2>2, <2>3, SlotType
    <2> QED BY <1>2, <2>4 DEF AutoBlock, TypeOK, SlotsTyped, rows
  <1>3. CASE SkipAutoBlock(t)
    <2>1. SlotsTyped'
      BY <1>0, <1>3, FreeType DEF SkipAutoBlock
    <2> QED BY <1>3, <2>1 DEF SkipAutoBlock, TypeOK, SlotsTyped, rows
  <1>4. CASE LoseAutoBlock(t)
    <2>1. SlotsTyped'
      BY <1>0, <1>4, FreeType DEF LoseAutoBlock
    <2>2. waived' \subseteq Posts
      BY <1>0, <1>4 DEF LoseAutoBlock, TypeOK
    <2> QED BY <1>4, <2>1, <2>2 DEF LoseAutoBlock, TypeOK, SlotsTyped, rows
  <1>5. CASE ArchiveProject(t)
    <2> DEFINE T == [IdleSlot EXCEPT !.phase = "archived"]
    <2>1. T \in Transactions /\ T.phase # "route"
      BY DEF IdleSlot, Transactions, Phases, Writes, NoWrite, Keep
    <2>2. slot' = [slot EXCEPT ![t] = T]
      BY <1>5 DEF ArchiveProject
    <2>3. SlotsTyped'
      <3> HIDE DEF T
      <3> QED BY <1>0, <2>1, <2>2, SlotType
    <2> QED BY <1>5, <2>3 DEF ArchiveProject, TypeOK, SlotsTyped
  <1>6. CASE CloseCompletedAgents(t)
    <2> DEFINE W == [NoWrite EXCEPT !.status = "closed"]
               A == {a \in Agents : status[a] = "complete"}
    <2>1. W \in Writes /\ A \in SUBSET Agents
      BY DEF Writes, NoWrite, Keep, Statuses
    <2>2. Hold(t, A, W)
      BY <1>6 DEF CloseCompletedAgents
    <2> HIDE DEF W, A
    <2>3. SlotsTyped'
      BY <1>0, <2>1, <2>2, HoldType
    <2> QED BY <1>6, <2>3 DEF CloseCompletedAgents, TypeOK, SlotsTyped, rows
  <1>7. CASE ContinueWorking(t)
    <2> DEFINE W == [NoWrite EXCEPT !.status = "waiting", !.project = "inactive"]
               A == {a \in Agents : status[a] = "decommissioned"}
    <2>1. W \in Writes /\ A \in SUBSET Agents
      BY DEF Writes, NoWrite, Keep, Statuses
    <2>2. Begin(t, A, W)
      BY <1>7 DEF ContinueWorking
    <2> HIDE DEF W, A
    <2> QED BY <1>0, <2>1, <2>2, BeginType
  <1> QED BY <1>1, <1>2, <1>3, <1>4, <1>5, <1>6, <1>7 DEF RequestStep

(* A scan of a monitor preserves TypeOK.                                   *)
LEMMA MonitorType ==
    ASSUME TypeOK, NEW m \in Monitors, MonitorStep(m)
    PROVE  TypeOK'
  <1>0. m \in Txns
    BY DEF Txns
  <1>1. CASE DetectSilentAgents(m)
    <2> DEFINE W == [NoWrite EXCEPT !.status = "silent"]
    <2>1. W \in Writes /\ StaleWorkers \in SUBSET Agents
      BY DEF Writes, NoWrite, Keep, Statuses, StaleWorkers
    <2>2. Begin(m, StaleWorkers, W)
      BY <1>1 DEF DetectSilentAgents
    <2> HIDE DEF W
    <2> QED BY <1>0, <2>1, <2>2, BeginType
  <1>2. CASE \E a \in Agents : HandleUnhealthyJob(m, a)
    <2> DEFINE W == [NoWrite EXCEPT !.status = "decommissioned"]
    <2>1. W \in Writes
      BY DEF Writes, NoWrite, Keep, Statuses
    <2>2. PICK a \in Agents : Begin(m, {a}, W)
      BY <1>2 DEF HandleUnhealthyJob
    <2> HIDE DEF W
    <2>3. {a} \in SUBSET Agents
      OBVIOUS
    <2> QED BY <1>0, <2>1, <2>2, <2>3, BeginType
  <1> QED BY <1>1, <1>2 DEF MonitorStep

(* The user, reading agents and the passing of time preserve TypeOK.       *)
LEMMA EnvironmentType ==
    ASSUME TypeOK, Environment
    PROVE  TypeOK'
  <1>1. CASE LaunchImplementation
    BY <1>1 DEF LaunchImplementation, TypeOK, rows
  <1>2. CASE ActivateProject
    BY <1>2 DEF ActivateProject, TypeOK
  <1>3. CASE DeactivateProject
    BY <1>3 DEF DeactivateProject, TypeOK
  <1>4. CASE \E a \in Agents : ReadThread(a)
    BY <1>4 DEF ReadThread, TypeOK, rows
  <1>5. CASE \E a \in Agents : Tick(a)
    BY <1>5, ZenonT(60) DEF Tick, TypeOK, Ages
  <1> QED BY <1>1, <1>2, <1>3, <1>4, <1>5 DEF Environment

(* Every step preserves TypeOK.                                            *)
LEMMA StepType ==
    ASSUME TypeOK, [Next]_vars
    PROVE  TypeOK'
  <1>1. CASE Next
    BY <1>1, RequestType, HandlerType, MonitorType, CommitType, EnvironmentType
    DEF Next
  <1>2. CASE UNCHANGED vars
    BY <1>2 DEF vars, TypeOK
  <1> QED BY <1>1, <1>2

(* The initial rows are well typed.                                        *)
LEMMA InitType ==
    ASSUME Init
    PROVE  TypeOK
  <1>1. slot = [t \in Txns |-> IdleSlot] /\ IdleSlot.phase # "route"
    BY DEF Init, IdleSlot
  <1>2. SlotsTyped
    BY <1>1, IdleSlotType DEF SlotsTyped
  <1>3. /\ status \in [Agents -> Statuses]
        /\ job \in [Agents -> {"none", "active", "completed"}]
    BY DEF Init, Statuses
  <1>4. /\ done \in [Agents -> {"set", "unset"}]
        /\ todo \in [Agents -> {"clear", "open"}]
        /\ age \in [Agents -> Ages]
        /\ old \in [Agents -> BOOLEAN]
        /\ inbox \in [Agents -> SUBSET Posts]
    BY DEF Init, Ages
  <1>5. /\ project \in {"active", "inactive", "completed"}
        /\ staging \in {"staging", "complete"}
        /\ launched \in BOOLEAN
        /\ sent \subseteq Posts
        /\ waived \subseteq Posts
    BY DEF Init
  <1> QED BY <1>2, <1>3, <1>4, <1>5 DEF TypeOK, SlotsTyped

(* Every reachable state is well typed: no handler, and no merge of a      *)
(* commit into rows that changed meanwhile, writes a value outside its     *)
(* column's check constraint.                                              *)
THEOREM TypeCorrect == Spec => []TypeOK
  <1>1. Init => TypeOK
    BY InitType
  <1>2. TypeOK /\ [Next]_vars => TypeOK'
    BY StepType
  <1> QED BY <1>1, <1>2, PTL DEF Spec
-----------------------------------------------------------------------------
(***************************************************************************)
(* The staging lock and the launch gate, whatever handlers interleave.     *)
(*                                                                         *)
(* Neither property is inductive: a write decided while the project was    *)
(* staging could still be in flight.  What makes them hold under           *)
(* concurrency is that both rest on facts that are never undone (staging   *)
(* completes once, a specialist's row is never deleted), so a transaction  *)
(* that read them stays right until it commits.                            *)
(***************************************************************************)
SpecialistSpawned == \E a \in Specialists : Exists(a)

SafeWrite(targets, w) ==
    /\ w.status \in {"idle", "sleeping"} /\ targets \cap Orchestrators # {}
         => staging = "complete"
    /\ w.staging = "complete" => SpecialistSpawned

StagingInv ==
    /\ TypeOK
    /\ StagingLockHeld
    /\ staging = "complete" => SpecialistSpawned
    /\ launched => staging = "complete"
    /\ \A t \in Txns : slot[t].phase = "write" => SafeWrite(slot[t].targets, slot[t].w)

(* A write set that neither rests its agents nor ends staging.             *)
PlainWrite(w) == w.status \notin {"idle", "sleeping"} /\ w.staging # "complete"

(* Beginning a transaction with a safe write set preserves StagingInv.     *)
LEMMA BeginStaging ==
    ASSUME StagingInv, NEW t \in Txns, NEW A \in SUBSET Agents, NEW w \in Writes,
           SafeWrite(A, w), Hold(t, A, w), TypeOK', UNCHANGED <<rows, launched>>
    PROVE  StagingInv'
  <1>1. UNCHANGED <<status, staging>>
    BY DEF rows
  <1>2. ASSUME NEW u \in Txns, slot'[u].phase = "write"
        PROVE  SafeWrite(slot[u].targets, slot[u].w)'
    <2>1. CASE u = t
      <3>1. slot'[u].targets = A /\ slot'[u].w = w
        BY <2>1 DEF Hold, StagingInv, TypeOK
      <3> QED BY <3>1, <1>1 DEF SafeWrite, SpecialistSpawned, Exists
    <2>2. CASE u # t
      <3>1. slot'[u] = slot[u]
        BY <2>2 DEF Hold, StagingInv, TypeOK
      <3> QED BY <3>1, <1>1, <1>2 DEF StagingInv, SafeWrite, SpecialistSpawned, Exists
    <2> QED BY <2>1, <2>2
  <1> QED BY <1>1, <1>2 DEF StagingInv, StagingLockHeld, SpecialistSpawned, Exists

(* So does a step that only empties a slot or starts to route.             *)
LEMMA QuietStaging ==
    ASSUME StagingInv, TypeOK', UNCHANGED <<status, staging>>,
           launched' => staging = "complete",
           \A u \in Txns : slot'[u] = slot[u] \/ slot'[u].phase # "write"
    PROVE  StagingInv'
  BY DEF StagingInv, StagingLockHeld, SpecialistSpawned, Exists, SafeWrite

(* Committing a safe write set preserves StagingInv: staging is never      *)
(* reset and no row disappears.                                            *)
LEMMA CommitStaging ==
    ASSUME StagingInv, NEW t \in Txns, Commit(t)
    PROVE  StagingInv'
  <1> DEFINE w == slot[t].w
             A == slot[t].targets
  <1>1. TypeOK /\ TypeOK'
    BY CommitType DEF StagingInv
  <1>2. w \in Writes /\ A \subseteq Agents /\ SafeWrite(A, w)
    BY <1>1 DEF StagingInv, TypeOK, Transactions, Commit
  <1>3. /\ staging' = Patch(w.staging, staging)
        /\ \A a \in Agents : status'[a] = IF a \in A THEN Patch(w.status, status[a])
                                                     ELSE status[a]
        /\ \A u \in Txns : slot'[u] = slot[u] \/ slot'[u].phase = "idle"
        /\ launched' = launched
    <2>1. slot'[t] = IdleSlot /\ \A u \in Txns \ {t} : slot'[u] = slot[u]
      BY <1>1 DEF Commit, TypeOK
    <2> QED BY <2>1 DEF Commit, IdleSlot
  <1>4. staging = "complete" => staging' = "complete"
    BY <1>2, <1>3 DEF Patch, Writes
  <1>5. \A a \in Agents : Exists(a) => status'[a] # "none"
    BY <1>2, <1>3 DEF Patch, Writes, Statuses, Exists, Keep
  <1>6. SpecialistSpawned => SpecialistSpawned'
    BY <1>5 DEF SpecialistSpawned, Specialists, Exists
  <1>7. staging' = "complete" => SpecialistSpawned'
    BY <1>2, <1>3, <1>6 DEF StagingInv, SafeWrite, Patch
  <1>8. StagingLockHeld'
    <2> SUFFICES ASSUME NEW a \in Orchestrators, status'[a] \in {"idle", "sleeping"}
                 PROVE  staging' = "complete"
      BY DEF StagingLockHeld
    <2>1. a \in Agents
      BY ConstantsAssumption DEF ConstantsAssumption
    <2>2. CASE status'[a] = status[a]
      BY <2>2, <1>4 DEF StagingInv, StagingLockHeld
    <2>3. CASE a \in A /\ status'[a] = w.status
      BY <2>3, <1>2, <1>4 DEF SafeWrite
    <2> QED BY <2>1, <2>2, <2>3, <1>3 DEF Patch
  <1>9. ASSUME NEW u \in Txns, slot'[u].phase = "write"
        PROVE  SafeWrite(slot[u].targets, slot[u].w)'
    <2>1. slot'[u] = slot[u]
      BY <1>3, <1>9
    <2>2. SafeWrite(slot[u].targets, slot[u].w)
      BY <2>1, <1>9 DEF StagingInv
    <2> QED BY <2>1, <2>2, <1>4, <1>6 DEF SafeWrite
  <1> QED BY <1>1, <1>3, <1>4, <1>7, <1>8, <1>9 DEF StagingInv

(* A handler's write set that is plain is safe.                            *)
LEMMA BeginPlain ==
    ASSUME StagingInv, NEW t \in Txns, NEW A \in SUBSET Agents, NEW w \in Writes,
           PlainWrite(w), Hold(t, A, w), TypeOK', UNCHANGED <<rows, launched>>
    PROVE  StagingInv'
  <1>1. SafeWrite(A, w)
    BY DEF PlainWrite, SafeWrite
  <1> QED BY <1>1, BeginStaging

(* Every tool call of an agent preserves StagingInv.                       *)
LEMMA HandlerStaging ==
    ASSUME StagingInv, NEW t \in Slots, NEW a \in Agents,
           AgentHandler(t, a) \/ CompleteJob(t, a)
    PROVE  StagingInv'
  <1>0. t \in Txns /\ {a} \in SUBSET Agents /\ TypeOK /\ TypeOK'
    BY HandlerType DEF Txns, StagingInv
  <1>1. CASE SpawnJob(t, a)
    <2>0. PICK first \in {"staged", "waiting"} :
            Begin(t, {a}, [NoWrite EXCEPT !.status = first, !.job = "active"])
      BY <1>1 DEF SpawnJob
    <2> DEFINE W == [NoWrite EXCEPT !.status = first, !.job = "active"]
    <2>1. W \in Writes /\ PlainWrite(W)
      BY DEF Writes, NoWrite, Keep, Statuses, PlainWrite
    <2>2. Hold(t, {a}, W) /\ UNCHANGED <<rows, launched>>
      BY <2>0 DEF Begin
    <2> HIDE DEF W
    <2> QED BY <1>0, <2>1, <2>2, BeginPlain
  <1>2. CASE UpdateAgentMission(t, a)
    <2> DEFINE Unlock == [NoWrite EXCEPT !.status = "waiting"]
               End    == [NoWrite EXCEPT !.staging = "complete"]
    <2>1. /\ Unlock \in Writes /\ PlainWrite(Unlock)
          /\ End \in Writes /\ End.status = Keep
      BY DEF Writes, NoWrite, Keep, Statuses, PlainWrite
    <2>2. CASE Begin(t, {a}, Unlock)
      <3> HIDE DEF Unlock
      <3> QED BY <1>0, <2>1, <2>2, BeginPlain DEF Begin
    <2>3. CASE SpawnedSpecialists # {} /\ Begin(t, {a}, End)
      <3> HIDE DEF End
      <3>1. SafeWrite({a}, End)
        BY <2>1, <2>3 DEF SafeWrite, Keep, SpecialistSpawned, SpawnedSpecialists, Exists
      <3> QED BY <1>0, <2>1, <2>3, <3>1, BeginStaging DEF Begin
    <2> QED BY <1>2, <2>2, <2>3 DEF UpdateAgentMission
  <1>3. CASE GetJobMission(t, a)
    <2> DEFINE W == [NoWrite EXCEPT !.status = "working", !.age = "fresh"]
    <2>1. W \in Writes /\ PlainWrite(W)
      BY DEF Writes, NoWrite, Keep, Statuses, PlainWrite
    <2>2. Hold(t, {a}, W) /\ UNCHANGED <<rows, launched>>
      BY <1>3 DEF GetJobMission, Begin
    <2> HIDE DEF W
    <2> QED BY <1>0, <2>1, <2>2, BeginPlain
  <1>4. CASE ReportProgress(t, a)
    <2>0. PICK todos \in Todos : Begin(t, {a}, [NoWrite EXCEPT
                    !.status = IF status[a] \in Resting THEN "working" ELSE Keep,
                    !.age = "fresh", !.todo = Net(todo[a], todos)])
      BY <1>4 DEF ReportProgress
    <2> DEFINE W == [NoWrite EXCEPT
                    !.status = IF status[a] \in Resting THEN "working" ELSE Keep,
                    !.age = "fresh", !.todo = Net(todo[a], todos)]
    <2>1. W \in Writes /\ PlainWrite(W)
      BY ConstantsAssumption
      DEF Writes, NoWrite, Keep, Statuses, PlainWrite, Net, ConstantsAssumption
    <2>2. Hold(t, {a}, W) /\ UNCHANGED <<rows, launched>>
      BY <2>0 DEF Begin
    <2> HIDE DEF W
    <2> QED BY <1>0, <2>1, <2>2, BeginPlain
  <1>5. CASE SetAgentStatus(t, a)
    <2>0. PICK rest \in Rests :
            Begin(t, {a}, [NoWrite EXCEPT !.status = Net(status[a], rest)])
      BY <1>5 DEF SetAgentStatus
    <2> DEFINE W == [NoWrite EXCEPT !.status = Net(status[a], rest)]
    <2>1. W \in Writes /\ W.staging = Keep
      BY ConstantsAssumption
      DEF Writes, NoWrite, Keep, Statuses, Net, Resting, ConstantsAssumption
    <2>2. Hold(t, {a}, W) /\ UNCHANGED <<rows, launched>>
      BY <2>0 DEF Begin
    <2> HIDE DEF W
    <2>3. SafeWrite({a}, W)
      BY <1>5, <2>1 DEF SetAgentStatus, SafeWrite, Keep
    <2> QED BY <1>0, <2>1, <2>2, <2>3, BeginStaging
  <1>6. CASE EndStaging(t, a)
    <2> DEFINE W == [NoWrite EXCEPT !.status = Net(status[a], "waiting"),
                                    !.done = Net(done[a], "unset"),
                                    !.staging = Net(staging, "complete")]
    <2>1. W \in Writes /\ W.status \notin {"idle", "sleeping"}
      BY DEF Writes, NoWrite, Keep, Statuses, Net
    <2>2. Hold(t, {a}, W) /\ UNCHANGED <<rows, launched>>
      BY <1>6 DEF EndStaging, Begin
    <2> HIDE DEF W
    <2>3. SafeWrite({a}, W)
      BY <1>6, <2>1
      DEF EndStaging, SafeWrite, SpecialistSpawned, SpawnedSpecialists, Exists
    <2> QED BY <1>0, <2>1, <2>2, <2>3, BeginStaging
  <1>7. CASE CompleteJob(t, a)
    <2> DEFINE W == [NoWrite EXCEPT !.status = "complete", !.done = "set",
                                    !.job = Net(job[a], "completed")]
    <2>1. W \in Writes /\ PlainWrite(W)
      BY DEF Writes, NoWrite, Keep, Statuses, PlainWrite, Net
    <2>2. Hold(t, {a}, W) /\ UNCHANGED <<rows, launched>>
      BY <1>7 DEF CompleteJob, Begin
    <2> HIDE DEF W
    <2> QED BY <1>0, <2>1, <2>2, BeginPlain
  <1>8. CASE ReactivateJob(t, a)
    <2> DEFINE W == [NoWrite EXCEPT !.status = "working",
                                    !.done = Net(done[a], "unset"),
                                    !.job = Net(job[a], "active")]
    <2>1. W \in Writes /\ PlainWrite(W)
      BY DEF Writes, NoWrite, Keep, Statuses, PlainWrite, Net
    <2>2. Hold(t, {a}, W) /\ UNCHANGED <<rows, launched>>
      BY <1>8 DEF ReactivateJob, Begin
    <2> HIDE DEF W
    <2> QED BY <1>0, <2>1, <2>2, BeginPlain
  <1>9. CASE DismissReactivation(t, a)
    <2> DEFINE W == [NoWrite EXCEPT !.status = "complete",
                                    !.job = Net(job[a], "completed")]
    <2>1. W \in Writes /\ PlainWrite(W)
      BY DEF Writes, NoWrite, Keep, Statuses, PlainWrite, Net
    <2>2. Hold(t, {a}, W) /\ UNCHANGED <<rows, launched>>
      BY <1>9 DEF DismissReactivation, Begin
    <2> HIDE DEF W
    <2> QED BY <1>0, <2>1, <2>2, BeginPlain
  <1>10. CASE CloseJob(t, a)
    <2> DEFINE W == [NoWrite EXCEPT !.status = "closed"]
    <2>1. W \in Writes /\ PlainWrite(W)
      BY DEF Writes, NoWrite, Keep, Statuses, PlainWrite
    <2>2. Hold(t, {a}, W) /\ UNCHANGED <<rows, launched>>
      BY <1>10 DEF CloseJob, Begin
    <2> HIDE DEF W
    <2> QED BY <1>0, <2>1, <2>2, BeginPlain
  <1>11. CASE AutoClearSilent(t, a)
    <2> DEFINE W == [NoWrite EXCEPT !.status = "working", !.age = "fresh"]
    <2>1. W \in Writes /\ PlainWrite(W)
      BY DEF Writes, NoWrite, Keep, Statuses, PlainWrite
    <2>2. Hold(t, {a}, W) /\ UNCHANGED <<rows, launched>>
      BY <1>11 DEF AutoClearSilent, Begin
    <2> HIDE DEF W
    <2> QED BY <1>0, <2>1, <2>2, BeginPlain
  <1>12. CASE \E p \in Posts : PostToThread(t, p, a)
    <2>1. PICK p \in Posts : PostToThread(t, p, a)
      BY <1>12
    <2>2. \A u \in Txns : slot'[u] = slot[u] \/ slot'[u].phase = "route"
      BY <1>0, <2>1 DEF PostToThread, TypeOK, IdleSlot
    <2>3. UNCHANGED <<status, staging, launched>>
      BY <2>1 DEF PostToThread, rows
    <2> QED BY <1>0, <2>2, <2>3, QuietStaging DEF StagingInv
  <1> QED BY <1>1, <1>2, <1>3, <1>4, <1>5, <1>6, <1>7, <1>8, <1>9, <1>10,
             <1>11, <1>12 DEF AgentHandler

(* So do the other steps of a request slot.                                *)
LEMMA RequestStaging ==
    ASSUME StagingInv, NEW t \in Slots, RequestStep(t)
    PROVE  StagingInv'
  <1>0. t \in Txns /\ TypeOK /\ TypeOK'
    BY RequestType DEF Txns, StagingInv
  <1>1. CASE \E a \in Agents : AgentHandler(t, a)
    BY <1>1, HandlerStaging
  <1>2. CASE AutoBlock(t)
    <2> DEFINE W == [NoWrite EXCEPT !.status = "blocked"]
               T == [slot[t] EXCEPT !.phase = "write", !.w = W]
    <2>1. PlainWrite(W)
      BY DEF NoWrite, Keep, PlainWrite
    <2> HIDE DEF W
    <2>2. slot' = [slot EXCEPT ![t] = T]
      BY <1>0, <1>2, ZenonT(60) DEF AutoBlock, TypeOK, W
    <2>3. T.w = W
      BY <1>0 DEF TypeOK, Transactions
    <2>4. \A u \in Txns : slot'[u] = slot[u] \/ slot'[u].w = W
      BY <1>0, <2>2, <2>3 DEF TypeOK
    <2>5. UNCHANGED <<status, staging, launched>>
      BY <1>2 DEF AutoBlock, rows
    <2>6. \A u \in Txns : slot'[u].phase = "write" =>
                SafeWrite(slot[u].targets, slot[u].w)'
      BY <2>1, <2>4, <2>5
      DEF StagingInv, SafeWrite, PlainWrite, SpecialistSpawned, Exists
    <2> QED BY <1>0, <2>5, <2>6
        DEF StagingInv, StagingLockHeld, SpecialistSpawned, Exists
  <1>3. CASE SkipAutoBlock(t) \/ LoseAutoBlock(t)
    <2>1. \A u \in Txns : slot'[u] = slot[u] \/ slot'[u].phase = "idle"
      BY <1>0, <1>3 DEF SkipAutoBlock, LoseAutoBlock, TypeOK, IdleSlot
    <2>2. UNCHANGED <<status, staging, launched>>
      BY <1>3 DEF SkipAutoBlock, LoseAutoBlock, rows
    <2> QED BY <1>0, <2>1, <2>2, QuietStaging DEF StagingInv
  <1>4. CASE ArchiveProject(t)
    <2>1. \A u \in Txns : slot'[u] = slot[u] \/ slot'[u].phase = "archived"
      BY <1>0, <1>4 DEF ArchiveProject, TypeOK, IdleSlot
    <2> QED BY <1>0, <1>4, <2>1, QuietStaging DEF ArchiveProject, StagingInv
  <1>5. CASE CloseCompletedAgents(t)
    <2> DEFINE W == [NoWrite EXCEPT !.status = "closed"]
               A == {a \in Agents : status[a] = "complete"}
    <2>1. W \in Writes /\ PlainWrite(W) /\ A \in SUBSET Agents
      BY DEF Writes, NoWrite, Keep, Statuses, PlainWrite
    <2>2. Hold(t, A, W) /\ UNCHANGED <<rows, launched>>
      BY <1>5 DEF CloseCompletedAgents
    <2> HIDE DEF W, A
    <2> QED BY <1>0, <2>1, <2>2, BeginPlain
  <1>6. CASE ContinueWorking(t)
    <2> DEFINE W == [NoWrite EXCEPT !.status = "waiting", !.project = "inactive"]
               A == {a \in Agents : status[a] = "decommissioned"}
    <2>1. W \in Writes /\ PlainWrite(W) /\ A \in SUBSET Agents
      BY DEF Writes, NoWrite, Keep, Statuses, PlainWrite
    <2>2. Hold(t, A, W) /\ UNCHANGED <<rows, launched>>
      BY <1>6 DEF ContinueWorking, Begin
    <2> HIDE DEF W, A
    <2> QED BY <1>0, <2>1, <2>2, BeginPlain
  <1> QED BY <1>1, <1>2, <1>3, <1>4, <1>5, <1>6 DEF RequestStep

(* So do the monitors' scans.                                              *)
LEMMA MonitorStaging ==
    ASSUME StagingInv, NEW m \in Monitors, MonitorStep(m)
    PROVE  StagingInv'
  <1>0. m \in Txns /\ TypeOK /\ TypeOK'
    BY MonitorType DEF Txns, StagingInv
  <1>1. CASE DetectSilentAgents(m)
    <2> DEFINE W == [NoWrite EXCEPT !.status = "silent"]
    <2>1. W \in Writes /\ PlainWrite(W) /\ StaleWorkers \in SUBSET Agents
      BY DEF Writes, NoWrite, Keep, Statuses, StaleWorkers, PlainWrite
    <2>2. Hold(m, StaleWorkers, W) /\ UNCHANGED <<rows, launched>>
      BY <1>1 DEF DetectSilentAgents, Begin
    <2> HIDE DEF W
    <2> QED BY <1>0, <2>1, <2>2, BeginPlain
  <1>2. CASE \E a \in Agents : HandleUnhealthyJob(m, a)
    <2> DEFINE W == [NoWrite EXCEPT !.status = "decommissioned"]
    <2>1. W \in Writes /\ PlainWrite(W)
      BY DEF Writes, NoWrite, Keep, Statuses, PlainWrite
    <2>2. PICK a \in Agents : Hold(m, {a}, W) /\ UNCHANGED <<rows, launched>>
      BY <1>2 DEF HandleUnhealthyJob, Begin
    <2> HIDE DEF W
    <2> QED BY <1>0, <2>1, <2>2, BeginPlain
  <1> QED BY <1>1, <1>2 DEF MonitorStep

(* And the user: only LaunchImplementation sets launched, and it asks for  *)
(* a completed staging.                                                    *)
LEMMA EnvironmentStaging ==
    ASSUME StagingInv, Environment
    PROVE  StagingInv'
  <1>1. TypeOK'
    BY EnvironmentType DEF StagingInv
  <1>2. UNCHANGED <<status, staging, slot>>
    BY DEF Environment, LaunchImplementation, ActivateProject, DeactivateProject,
           ReadThread, Tick, rows
  <1>3. launched' => staging = "complete"
    BY DEF Environment, LaunchImplementation, ActivateProject, DeactivateProject,
           ReadThread, Tick, StagingInv
  <1> QED BY <1>1, <1>2, <1>3, QuietStaging

(* StagingInv is an invariant of the specification.                        *)
LEMMA StagingInvariant == Spec => []StagingInv
  <1>1. Init => StagingInv
    <2> SUFFICES ASSUME Init PROVE StagingInv
      OBVIOUS
    <2>1. TypeOK
      BY InitType
    <2>2. \A t \in Txns : slot[t].phase = "idle"
      BY DEF Init, IdleSlot
    <2>3. staging = "staging" /\ launched = FALSE
      BY DEF Init
    <2>4. StagingLockHeld
      BY ConstantsAssumption DEF Init, StagingLockHeld, ConstantsAssumption
    <2> QED BY <2>1, <2>2, <2>3, <2>4 DEF StagingInv
  <1>2. StagingInv /\ [Next]_vars => StagingInv'
    <2> SUFFICES ASSUME StagingInv, [Next]_vars PROVE StagingInv'
      OBVIOUS
    <2>1. CASE Next
      BY <2>1, RequestStaging, HandlerStaging, MonitorStaging, CommitStaging,
         EnvironmentStaging DEF Next
    <2>2. CASE UNCHANGED vars
      <3>1. TypeOK' /\ UNCHANGED <<status, staging, launched, slot>>
        BY <2>2, StepType DEF vars, StagingInv
      <3> QED BY <3>1, QuietStaging DEF StagingInv
    <2> QED BY <2>1, <2>2
  <1> QED BY <1>1, <1>2, PTL DEF Spec

(* STAGING_LOCK holds in every interleaving: an orchestrator is never put  *)
(* to rest while its project is staging, even when the project's staging   *)
(* and the agent's status change while set_agent_status is in flight.      *)
THEOREM StagingLock == Spec => []StagingLockHeld
  <1>1. StagingInv => StagingLockHeld
    BY DEF StagingInv
  <1> QED BY <1>1, StagingInvariant, PTL

(* Implementation is only launched on a project whose staging ended with a *)
(* specialist behind it, in every interleaving.                            *)
THEOREM LaunchGate == Spec => []LaunchedAfterStaging
  <1>1. StagingInv => LaunchedAfterStaging
    BY DEF StagingInv, LaunchedAfterStaging, SpecialistSpawned
  <1> QED BY <1>1, StagingInvariant, PTL

-----------------------------------------------------------------------------
(* Requests served one at a time, with any of the monitors running beside  *)
(* them: the execution and job rows stay in step, and no action-required   *)
(* post is left behind on a completed agent.  With two requests in flight  *)
(* neither holds.                                                          *)

(* One request in flight at most.                                          *)
OneAtATime == \A t, u \in Slots : t = u

(* What a write in flight must be like for its commit to be harmless: who  *)
(* completes an agent has settled its posts, who completes or closes it    *)
(* leaves the job completed, who reopens the job reopens the execution.    *)
Settling(A, w) ==
    w.status = "complete" => \A a \in A : inbox[a] \subseteq waived
Pairing(A, w) ==
    /\ w.status \in {"complete", "closed"} =>
         \A a \in A : w.job = "completed" \/ (w.job = Keep /\ job[a] = "completed")
    /\ w.job = "active" => w.status \notin {"complete", "closed", Keep}
Fit(A, w) == Settling(A, w) /\ Pairing(A, w)

(* All a monitor ever writes.                                              *)
MonitorWrite(w) == w.status \in {"silent", "decommissioned"} /\ w.job = Keep

(* A post is accounted for when it was waived, is still to be routed, or   *)
(* its agent is about to be blocked.                                       *)
Accounted(a, p) ==
    \/ p \in waived
    \/ \E t \in Txns : /\ slot[t].phase = "route"
                       /\ a \in slot[t].targets
                       /\ slot[t].post = p
    \/ BeingBlocked(a)
PostsAccounted ==
    \A a \in Agents : status[a] = "complete" => \A p \in inbox[a] : Accounted(a, p)

SlotsFit ==
    /\ \A t \in Txns : slot[t].phase = "write" => Fit(slot[t].targets, slot[t].w)
    /\ \A t \in Monitors : \/ slot[t].phase = "idle"
                           \/ slot[t].phase = "write" /\ MonitorWrite(slot[t].w)
    /\ \A t \in Txns : slot[t].phase = "route" =>
         \A a, b \in slot[t].targets : a = b

SerialInv ==
    /\ TypeOK
    /\ SlotsFit
    /\ JobFollowsExecution
    /\ PostsAccounted

-----------------------------------------------------------------------------
(* PostsAccounted says what NoStrandedPost says, post by post.             *)
LEMMA AccountedSuffices ==
    ASSUME PostsAccounted
    PROVE  NoStrandedPost
  <1> SUFFICES ASSUME NEW a \in Agents, status[a] = "complete", ~BeingBlocked(a),
                      NEW p \in inbox[a], p \notin waived
               PROVE  p \in Routing(a)
    BY DEF NoStrandedPost
  <1> QED BY DEF PostsAccounted, Accounted, Routing

(* A monitor's write is harmless.                                          *)
LEMMA MonitorFit ==
    ASSUME NEW w \in Writes, MonitorWrite(w), NEW A \in SUBSET Agents
    PROVE  Fit(A, w)
  BY DEF MonitorWrite, Fit, Settling, Pairing, Keep

(* A request or a monitor that holds a harmless write preserves the        *)
(* invariant, also when it waives posts.                                   *)
LEMMA BeginSerial ==
    ASSUME SerialInv, TypeOK', NEW t \in Txns, NEW A \in SUBSET Agents, NEW w \in Writes,
           slot[t].phase \in {"idle", "archived"}, Hold(t, A, w), Pairing(A, w),
           w.status = "complete" => \A a \in A : inbox[a] \subseteq waived',
           t \in Monitors => MonitorWrite(w),
           UNCHANGED <<rows, inbox>>, waived \subseteq waived'
    PROVE  SerialInv'
  <1>1. /\ slot'[t].phase = "write" /\ slot'[t].targets = A /\ slot'[t].w = w
        /\ \A u \in Txns \ {t} : slot'[u] = slot[u]
    BY DEF Hold, SerialInv, TypeOK
  <1>2. UNCHANGED <<status, job, inbox>>
    BY DEF rows
  <1>3. SlotsFit'
    <2>1. ASSUME NEW u \in Txns, slot'[u].phase = "write"
          PROVE  Fit(slot[u].targets, slot[u].w)'
      <3>1. CASE u = t
        BY <1>1, <1>2, <3>1 DEF Fit, Settling, Pairing
      <3>2. CASE u # t
        <4>1. Fit(slot[u].targets, slot[u].w) /\ slot'[u] = slot[u]
          BY <1>1, <2>1, <3>2 DEF SerialInv, SlotsFit
        <4> QED BY <4>1, <1>2 DEF Fit, Settling, Pairing
      <3> QED BY <3>1, <3>2
    <2>2. ASSUME NEW u \in Monitors
          PROVE  \/ slot'[u].phase = "idle"
                 \/ slot'[u].phase = "write" /\ MonitorWrite(slot'[u].w)
      BY <1>1 DEF SerialInv, SlotsFit, Txns
    <2>3. ASSUME NEW u \in Txns, slot'[u].phase = "route"
          PROVE  \A a, b \in slot'[u].targets : a = b
      BY <1>1, <2>3 DEF SerialInv, SlotsFit
    <2> QED BY <2>1, <2>2, <2>3 DEF SlotsFit, MonitorWrite
  <1>4. JobFollowsExecution'
    BY <1>2 DEF SerialInv, JobFollowsExecution
  <1>5. PostsAccounted'
    <2> SUFFICES ASSUME NEW a \in Agents, NEW p \in inbox[a], Accounted(a, p)
                 PROVE  Accounted(a, p)'
      BY <1>2 DEF SerialInv, PostsAccounted
    <2> QED BY <1>1 DEF Accounted, BeingBlocked
  <1> QED BY <1>3, <1>4, <1>5 DEF SerialInv

(* What a commit does to the rows and the slots.                           *)
LEMMA CommitEffect ==
    ASSUME TypeOK, NEW t \in Txns, Commit(t)
    PROVE  /\ slot[t].phase = "write" /\ slot[t].w \in Writes
           /\ slot[t].targets \subseteq Agents
           /\ slot'[t] = IdleSlot
           /\ \A u \in Txns \ {t} : slot'[u] = slot[u]
           /\ \A a \in Agents :
                IF a \in slot[t].targets
                THEN /\ status'[a] = Patch(slot[t].w.status, status[a])
                     /\ job'[a] = Patch(slot[t].w.job, job[a])
                ELSE status'[a] = status[a] /\ job'[a] = job[a]
           /\ inbox' = inbox /\ waived' = waived
  BY DEF Commit, TypeOK, Transactions

(* A commit preserves the invariant: the other transactions in flight are  *)
(* monitors, whose writes do not depend on the rows, or, when a monitor    *)
(* commits, a request that does not depend on what monitors write.         *)
LEMMA CommitSerial ==
    ASSUME OneAtATime, SerialInv, NEW t \in Txns, Commit(t)
    PROVE  SerialInv'
  <1> DEFINE w == slot[t].w
             A == slot[t].targets
  <1>1. TypeOK /\ TypeOK'
    BY CommitType DEF SerialInv
  <1>2. /\ slot[t].phase = "write" /\ w \in Writes /\ A \subseteq Agents
        /\ slot'[t] = IdleSlot /\ IdleSlot.phase = "idle"
        /\ \A u \in Txns \ {t} : slot'[u] = slot[u]
        /\ \A a \in Agents :
             IF a \in A THEN /\ status'[a] = Patch(w.status, status[a])
                             /\ job'[a] = Patch(w.job, job[a])
             ELSE status'[a] = status[a] /\ job'[a] = job[a]
        /\ inbox' = inbox /\ waived' = waived
    BY <1>1, CommitEffect DEF IdleSlot
  <1>3. Fit(A, w)
    BY <1>2 DEF SerialInv, SlotsFit
  <1>4. t \in Monitors => MonitorWrite(w)
    BY <1>2 DEF SerialInv, SlotsFit
  <1> HIDE DEF w, A
  <1>5. SlotsFit'
    <2>1. ASSUME NEW u \in Txns, slot'[u].phase = "write"
          PROVE  Fit(slot[u].targets, slot[u].w)'
      <3>1. u # t /\ slot'[u] = slot[u]
        BY <1>2, <2>1
      <3>2. Fit(slot[u].targets, slot[u].w) /\ slot[u].targets \subseteq Agents
              /\ slot[u].w \in Writes
        BY <1>1, <2>1, <3>1 DEF SerialInv, SlotsFit, TypeOK, Transactions
      <3>3. CASE u \in Monitors
        <4>1. MonitorWrite(slot[u].w)
          BY <2>1, <3>1, <3>3 DEF SerialInv, SlotsFit
        <4> QED BY <4>1, <3>1 DEF MonitorWrite, Fit, Settling, Pairing, Keep
      <3>4. CASE t \in Monitors
        <4>1. \A a \in Agents : job'[a] = job[a]
          BY <1>2, <1>4, <3>4 DEF MonitorWrite, Patch
        <4> QED BY <1>2, <3>1, <3>2, <4>1 DEF Fit, Settling, Pairing
      <3> QED BY <3>1, <3>3, <3>4 DEF OneAtATime, Txns
    <2> QED BY <1>2, <2>1 DEF SerialInv, SlotsFit, Txns, MonitorWrite
  <1>6. JobFollowsExecution'
    <2> SUFFICES ASSUME NEW a \in Agents, status'[a] \in {"complete", "closed"}
                 PROVE  job'[a] = "completed"
      BY DEF JobFollowsExecution
    <2>1. CASE a \notin A
      BY <1>2, <2>1 DEF SerialInv, JobFollowsExecution
    <2>2. CASE a \in A
      BY <1>2, <1>3, <2>2 DEF SerialInv, JobFollowsExecution, Fit, Pairing, Patch,
                              Writes, Keep
    <2> QED BY <2>1, <2>2
  <1>7. PostsAccounted'
    <2> SUFFICES ASSUME NEW a \in Agents, status'[a] = "complete", NEW p \in inbox[a]
                 PROVE  Accounted(a, p)'
      BY <1>2 DEF PostsAccounted
    <2>1. CASE a \in A /\ w.status # Keep
      <3>1. w.status = "complete"
        BY <1>2, <2>1 DEF Patch
      <3> QED BY <1>2, <1>3, <2>1, <3>1 DEF Fit, Settling, Accounted
    <2>2. CASE a \notin A \/ w.status = Keep
      <3>1. status[a] = "complete"
        BY <1>2, <2>2 DEF Patch
      <3>2. Accounted(a, p)
        BY <3>1 DEF SerialInv, PostsAccounted
      <3>3. ASSUME BeingBlocked(a)
            PROVE  BeingBlocked(a)'
        BY <1>2, <2>2, <3>3 DEF BeingBlocked, Keep, w, A
      <3> QED BY <1>2, <3>2, <3>3 DEF Accounted
    <2> QED BY <2>1, <2>2
  <1> QED BY <1>1, <1>5, <1>6, <1>7 DEF SerialInv

(* A request that holds a write which neither completes nor closes an      *)
(* agent nor reopens its job is harmless.                                  *)
Harmless(w) == w.status \notin {"complete", "closed"} /\ w.job # "active"

LEMMA BeginHarmless ==
    ASSUME SerialInv, TypeOK', NEW t \in Slots, NEW A \in SUBSET Agents, NEW w \in Writes,
           Begin(t, A, w), Harmless(w)
    PROVE  SerialInv'
  <1>1. Pairing(A, w) /\ w.status # "complete"
    BY DEF Harmless, Pairing
  <1>2. t \in Txns /\ t \notin Monitors
    BY ConstantsAssumption DEF Txns, ConstantsAssumption
  <1> QED BY <1>1, <1>2, BeginSerial DEF Begin, Free

(* A post preserves the invariant: it is to be routed by the slot that     *)
(* made it, and nobody else is completing its recipient.                   *)
LEMMA PostSerial ==
    ASSUME OneAtATime, SerialInv, TypeOK', NEW t \in Slots, NEW a \in Agents,
           NEW p \in Posts, PostToThread(t, p, a)
    PROVE  SerialInv'
  <1> DEFINE T == [IdleSlot EXCEPT !.phase = "route", !.targets = {a}, !.post = p]
  <1>1. /\ t \in Txns /\ t \notin Monitors /\ slot[t].phase = "idle"
        /\ T.phase = "route" /\ T.targets = {a} /\ T.post = p
        /\ slot'[t] = T
        /\ \A u \in Txns \ {t} : slot'[u] = slot[u]
        /\ inbox' = [inbox EXCEPT ![a] = @ \cup {p}]
        /\ UNCHANGED <<status, job, waived>>
    BY ConstantsAssumption
    DEF PostToThread, Free, IdleSlot, rows, SerialInv, TypeOK, Txns, ConstantsAssumption
  <1> HIDE DEF T
  <1>2. SlotsFit'
    <2>1. ASSUME NEW u \in Txns, slot'[u].phase = "write"
          PROVE  Fit(slot[u].targets, slot[u].w)'
      <3>1. u # t /\ slot'[u] = slot[u]
        BY <1>1, <2>1
      <3>2. u \in Monitors
        BY <1>1, <3>1 DEF OneAtATime, Txns
      <3>3. MonitorWrite(slot'[u].w)
        BY <2>1, <3>1, <3>2 DEF SerialInv, SlotsFit
      <3> QED BY <3>3 DEF MonitorWrite, Fit, Settling, Pairing, Keep
    <2>2. ASSUME NEW u \in Txns, slot'[u].phase = "route"
          PROVE  \A b, c \in slot'[u].targets : b = c
      BY <1>1, <2>2 DEF SerialInv, SlotsFit
    <2>3. \A u \in Monitors : slot'[u] = slot[u]
      BY <1>1 DEF Txns
    <2> QED BY <2>1, <2>2, <2>3 DEF SlotsFit, SerialInv, MonitorWrite
  <1>3. JobFollowsExecution'
    BY <1>1 DEF SerialInv, JobFollowsExecution
  <1>4. PostsAccounted'
    <2> SUFFICES ASSUME NEW b \in Agents, status[b] = "complete", NEW q \in inbox'[b]
                 PROVE  Accounted(b, q)'
      BY <1>1 DEF PostsAccounted
    <2>1. CASE q \in inbox[b]
      <3>1. Accounted(b, q)
        BY <2>1 DEF SerialInv, PostsAccounted
      <3> QED BY <1>1, <3>1 DEF Accounted, BeingBlocked
    <2>2. CASE q \notin inbox[b]
      <3>1. b = a /\ q = p
        BY <1>1, <2>2 DEF SerialInv, TypeOK
      <3> QED BY <1>1, <3>1 DEF Accounted
    <2> QED BY <2>1, <2>2
  <1> QED BY <1>2, <1>3, <1>4 DEF SerialInv

(* Every tool call of an agent preserves the invariant.                    *)
LEMMA HandlerSerial ==
    ASSUME OneAtATime, SerialInv, NEW t \in Slots, NEW a \in Agents,
           AgentHandler(t, a) \/ CompleteJob(t, a)
    PROVE  SerialInv'
  <1>0. t \in Txns /\ t \notin Monitors /\ {a} \in SUBSET Agents /\ TypeOK /\ TypeOK'
    BY ConstantsAssumption, HandlerType DEF Txns, SerialInv, ConstantsAssumption
  <1>1. CASE SpawnJob(t, a)
    <2>0. PICK first \in {"staged", "waiting"} :
            Begin(t, {a}, [NoWrite EXCEPT !.status = first, !.job = "active"])
      BY <1>1 DEF SpawnJob
    <2> DEFINE W == [NoWrite EXCEPT !.status = first, !.job = "active"]
    <2>1. W \in Writes /\ W.status \in {"staged", "waiting"}
      BY DEF Writes, NoWrite, Keep, Statuses
    <2>2. Begin(t, {a}, W)
      BY <2>0
    <2> HIDE DEF W
    <2>3. Pairing({a}, W) /\ W.status # "complete"
      BY <2>1 DEF Pairing, Keep
    <2> QED BY <1>0, <2>1, <2>2, <2>3, BeginSerial DEF Begin, Free
  <1>2. CASE UpdateAgentMission(t, a)
    <2> DEFINE Unlock == [NoWrite EXCEPT !.status = "waiting"]
               End    == [NoWrite EXCEPT !.staging = "complete"]
    <2>1. /\ Unlock \in Writes /\ Harmless(Unlock)
          /\ End \in Writes /\ Harmless(End)
      BY DEF Writes, NoWrite, Keep, Statuses, Harmless
    <2>2. Begin(t, {a}, Unlock) \/ Begin(t, {a}, End)
      BY <1>2 DEF UpdateAgentMission
    <2> HIDE DEF Unlock, End
    <2> QED BY <1>0, <2>1, <2>2, BeginHarmless
  <1>3. CASE GetJobMission(t, a) \/ AutoClearSilent(t, a)
    <2> DEFINE W == [NoWrite EXCEPT !.status = "working", !.age = "fresh"]
    <2>1. W \in Writes /\ Harmless(W)
      BY DEF Writes, NoWrite, Keep, Statuses, Harmless
    <2>2. Begin(t, {a}, W)
      BY <1>3 DEF GetJobMission, AutoClearSilent
    <2> HIDE DEF W
    <2> QED BY <1>0, <2>1, <2>2, BeginHarmless
  <1>4. CASE ReportProgress(t, a)
    <2>0. PICK todos \in Todos : Begin(t, {a}, [NoWrite EXCEPT
                    !.status = IF status[a] \in Resting THEN "working" ELSE Keep,
                    !.age = "fresh", !.todo = Net(todo[a], todos)])
      BY <1>4 DEF ReportProgress
    <2> DEFINE W == [NoWrite EXCEPT
                    !.status = IF status[a] \in Resting THEN "working" ELSE Keep,
                    !.age = "fresh", !.todo = Net(todo[a], todos)]
    <2>1. W \in Writes /\ Harmless(W)
      BY ConstantsAssumption
      DEF Writes, NoWrite, Keep, Statuses, Harmless, Net, ConstantsAssumption
    <2>2. Begin(t, {a}, W)
      BY <2>0
    <2> HIDE DEF W
    <2> QED BY <1>0, <2>1, <2>2, BeginHarmless
  <1>5. CASE SetAgentStatus(t, a)
    <2>0. PICK rest \in Rests :
            Begin(t, {a}, [NoWrite EXCEPT !.status = Net(status[a], rest)])
      BY <1>5 DEF SetAgentStatus
    <2> DEFINE W == [NoWrite EXCEPT !.status = Net(status[a], rest)]
    <2>1. W \in Writes /\ Harmless(W)
      BY ConstantsAssumption
      DEF Writes, NoWrite, Keep, Statuses, Net, Resting, Harmless, ConstantsAssumption
    <2>2. Begin(t, {a}, W)
      BY <2>0
    <2> HIDE DEF W
    <2> QED BY <1>0, <2>1, <2>2, BeginHarmless
  <1>6. CASE EndStaging(t, a)
    <2> DEFINE W == [NoWrite EXCEPT !.status = Net(status[a], "waiting"),
                                    !.done = Net(done[a], "unset"),
                                    !.staging = Net(staging, "complete")]
    <2>1. W \in Writes /\ Harmless(W)
      BY DEF Writes, NoWrite, Keep, Statuses, Net, Harmless
    <2>2. Begin(t, {a}, W)
      BY <1>6 DEF EndStaging
    <2> HIDE DEF W
    <2> QED BY <1>0, <2>1, <2>2, BeginHarmless
  <1>7. CASE CompleteJob(t, a)
    <2> DEFINE W == [NoWrite EXCEPT !.status = "complete", !.done = "set",
                                    !.job = Net(job[a], "completed")]
    <2>1. /\ W \in Writes /\ W.job # "active"
          /\ W.job = "completed" \/ (W.job = Keep /\ job[a] = "completed")
      BY DEF Writes, NoWrite, Keep, Statuses, Net
    <2>2. Begin(t, {a}, W) /\ inbox[a] = {}
      BY <1>7 DEF CompleteJob, CompletionAllowed
    <2> HIDE DEF W
    <2>3. Pairing({a}, W)
      BY <2>1 DEF Pairing
    <2> QED BY <1>0, <2>1, <2>2, <2>3, BeginSerial DEF Begin, Free
  <1>8. CASE ReactivateJob(t, a)
    <2> DEFINE W == [NoWrite EXCEPT !.status = "working",
                                    !.done = Net(done[a], "unset"),
                                    !.job = Net(job[a], "active")]
    <2>1. W \in Writes /\ W.status = "working"
      BY DEF Writes, NoWrite, Keep, Statuses, Net
    <2>2. Begin(t, {a}, W)
      BY <1>8 DEF ReactivateJob
    <2> HIDE DEF W
    <2>3. Pairing({a}, W) /\ W.status # "complete"
      BY <2>1 DEF Pairing, Keep
    <2> QED BY <1>0, <2>1, <2>2, <2>3, BeginSerial DEF Begin, Free
  <1>9. CASE DismissReactivation(t, a)
    <2> DEFINE W == [NoWrite EXCEPT !.status = "complete",
                                    !.job = Net(job[a], "completed")]
    <2>1. /\ W \in Writes /\ W.job # "active"
          /\ W.job = "completed" \/ (W.job = Keep /\ job[a] = "completed")
      BY DEF Writes, NoWrite, Keep, Statuses, Net
    <2>2. /\ Free(t) /\ Hold(t, {a}, W) /\ UNCHANGED <<rows, inbox>>
          /\ waived' = waived \cup inbox[a]
      BY <1>9 DEF DismissReactivation
    <2> HIDE DEF W
    <2>3. Pairing({a}, W) /\ inbox[a] \subseteq waived'
      BY <2>1, <2>2 DEF Pairing
    <2> QED BY <1>0, <2>1, <2>2, <2>3, BeginSerial DEF Free
  <1>10. CASE CloseJob(t, a)
    <2> DEFINE W == [NoWrite EXCEPT !.status = "closed"]
    <2>1. W \in Writes /\ W.status = "closed" /\ W.job = Keep
      BY DEF Writes, NoWrite, Keep, Statuses
    <2>2. Begin(t, {a}, W) /\ job[a] = "completed"
      BY <1>10 DEF CloseJob, SerialInv, JobFollowsExecution
    <2> HIDE DEF W
    <2>3. Pairing({a}, W) /\ W.status # "complete"
      BY <2>1, <2>2 DEF Pairing, Keep
    <2> QED BY <1>0, <2>1, <2>2, <2>3, BeginSerial DEF Begin, Free
  <1>11. CASE \E p \in Posts : PostToThread(t, p, a)
    BY <1>0, <1>11, PostSerial
  <1> QED BY <1>1, <1>2, <1>3, <1>4, <1>5, <1>6, <1>7, <1>8, <1>9, <1>10,
             <1>11 DEF AgentHandler

(* An archive that has committed the project and goes on to its agents     *)
(* preserves the invariant.                                                *)
LEMMA ArchivedSerial ==
    ASSUME SerialInv, TypeOK', NEW t \in Slots, t \notin Monitors,
           slot[t].phase = "idle", slot'[t].phase = "archived",
           \A u \in Txns \ {t} : slot'[u] = slot[u],
           UNCHANGED <<status, job, inbox, waived>>
    PROVE  SerialInv'
  <1>1. SlotsFit'
    BY DEF SerialInv, SlotsFit, Fit, Settling, Pairing, MonitorWrite, Txns
  <1>2. JobFollowsExecution'
    BY DEF SerialInv, JobFollowsExecution
  <1>3. PostsAccounted'
    BY DEF SerialInv, PostsAccounted, Accounted, BeingBlocked, Txns
  <1> QED BY <1>1, <1>2, <1>3 DEF SerialInv

(* Blocking a completed recipient: the post's only recipient is about to   *)
(* be blocked, so everything it has not read is accounted for.             *)
LEMMA AutoBlockSerial ==
    ASSUME SerialInv, TypeOK', NEW t \in Slots, t \notin Monitors, AutoBlock(t)
    PROVE  SerialInv'
  <1> DEFINE W == [NoWrite EXCEPT !.status = "blocked"]
  <1>1. /\ t \in Txns /\ slot[t].phase = "route"
        /\ slot'[t].phase = "write" /\ slot'[t].targets = slot[t].targets
        /\ slot'[t].w = W /\ W.status = "blocked" /\ W.job = Keep
        /\ \A u \in Txns \ {t} : slot'[u] = slot[u]
        /\ UNCHANGED <<status, job, inbox, waived>>
    BY DEF AutoBlock, SerialInv, TypeOK, Transactions, NoWrite, Keep, Txns, rows
  <1> HIDE DEF W
  <1>2. SlotsFit'
    <2>1. ASSUME NEW u \in Txns, slot'[u].phase = "write"
          PROVE  Fit(slot[u].targets, slot[u].w)'
      BY <1>1, <2>1 DEF SerialInv, SlotsFit, Fit, Settling, Pairing, Keep
    <2> QED BY <1>1, <2>1 DEF SerialInv, SlotsFit, MonitorWrite, Txns
  <1>3. JobFollowsExecution'
    BY <1>1 DEF SerialInv, JobFollowsExecution
  <1>4. PostsAccounted'
    <2> SUFFICES ASSUME NEW a \in Agents, NEW p \in inbox[a], Accounted(a, p)
                 PROVE  Accounted(a, p)'
      BY <1>1 DEF SerialInv, PostsAccounted
    <2>1. CASE a \in slot[t].targets
      BY <1>1, <2>1 DEF Accounted, BeingBlocked
    <2>2. CASE a \notin slot[t].targets
      BY <1>1, <2>2 DEF Accounted, BeingBlocked
    <2> QED BY <2>1, <2>2
  <1> QED BY <1>2, <1>3, <1>4 DEF SerialInv

(* Routing that blocks nobody: the recipient is not complete, or the post  *)
(* is waived.                                                              *)
LEMMA RoutedSerial ==
    ASSUME SerialInv, TypeOK', NEW t \in Slots, t \notin Monitors,
           SkipAutoBlock(t) \/ LoseAutoBlock(t)
    PROVE  SerialInv'
  <1>1. /\ t \in Txns /\ slot[t].phase = "route" /\ slot'[t].phase = "idle"
        /\ \A u \in Txns \ {t} : slot'[u] = slot[u]
        /\ UNCHANGED <<status, job, inbox>> /\ waived \subseteq waived'
    BY DEF SkipAutoBlock, LoseAutoBlock, SerialInv, TypeOK, IdleSlot, Txns, rows
  <1>2. SlotsFit'
    <2>1. ASSUME NEW u \in Txns, slot'[u].phase = "write"
          PROVE  Fit(slot[u].targets, slot[u].w)'
      BY <1>1, <2>1 DEF SerialInv, SlotsFit, Fit, Settling, Pairing
    <2> QED BY <1>1, <2>1 DEF SerialInv, SlotsFit, MonitorWrite, Txns
  <1>3. JobFollowsExecution'
    BY <1>1 DEF SerialInv, JobFollowsExecution
  <1>4. PostsAccounted'
    <2> SUFFICES ASSUME NEW a \in Agents, status[a] = "complete",
                        NEW p \in inbox[a], Accounted(a, p)
                 PROVE  Accounted(a, p)'
      BY <1>1 DEF SerialInv, PostsAccounted
    <2>1. a \in slot[t].targets => slot[t].post \in waived'
      BY DEF SkipAutoBlock, LoseAutoBlock
    <2> QED BY <1>1, <2>1 DEF Accounted, BeingBlocked
  <1> QED BY <1>2, <1>3, <1>4 DEF SerialInv

(* So do the other steps of a request slot.                                *)
LEMMA RequestSerial ==
    ASSUME OneAtATime, SerialInv, NEW t \in Slots, RequestStep(t)
    PROVE  SerialInv'
  <1>0. t \in Txns /\ t \notin Monitors /\ TypeOK /\ TypeOK'
    BY ConstantsAssumption, RequestType DEF Txns, SerialInv, ConstantsAssumption
  <1>1. CASE \E a \in Agents : AgentHandler(t, a)
    BY <1>1, HandlerSerial
  <1>2. CASE AutoBlock(t)
    BY <1>0, <1>2, AutoBlockSerial
  <1>3. CASE SkipAutoBlock(t) \/ LoseAutoBlock(t)
    BY <1>0, <1>3, RoutedSerial
  <1>4. CASE ArchiveProject(t)
    <2> DEFINE T == [IdleSlot EXCEPT !.phase = "archived"]
    <2>1. /\ T.phase = "archived" /\ slot'[t] = T /\ slot[t].phase = "idle"
          /\ \A u \in Txns \ {t} : slot'[u] = slot[u]
          /\ UNCHANGED <<status, job, inbox, waived>>
      BY <1>0, <1>4 DEF ArchiveProject, Free, IdleSlot, TypeOK
    <2> HIDE DEF T
    <2> QED BY <1>0, <2>1, ArchivedSerial
  <1>5. CASE CloseCompletedAgents(t)
    <2> DEFINE W == [NoWrite EXCEPT !.status = "closed"]
               A == {a \in Agents : status[a] = "complete"}
    <2>1. /\ W \in Writes /\ W.status = "closed" /\ W.job = Keep
          /\ A \in SUBSET Agents /\ \A a \in A : status[a] = "complete"
      BY DEF Writes, NoWrite, Keep, Statuses
    <2>2. /\ slot[t].phase = "archived" /\ Hold(t, A, W)
          /\ UNCHANGED <<rows, inbox, waived>>
      BY <1>5 DEF CloseCompletedAgents
    <2> HIDE DEF W, A
    <2>3. Pairing(A, W) /\ W.status # "complete"
      BY <2>1 DEF Pairing, Keep, SerialInv, JobFollowsExecution
    <2> QED BY <1>0, <2>1, <2>2, <2>3, BeginSerial
  <1>6. CASE ContinueWorking(t)
    <2> DEFINE W == [NoWrite EXCEPT !.status = "waiting", !.project = "inactive"]
               A == {a \in Agents : status[a] = "decommissioned"}
    <2>1. W \in Writes /\ Harmless(W) /\ A \in SUBSET Agents
      BY DEF Writes, NoWrite, Keep, Statuses, Harmless
    <2>2. Begin(t, A, W)
      BY <1>6 DEF ContinueWorking
    <2> HIDE DEF W, A
    <2> QED BY <1>0, <2>1, <2>2, BeginHarmless
  <1> QED BY <1>1, <1>2, <1>3, <1>4, <1>5, <1>6 DEF RequestStep

(* So do the monitors' scans, whose writes are harmless.                   *)
LEMMA MonitorSerial ==
    ASSUME SerialInv, NEW m \in Monitors, MonitorStep(m)
    PROVE  SerialInv'
  <1>0. m \in Txns /\ TypeOK'
    BY MonitorType DEF Txns, SerialInv
  <1>1. ASSUME NEW A \in SUBSET Agents, NEW w \in Writes, MonitorWrite(w), Begin(m, A, w)
        PROVE  SerialInv'
    <2>1. Pairing(A, w) /\ w.status # "complete"
      BY <1>1 DEF MonitorWrite, Pairing, Keep
    <2> QED BY <1>0, <1>1, <2>1, BeginSerial DEF Begin, Free
  <1>2. CASE DetectSilentAgents(m)
    <2> DEFINE W == [NoWrite EXCEPT !.status = "silent"]
    <2>1. W \in Writes /\ MonitorWrite(W) /\ StaleWorkers \in SUBSET Agents
      BY DEF Writes, NoWrite, Keep, Statuses, StaleWorkers, MonitorWrite
    <2>2. Begin(m, StaleWorkers, W)
      BY <1>2 DEF DetectSilentAgents
    <2> HIDE DEF W
    <2> QED BY <1>1, <2>1, <2>2
  <1>3. CASE \E a \in Agents : HandleUnhealthyJob(m, a)
    <2> DEFINE W == [NoWrite EXCEPT !.status = "decommissioned"]
    <2>1. W \in Writes /\ MonitorWrite(W)
      BY DEF Writes, NoWrite, Keep, Statuses, MonitorWrite
    <2>2. PICK a \in Agents : Begin(m, {a}, W)
      BY <1>3 DEF HandleUnhealthyJob
    <2> HIDE DEF W
    <2> QED BY <1>1, <2>1, <2>2
  <1> QED BY <1>2, <1>3 DEF MonitorStep

(* So does the environment: agents only ever read posts away.              *)
LEMMA EnvironmentSerial ==
    ASSUME SerialInv, Environment
    PROVE  SerialInv'
  <1>1. /\ TypeOK /\ TypeOK'
        /\ UNCHANGED <<status, job, slot, waived>>
        /\ \A a \in Agents : inbox'[a] \subseteq inbox[a]
    <2>1. TypeOK /\ TypeOK'
      BY EnvironmentType DEF SerialInv
    <2> QED BY <2>1 DEF Environment, LaunchImplementation, ActivateProject,
               DeactivateProject, ReadThread, Tick, rows, TypeOK
  <1>2. SlotsFit'
    <2>1. ASSUME NEW u \in Txns, slot[u].phase = "write"
          PROVE  Fit(slot[u].targets, slot[u].w)'
      <3>1. Fit(slot[u].targets, slot[u].w) /\ slot[u].targets \subseteq Agents
        BY <1>1, <2>1 DEF SerialInv, SlotsFit, TypeOK, Transactions
      <3> QED BY <1>1, <3>1 DEF Fit, Settling, Pairing
    <2> QED BY <1>1, <2>1 DEF SerialInv, SlotsFit, MonitorWrite
  <1>3. JobFollowsExecution' /\ PostsAccounted'
    BY <1>1 DEF SerialInv, JobFollowsExecution, PostsAccounted, Accounted, BeingBlocked
  <1> QED BY <1>1, <1>2, <1>3 DEF SerialInv

(* Every step preserves SerialInv.                                         *)
LEMMA StepSerial ==
    ASSUME OneAtATime, SerialInv, [Next]_vars
    PROVE  SerialInv'
  <1>1. CASE Next
    BY <1>1, RequestSerial, HandlerSerial, MonitorSerial, CommitSerial,
       EnvironmentSerial DEF Next
  <1>2. CASE UNCHANGED vars
    <2>1. TypeOK' /\ UNCHANGED <<status, job, inbox, slot, waived>>
      BY <1>2, StepType DEF vars, SerialInv
    <2> QED BY <2>1
        DEF SerialInv, SlotsFit, Fit, Settling, Pairing, MonitorWrite,
            JobFollowsExecution, PostsAccounted, Accounted, BeingBlocked
  <1> QED BY <1>1, <1>2

(* The first request finds nothing completed and nothing in flight.        *)
LEMMA SerialInit ==
    ASSUME Init
    PROVE  SerialInv
  <1>1. TypeOK
    BY InitType
  <1>2. \A t \in Txns : slot[t].phase = "idle"
    BY DEF Init, IdleSlot
  <1>3. \A a \in Agents : status[a] \in {"none", "waiting"}
    BY DEF Init
  <1> QED BY <1>1, <1>2, <1>3
          DEF SerialInv, SlotsFit, JobFollowsExecution, PostsAccounted, Txns

(* SerialInv is an invariant of the specification.                         *)
LEMMA SerialInvariant ==
    ASSUME OneAtATime
    PROVE  Spec => []SerialInv
  <1>1. Init => SerialInv
    BY SerialInit
  <1>2. SerialInv /\ [Next]_vars => SerialInv'
    BY StepSerial
  <1> QED BY <1>1, <1>2, PTL DEF Spec

(* One request at a time, the execution and the job of an agent are        *)
(* finalized together: whichever of complete_job, dismiss, close_job and   *)
(* archive ends the execution, its job is completed, and whichever handler *)
(* reopens the job has reopened the execution, with the monitors writing   *)
(* to the same agents in between.                                          *)
THEOREM JobsInStep ==
    ASSUME OneAtATime
    PROVE  Spec => []JobFollowsExecution
  <1>1. SerialInv => JobFollowsExecution
    BY DEF SerialInv
  <1> QED BY <1>1, SerialInvariant, PTL

(* The composition of MCHandlers: while the part with the monitor moves,   *)
(* every step is one of AgentLifecycle.                                    *)
Watched == part = "health"

LEMMA WatchedMoves == MCSpec /\ Watched => Spec /\ []Watched
  <1>1. MCInit /\ Watched => Init
    BY DEF MCInit, Watched
  <1>2. Watched /\ [MCNext]_<<vars, part>> => Watched' /\ [Next]_vars
    BY DEF MCNext, Watched
  <1> QED BY <1>1, <1>2, PTL DEF MCSpec, Spec

LEMMA RequestsMove == MCSpec /\ ~Watched => []~Watched
  <1>1. ~Watched /\ [MCNext]_<<vars, part>> => ~Watched'
    BY DEF MCNext, Watched
  <1> QED BY <1>1, PTL DEF MCSpec

(* A completed or closed execution has a completed job beside the monitor   *)
(* too, as long as requests are served one at a time.                      *)
THEOREM WatchedJobsFollowHolds == ASSUME OneAtATime PROVE MCSpec => []WatchedJobsFollow
  <1>1. JobFollowsExecution \/ ~Watched => WatchedJobsFollow
    BY DEF WatchedJobsFollow, Watched
  <1> QED BY <1>1, WatchedMoves, RequestsMove, JobsInStep, PTL

(* One request at a time, no action-required post is left behind on a      *)
(* completed agent: the completion gate and the routing of later posts     *)
(* between them leave no gap.                                              *)
THEOREM PostsAnswered ==
    ASSUME OneAtATime
    PROVE  Spec => []NoStrandedPost
  <1>1. SerialInv => NoStrandedPost
    BY AccountedSuffices DEF SerialInv
  <1> QED BY <1>1, SerialInvariant, PTL

-----------------------------------------------------------------------------
(* Requests served one at a time and no monitor: AgentLifecycle implements *)
(* JobContract, and terminal statuses are final.                           *)

Alone == OneAtATime /\ Monitors = {}

(* The moves of JobContract a write in flight may turn out to be.          *)
Stage(a) == StageOf(status[a])
Works(A, w) ==
    (\A a \in A : Stage(a) = "open") /\ StageOf(w.status) = "open"
Hires(A, w) ==
    (\E a \in Agents : A = {a} /\ Stage(a) = "absent") /\ StageOf(w.status) = "open"
Finishes(A, w) ==
    (\E a \in Agents : A = {a} /\ Stage(a) = "open") /\ w.status = "complete"
Reopens(A, w) ==
    (\E a \in Agents : A = {a} /\ Stage(a) = "finished") /\ StageOf(w.status) = "open"
Accepts(A, w) ==
    (\A a \in A : Stage(a) = "finished" /\ inbox[a] \subseteq waived) /\ w.status = "closed"
Recalls(A, w) ==
    /\ \A a \in A : Stage(a) = "abandoned"
    /\ w.status = "waiting"
    /\ w.project = "inactive"
    /\ project = "completed"
Allowed(A, w) ==
    \/ w.status = Keep
    \/ Works(A, w)
    \/ Hires(A, w)
    \/ Finishes(A, w)
    \/ Reopens(A, w)
    \/ Accepts(A, w)
    \/ Recalls(A, w)

ContractInv ==
    /\ SerialInv
    /\ \A a \in Agents : inbox[a] \subseteq sent
    /\ \A t \in Txns : /\ slot[t].phase = "write" => Allowed(slot[t].targets, slot[t].w)
                       /\ slot[t].phase = "route" => slot[t].post \in sent

-----------------------------------------------------------------------------
(* There is only one transaction slot.                                     *)
LEMMA OnlySlot ==
    ASSUME Alone, NEW t \in Txns, NEW u \in Txns
    PROVE  t = u /\ t \in Slots
  BY DEF Alone, OneAtATime, Txns

(* A completed agent that nothing in flight concerns has settled its posts.*)
LEMMA CompleteSettled ==
    ASSUME Alone, SerialInv, NEW t \in Txns, slot[t].phase \notin {"write", "route"},
           NEW a \in Agents, status[a] = "complete"
    PROVE  inbox[a] \subseteq waived
  <1>1. \A u \in Txns : u = t
    BY OnlySlot
  <1> QED BY <1>1 DEF SerialInv, PostsAccounted, Accounted, BeingBlocked

(* Holding an allowed write preserves the invariant.                       *)
LEMMA BeginContract ==
    ASSUME Alone, ContractInv, SerialInv', NEW t \in Txns, NEW A \in SUBSET Agents,
           NEW w \in Writes, Hold(t, A, w), Allowed(A, w),
           UNCHANGED <<rows, inbox, sent>>, waived \subseteq waived'
    PROVE  ContractInv'
  <1>1. \A u \in Txns : u = t
    BY OnlySlot
  <1>2. slot'[t].phase = "write" /\ slot'[t].targets = A /\ slot'[t].w = w
    BY DEF Hold, ContractInv, SerialInv, TypeOK
  <1>3. Allowed(slot[t].targets, slot[t].w)'
    <2>1. UNCHANGED <<status, inbox, project>>
      BY DEF rows
    <2> QED BY <1>2, <2>1
        DEF Allowed, Works, Hires, Finishes, Reopens, Accepts, Recalls, Stage
  <1> QED BY <1>1, <1>2, <1>3 DEF ContractInv

(* A request that keeps an open agent open is allowed.                     *)
LEMMA BeginWork ==
    ASSUME Alone, ContractInv, SerialInv', NEW t \in Slots, NEW a \in Agents,
           NEW w \in Writes, Begin(t, {a}, w),
           \/ w.status = Keep
           \/ Stage(a) = "open" /\ StageOf(w.status) = "open"
    PROVE  ContractInv'
  <1>1. Allowed({a}, w) /\ t \in Txns
    BY DEF Allowed, Works, Txns
  <1> QED BY <1>1, BeginContract DEF Begin

(* Every tool call of an agent preserves the invariant.                    *)
LEMMA HandlerContract ==
    ASSUME Alone, ContractInv, SerialInv', NEW t \in Slots, NEW a \in Agents,
           AgentHandler(t, a) \/ CompleteJob(t, a)
    PROVE  ContractInv'
  <1>0. t \in Txns /\ {a} \in SUBSET Agents /\ TypeOK
    BY DEF Txns, ContractInv, SerialInv
  <1>01. Active(a) => Stage(a) = "open"
    BY DEF Active, Exists, Inactive, Stage, StageOf
  <1>1. CASE SpawnJob(t, a)
    <2>0. PICK first \in {"staged", "waiting"} :
            Begin(t, {a}, [NoWrite EXCEPT !.status = first, !.job = "active"])
      BY <1>1 DEF SpawnJob
    <2> DEFINE W == [NoWrite EXCEPT !.status = first, !.job = "active"]
    <2>1. W \in Writes /\ W.status \in {"staged", "waiting"}
      BY DEF Writes, NoWrite, Keep, Statuses
    <2>2. Begin(t, {a}, W)
      BY <2>0
    <2> HIDE DEF W
    <2>3. Allowed({a}, W)
      BY <1>1, <2>1 DEF SpawnJob, Exists, Allowed, Hires, Stage, StageOf
    <2> QED BY <1>0, <2>1, <2>2, <2>3, BeginContract DEF Begin
  <1>2. CASE UpdateAgentMission(t, a)
    <2> DEFINE Unlock == [NoWrite EXCEPT !.status = "waiting"]
               End    == [NoWrite EXCEPT !.staging = "complete"]
    <2>1. /\ Unlock \in Writes /\ StageOf(Unlock.status) = "open"
          /\ End \in Writes /\ End.status = Keep
      BY DEF Writes, NoWrite, Keep, Statuses, StageOf
    <2>2. CASE status[a] = "staged" /\ Begin(t, {a}, Unlock)
      <3>1. Stage(a) = "open"
        BY <2>2 DEF Stage, StageOf
      <3> HIDE DEF Unlock
      <3> QED BY <2>1, <2>2, <3>1, BeginWork
    <2>3. CASE Begin(t, {a}, End)
      <3> HIDE DEF End
      <3> QED BY <2>1, <2>3, BeginWork
    <2> QED BY <1>2, <2>2, <2>3 DEF UpdateAgentMission
  <1>3. CASE GetJobMission(t, a) \/ AutoClearSilent(t, a)
    <2> DEFINE W == [NoWrite EXCEPT !.status = "working", !.age = "fresh"]
    <2>1. W \in Writes /\ StageOf(W.status) = "open"
      BY DEF Writes, NoWrite, Keep, Statuses, StageOf
    <2>2. Begin(t, {a}, W) /\ Stage(a) = "open"
      BY <1>3 DEF GetJobMission, AutoClearSilent, Stage, StageOf
    <2> HIDE DEF W
    <2> QED BY <2>1, <2>2, BeginWork
  <1>4. CASE ReportProgress(t, a)
    <2>0. PICK todos \in Todos : Begin(t, {a}, [NoWrite EXCEPT
                    !.status = IF status[a] \in Resting THEN "working" ELSE Keep,
                    !.age = "fresh", !.todo = Net(todo[a], todos)])
      BY <1>4 DEF ReportProgress
    <2> DEFINE W == [NoWrite EXCEPT
                    !.status = IF status[a] \in Resting THEN "working" ELSE Keep,
                    !.age = "fresh", !.todo = Net(todo[a], todos)]
    <2>1. W \in Writes /\ StageOf(W.status) = "open"
      BY ConstantsAssumption
      DEF Writes, NoWrite, Keep, Statuses, StageOf, Net, ConstantsAssumption
    <2>2. Begin(t, {a}, W) /\ Stage(a) = "open"
      BY <1>01, <1>4, <2>0 DEF ReportProgress
    <2> HIDE DEF W
    <2> QED BY <2>1, <2>2, BeginWork
  <1>5. CASE SetAgentStatus(t, a)
    <2>0. PICK rest \in Rests :
            Begin(t, {a}, [NoWrite EXCEPT !.status = Net(status[a], rest)])
      BY <1>5 DEF SetAgentStatus
    <2> DEFINE W == [NoWrite EXCEPT !.status = Net(status[a], rest)]
    <2>1. W \in Writes /\ StageOf(W.status) = "open"
      BY ConstantsAssumption
      DEF Writes, NoWrite, Keep, Statuses, Net, Resting, StageOf, ConstantsAssumption
    <2>2. Begin(t, {a}, W) /\ Stage(a) = "open"
      BY <1>01, <1>5, <2>0 DEF SetAgentStatus
    <2> HIDE DEF W
    <2> QED BY <2>1, <2>2, BeginWork
  <1>6. CASE EndStaging(t, a)
    <2> DEFINE W == [NoWrite EXCEPT !.status = Net(status[a], "waiting"),
                                    !.done = Net(done[a], "unset"),
                                    !.staging = Net(staging, "complete")]
    <2>1. W \in Writes /\ StageOf(W.status) = "open"
      BY DEF Writes, NoWrite, Keep, Statuses, Net, StageOf
    <2>2. Begin(t, {a}, W) /\ Stage(a) = "open"
      BY <1>01, <1>6 DEF EndStaging, CompletionAllowed
    <2> HIDE DEF W
    <2> QED BY <2>1, <2>2, BeginWork
  <1>7. CASE CompleteJob(t, a)
    <2> DEFINE W == [NoWrite EXCEPT !.status = "complete", !.done = "set",
                                    !.job = Net(job[a], "completed")]
    <2>1. W \in Writes /\ W.status = "complete"
      BY DEF Writes, NoWrite, Keep, Statuses, Net
    <2>2. Begin(t, {a}, W) /\ Stage(a) = "open"
      BY <1>01, <1>7 DEF CompleteJob, CompletionAllowed
    <2> HIDE DEF W
    <2>3. Allowed({a}, W)
      BY <2>1, <2>2 DEF Allowed, Finishes
    <2> QED BY <1>0, <2>1, <2>2, <2>3, BeginContract DEF Begin
  <1>8. CASE ReactivateJob(t, a)
    <2> DEFINE W == [NoWrite EXCEPT !.status = "working",
                                    !.done = Net(done[a], "unset"),
                                    !.job = Net(job[a], "active")]
    <2>1. W \in Writes /\ StageOf(W.status) = "open"
      BY DEF Writes, NoWrite, Keep, Statuses, Net, StageOf
    <2>2. Begin(t, {a}, W) /\ Stage(a) = "open"
      BY <1>8 DEF ReactivateJob, Stage, StageOf
    <2> HIDE DEF W
    <2> QED BY <2>1, <2>2, BeginWork
  <1>9. CASE DismissReactivation(t, a)
    <2> DEFINE W == [NoWrite EXCEPT !.status = "complete",
                                    !.job = Net(job[a], "completed")]
    <2>1. W \in Writes /\ W.status = "complete"
      BY DEF Writes, NoWrite, Keep, Statuses, Net
    <2>2. /\ Hold(t, {a}, W) /\ Stage(a) = "open"
          /\ UNCHANGED <<rows, inbox, sent>> /\ waived \subseteq waived'
      BY <1>9 DEF DismissReactivation, Stage, StageOf
    <2> HIDE DEF W
    <2>3. Allowed({a}, W)
      BY <2>1, <2>2 DEF Allowed, Finishes
    <2> QED BY <1>0, <2>1, <2>2, <2>3, BeginContract
  <1>10. CASE CloseJob(t, a)
    <2> DEFINE W == [NoWrite EXCEPT !.status = "closed"]
    <2>1. W \in Writes /\ W.status = "closed"
      BY DEF Writes, NoWrite, Keep, Statuses
    <2>2. Begin(t, {a}, W) /\ status[a] = "complete" /\ Free(t)
      BY <1>10 DEF CloseJob, Begin
    <2> HIDE DEF W
    <2>3. inbox[a] \subseteq waived
      BY <1>0, <2>2, CompleteSettled DEF Free, ContractInv
    <2>4. Allowed({a}, W)
      BY <2>1, <2>2, <2>3 DEF Allowed, Accepts, Stage, StageOf
    <2> QED BY <1>0, <2>1, <2>2, <2>4, BeginContract DEF Begin
  <1>11. CASE \E p \in Posts : PostToThread(t, p, a)
    <2>0. PICK p \in Posts : PostToThread(t, p, a)
      BY <1>11
    <2>1. /\ slot'[t].phase = "route" /\ slot'[t].post = p
          /\ sent' = sent \cup {p} /\ inbox' = [inbox EXCEPT ![a] = @ \cup {p}]
      BY <1>0, <2>0 DEF PostToThread, TypeOK, IdleSlot
    <2>2. \A b \in Agents : inbox'[b] \subseteq sent'
      BY <1>0, <2>1 DEF ContractInv, TypeOK
    <2>3. \A u \in Txns : u = t
      BY <1>0, OnlySlot
    <2> QED BY <2>1, <2>2, <2>3 DEF ContractInv
  <1> QED BY <1>1, <1>2, <1>3, <1>4, <1>5, <1>6, <1>7, <1>8, <1>9, <1>10,
             <1>11 DEF AgentHandler

(* So do the other steps of a request slot.                                *)
LEMMA RequestContract ==
    ASSUME Alone, ContractInv, SerialInv', NEW t \in Slots, RequestStep(t)
    PROVE  ContractInv'
  <1>0. t \in Txns /\ TypeOK /\ \A u \in Txns : u = t
    BY OnlySlot DEF Txns, ContractInv, SerialInv
  <1>1. CASE \E a \in Agents : AgentHandler(t, a)
    BY <1>1, HandlerContract
  <1>2. CASE AutoBlock(t)
    <2> DEFINE W == [NoWrite EXCEPT !.status = "blocked"]
    <2>1. W.status = "blocked"
      BY DEF NoWrite
    <2>2. /\ slot'[t].phase = "write" /\ slot'[t].targets = slot[t].targets
          /\ slot'[t].w = W /\ UNCHANGED <<status, inbox, sent>>
      BY <1>0, <1>2 DEF AutoBlock, TypeOK, Transactions, rows
    <2> HIDE DEF W
    <2>3. PICK a \in slot[t].targets : status[a] = "complete"
      BY <1>2 DEF AutoBlock
    <2>4. a \in Agents /\ slot[t].targets = {a}
      BY <1>0, <1>2, <2>3
      DEF AutoBlock, ContractInv, SerialInv, SlotsFit, TypeOK, Transactions
    <2>5. Allowed(slot[t].targets, slot[t].w)'
      BY <2>1, <2>2, <2>3, <2>4 DEF Allowed, Reopens, Stage, StageOf
    <2> QED BY <1>0, <2>2, <2>5 DEF ContractInv
  <1>3. CASE SkipAutoBlock(t) \/ LoseAutoBlock(t) \/ ArchiveProject(t)
    <2>1. slot'[t].phase \in {"idle", "archived"} /\ UNCHANGED <<inbox, sent>>
      BY <1>0, <1>3
      DEF SkipAutoBlock, LoseAutoBlock, ArchiveProject, TypeOK, IdleSlot
    <2> QED BY <1>0, <2>1 DEF ContractInv
  <1>4. CASE CloseCompletedAgents(t)
    <2> DEFINE W == [NoWrite EXCEPT !.status = "closed"]
               A == {a \in Agents : status[a] = "complete"}
    <2>1. /\ W \in Writes /\ W.status = "closed"
          /\ A \in SUBSET Agents /\ \A a \in A : status[a] = "complete"
      BY DEF Writes, NoWrite, Keep, Statuses
    <2>2. /\ slot[t].phase = "archived" /\ Hold(t, A, W)
          /\ UNCHANGED <<rows, inbox, sent, waived>>
      BY <1>4 DEF CloseCompletedAgents
    <2> HIDE DEF W, A
    <2>3. \A a \in A : inbox[a] \subseteq waived
      BY <1>0, <2>1, <2>2, CompleteSettled DEF ContractInv
    <2>4. Allowed(A, W)
      BY <2>1, <2>3 DEF Allowed, Accepts, Stage, StageOf
    <2> QED BY <1>0, <2>1, <2>2, <2>4, BeginContract
  <1>5. CASE ContinueWorking(t)
    <2> DEFINE W == [NoWrite EXCEPT !.status = "waiting", !.project = "inactive"]
               A == {a \in Agents : status[a] = "decommissioned"}
    <2>1. /\ W \in Writes /\ W.status = "waiting" /\ W.project = "inactive"
          /\ A \in SUBSET Agents /\ \A a \in A : status[a] = "decommissioned"
      BY DEF Writes, NoWrite, Keep, Statuses
    <2>2. Begin(t, A, W) /\ project = "completed"
      BY <1>5 DEF ContinueWorking, Immutable
    <2> HIDE DEF W, A
    <2>3. Allowed(A, W)
      BY <2>1, <2>2 DEF Allowed, Recalls, Stage, StageOf
    <2> QED BY <1>0, <2>1, <2>2, <2>3, BeginContract DEF Begin
  <1> QED BY <1>1, <1>2, <1>3, <1>4, <1>5 DEF RequestStep

(* Every step preserves the invariant.                                     *)
LEMMA StepContract ==
    ASSUME Alone, ContractInv, [Next]_vars
    PROVE  ContractInv'
  <1>0. SerialInv'
    BY StepSerial DEF Alone, ContractInv
  <1>1. CASE \E t \in Slots : RequestStep(t)
    BY <1>0, <1>1, RequestContract
  <1>2. CASE \E t \in Slots, a \in Agents : CompleteJob(t, a)
    BY <1>0, <1>2, HandlerContract
  <1>3. CASE \E t \in Txns : Commit(t)
    <2>1. PICK t \in Txns : Commit(t)
      BY <1>3
    <2>2. slot'[t].phase = "idle" /\ UNCHANGED <<inbox, sent>>
      BY <2>1 DEF Commit, ContractInv, SerialInv, TypeOK, IdleSlot
    <2>3. \A u \in Txns : u = t
      BY OnlySlot
    <2> QED BY <1>0, <2>2, <2>3 DEF ContractInv
  <1>4. CASE Environment
    <2>1. /\ UNCHANGED <<status, slot, sent, waived>>
          /\ \A a \in Agents : inbox'[a] \subseteq inbox[a]
          /\ project = "completed" => project' = "completed"
      BY <1>4 DEF Environment, LaunchImplementation, ActivateProject,
                  DeactivateProject, ReadThread, Tick, rows, ContractInv,
                  SerialInv, TypeOK
    <2>2. ASSUME NEW t \in Txns, slot[t].phase = "write"
          PROVE  Allowed(slot[t].targets, slot[t].w)'
      <3>1. Allowed(slot[t].targets, slot[t].w) /\ slot[t].targets \subseteq Agents
        BY <2>2 DEF ContractInv, SerialInv, TypeOK, Transactions
      <3> QED BY <2>1, <3>1
          DEF Allowed, Works, Hires, Finishes, Reopens, Accepts, Recalls, Stage
    <2> QED BY <1>0, <2>1, <2>2 DEF ContractInv
  <1>5. CASE UNCHANGED vars
    BY <1>0, <1>5 DEF vars, ContractInv, Allowed, Works, Hires, Finishes, Reopens,
                      Accepts, Recalls, Stage
  <1> QED BY <1>1, <1>2, <1>3, <1>4, <1>5 DEF Next, Alone

(* ContractInv is an invariant of the specification.                       *)
LEMMA ContractInvariant ==
    ASSUME Alone
    PROVE  Spec => []ContractInv
  <1>1. Init => ContractInv
    <2> SUFFICES ASSUME Init PROVE ContractInv
      OBVIOUS
    <2>1. SerialInv
      BY SerialInit
    <2>2. (\A t \in Txns : slot[t].phase = "idle") /\ \A a \in Agents : inbox[a] = {}
      BY DEF Init, IdleSlot
    <2> QED BY <2>1, <2>2 DEF ContractInv
  <1>2. ContractInv /\ [Next]_vars => ContractInv'
    BY StepContract
  <1> QED BY <1>1, <1>2, PTL DEF Spec

-----------------------------------------------------------------------------
(* Terminal statuses.                                                      *)

(* Only a commit changes a status.                                         *)
LEMMA OnlyCommitWrites ==
    ASSUME Alone, [Next]_vars, ~ \E t \in Txns : Commit(t)
    PROVE  status' = status
  <1>1. ASSUME NEW t \in Slots, NEW a \in Agents,
               AgentHandler(t, a) \/ CompleteJob(t, a)
        PROVE  status' = status
    BY <1>1 DEF AgentHandler, SpawnJob, UpdateAgentMission, GetJobMission,
         ReportProgress, SetAgentStatus, EndStaging, CompleteJob, ReactivateJob,
         DismissReactivation, CloseJob, AutoClearSilent, PostToThread, Begin, rows
  <1>2. ASSUME NEW t \in Slots, RequestStep(t)
        PROVE  status' = status
    BY <1>1, <1>2 DEF RequestStep, AutoBlock, SkipAutoBlock, LoseAutoBlock,
         ArchiveProject, CloseCompletedAgents, ContinueWorking, Begin, rows
  <1>3. Environment => status' = status
    BY DEF Environment, LaunchImplementation, ActivateProject, DeactivateProject,
           ReadThread, Tick, rows
  <1> QED BY <1>1, <1>2, <1>3 DEF Next, vars, Alone

(* A commit never moves an agent out of a terminal status, but for the     *)
(* recall of continue_working.                                             *)
LEMMA CommitTerminal ==
    ASSUME ContractInv, NEW t \in Txns, Commit(t)
    PROVE  TerminalStep
  <1> DEFINE w == slot[t].w
             A == slot[t].targets
  <1>1. TypeOK /\ w \in Writes
    BY DEF ContractInv, SerialInv, TypeOK, Transactions
  <1>2. /\ slot[t].phase = "write" /\ A \subseteq Agents
        /\ \A a \in Agents :
             status'[a] = IF a \in A THEN Patch(w.status, status[a]) ELSE status[a]
        /\ project' = Patch(w.project, project)
    BY <1>1, CommitEffect DEF Commit
  <1>3. Allowed(A, w)
    BY <1>2 DEF ContractInv
  <1> HIDE DEF w, A
  <1> SUFFICES ASSUME NEW a \in Agents, a \in A, w.status # Keep
               PROVE  /\ status[a] = "closed" => status'[a] = "closed"
                      /\ status[a] = "decommissioned" =>
                           status'[a] = "waiting" /\ project = "completed"
                             /\ project' = "inactive"
    BY <1>2 DEF TerminalStep, Patch
  <1>4. status[a] = "closed" => Stage(a) = "accepted"
    BY DEF Stage, StageOf
  <1>5. status[a] = "decommissioned" => Stage(a) = "abandoned"
    BY DEF Stage, StageOf
  <1>6. status[a] \in {"closed", "decommissioned"} => Recalls(A, w) /\ Stage(a) = "abandoned"
    BY <1>3, <1>4, <1>5 DEF Allowed, Works, Hires, Finishes, Reopens, Accepts, Recalls
  <1>7. Recalls(A, w) => /\ status'[a] = "waiting" /\ project = "completed"
                         /\ project' = "inactive"
    BY <1>2 DEF Recalls, Patch, Keep
  <1> QED BY <1>4, <1>6, <1>7

(* What is over stays over: no handler that runs alone, and no bulk        *)
(* closeout, takes an agent out of closed, and only continue_working takes *)
(* one out of decommissioned.                                              *)
THEOREM TerminalStays ==
    ASSUME Alone
    PROVE  Spec => TerminalIsFinal
  <1>1. ContractInv /\ [Next]_vars => [TerminalStep]_vars
    <2> SUFFICES ASSUME ContractInv, [Next]_vars PROVE TerminalStep
      OBVIOUS
    <2>1. CASE \E t \in Txns : Commit(t)
      BY <2>1, CommitTerminal
    <2>2. CASE ~ \E t \in Txns : Commit(t)
      BY <2>2, OnlyCommitWrites DEF TerminalStep
    <2> QED BY <2>1, <2>2
  <1> QED BY <1>1, ContractInvariant, PTL DEF Spec, TerminalIsFinal

-----------------------------------------------------------------------------
(* Refinement of JobContract.                                              *)

(* A commit that takes all its agents from one stage to another is a move  *)
(* of the contract.                                                        *)
LEMMA CommitMove ==
    ASSUME TypeOK, NEW t \in Txns, Commit(t), slot[t].w.status # Keep,
           NEW from, NEW to, \A a \in slot[t].targets : Stage(a) = from,
           StageOf(slot[t].w.status) = to
    PROVE  Contract!Move(slot[t].targets, from, to)
  <1> DEFINE A == slot[t].targets
  <1>1. /\ A \subseteq Agents
        /\ \A a \in Agents :
             status'[a] = IF a \in A THEN slot[t].w.status ELSE status[a]
        /\ UNCHANGED <<inbox, sent, waived>>
    BY CommitEffect DEF Commit, Patch
  <1>2. \A a \in A : [b \in Agents |-> StageOf(status[b])][a] = from
    BY <1>1 DEF Stage
  <1>3. \A a \in Agents : StageOf(status'[a]) = IF a \in A THEN to ELSE StageOf(status[a])
    BY <1>1
  <1>4. [b \in Agents |-> StageOf(status[b])]'
          = [b \in Agents |-> IF b \in A THEN to
                              ELSE [a \in Agents |-> StageOf(status[a])][b]]
    BY <1>3
  <1> QED BY <1>1, <1>2, <1>4 DEF Contract!Move

(* A commit is a move of the contract or leaves every stage as it is.      *)
LEMMA CommitRefines ==
    ASSUME Alone, ContractInv, NEW t \in Txns, Commit(t)
    PROVE  [Contract!Next]_(Contract!vars)
  <1> DEFINE w == slot[t].w
             A == slot[t].targets
  <1>1. TypeOK /\ slot[t].phase = "write" /\ A \subseteq Agents
    BY CommitEffect DEF ContractInv, SerialInv
  <1>2. Allowed(A, w) /\ Settling(A, w)
    BY <1>1 DEF ContractInv, SerialInv, SlotsFit, Fit
  <1>3. ASSUME w.status = Keep \/ Works(A, w)
        PROVE  UNCHANGED Contract!vars
    <2>1. /\ UNCHANGED <<inbox, sent, waived>>
          /\ \A a \in Agents :
               status'[a] = IF a \in A THEN Patch(w.status, status[a]) ELSE status[a]
      BY <1>1, CommitEffect DEF Commit
    <2>2. \A a \in Agents : StageOf(status'[a]) = StageOf(status[a])
      BY <1>1, <1>3, <2>1 DEF Works, Stage, Patch
    <2>3. [a \in Agents |-> StageOf(status[a])]' = [a \in Agents |-> StageOf(status[a])]
      BY <2>2
    <2> QED BY <2>1, <2>3 DEF Contract!vars
  <1>4. ASSUME w.status # Keep, Hires(A, w)
        PROVE  Contract!Next
    <2>1. PICK a \in Agents : A = {a} /\ Stage(a) = "absent"
      BY <1>4 DEF Hires
    <2>2. Contract!Move(A, "absent", "open")
      BY <1>1, <1>4, <2>1, CommitMove DEF Hires
    <2> QED BY <2>1, <2>2 DEF Contract!Next, Contract!Hire
  <1>5. ASSUME w.status # Keep, Finishes(A, w)
        PROVE  Contract!Next
    <2>1. PICK a \in Agents : A = {a} /\ Stage(a) = "open"
      BY <1>5 DEF Finishes
    <2>2. StageOf(w.status) = "finished"
      BY <1>5 DEF Finishes, StageOf
    <2>3. Contract!Move(A, "open", "finished")
      BY <1>1, <1>5, <2>1, <2>2, CommitMove
    <2>4. Contract!Settled(a)
      BY <1>2, <1>5, <2>1 DEF Finishes, Settling, Contract!Settled
    <2> QED BY <2>1, <2>3, <2>4 DEF Contract!Next, Contract!Finish
  <1>6. ASSUME w.status # Keep, Reopens(A, w)
        PROVE  Contract!Next
    <2>1. PICK a \in Agents : A = {a} /\ Stage(a) = "finished"
      BY <1>6 DEF Reopens
    <2>2. Contract!Move(A, "finished", "open")
      BY <1>1, <1>6, <2>1, CommitMove DEF Reopens
    <2> QED BY <2>1, <2>2 DEF Contract!Next, Contract!Reopen
  <1>7. ASSUME w.status # Keep, Accepts(A, w)
        PROVE  Contract!Next
    <2>1. StageOf(w.status) = "accepted"
      BY <1>7 DEF Accepts, StageOf
    <2>2. Contract!Move(A, "finished", "accepted")
      BY <1>1, <1>7, <2>1, CommitMove DEF Accepts
    <2>3. \A a \in A : Contract!Settled(a)
      BY <1>7 DEF Accepts, Contract!Settled
    <2> QED BY <1>1, <2>2, <2>3 DEF Contract!Next, Contract!Accept
  <1>8. ASSUME w.status # Keep, Recalls(A, w)
        PROVE  Contract!Next
    <2>1. StageOf(w.status) = "open"
      BY <1>8 DEF Recalls, StageOf
    <2>2. Contract!Move(A, "abandoned", "open")
      BY <1>1, <1>8, <2>1, CommitMove DEF Recalls
    <2> QED BY <1>1, <2>2 DEF Contract!Next, Contract!Recall
  <1> HIDE DEF w, A
  <1> QED BY <1>2, <1>3, <1>4, <1>5, <1>6, <1>7, <1>8 DEF Allowed

(* Every other step is a post, an acknowledgement, a waiver, or stutters.  *)
LEMMA StepRefines ==
    ASSUME Alone, ContractInv, [Next]_vars
    PROVE  [Contract!Next]_(Contract!vars)
  <1>0. TypeOK
    BY DEF ContractInv, SerialInv
  <1>1. CASE \E t \in Txns : Commit(t)
    BY <1>1, CommitRefines
  <1>2. CASE ~ \E t \in Txns : Commit(t)
    <2>1. [a \in Agents |-> StageOf(status[a])]' = [a \in Agents |-> StageOf(status[a])]
      BY <1>2, OnlyCommitWrites
    <2>2. ASSUME UNCHANGED <<inbox, sent, waived>>
          PROVE  UNCHANGED Contract!vars
      BY <2>1, <2>2 DEF Contract!vars
    <2>3. ASSUME NEW X \in SUBSET Posts, X \subseteq sent,
                 UNCHANGED <<inbox, sent>>, waived' = waived \cup X
          PROVE  Contract!Next
      <3>1. Contract!Waive(X)
        BY <2>1, <2>3 DEF Contract!Waive
      <3> QED BY <3>1 DEF Contract!Next
    <2>4. ASSUME NEW t \in Slots, NEW a \in Agents, DismissReactivation(t, a)
          PROVE  Contract!Next
      <3>1. /\ inbox[a] \in SUBSET Posts /\ inbox[a] \subseteq sent
            /\ UNCHANGED <<inbox, sent>> /\ waived' = waived \cup inbox[a]
        BY <1>0, <2>4 DEF DismissReactivation, ContractInv, TypeOK
      <3> QED BY <2>3, <3>1
    <2>5. ASSUME NEW t \in Slots, LoseAutoBlock(t)
          PROVE  Contract!Next
      <3>1. /\ {slot[t].post} \in SUBSET Posts /\ {slot[t].post} \subseteq sent
            /\ UNCHANGED <<inbox, sent>> /\ waived' = waived \cup {slot[t].post}
        BY <1>0, <2>5 DEF LoseAutoBlock, ContractInv, TypeOK, Txns
      <3> QED BY <2>3, <3>1
    <2>6. ASSUME NEW t \in Slots, NEW a \in Agents, NEW p \in Posts, PostToThread(t, p, a)
          PROVE  Contract!Next
      <3>1. /\ p \notin sent /\ status[a] # "none" /\ sent' = sent \cup {p}
            /\ inbox' = [inbox EXCEPT ![a] = @ \cup {p}] /\ waived' = waived
        BY <2>6 DEF PostToThread, Exists
      <3>2. [b \in Agents |-> StageOf(status[b])][a] # "absent"
        BY <3>1 DEF StageOf
      <3>3. Contract!Post(p, a)
        BY <2>1, <3>1, <3>2 DEF Contract!Post
      <3> QED BY <3>3 DEF Contract!Next
    <2>7. ASSUME NEW a \in Agents, ReadThread(a)
          PROVE  Contract!Next
      <3>1. Contract!Read(a)
        BY <2>1, <2>7 DEF ReadThread, Contract!Read
      <3> QED BY <3>1 DEF Contract!Next
    <2>8. ASSUME NEW t \in Slots, NEW a \in Agents,
                 AgentHandler(t, a) \/ CompleteJob(t, a)
          PROVE  [Contract!Next]_(Contract!vars)
      <3>1. CASE DismissReactivation(t, a) \/ \E p \in Posts : PostToThread(t, p, a)
        BY <2>4, <2>6, <3>1
      <3>2. CASE ~ (DismissReactivation(t, a) \/ \E p \in Posts : PostToThread(t, p, a))
        <4>1. UNCHANGED <<inbox, sent, waived>>
          BY <2>8, <3>2 DEF AgentHandler, SpawnJob, UpdateAgentMission, GetJobMission,
             ReportProgress, SetAgentStatus, EndStaging, CompleteJob, ReactivateJob,
             CloseJob, AutoClearSilent, Begin
        <4> QED BY <2>2, <4>1
      <3> QED BY <3>1, <3>2
    <2>9. ASSUME NEW t \in Slots, RequestStep(t)
          PROVE  [Contract!Next]_(Contract!vars)
      <3>1. CASE (\E a \in Agents : AgentHandler(t, a)) \/ LoseAutoBlock(t)
        BY <2>5, <2>8, <3>1
      <3>2. CASE AutoBlock(t) \/ SkipAutoBlock(t) \/ ArchiveProject(t)
                   \/ CloseCompletedAgents(t) \/ ContinueWorking(t)
        <4>1. UNCHANGED <<inbox, sent, waived>>
          BY <3>2 DEF AutoBlock, SkipAutoBlock, ArchiveProject, CloseCompletedAgents,
                      ContinueWorking, Begin
        <4> QED BY <2>2, <4>1
      <3> QED BY <2>9, <3>1, <3>2 DEF RequestStep
    <2>10. CASE Environment
      <3>1. CASE \E a \in Agents : ReadThread(a)
        BY <2>7, <3>1
      <3>2. CASE ~ \E a \in Agents : ReadThread(a)
        <4>1. UNCHANGED <<inbox, sent, waived>>
          BY <2>10, <3>2 DEF Environment, LaunchImplementation, ActivateProject,
                             DeactivateProject, Tick
        <4> QED BY <2>2, <4>1
      <3> QED BY <3>1, <3>2
    <2>11. CASE UNCHANGED vars
      BY <2>2, <2>11 DEF vars
    <2> QED BY <1>2, <2>8, <2>9, <2>10, <2>11 DEF Next, Alone
  <1> QED BY <1>1, <1>2

(* The initial rows are the contract's: every job is absent or open.       *)
LEMMA InitRefines ==
    ASSUME Init
    PROVE  Contract!Init
  <1>1. \A a \in Agents : StageOf(status[a]) \in {"absent", "open"}
    BY DEF Init, StageOf
  <1> QED BY <1>1 DEF Init, Contract!Init

(* Requests served one at a time keep the promise of JobContract: a job    *)
(* finishes and is accepted only with its action-required posts settled,   *)
(* and an accepted job never comes back.                                   *)
THEOREM HonoursContract ==
    ASSUME Alone
    PROVE  Spec => ContractHonoured
  <1>1. Init => Contract!Init
    BY InitRefines
  <1>2. ContractInv /\ [Next]_vars => [Contract!Next]_(Contract!vars)
    BY StepRefines
  <1> QED BY <1>1, <1>2, ContractInvariant, PTL DEF Spec, ContractHonoured, Contract!Spec

-----------------------------------------------------------------------------
(* The user's approvals.                                                   *)

(* What the row in a transaction's hands must be like: it writes none; it  *)
(* inserts a pending row nobody else inserts and parks the row's agent; or *)
(* it decides an existing row and does not park anybody.                   *)
Plain(t) ==
    /\ row[t].id = NoApproval
    /\ slot[t].phase # "decide"
    /\ slot[t].phase = "write" => slot[t].w.status # "awaiting_user"
Creating(t) ==
    /\ slot[t].phase = "write"
    /\ row[t].id \in Approvals
    /\ approval[row[t].id].state = "none"
    /\ row[t].to.state = "pending"
    /\ row[t].to.agent \in Agents
    /\ row[t].to.pre # "none"
    /\ slot[t].targets = {row[t].to.agent}
    /\ \A u \in Slots : row[u].id = row[t].id => u = t
Deciding(t) ==
    /\ slot[t].phase \in {"decide", "write"}
    /\ slot[t].phase = "write" => slot[t].w.status # "awaiting_user"
    /\ row[t].id \in Approvals
    /\ approval[row[t].id].state # "none"
    /\ row[t].to.state = "decided"
    /\ row[t].to.agent = approval[row[t].id].agent
    /\ row[t].to.gate = approval[row[t].id].gate
    /\ row[t].to.pre # "none"
    /\ slot[t].targets = {row[t].to.agent}
RowsFit == \A t \in Slots : Plain(t) \/ Creating(t) \/ Deciding(t)

(* Where the closeout gate is open its orchestrator exists, and an         *)
(* approval row remembers an agent and a status.                           *)
GatesFit == \A t \in Txns : slot[t].phase = "gate" =>
                \A a \in slot[t].targets : status[a] # "none"
ApprovalsFit == \A x \in Approvals : approval[x].state # "none" =>
                /\ approval[x].agent \in Agents
                /\ approval[x].pre # "none"
MonitorsFit == \A m \in Monitors :
                slot[m].phase = "write" => slot[m].w.status # "awaiting_user"

(* A decision in flight on x that leaves its agent parked.                 *)
LeavesParked(x) == \E t \in Slots : /\ slot[t].phase = "write"
                                    /\ row[t].id = x
                                    /\ slot[t].w.status = Keep
Releasable == \A a \in Agents : status[a] = "awaiting_user" =>
                \E x \in PendingOf(a) : ~LeavesParked(x)

ApprovalInv ==
    /\ TypeOKA
    /\ RowsFit
    /\ GatesFit
    /\ ApprovalsFit
    /\ MonitorsFit
    /\ Releasable

-----------------------------------------------------------------------------
(* A transaction that is at rest, or does nothing to approvals.            *)
Quietly(u) ==
    \/ slot'[u] = slot[u]
    \/ /\ slot[u].phase \notin {"write", "decide"}
       /\ slot'[u].phase # "decide"
       /\ slot'[u].w.status # "awaiting_user"
       /\ slot'[u].phase = "gate" => \A a \in slot'[u].targets : status[a] # "none"
AllQuiet == status' = status /\ \A u \in Txns : Quietly(u)

(* Steps that touch no approval and change no status preserve the          *)
(* invariant.                                                              *)
LEMMA QuietStep ==
    ASSUME ApprovalInv, TypeOK', AllQuiet, UNCHANGED <<approval, row>>,
           flagged' \subseteq Agents
    PROVE  ApprovalInv'
  <1>1. TypeOKA'
    BY DEF ApprovalInv, TypeOKA
  <1>2. RowsFit'
    <2> SUFFICES ASSUME NEW t \in Slots
                 PROVE  (Plain(t) \/ Creating(t) \/ Deciding(t))'
      BY DEF RowsFit
    <2>1. t \in Txns /\ (Plain(t) \/ Creating(t) \/ Deciding(t))
      BY DEF Txns, ApprovalInv, RowsFit
    <2>2. CASE slot'[t] = slot[t]
      BY <2>1, <2>2 DEF Plain, Creating, Deciding
    <2>3. CASE slot'[t] # slot[t]
      BY <2>1, <2>3 DEF AllQuiet, Quietly, Plain, Creating, Deciding
    <2> QED BY <2>2, <2>3
  <1>3. GatesFit' /\ MonitorsFit'
    BY DEF AllQuiet, Quietly, ApprovalInv, GatesFit, MonitorsFit, Txns
  <1>4. ApprovalsFit'
    BY DEF ApprovalInv, ApprovalsFit
  <1>5. Releasable'
    <2> SUFFICES ASSUME NEW a \in Agents, status[a] = "awaiting_user"
                 PROVE  \E x \in PendingOf(a) : ~LeavesParked(x)'
      BY DEF Releasable, AllQuiet, PendingOf
    <2>1. PICK x \in PendingOf(a) : ~LeavesParked(x)
      BY DEF ApprovalInv, Releasable
    <2>2. x \in Approvals /\ x # NoApproval
      BY ApprovalsAssumption DEF ApprovalsAssumption, PendingOf
    <2>3. ASSUME NEW t \in Slots, slot'[t].phase = "write", row[t].id = x,
                 slot'[t].w.status = Keep
          PROVE  FALSE
      <3>1. t \in Txns /\ (Creating(t) \/ Deciding(t))
        BY <2>2, <2>3 DEF Txns, ApprovalInv, RowsFit, Plain
      <3>2. slot'[t] = slot[t]
        BY <3>1, <2>3 DEF AllQuiet, Quietly, Creating, Deciding
      <3> QED BY <2>1, <2>3, <3>2 DEF LeavesParked
    <2> QED BY <2>1, <2>3 DEF LeavesParked
  <1> QED BY <1>1, <1>2, <1>3, <1>4, <1>5 DEF ApprovalInv

(* Beginning a transaction that does not park its agents is quiet.         *)
LEMMA BeginQuiet ==
    ASSUME TypeOK, NEW t \in Txns, NEW A, NEW w, w.status # "awaiting_user",
           Begin(t, A, w)
    PROVE  AllQuiet
  <1>1. /\ slot[t].phase = "idle" /\ slot'[t].phase = "write" /\ slot'[t].w = w
        /\ \A u \in Txns \ {t} : slot'[u] = slot[u]
        /\ status' = status
    BY DEF Begin, Hold, Free, rows, TypeOK
  <1> QED BY <1>1 DEF AllQuiet, Quietly

(* Every tool call of the lifecycle is quiet.                              *)
LEMMA HandlerQuiet ==
    ASSUME TypeOK, NEW t \in Slots, NEW a \in Agents,
           AgentHandler(t, a) \/ CompleteJob(t, a)
    PROVE  AllQuiet
  <1>0. t \in Txns
    BY DEF Txns
  <1>1. CASE SpawnJob(t, a)
    <2>0. PICK first \in {"staged", "waiting"} :
            Begin(t, {a}, [NoWrite EXCEPT !.status = first, !.job = "active"])
      BY <1>1 DEF SpawnJob
    <2>1. [NoWrite EXCEPT !.status = first, !.job = "active"].status # "awaiting_user"
      BY DEF NoWrite
    <2> QED BY <1>0, <2>0, <2>1, BeginQuiet
  <1>2. CASE UpdateAgentMission(t, a)
    <2>1. /\ [NoWrite EXCEPT !.status = "waiting"].status # "awaiting_user"
          /\ [NoWrite EXCEPT !.staging = "complete"].status # "awaiting_user"
      BY DEF NoWrite, Keep
    <2> QED BY <1>0, <1>2, <2>1, BeginQuiet DEF UpdateAgentMission
  <1>3. CASE GetJobMission(t, a) \/ AutoClearSilent(t, a)
    <2>1. [NoWrite EXCEPT !.status = "working", !.age = "fresh"].status # "awaiting_user"
      BY DEF NoWrite
    <2> QED BY <1>0, <1>3, <2>1, BeginQuiet DEF GetJobMission, AutoClearSilent
  <1>4. CASE ReportProgress(t, a)
    <2> DEFINE W(todos) == [NoWrite EXCEPT
                    !.status = IF status[a] \in Resting THEN "working" ELSE Keep,
                    !.age = "fresh", !.todo = Net(todo[a], todos)]
    <2>1. PICK todos \in Todos : Begin(t, {a}, W(todos))
      BY <1>4 DEF ReportProgress
    <2>2. W(todos).status # "awaiting_user"
      BY DEF NoWrite, Keep
    <2> HIDE DEF W
    <2> QED BY <1>0, <2>1, <2>2, BeginQuiet
  <1>5. CASE SetAgentStatus(t, a)
    <2> DEFINE W(rest) == [NoWrite EXCEPT !.status = Net(status[a], rest)]
    <2>1. PICK rest \in Rests : Begin(t, {a}, W(rest))
      BY <1>5 DEF SetAgentStatus
    <2>2. W(rest).status # "awaiting_user"
      BY ConstantsAssumption DEF ConstantsAssumption, Resting, NoWrite, Net, Keep
    <2> HIDE DEF W
    <2> QED BY <1>0, <2>1, <2>2, BeginQuiet
  <1>6. CASE EndStaging(t, a)
    <2> DEFINE W == [NoWrite EXCEPT !.status = Net(status[a], "waiting"),
                                    !.done = Net(done[a], "unset"),
                                    !.staging = Net(staging, "complete")]
    <2>1. W.status # "awaiting_user"
      BY DEF NoWrite, Net, Keep
    <2>2. Begin(t, {a}, W)
      BY <1>6 DEF EndStaging
    <2> HIDE DEF W
    <2> QED BY <1>0, <2>1, <2>2, BeginQuiet
  <1>7. CASE CompleteJob(t, a)
    <2> DEFINE W == [NoWrite EXCEPT !.status = "complete", !.done = "set",
                                    !.job = Net(job[a], "completed")]
    <2>1. W.status # "awaiting_user"
      BY DEF NoWrite
    <2>2. Begin(t, {a}, W)
      BY <1>7 DEF CompleteJob
    <2> HIDE DEF W
    <2> QED BY <1>0, <2>1, <2>2, BeginQuiet
  <1>8. CASE ReactivateJob(t, a)
    <2> DEFINE W == [NoWrite EXCEPT !.status = "working",
                                    !.done = Net(done[a], "unset"),
                                    !.job = Net(job[a], "active")]
    <2>1. W.status # "awaiting_user"
      BY DEF NoWrite
    <2>2. Begin(t, {a}, W)
      BY <1>8 DEF ReactivateJob
    <2> HIDE DEF W
    <2> QED BY <1>0, <2>1, <2>2, BeginQuiet
  <1>9. CASE DismissReactivation(t, a)
    <2> DEFINE W == [NoWrite EXCEPT !.status = "complete",
                                    !.job = Net(job[a], "completed")]
    <2>1. W.status # "awaiting_user"
      BY DEF NoWrite
    <2>2. Free(t) /\ Hold(t, {a}, W) /\ status' = status
      BY <1>9 DEF DismissReactivation, rows
    <2> HIDE DEF W
    <2> QED BY <1>0, <2>1, <2>2 DEF Hold, Free, AllQuiet, Quietly, TypeOK
  <1>10. CASE CloseJob(t, a)
    <2>1. [NoWrite EXCEPT !.status = "closed"].status # "awaiting_user"
      BY DEF NoWrite
    <2> QED BY <1>0, <1>10, <2>1, BeginQuiet DEF CloseJob
  <1>11. CASE \E p \in Posts : PostToThread(t, p, a)
    <2>1. /\ slot[t].phase = "idle" /\ slot'[t].phase = "route"
          /\ slot'[t].w.status = Keep /\ status' = status
          /\ \A u \in Txns \ {t} : slot'[u] = slot[u]
      BY <1>0, <1>11 DEF PostToThread, Free, IdleSlot, NoWrite, rows, TypeOK
    <2> QED BY <2>1 DEF AllQuiet, Quietly, Keep
  <1> QED BY <1>1, <1>2, <1>3, <1>4, <1>5, <1>6, <1>7, <1>8, <1>9, <1>10,
             <1>11 DEF AgentHandler

(* So are all other steps of the lifecycle but a commit.                   *)
LEMMA CoreQuiet ==
    ASSUME TypeOK, CoreStep
    PROVE  AllQuiet
  <1>1. ASSUME NEW t \in Slots, RequestStep(t)
        PROVE  AllQuiet
    <2>0. t \in Txns
      BY DEF Txns
    <2>1. CASE \E a \in Agents : AgentHandler(t, a)
      BY <2>1, HandlerQuiet
    <2>2. CASE AutoBlock(t)
      <3>1. /\ slot[t].phase = "route" /\ slot'[t].phase = "write"
            /\ slot'[t].w.status = "blocked" /\ status' = status
            /\ \A u \in Txns \ {t} : slot'[u] = slot[u]
        BY <2>0, <2>2 DEF AutoBlock, NoWrite, rows, TypeOK, Transactions
      <3> QED BY <3>1 DEF AllQuiet, Quietly
    <2>3. CASE SkipAutoBlock(t) \/ LoseAutoBlock(t)
      <3>1. /\ slot[t].phase = "route" /\ slot'[t].phase = "idle"
            /\ slot'[t].w.status = Keep /\ status' = status
            /\ \A u \in Txns \ {t} : slot'[u] = slot[u]
        BY <2>0, <2>3 DEF SkipAutoBlock, LoseAutoBlock, IdleSlot, NoWrite, rows, TypeOK
      <3> QED BY <3>1 DEF AllQuiet, Quietly, Keep
    <2>4. CASE ArchiveProject(t)
      <3>1. /\ slot[t].phase = "idle" /\ slot'[t].phase = "archived"
            /\ slot'[t].w.status = Keep /\ status' = status
            /\ \A u \in Txns \ {t} : slot'[u] = slot[u]
        BY <2>0, <2>4 DEF ArchiveProject, Free, IdleSlot, NoWrite, rows, TypeOK
      <3> QED BY <3>1 DEF AllQuiet, Quietly, Keep
    <2>5. CASE CloseCompletedAgents(t)
      <3>1. /\ slot[t].phase = "archived" /\ slot'[t].phase = "write"
            /\ slot'[t].w.status = "closed" /\ status' = status
            /\ \A u \in Txns \ {t} : slot'[u] = slot[u]
        BY <2>0, <2>5 DEF CloseCompletedAgents, Hold, NoWrite, rows, TypeOK
      <3> QED BY <3>1 DEF AllQuiet, Quietly
    <2>6. CASE ContinueWorking(t)
      <3>1. [NoWrite EXCEPT !.status = "waiting", !.project = "inactive"].status
              # "awaiting_user"
        BY DEF NoWrite
      <3> QED BY <2>0, <2>6, <3>1, BeginQuiet DEF ContinueWorking
    <2> QED BY <1>1, <2>1, <2>2, <2>3, <2>4, <2>5, <2>6 DEF RequestStep
  <1>2. ASSUME NEW m \in Monitors, MonitorStep(m)
        PROVE  AllQuiet
    <2>1. /\ [NoWrite EXCEPT !.status = "silent"].status # "awaiting_user"
          /\ [NoWrite EXCEPT !.status = "decommissioned"].status # "awaiting_user"
          /\ m \in Txns
      BY DEF NoWrite, Txns
    <2> QED BY <1>2, <2>1, BeginQuiet
            DEF MonitorStep, DetectSilentAgents, HandleUnhealthyJob
  <1>3. ASSUME Environment
        PROVE  AllQuiet
    BY <1>3 DEF Environment, LaunchImplementation, ActivateProject,
                DeactivateProject, ReadThread, Tick, rows, AllQuiet, Quietly
  <1>4. ASSUME NEW t \in Slots, NEW a \in Specialists, CompleteJob(t, a)
        PROVE  AllQuiet
    BY <1>4, HandlerQuiet DEF Specialists
  <1> QED BY <1>1, <1>2, <1>3, <1>4 DEF CoreStep
(* The lifecycle's own steps preserve the invariant.                       *)
LEMMA CorePreserves ==
    ASSUME ApprovalInv, CoreStep
    PROVE  ApprovalInv'
  <1>1. TypeOK /\ Next
    BY DEF ApprovalInv, TypeOKA, CoreStep, Next, Specialists
  <1>2. TypeOK' /\ AllQuiet
    BY <1>1, StepType, CoreQuiet
  <1>3. UNCHANGED <<approval, row, flagged>>
    BY DEF CoreStep, approvalVars
  <1>4. flagged' \subseteq Agents
    BY <1>3 DEF ApprovalInv, TypeOKA
  <1> QED BY <1>2, <1>3, <1>4, QuietStep

(* complete_job past the gate.                                             *)
LEMMA CompletePreserves ==
    ASSUME ApprovalInv, NEW t \in Slots, NEW a \in Orchestrators,
           CompleteOrchestrator(t, a)
    PROVE  ApprovalInv'
  <1>1. a \in Agents /\ CompleteJob(t, a) /\ TypeOK
    BY ConstantsAssumption
    DEF ConstantsAssumption, CompleteOrchestrator, ApprovalInv, TypeOKA
  <1>2. TypeOK' /\ AllQuiet
    BY <1>1, HandlerType, HandlerQuiet
  <1>3. UNCHANGED <<approval, row>> /\ flagged' \subseteq Agents
    BY <1>1 DEF CompleteOrchestrator, ApprovalInv, TypeOKA
  <1> QED BY <1>2, <1>3, QuietStep

(* The closeout gate opens, or gives up.                                   *)
LEMMA GatePreserves ==
    ASSUME ApprovalInv, NEW t \in Slots, NEW a \in Orchestrators,
           GateCloseout(t, a) \/ RefuseGateApproval(t, a)
    PROVE  ApprovalInv'
  <1> DEFINE T == [IdleSlot EXCEPT !.phase = "gate", !.targets = {a}]
  <1>1. /\ t \in Txns /\ a \in Agents /\ TypeOK
        /\ UNCHANGED <<rows, old, inbox, launched, sent, waived>>
        /\ UNCHANGED <<approval, row, flagged>>
    BY ConstantsAssumption
    DEF ConstantsAssumption, GateCloseout, RefuseGateApproval, approvalVars, Txns,
        ApprovalInv, TypeOKA
  <1>2. /\ IdleSlot \in Transactions /\ IdleSlot.phase = "idle"
        /\ IdleSlot.w.status = Keep
    BY IdleSlotType DEF IdleSlot, NoWrite
  <1>3. /\ T \in Transactions /\ T.phase = "gate" /\ T.targets = {a}
        /\ T.w.status = Keep
    BY <1>1, <1>2 DEF Transactions, Phases, IdleSlot, NoWrite
  <1>4. \/ /\ slot' = [slot EXCEPT ![t] = T]
           /\ slot[t].phase = "idle" /\ status[a] # "none"
        \/ slot' = [slot EXCEPT ![t] = IdleSlot] /\ slot[t].phase = "gate"
    BY DEF GateCloseout, RefuseGateApproval, Free, CompletionAllowed, Active, Exists
  <1> HIDE DEF T
  <1>5. AllQuiet
    <2>1. slot'[t] \in {T, IdleSlot} /\ \A u \in Txns \ {t} : slot'[u] = slot[u]
      BY <1>1, <1>4 DEF TypeOK
    <2>2. slot'[t] = T => status[a] # "none"
      BY <1>1, <1>2, <1>3, <1>4 DEF TypeOK
    <2> QED BY <1>1, <1>2, <1>3, <1>4, <2>1, <2>2 DEF AllQuiet, Quietly, rows, Keep
  <1>6. SlotsTyped'
    BY <1>1, <1>2, <1>3, <1>4, SlotType
  <1>7. TypeOK'
    BY <1>1, <1>6 DEF TypeOK, SlotsTyped, rows
  <1>8. flagged' \subseteq Agents
    BY <1>1 DEF ApprovalInv, TypeOKA
  <1> QED BY <1>1, <1>5, <1>7, <1>8, QuietStep

(* Holding a well-typed write preserves the lifecycle's types.             *)
LEMMA HoldPreserves ==
    ASSUME TypeOK, NEW t \in Txns, NEW A \in SUBSET Agents, NEW w \in Writes,
           Hold(t, A, w), UNCHANGED <<rows, old, inbox, launched, sent, waived>>
    PROVE  /\ TypeOK' /\ status' = status
           /\ slot'[t].phase = "write" /\ slot'[t].targets = A /\ slot'[t].w = w
           /\ \A u \in Txns \ {t} : slot'[u] = slot[u]
  <1>1. SlotsTyped'
    BY HoldType
  <1> QED BY <1>1 DEF TypeOK, SlotsTyped, rows, Hold

(* create_pending: the row it inserts is its own, and its agent parks when *)
(* the row appears.                                                        *)
LEMMA CreatePreserves ==
    ASSUME ApprovalInv, NEW t \in Slots, NEW a \in Agents, NEW x \in Approvals,
           NEW gate \in BOOLEAN, status[a] # "none",
           slot[t].phase \in {"idle", "gate"}, CreatePending(t, a, x, gate)
    PROVE  ApprovalInv'
  <1> DEFINE W == [NoWrite EXCEPT !.status = Net(status[a], "awaiting_user")]
             R == [state |-> "pending", agent |-> a, gate |-> gate, pre |-> status[a],
                   choice |-> "none"]
             Z == [id |-> x, to |-> R]
  <1>1. t \in Txns /\ TypeOK /\ {a} \in SUBSET Agents
    BY DEF Txns, ApprovalInv, TypeOKA
  <1>2. W \in Writes
    BY DEF Writes, NoWrite, Net, Keep, Statuses
  <1>3. R \in Approval /\ status[a] \in Statuses
    BY <1>1 DEF Approval, TypeOK
  <1>4. /\ Z.id = x /\ Z.to.state = "pending" /\ Z.to.agent = a
        /\ Z.to.pre = status[a]
        /\ Z \in [id : Approvals \cup {NoApproval}, to : Approval]
    BY <1>3
  <1>5. /\ Fresh(x) /\ Hold(t, {a}, W) /\ row' = [row EXCEPT ![t] = Z]
        /\ UNCHANGED <<rows, old, inbox, launched, sent, waived, approval, flagged>>
    BY DEF CreatePending
  <1> HIDE DEF W, Z
  <1>6. /\ TypeOK' /\ status' = status
        /\ slot'[t].phase = "write" /\ slot'[t].targets = {a}
        /\ \A u \in Txns \ {t} : slot'[u] = slot[u]
    BY <1>1, <1>2, <1>5, HoldPreserves
  <1>7. /\ row'[t] = Z /\ \A u \in Slots \ {t} : row'[u] = row[u]
    BY <1>5 DEF ApprovalInv, TypeOKA
  <1>8. approval[x].state = "none" /\ \A u \in Slots : row[u].id # x
    BY <1>5 DEF Fresh
  <1>9. TypeOKA'
    BY <1>4, <1>5, <1>6 DEF ApprovalInv, TypeOKA
  <1>10. RowsFit'
    <2>1. Creating(t)'
      BY <1>4, <1>5, <1>6, <1>7, <1>8 DEF Creating
    <2>2. ASSUME NEW u \in Slots, u # t
          PROVE  (Plain(u) \/ Creating(u) \/ Deciding(u))'
      <3>1. slot'[u] = slot[u] /\ row'[u] = row[u] /\ approval' = approval
        BY <1>5, <1>6, <1>7, <2>2 DEF Txns
      <3>2. CASE Plain(u) \/ Deciding(u)
        BY <3>1, <3>2 DEF Plain, Deciding
      <3>3. CASE Creating(u)
        BY <1>4, <1>7, <1>8, <3>1, <3>3 DEF Creating
      <3> QED BY <3>2, <3>3 DEF ApprovalInv, RowsFit
    <2> QED BY <2>1, <2>2 DEF RowsFit
  <1>11. GatesFit' /\ ApprovalsFit'
    BY <1>5, <1>6
    DEF ApprovalInv, GatesFit, ApprovalsFit
  <1>12. MonitorsFit'
    BY <1>6, ConstantsAssumption
    DEF ApprovalInv, MonitorsFit, Txns, ConstantsAssumption
  <1>13. Releasable'
    <2> SUFFICES ASSUME NEW b \in Agents, status[b] = "awaiting_user"
                 PROVE  \E y \in PendingOf(b) : ~LeavesParked(y)'
      BY <1>5, <1>6 DEF Releasable, PendingOf
    <2>1. PICK y \in PendingOf(b) : ~LeavesParked(y)
      BY DEF ApprovalInv, Releasable
    <2>2. y # x
      BY <1>8 DEF PendingOf
    <2> QED BY <1>4, <1>6, <1>7, <2>1, <2>2 DEF LeavesParked, Txns
  <1> QED BY <1>9, <1>10, <1>11, <1>12, <1>13 DEF ApprovalInv

(* mark_decided reads a pending row.                                       *)
LEMMA ReadPreserves ==
    ASSUME ApprovalInv, NEW t \in Slots, NEW x \in Approvals, DecideRead(t, x)
    PROVE  ApprovalInv'
  <1>0. PICK choice \in Choices :
          row' = [row EXCEPT ![t] = [id |-> x, to |->
                    [approval[x] EXCEPT !.state = "decided", !.choice = choice]]]
    BY DEF DecideRead
  <1> DEFINE R == [approval[x] EXCEPT !.state = "decided", !.choice = choice]
             Z == [id |-> x, to |-> R]
             T == [IdleSlot EXCEPT !.phase = "decide", !.targets = {approval[x].agent}]
  <1>1. /\ t \in Txns /\ TypeOK /\ approval[x] \in Approval
        /\ approval[x].state = "pending" /\ slot[t].phase = "idle"
        /\ approval[x].agent \in Agents /\ approval[x].pre # "none"
    BY DEF Txns, ApprovalInv, TypeOKA, ApprovalsFit, DecideRead, Free
  <1>2. /\ Z.id = x /\ Z.to.state = "decided" /\ Z.to.agent = approval[x].agent
        /\ Z.to.gate = approval[x].gate /\ Z.to.pre = approval[x].pre
        /\ Z \in [id : Approvals \cup {NoApproval}, to : Approval]
    BY <1>1 DEF Approval
  <1>3. /\ T \in Transactions /\ T.phase = "decide"
        /\ T.targets = {approval[x].agent}
    BY <1>1, IdleSlotType DEF IdleSlot, Transactions, Phases
  <1>4. /\ slot' = [slot EXCEPT ![t] = T] /\ row' = [row EXCEPT ![t] = Z]
        /\ UNCHANGED <<rows, old, inbox, launched, sent, waived, approval, flagged>>
    BY <1>0 DEF DecideRead
  <1> HIDE DEF Z, T
  <1>5. /\ slot'[t] = T /\ \A u \in Txns \ {t} : slot'[u] = slot[u]
        /\ row'[t] = Z /\ \A u \in Slots \ {t} : row'[u] = row[u]
        /\ status' = status
    BY <1>1, <1>4 DEF TypeOK, ApprovalInv, TypeOKA, rows
  <1>6. TypeOKA'
    <2>1. SlotsTyped'
      BY <1>1, <1>3, <1>4, SlotType
    <2>2. TypeOK'
      BY <1>1, <1>4, <2>1 DEF TypeOK, SlotsTyped, rows
    <2> QED BY <1>2, <1>4, <2>2 DEF ApprovalInv, TypeOKA
  <1>7. RowsFit'
    <2>1. Deciding(t)'
      BY <1>1, <1>2, <1>3, <1>4, <1>5 DEF Deciding
    <2>2. ASSUME NEW u \in Slots, u # t
          PROVE  (Plain(u) \/ Creating(u) \/ Deciding(u))'
      <3>1. slot'[u] = slot[u] /\ row'[u] = row[u] /\ approval' = approval
        BY <1>4, <1>5, <2>2 DEF Txns
      <3>2. CASE Plain(u) \/ Deciding(u)
        BY <3>1, <3>2 DEF Plain, Deciding
      <3>3. CASE Creating(u)
        BY <1>1, <1>2, <1>5, <3>1, <3>3 DEF Creating
      <3> QED BY <3>2, <3>3 DEF ApprovalInv, RowsFit
    <2> QED BY <2>1, <2>2 DEF RowsFit
  <1>8. GatesFit' /\ ApprovalsFit'
    BY <1>3, <1>4, <1>5
    DEF ApprovalInv, GatesFit, ApprovalsFit
  <1>9. MonitorsFit'
    BY <1>3, <1>5 DEF ApprovalInv, MonitorsFit, Txns
  <1>10. Releasable'
    <2> SUFFICES ASSUME NEW b \in Agents, status[b] = "awaiting_user"
                 PROVE  \E y \in PendingOf(b) : ~LeavesParked(y)'
      BY <1>4, <1>5 DEF Releasable, PendingOf
    <2>1. PICK y \in PendingOf(b) : ~LeavesParked(y)
      BY DEF ApprovalInv, Releasable
    <2> QED BY <1>3, <1>5, <2>1 DEF LeavesParked, Txns
  <1> QED BY <1>6, <1>7, <1>8, <1>9, <1>10 DEF ApprovalInv

(* mark_decided flushes: it restores its agent when it is parked.          *)
LEMMA FlushPreserves ==
    ASSUME ApprovalInv, NEW t \in Slots, NEW a \in Agents, DecideFlush(t, a)
    PROVE  ApprovalInv'
  <1> DEFINE W == Restored(t, a)
  <1>1. /\ t \in Txns /\ TypeOK /\ {a} \in SUBSET Agents
        /\ slot[t].phase = "decide" /\ Hold(t, {a}, W)
        /\ UNCHANGED <<rows, old, inbox, launched, sent, waived>>
        /\ UNCHANGED <<approval, row, flagged>>
    BY DEF Txns, ApprovalInv, TypeOKA, DecideFlush, approvalVars
  <1>2. Deciding(t) /\ row[t].to.agent = a
    <2>1. Deciding(t)
      BY <1>1 DEF ApprovalInv, RowsFit, Plain, Creating
    <2> QED BY <2>1 DEF Deciding, DecideFlush
  <1>3. /\ W \in Writes /\ W.status # "awaiting_user"
        /\ status[a] = "awaiting_user" => W.status # Keep
    <2>1. row[t].to.pre \in Statuses \ {"none"}
      BY <1>2 DEF Deciding, ApprovalInv, TypeOKA, Approval
    <2>2. NoWrite \in Writes /\ NoWrite.status = Keep
      BY DEF NoWrite, Writes, Keep
    <2> DEFINE s == IF row[t].to.pre = "awaiting_user" THEN "working"
                    ELSE row[t].to.pre
    <2>3. s \in Statuses \ {"none"} /\ s # "awaiting_user" /\ s # Keep
      BY <2>1 DEF Statuses, Keep
    <2>4. W = IF status[a] = "awaiting_user" THEN [NoWrite EXCEPT !.status = s]
              ELSE NoWrite
      BY DEF Restored
    <2> HIDE DEF s, W
    <2>5. /\ [NoWrite EXCEPT !.status = s] \in Writes
          /\ [NoWrite EXCEPT !.status = s].status = s
      BY <2>3 DEF NoWrite, Writes, Keep
    <2> QED BY <2>2, <2>3, <2>4, <2>5 DEF Keep
  <1> HIDE DEF W
  <1>4. /\ TypeOK' /\ status' = status
        /\ slot'[t].phase = "write" /\ slot'[t].targets = {a} /\ slot'[t].w = W
        /\ \A u \in Txns \ {t} : slot'[u] = slot[u]
    BY <1>1, <1>3, HoldPreserves
  <1>5. TypeOKA'
    BY <1>1, <1>4 DEF ApprovalInv, TypeOKA
  <1>6. RowsFit'
    <2>1. Deciding(t)'
      BY <1>1, <1>2, <1>3, <1>4 DEF Deciding
    <2>2. ASSUME NEW u \in Slots, u # t
          PROVE  (Plain(u) \/ Creating(u) \/ Deciding(u))'
      <3>1. slot'[u] = slot[u] /\ row' = row /\ approval' = approval
        BY <1>1, <1>4, <2>2 DEF Txns
      <3> QED BY <3>1 DEF ApprovalInv, RowsFit, Plain, Creating, Deciding
    <2> QED BY <2>1, <2>2 DEF RowsFit
  <1>7. GatesFit' /\ ApprovalsFit'
    BY <1>1, <1>4 DEF ApprovalInv, GatesFit, ApprovalsFit
  <1>8. MonitorsFit'
    BY <1>3, <1>4 DEF ApprovalInv, MonitorsFit, Txns
  <1>9. Releasable'
    <2> SUFFICES ASSUME NEW b \in Agents, status[b] = "awaiting_user"
                 PROVE  \E y \in PendingOf(b) : ~LeavesParked(y)'
      BY <1>1, <1>4 DEF Releasable, PendingOf
    <2>1. PICK y \in PendingOf(b) : ~LeavesParked(y)
      BY DEF ApprovalInv, Releasable
    <2>2. row[t].id = y => a = b
      BY <1>2, <2>1 DEF Deciding, PendingOf
    <2> QED BY <1>1, <1>3, <1>4, <2>1, <2>2 DEF LeavesParked, Txns
  <1> QED BY <1>5, <1>6, <1>7, <1>8, <1>9 DEF ApprovalInv
(* What a commit does to the slots, the statuses and the approval rows.    *)
LEMMA CommitAEffect ==
    ASSUME ApprovalInv, NEW t \in Txns, CommitA(t)
    PROVE  /\ TypeOK' /\ slot[t].phase = "write" /\ slot[t].w \in Writes
           /\ slot'[t].phase = "idle"
           /\ \A u \in Txns \ {t} : slot'[u] = slot[u]
           /\ \A a \in Agents :
                status'[a] = IF a \in slot[t].targets
                             THEN Patch(slot[t].w.status, status[a]) ELSE status[a]
           /\ flagged' = flagged
           /\ t \in Slots =>
                /\ row'[t] = NoRow
                /\ \A u \in Slots \ {t} : row'[u] = row[u]
                /\ \A x \in Approvals : approval'[x] = IF x = row[t].id THEN row[t].to
                                                       ELSE approval[x]
           /\ t \notin Slots => UNCHANGED <<approval, row>>
  <1>1. TypeOK /\ Commit(t)
    BY DEF ApprovalInv, TypeOKA, CommitA
  <1>2. TypeOK'
    BY <1>1, CommitType
  <1>3. /\ slot[t].phase = "write" /\ slot[t].w \in Writes
        /\ slot'[t].phase = "idle"
        /\ \A u \in Txns \ {t} : slot'[u] = slot[u]
        /\ \A a \in Agents :
             status'[a] = IF a \in slot[t].targets
                          THEN Patch(slot[t].w.status, status[a]) ELSE status[a]
    BY <1>1 DEF Commit, TypeOK, Transactions, IdleSlot
  <1> QED BY <1>2, <1>3 DEF CommitA, ApprovalInv, TypeOKA

(* A row that is written goes from absent to pending, or it is decided and *)
(* keeps its agent and its origin.                                         *)
LEMMA CommitRow ==
    ASSUME ApprovalInv, NEW t \in Slots, CommitA(t), NEW x \in Approvals
    PROVE  \/ approval'[x] = approval[x]
           \/ /\ x = row[t].id /\ Creating(t) /\ approval'[x] = row[t].to
           \/ /\ x = row[t].id /\ Deciding(t) /\ approval'[x] = row[t].to
  <1>1. t \in Txns
    BY DEF Txns
  <1>2. approval'[x] = IF x = row[t].id THEN row[t].to ELSE approval[x]
    BY <1>1, CommitAEffect
  <1>3. Plain(t) \/ Creating(t) \/ Deciding(t)
    BY DEF ApprovalInv, RowsFit
  <1> QED BY <1>2, <1>3, ApprovalsAssumption DEF Plain, ApprovalsAssumption

(* A commit of a request preserves the invariant.                          *)
LEMMA CommitSlotPreserves ==
    ASSUME ApprovalInv, NEW t \in Slots, CommitA(t)
    PROVE  ApprovalInv'
  <1>0. t \in Txns /\ t \notin Monitors
    BY ConstantsAssumption DEF Txns, ConstantsAssumption
  <1>1. /\ TypeOK' /\ slot[t].phase = "write" /\ slot[t].w \in Writes
        /\ slot'[t].phase = "idle"
        /\ \A u \in Txns \ {t} : slot'[u] = slot[u]
        /\ \A a \in Agents :
             status'[a] = IF a \in slot[t].targets
                          THEN Patch(slot[t].w.status, status[a]) ELSE status[a]
        /\ flagged' = flagged
        /\ row'[t] = NoRow
        /\ \A u \in Slots \ {t} : row'[u] = row[u]
    BY <1>0, CommitAEffect
  <1>2. \A x \in Approvals :
           \/ approval'[x] = approval[x]
           \/ /\ x = row[t].id /\ Creating(t) /\ approval'[x] = row[t].to
           \/ /\ x = row[t].id /\ Deciding(t) /\ approval'[x] = row[t].to
    BY CommitRow
  <1>3. Plain(t) \/ Creating(t) \/ Deciding(t)
    BY DEF ApprovalInv, RowsFit
  <1>4. TypeOKA'
    <2>1. NoRow \in [id : Approvals \cup {NoApproval}, to : Approval]
      BY DEF NoRow, Absent, Approval, Statuses
    <2>2. row' = [row EXCEPT ![t] = NoRow] /\ row[t].to \in Approval
      BY DEF CommitA, ApprovalInv, TypeOKA
    <2>3. approval' \in [Approvals -> Approval]
      BY <2>2 DEF CommitA, ApprovalInv, TypeOKA
    <2> QED BY <1>1, <2>1, <2>2, <2>3 DEF ApprovalInv, TypeOKA
  <1>5. ApprovalsFit'
    BY <1>2 DEF ApprovalInv, ApprovalsFit, Creating, Deciding
  <1>6. RowsFit'
    <2>1. Plain(t)'
      BY <1>1 DEF Plain, NoRow
    <2>2. ASSUME NEW u \in Slots, u # t
          PROVE  (Plain(u) \/ Creating(u) \/ Deciding(u))'
      <3>1. slot'[u] = slot[u] /\ row'[u] = row[u]
        BY <1>1, <2>2 DEF Txns
      <3>2. CASE Plain(u)
        BY <3>1, <3>2 DEF Plain
      <3>3. CASE Creating(u)
        <4>1. row[u].id # row[t].id
          BY <2>2, <3>3 DEF Creating
        <4>2. approval'[row[u].id] = approval[row[u].id]
          BY <1>2, <3>3, <4>1 DEF Creating
        <4>3. \A v \in Slots : row'[v].id = row[u].id => v = u
          BY <1>1, <3>3, ApprovalsAssumption DEF Creating, NoRow, ApprovalsAssumption
        <4> QED BY <3>1, <3>3, <4>2, <4>3 DEF Creating
      <3>4. CASE Deciding(u)
        <4>1. /\ approval'[row[u].id].state # "none"
              /\ approval'[row[u].id].agent = approval[row[u].id].agent
              /\ approval'[row[u].id].gate = approval[row[u].id].gate
          BY <1>2, <3>4 DEF Creating, Deciding
        <4> QED BY <3>1, <3>4, <4>1 DEF Deciding
      <3> QED BY <3>2, <3>3, <3>4 DEF ApprovalInv, RowsFit
    <2> QED BY <2>1, <2>2 DEF RowsFit
  <1>7. GatesFit'
    <2>1. \A a \in Agents : status[a] # "none" => status'[a] # "none"
      BY <1>1 DEF Patch, Writes, Keep
    <2>2. \A u \in Txns : slot[u].targets \subseteq Agents
      BY DEF ApprovalInv, TypeOKA, TypeOK, Transactions
    <2> QED BY <1>1, <2>1, <2>2 DEF ApprovalInv, GatesFit
  <1>8. MonitorsFit'
    BY <1>0, <1>1 DEF ApprovalInv, MonitorsFit, Txns
  <1>9. Releasable'
    <2> SUFFICES ASSUME NEW a \in Agents, status'[a] = "awaiting_user"
                 PROVE  \E x \in Approvals : /\ approval'[x].state = "pending"
                                             /\ approval'[x].agent = a
                                             /\ ~LeavesParked(x)'
      BY DEF Releasable, PendingOf
    <2>1. ASSUME NEW x \in Approvals, ~LeavesParked(x)
          PROVE  ~LeavesParked(x)'
      BY <1>1, <2>1, ApprovalsAssumption
      DEF LeavesParked, NoRow, Txns, ApprovalsAssumption
    <2>2. CASE Creating(t) /\ row[t].to.agent = a
      <3>1. PICK x \in Approvals : x = row[t].id /\ approval[x].state = "none"
        BY <2>2 DEF Creating
      <3>2. ~LeavesParked(x)'
        BY <1>1, <2>2, <3>1 DEF LeavesParked, Creating, NoRow
      <3>3. approval'[x] = row[t].to
        BY <1>0, <3>1, CommitAEffect
      <3> QED BY <2>2, <3>2, <3>3 DEF Creating
    <2>3. CASE ~(Creating(t) /\ row[t].to.agent = a)
      <3>1. status[a] = "awaiting_user"
        BY <1>1, <1>3, <2>3 DEF Patch, Plain, Creating, Deciding
      <3>2. PICK x \in PendingOf(a) : ~LeavesParked(x)
        BY <3>1 DEF ApprovalInv, Releasable
      <3>3. ~(x = row[t].id /\ Deciding(t))
        <4> SUFFICES ASSUME x = row[t].id, Deciding(t) PROVE FALSE
          OBVIOUS
        <4>1. a \in slot[t].targets /\ slot[t].w.status # Keep
          BY <1>1, <3>2 DEF Deciding, PendingOf, LeavesParked
        <4> QED BY <1>1, <4>1 DEF Deciding, Patch
      <3>4. approval'[x] = approval[x]
        BY <1>2, <3>2, <3>3 DEF PendingOf, Creating
      <3> QED BY <2>1, <3>2, <3>4 DEF PendingOf
    <2> QED BY <2>2, <2>3
  <1> QED BY <1>4, <1>5, <1>6, <1>7, <1>8, <1>9 DEF ApprovalInv

(* So does a commit of a monitor, which parks nobody.                      *)
LEMMA CommitMonitorPreserves ==
    ASSUME ApprovalInv, NEW t \in Monitors, CommitA(t)
    PROVE  ApprovalInv'
  <1>0. t \in Txns /\ t \notin Slots
    BY ConstantsAssumption DEF Txns, ConstantsAssumption
  <1>1. /\ TypeOK' /\ slot[t].phase = "write" /\ slot[t].w \in Writes
        /\ slot'[t].phase = "idle"
        /\ \A u \in Txns \ {t} : slot'[u] = slot[u]
        /\ \A a \in Agents :
             status'[a] = IF a \in slot[t].targets
                          THEN Patch(slot[t].w.status, status[a]) ELSE status[a]
        /\ UNCHANGED <<approval, row, flagged>>
    BY <1>0, CommitAEffect
  <1>2. \A u \in Slots : slot'[u] = slot[u]
    BY <1>0, <1>1 DEF Txns
  <1>3. TypeOKA' /\ ApprovalsFit'
    BY <1>1 DEF ApprovalInv, TypeOKA, ApprovalsFit
  <1>4. RowsFit'
    BY <1>1, <1>2 DEF ApprovalInv, RowsFit, Plain, Creating, Deciding
  <1>5. GatesFit'
    <2>1. \A a \in Agents : status[a] # "none" => status'[a] # "none"
      BY <1>1 DEF Patch, Writes, Keep
    <2>2. \A u \in Txns : slot[u].targets \subseteq Agents
      BY DEF ApprovalInv, TypeOKA, TypeOK, Transactions
    <2> QED BY <1>1, <2>1, <2>2 DEF ApprovalInv, GatesFit
  <1>6. MonitorsFit'
    BY <1>1 DEF ApprovalInv, MonitorsFit, Txns
  <1>7. Releasable'
    <2>1. \A a \in Agents : status'[a] = "awaiting_user" => status[a] = "awaiting_user"
      BY <1>1 DEF ApprovalInv, MonitorsFit, Patch
    <2> QED BY <1>1, <1>2, <2>1 DEF ApprovalInv, Releasable, PendingOf, LeavesParked
  <1> QED BY <1>3, <1>4, <1>5, <1>6, <1>7 DEF ApprovalInv

(* Every step preserves ApprovalInv.                                       *)
LEMMA StepApproval ==
    ASSUME ApprovalInv, [NextA]_varsA
    PROVE  ApprovalInv'
  <1>1. CASE CoreStep
    BY <1>1, CorePreserves
  <1>2. CASE \E t \in Txns : CommitA(t)
    BY <1>2, CommitSlotPreserves, CommitMonitorPreserves DEF Txns
  <1>3. ASSUME NEW t \in Slots, NEW a \in Orchestrators, ApprovalStep(t, a)
        PROVE  ApprovalInv'
    <2>0. a \in Agents /\ t \in Txns
      BY ConstantsAssumption DEF ConstantsAssumption, Txns
    <2>1. CASE GateCloseout(t, a) \/ RefuseGateApproval(t, a)
      BY <2>1, GatePreserves
    <2>2. CASE CompleteOrchestrator(t, a)
      BY <2>2, CompletePreserves
    <2>3. CASE DecideFlush(t, a)
      BY <2>0, <2>3, FlushPreserves
    <2>4. CASE \E x \in Approvals : RequestApproval(t, a, x)
      BY <2>0, <2>4, CreatePreserves DEF RequestApproval, Free, Exists
    <2>5. CASE \E x \in Approvals : CreateGateApproval(t, a, x)
      <3>1. status[a] # "none"
        BY <2>0, <2>5 DEF CreateGateApproval, ApprovalInv, GatesFit
      <3> QED BY <2>0, <2>5, <3>1, CreatePreserves DEF CreateGateApproval
    <2> QED BY <1>3, <2>1, <2>2, <2>3, <2>4, <2>5 DEF ApprovalStep
  <1>4. CASE \E t \in Slots, x \in Approvals : DecideRead(t, x)
    BY <1>4, ReadPreserves
  <1>5. CASE UNCHANGED varsA
    <2>1. UNCHANGED vars /\ UNCHANGED <<approval, row, flagged>>
      BY <1>5 DEF varsA, approvalVars
    <2>2. AllQuiet
      BY <2>1 DEF vars, AllQuiet, Quietly
    <2>3. TypeOK'
      BY <2>1, StepType DEF ApprovalInv, TypeOKA
    <2>4. flagged' \subseteq Agents
      BY <2>1 DEF ApprovalInv, TypeOKA
    <2> QED BY <2>1, <2>2, <2>3, <2>4, QuietStep
  <1> QED BY <1>1, <1>2, <1>3, <1>4, <1>5 DEF NextA

(* ApprovalInv is an invariant of the specification.                       *)
LEMMA ApprovalInvariant == SpecA => []ApprovalInv
  <1>1. InitA => ApprovalInv
    <2> SUFFICES ASSUME InitA PROVE ApprovalInv
      OBVIOUS
    <2>1. TypeOK
      BY InitType DEF InitA
    <2>2. /\ \A t \in Txns : slot[t].phase = "idle"
          /\ \A a \in Agents : status[a] # "awaiting_user"
      BY DEF InitA, Init, IdleSlot
    <2>3. /\ \A x \in Approvals : approval[x].state = "none"
          /\ \A t \in Slots : row[t].id = NoApproval
          /\ flagged = {}
      BY DEF InitA, Absent, NoRow
    <2>4. TypeOKA
      <3>1. Absent \in Approval
        BY DEF Absent, Approval, Statuses
      <3> QED BY <2>1, <3>1 DEF InitA, TypeOKA, NoRow
    <2> QED BY <2>2, <2>3, <2>4 DEF ApprovalInv, RowsFit, Plain, GatesFit, ApprovalsFit,
               MonitorsFit, Releasable, Txns
  <1>2. ApprovalInv /\ [NextA]_varsA => ApprovalInv'
    BY StepApproval
  <1> QED BY <1>1, <1>2, PTL DEF SpecA

(* The approval rows, the rows in flight and the lifecycle's state are     *)
(* well typed in every interleaving.                                       *)
THEOREM ApprovalTypes == SpecA => []TypeOKA
  <1>1. ApprovalInv => TypeOKA
    BY DEF ApprovalInv
  <1> QED BY <1>1, ApprovalInvariant, PTL

(* Whatever requests, decisions, tools and monitors interleave, an         *)
(* orchestrator in awaiting_user has a pending approval for the user to    *)
(* decide: mark_decided never leaves it parked behind a decided row.       *)
THEOREM ParkedCanBeReleased == SpecA => []AwaitingHasPendingApproval
  <1>1. ApprovalInv => AwaitingHasPendingApproval
    BY DEF ApprovalInv, Releasable, AwaitingHasPendingApproval
  <1> QED BY <1>1, ApprovalInvariant, PTL

-----------------------------------------------------------------------------
(* One request in flight: what it read of the approvals still holds.       *)
StillTrue(t) == row[t].id \in Approvals =>
    /\ row[t].to.state = "pending" => PendingOf(row[t].to.agent) = {}
    /\ row[t].to.state = "decided" => approval[row[t].id].state = "pending"
OneRequestInv ==
    /\ ApprovalInv
    /\ SinglePending
    /\ \A t \in Slots : StillTrue(t)

(* Approval rows, and the rows in flight, are touched by three things only.*)
LEMMA ApprovalSteps ==
    ASSUME [NextA]_varsA
    PROVE  \/ UNCHANGED <<approval, row>>
           \/ \E t \in Slots : CommitA(t)
           \/ \E t \in Slots, a \in Agents, x \in Approvals, gate \in BOOLEAN :
                CreatePending(t, a, x, gate)
           \/ \E t \in Slots, x \in Approvals : DecideRead(t, x)
  <1>1. CASE CoreStep \/ UNCHANGED varsA
    BY <1>1 DEF CoreStep, varsA, approvalVars
  <1>2. ASSUME NEW t \in Txns, CommitA(t), t \notin Slots
        PROVE  UNCHANGED <<approval, row>>
    BY <1>2 DEF CommitA
  <1>3. ASSUME NEW t \in Slots, NEW a \in Orchestrators, ApprovalStep(t, a)
        PROVE  \/ UNCHANGED <<approval, row>>
               \/ \E x \in Approvals, gate \in BOOLEAN : CreatePending(t, a, x, gate)
    BY <1>3 DEF ApprovalStep, GateCloseout, RefuseGateApproval, CompleteOrchestrator,
                DecideFlush, RequestApproval, CreateGateApproval, approvalVars
  <1> QED BY <1>1, <1>2, <1>3, ConstantsAssumption DEF NextA, ConstantsAssumption

(* OneRequestInv is an invariant of the specification.                     *)
LEMMA StepOneRequest ==
    ASSUME OneAtATime, OneRequestInv, [NextA]_varsA
    PROVE  OneRequestInv'
  <1>0. ApprovalInv /\ ApprovalInv'
    BY StepApproval DEF OneRequestInv
  <1>1. CASE UNCHANGED <<approval, row>>
    BY <1>0, <1>1 DEF OneRequestInv, SinglePending, StillTrue, PendingOf
  <1>2. ASSUME NEW t \in Slots, CommitA(t)
        PROVE  OneRequestInv'
    <2>1. t \in Txns /\ row'[t] = NoRow /\ \A u \in Slots : u = t
      BY <1>0, <1>2, CommitAEffect DEF Txns, OneAtATime
    <2>2. \A u \in Slots : StillTrue(u)'
      BY <2>1, ApprovalsAssumption DEF StillTrue, NoRow, ApprovalsAssumption
    <2>3. \A x \in Approvals :
            \/ approval'[x] = approval[x]
            \/ /\ x = row[t].id /\ Creating(t) /\ approval'[x] = row[t].to
            \/ /\ x = row[t].id /\ Deciding(t) /\ approval'[x] = row[t].to
      BY <1>0, <1>2, CommitRow
    <2>4. Creating(t) => PendingOf(row[t].to.agent) = {}
      BY DEF Creating, OneRequestInv, StillTrue
    <2>5. SinglePending'
      <3> SUFFICES ASSUME NEW x \in Approvals, NEW y \in Approvals,
                          approval'[x].state = "pending", approval'[y].state = "pending",
                          approval'[x].agent = approval'[y].agent
                   PROVE  x = y
        BY DEF SinglePending
      <3>1. CASE approval'[x] = approval[x] /\ approval'[y] = approval[y]
        BY <3>1 DEF OneRequestInv, SinglePending
      <3>2. CASE ~(approval'[x] = approval[x] /\ approval'[y] = approval[y])
        BY <2>3, <2>4, <3>2 DEF Creating, Deciding, PendingOf
      <3> QED BY <3>1, <3>2
    <2> QED BY <1>0, <2>2, <2>5 DEF OneRequestInv
  <1>3. ASSUME NEW t \in Slots, NEW a \in Agents, NEW x \in Approvals,
               NEW gate \in BOOLEAN, CreatePending(t, a, x, gate)
        PROVE  OneRequestInv'
    <2>1. /\ row'[t].to.state = "pending" /\ row'[t].to.agent = a
          /\ PendingOf(a) = {} /\ approval' = approval
      BY <1>0, <1>3 DEF CreatePending, ApprovalInv, TypeOKA
    <2>2. \A u \in Slots : u = t
      BY DEF OneAtATime
    <2> QED BY <1>0, <2>1, <2>2 DEF OneRequestInv, SinglePending, StillTrue, PendingOf
  <1>4. ASSUME NEW t \in Slots, NEW x \in Approvals, DecideRead(t, x)
        PROVE  OneRequestInv'
    <2>1. /\ row'[t].to.state = "decided" /\ row'[t].id = x
          /\ approval[x].state = "pending" /\ approval' = approval
      BY <1>0, <1>4 DEF DecideRead, ApprovalInv, TypeOKA, Approval
    <2>2. \A u \in Slots : u = t
      BY DEF OneAtATime
    <2> QED BY <1>0, <2>1, <2>2 DEF OneRequestInv, SinglePending, StillTrue
  <1> QED BY <1>1, <1>2, <1>3, <1>4, ApprovalSteps

LEMMA OneRequestInvariant ==
    ASSUME OneAtATime
    PROVE  SpecA => []OneRequestInv
  <1>1. InitA /\ ApprovalInv => OneRequestInv
    <2>1. InitA => /\ \A x \in Approvals : approval[x].state = "none"
                   /\ \A t \in Slots : row[t].id = NoApproval
      BY DEF InitA, Absent, NoRow
    <2> QED BY <2>1, ApprovalsAssumption
            DEF OneRequestInv, SinglePending, StillTrue, ApprovalsAssumption
  <1>2. OneRequestInv /\ [NextA]_varsA => OneRequestInv'
    BY StepOneRequest
  <1> QED BY <1>1, <1>2, ApprovalInvariant, PTL DEF SpecA

(* Requests one at a time, an agent has one pending approval at most: what *)
(* create_pending checks by hand, for want of a unique index.              *)
THEOREM OnePending ==
    ASSUME OneAtATime
    PROVE  SpecA => []SinglePending
  <1>1. OneRequestInv => SinglePending
    BY DEF OneRequestInv
  <1> QED BY <1>1, OneRequestInvariant, PTL

(* Requests one at a time, what the user has decided is never rewritten:   *)
(* mark_decided refuses a row that is not pending.                         *)
THEOREM DecisionsStand ==
    ASSUME OneAtATime
    PROVE  SpecA => DecisionsAreFinal
  <1>1. OneRequestInv /\ [NextA]_varsA => [DecisionStep]_varsA
    <2> SUFFICES ASSUME OneRequestInv, [NextA]_varsA
                 PROVE  DecisionStep
      OBVIOUS
    <2>1. ASSUME NEW t \in Slots, CommitA(t), NEW x \in Approvals,
                 approval[x].state = "decided"
          PROVE  approval'[x] = approval[x]
      BY <2>1, CommitRow DEF OneRequestInv, StillTrue, Creating, Deciding
    <2>2. CASE approval' = approval
      BY <2>2 DEF DecisionStep
    <2> QED BY <2>1, <2>2, ApprovalSteps DEF DecisionStep, CreatePending, DecideRead
  <1> QED BY <1>1, OneRequestInvariant, PTL DEF SpecA, DecisionsAreFinal
=============================================================================
