---------------------- MODULE ProjectActivationProofs ----------------------
(***************************************************************************)
(* Theorems about ProjectActivation, for any number of projects,           *)
(* executions and requests: the state keeps its shape, and an active       *)
(* project keeps an orchestrator however activations, deactivations,       *)
(* stagings and restages overlap; and, for requests served one at a time,  *)
(* it has exactly one, no specialist works in a project that is not        *)
(* launched, and no row of an orchestrator that ran is deleted but by a    *)
(* reset.                                                                  *)
(*                                                                         *)
(* The overlapping argument (CrewInv): who retires an orchestrator either  *)
(* takes the project out of the active state, whatever was committed since *)
(* it read the row, or looks for an orchestrator after its commit.         *)
(*                                                                         *)
(* The serial argument is about the request in flight (Fits): what it read *)
(* is still so when it commits, and what it will write is harmless for     *)
(* that.  A launched project is one whose staging is complete              *)
(* (LaunchOrder), so nothing that restages a project finds it launched.    *)
(*                                                                         *)
(* And about ProductSwitch: however switches and starts interleave, two    *)
(* products, or two projects of one product, are never active at once.     *)
(***************************************************************************)
EXTENDS MCProjects, FiniteSetTheorems, TLAPS

(* A request is about a project. *)
SlotShape == \A t \in Slots : slot[t].phase # "idle" => slot[t].p \in Projects
Shape == TypeOK /\ SlotShape

OneAtATime == ~Interleaved /\ \A t, u \in Slots : t = u

(* Nothing that makes a project active or keeps it active takes its        *)
(* orchestrator, unless it looks for one afterwards.                       *)
KeepsCrew(s) ==
    s.new.status = "active" =>
        \/ s.op = "activate"
        \/ s.read.status = "active" /\ (s.op = "restage" \/ s.execs = {})

(* The launch is taken back only with all the work.                        *)
KeepsWork(s) ==
    /\ s.new.launched => s.new.staging = "complete"
    /\ s.read.launched /\ ~s.new.launched =>
         \A w \in Workers : owner[w] = s.p /\ st[w] = "working" => w \in s.execs

Fits(s) ==
    /\ s.phase = "begun" =>
         /\ s.read = project[s.p]
         /\ s.execs \subseteq Of(s.p)
         /\ KeepsCrew(s) /\ KeepsWork(s)
         /\ s.op = "deactivate" => \A e \in s.execs : ~ran[e]
    /\ s.phase \in {"generate", "mark"} => ~project[s.p].launched
    /\ s.phase \in {"create", "generate"} => Live(s.p) = {}

LaunchOrder == \A p \in Projects : project[p].launched => project[p].staging = "complete"
RanKnown == \A e \in Execs : ran[e] => st[e] # "none"

(* One orchestrator at most, and an active project has one or a request is *)
(* about to look for it.                                                   *)
Sought(p) == \E t \in Slots : slot[t].p = p /\ slot[t].phase \in {"ensure", "create"}
Crewed ==
    \A p \in Projects :
        /\ \A o, u \in Live(p) : o = u
        /\ project[p].status = "active" => Live(p) # {} \/ Sought(p)

SerialInv ==
    /\ \A t \in Slots : Fits(slot[t])
    /\ LaunchOrder
    /\ RanKnown
    /\ WorkersLaunched
    /\ "continue" \notin Ops => Crewed

-----------------------------------------------------------------------------
(* Shape.                                                                  *)

LEMMA RowShape ==
    /\ NewRow \in Rows
    /\ \A r \in Rows : /\ \A x \in Statuses : [r EXCEPT !.status = x] \in Rows
                       /\ \A x \in BOOLEAN : /\ [r EXCEPT !.deleted = x] \in Rows
                                             /\ [r EXCEPT !.launched = x] \in Rows
                                             /\ [r EXCEPT !.ever = x] \in Rows
                       /\ \A x \in {"none", "staging", "staged", "complete"} :
                             [r EXCEPT !.staging = x] \in Rows
    /\ DOMAIN NewRow = {"status", "deleted", "launched", "ever", "staging"}
  BY DEF NewRow, Rows, Statuses

(* A session that changed some columns leaves a well-formed row.           *)
LEMMA MergeShape ==
    ASSUME NEW now \in Rows, NEW read \in Rows, NEW new \in Rows
    PROVE  Merge(now, read, new) \in Rows
  BY DEF Merge, Rows

LEMMA IdleShape ==
    /\ Idle \in [phase : Phases, op : Ops \cup {"none"}, p : Projects \cup {NoProject},
                 read : Rows, new : Rows, rivals : SUBSET Projects, execs : SUBSET Execs]
    /\ Idle.phase = "idle"
  BY RowShape DEF Idle, Phases

(* A request that begins keeps the shape.                                  *)
LEMMA BeginShape ==
    ASSUME Shape, NEW t \in Slots, NEW p \in Projects, NEW op, NEW new \in Rows,
           NEW execs \in SUBSET Execs, Begin(t, op, p, new, execs)
    PROVE  Shape'
  <1> DEFINE s == [phase |-> "begun", op |-> op, p |-> p, read |-> project[p], new |-> new,
                   rivals |-> IF op = "activate" THEN Rivals(p) ELSE {}, execs |-> execs]
  <1>1. Rivals(p) \in SUBSET Projects
    BY DEF Rivals
  <1>2. project[p] \in Rows
    BY DEF Shape, TypeOK
  <1>3. s \in [phase : Phases, op : Ops \cup {"none"}, p : Projects \cup {NoProject},
               read : Rows, new : Rows, rivals : SUBSET Projects, execs : SUBSET Execs]
    BY <1>1, <1>2 DEF Begin, Phases
  <1>4. slot' = [slot EXCEPT ![t] = s] /\ UNCHANGED <<project, owner, st, ran>> /\ s.p \in Projects
    BY DEF Begin
  <1> HIDE DEF s
  <1> QED
    BY <1>3, <1>4 DEF Shape, TypeOK, SlotShape

(* Every request keeps the shape as it begins.                             *)
LEMMA RequestShape ==
    ASSUME Shape, NEW t \in Slots, NEW p \in Projects, Request(t, p)
    PROVE  Shape'
  <1>1. project[p] \in Rows /\ {} \in SUBSET Execs
    BY DEF Shape, TypeOK
  <1>2. /\ Of(p) \in SUBSET Execs
        /\ Live(p) \in SUBSET Execs
        /\ ActiveExecs(p) \in SUBSET Execs
        /\ {e \in Of(p) : st[e] = "decommissioned"} \in SUBSET Execs
    BY DEF Of, Live, ActiveExecs, Execs
  <1>3. CASE Activate(t, p)
    BY <1>1, <1>3, RowShape, BeginShape, Zenon DEF Activate, Statuses
  <1>4. CASE Deactivate(t, p)
    <2> DEFINE reset == [project[p] EXCEPT !.status = "inactive", !.staging = "none",
                                           !.launched = FALSE]
               plain == [project[p] EXCEPT !.status = "inactive"]
    <2>1. reset \in Rows /\ plain \in Rows
      BY <1>1 DEF Rows, Statuses
    <2>2. Begin(t, "deactivate", p, reset, Live(p)) \/ Begin(t, "deactivate", p, plain, {})
      BY <1>4 DEF Deactivate
    <2> HIDE DEF reset, plain
    <2> QED BY <1>1, <1>2, <2>1, <2>2, BeginShape
  <1>5. CASE Complete(t, p)
    <2> DEFINE new == [project[p] EXCEPT !.status = "completed"]
    <2>1. new \in Rows
      BY <1>1 DEF Rows, Statuses
    <2>2. PICK execs \in {ActiveExecs(p), {}} : Begin(t, "complete", p, new, execs)
      BY <1>5 DEF Complete
    <2> HIDE DEF new
    <2> QED BY <1>1, <1>2, <2>1, <2>2, BeginShape
  <1>6. CASE ContinueWorking(t, p)
    BY <1>1, <1>2, <1>6, RowShape, BeginShape, Zenon DEF ContinueWorking, Statuses
  <1>7. CASE Delete(t, p)
    <2> DEFINE new == [project[p] EXCEPT !.status = "deleted", !.deleted = TRUE]
    <2>1. new \in Rows
      BY <1>1 DEF Rows, Statuses
    <2>2. Begin(t, "delete", p, new, ActiveExecs(p))
      BY <1>7 DEF Delete
    <2> HIDE DEF new
    <2> QED BY <1>2, <2>1, <2>2, BeginShape
  <1>8. CASE Restore(t, p)
    <2> DEFINE new == [project[p] EXCEPT !.status = "inactive", !.deleted = FALSE]
    <2>1. new \in Rows
      BY <1>1 DEF Rows, Statuses
    <2>2. Begin(t, "restore", p, new, {})
      BY <1>8 DEF Restore
    <2> HIDE DEF new
    <2> QED BY <1>1, <2>1, <2>2, BeginShape
  <1>9. CASE ResetToPrestage(t, p)
    <2> DEFINE new == [NewRow EXCEPT !.deleted = project[p].deleted]
    <2>1. new \in Rows
      BY <1>1 DEF Rows, Statuses, NewRow
    <2>2. Begin(t, "reset", p, new, Of(p))
      BY <1>9 DEF ResetToPrestage
    <2> HIDE DEF new
    <2> QED BY <1>2, <2>1, <2>2, BeginShape
  <1>10. CASE UpdateMission(t, p)
    <2> DEFINE new == [project[p] EXCEPT !.staging = IF @ = "complete" THEN @ ELSE "staging"]
    <2>1. new \in Rows
      BY <1>1 DEF Rows, Statuses
    <2>2. Begin(t, "mission", p, new, {})
      BY <1>10 DEF UpdateMission
    <2> HIDE DEF new
    <2> QED BY <1>1, <2>1, <2>2, BeginShape
  <1>11. CASE Unstage(t, p)
    <2> DEFINE new == [project[p] EXCEPT !.staging = "none"]
    <2>1. new \in Rows
      BY <1>1 DEF Rows
    <2>2. Begin(t, "unstage", p, new, {})
      BY <1>11 DEF Unstage
    <2> HIDE DEF new
    <2> QED BY <1>1, <2>1, <2>2, BeginShape
  <1>12. CASE Restage(t, p)
    <2> DEFINE new == [project[p] EXCEPT !.staging = "none", !.launched = FALSE]
    <2>1. new \in Rows
      BY <1>1 DEF Rows
    <2>2. Begin(t, "restage", p, new, Live(p))
      BY <1>12 DEF Restage
    <2> HIDE DEF new
    <2> QED BY <1>2, <2>1, <2>2, BeginShape
  <1>13. CASE CancelStaging(t, p)
    BY <1>1, <1>13, RowShape, BeginShape, Zenon DEF CancelStaging, Statuses
  <1>14. CASE LaunchImplementation(t, p)
    <2> DEFINE new == [project[p] EXCEPT !.launched = TRUE, !.ever = TRUE]
    <2>1. new \in Rows
      BY <1>1 DEF Rows
    <2>2. Begin(t, "launch", p, new, {})
      BY <1>14 DEF LaunchImplementation
    <2> HIDE DEF new
    <2> QED BY <1>1, <2>1, <2>2, BeginShape
  <1>15. CASE StagePrompt(t, p)
    <2> DEFINE n == [Idle EXCEPT !.phase = IF Live(p) = {} THEN "generate" ELSE "mark",
                                 !.op = "stage", !.p = p, !.read = project[p]]
    <2>1. slot' = [slot EXCEPT ![t] = n] /\ UNCHANGED <<project, owner, st, ran>>
      BY <1>15 DEF StagePrompt
    <2>2. n.p \in Projects /\ n \in [phase : Phases, op : Ops \cup {"none"},
              p : Projects \cup {NoProject}, read : Rows, new : Rows,
              rivals : SUBSET Projects, execs : SUBSET Execs]
      BY <1>1, <1>15, RowShape DEF StagePrompt, Idle, Phases
    <2> HIDE DEF n
    <2> QED BY <2>1, <2>2 DEF Shape, TypeOK, SlotShape
  <1> QED BY <1>3, <1>4, <1>5, <1>6, <1>7, <1>8, <1>9, <1>10, <1>11, <1>12, <1>13, <1>14,
             <1>15 DEF Request

(* A slot that becomes idle keeps the shape of the slots.                  *)
LEMMA FreeShape ==
    ASSUME Shape, NEW t \in Slots, slot' = [slot EXCEPT ![t] = Idle]
    PROVE  /\ slot' \in [Slots -> [phase : Phases, op : Ops \cup {"none"},
                                   p : Projects \cup {NoProject}, read : Rows, new : Rows,
                                   rivals : SUBSET Projects, execs : SUBSET Execs]]
           /\ SlotShape'
  <1> DEFINE s == Idle
  <1>1. s.phase = "idle" /\ s \in [phase : Phases, op : Ops \cup {"none"},
              p : Projects \cup {NoProject}, read : Rows, new : Rows,
              rivals : SUBSET Projects, execs : SUBSET Execs]
    BY IdleShape
  <1>2. slot' = [slot EXCEPT ![t] = s]
    OBVIOUS
  <1> HIDE DEF s
  <1> QED BY <1>1, <1>2 DEF Shape, TypeOK, SlotShape

(* A commit keeps the shape.                                               *)
LEMMA CommitShape ==
    ASSUME Shape, NEW t \in Slots, Commit(t)
    PROVE  Shape'
  <1> DEFINE s == slot[t]
  <1>1. /\ s.read \in Rows /\ s.new \in Rows /\ s.p \in Projects
        /\ s.rivals \in SUBSET Projects /\ s.execs \in SUBSET Execs
        /\ s.op \in Ops \cup {"none"}
    BY DEF Shape, TypeOK, SlotShape, Commit
  <1>2. \A q \in Projects : Written(s)[q] \in Rows
    <2> TAKE q \in Projects
    <2>1. project[q] \in Rows
      BY DEF Shape, TypeOK
    <2>2. Merge(project[q], s.read, s.new) \in Rows
      BY <1>1, <2>1, MergeShape
    <2>3. [project[q] EXCEPT !.status = "inactive"] \in Rows
      BY <2>1, RowShape DEF Statuses
    <2> HIDE DEF s
    <2> QED BY <2>1, <2>2, <2>3 DEF Written
  <1>3. project' \in [Projects -> Rows]
    BY <1>2 DEF Commit, Written
  <1>4. /\ Fate(s.op) \in {"none", "waiting", "decommissioned"}
        /\ st' = [e \in Execs |-> IF e \in s.execs THEN Fate(s.op) ELSE st[e]]
        /\ owner' = [e \in Execs |-> IF st'[e] = "none" THEN NoProject ELSE owner[e]]
        /\ ran' = [e \in Execs |-> ran[e] /\ st'[e] # "none"]
        /\ Fate(s.op) = "none" \/ \A e \in s.execs : st[e] # "none"
    BY DEF Fate, Commit, Writable
  <1>5. CASE AfterCommit(s.op) = "idle"
    <2>1. slot' = [slot EXCEPT ![t] = Idle]
      BY <1>5 DEF Commit
    <2> HIDE DEF s
    <2> QED BY <1>3, <1>4, <2>1, FreeShape, ProjectsAssumption
            DEF Shape, TypeOK, ProjectsAssumption
  <1>6. CASE AfterCommit(s.op) # "idle"
    <2> DEFINE n == [Idle EXCEPT !.phase = "ensure", !.op = s.op, !.p = s.p]
    <2>1. slot' = [slot EXCEPT ![t] = n]
      BY <1>6 DEF Commit
    <2>2. n \in [phase : Phases, op : Ops \cup {"none"}, p : Projects \cup {NoProject},
                 read : Rows, new : Rows, rivals : SUBSET Projects, execs : SUBSET Execs]
      BY <1>1, IdleShape DEF Phases
    <2>3. n.p \in Projects
      BY <1>1 DEF Idle
    <2> HIDE DEF s, n
    <2> QED BY <1>3, <1>4, <2>1, <2>2, <2>3, ProjectsAssumption
            DEF Shape, TypeOK, SlotShape, ProjectsAssumption
  <1> QED BY <1>5, <1>6

(* So does a step of a request that looks for an orchestrator, creates one *)
(* or marks the project staged.                                            *)
LEMMA AddOrchestratorShape ==
    ASSUME Shape, NEW p \in Projects, AddOrchestrator(p)
    PROVE  /\ owner' \in [Execs -> Projects \cup {NoProject}]
           /\ st' \in [Execs -> {"none", "waiting", "working", "complete", "decommissioned"}]
           /\ (\A e \in Execs : st[e] = "none" <=> owner[e] = NoProject)'
  BY ProjectsAssumption
  DEF AddOrchestrator, Unused, Shape, TypeOK, ProjectsAssumption, Execs

(* The staging prompt writes the staging column of one project.            *)
LEMMA StagingWritten ==
    ASSUME Shape, NEW p \in Projects, NEW x \in {"none", "staging", "staged", "complete"},
           project' = [project EXCEPT ![p].staging = x]
    PROVE  /\ project' \in [Projects -> Rows]
           /\ \A q \in Projects : /\ project'[q].status = project[q].status
                                  /\ project'[q].launched = project[q].launched
           /\ \A q \in Projects \ {p} : project'[q] = project[q]
  <1> DEFINE r == [project[p] EXCEPT !.staging = x]
  <1>1. project[p] \in Rows
    BY DEF Shape, TypeOK
  <1>2. r \in Rows /\ r.status = project[p].status /\ r.launched = project[p].launched
    BY <1>1 DEF Rows
  <1>3. project' = [project EXCEPT ![p] = r]
    OBVIOUS
  <1> HIDE DEF r
  <1> QED BY <1>2, <1>3 DEF Shape, TypeOK

LEMMA ServeShape ==
    ASSUME Shape, NEW t \in Slots, Serve(t)
    PROVE  Shape'
  <1>1. CASE Commit(t)
    BY <1>1, CommitShape
  <1>2. CASE Rollback(t)
    BY <1>2, FreeShape DEF Rollback, Shape, TypeOK
  <1>3. CASE EnsureFixture(t)
    BY <1>3, FreeShape, SMTT(60) DEF EnsureFixture, Shape, TypeOK, SlotShape, Phases
  <1>4. CASE CreateFixture(t)
    <2>1. slot[t].p \in Projects
      BY <1>4 DEF CreateFixture, Shape, SlotShape
    <2> QED BY <1>4, <2>1, AddOrchestratorShape, FreeShape DEF CreateFixture, Shape, TypeOK
  <1>5. CASE GenerateNew(t)
    <2>1. slot[t].p \in Projects
      BY <1>5 DEF GenerateNew, Shape, SlotShape
    <2>2. /\ owner' \in [Execs -> Projects \cup {NoProject}]
          /\ st' \in [Execs -> {"none", "waiting", "working", "complete", "decommissioned"}]
          /\ (\A e \in Execs : st[e] = "none" <=> owner[e] = NoProject)'
      BY <1>5, <2>1, AddOrchestratorShape, Zenon DEF GenerateNew
    <2>3. project' \in [Projects -> Rows]
      BY <1>5, <2>1, StagingWritten DEF GenerateNew
    <2>4. slot' = [slot EXCEPT ![t].phase = "mark"] /\ ran' = ran
      BY <1>5 DEF GenerateNew
    <2> QED BY <2>1, <2>2, <2>3, <2>4, SMTT(90) DEF Shape, TypeOK, SlotShape, Phases
  <1>6. CASE MarkStaged(t)
    <2>1. slot[t].p \in Projects
      BY <1>6 DEF MarkStaged, Shape, SlotShape
    <2>2. project' \in [Projects -> Rows]
      BY <1>6, <2>1, StagingWritten DEF MarkStaged
    <2> QED BY <1>6, <2>2, FreeShape DEF MarkStaged, Shape, TypeOK
  <1> QED BY <1>1, <1>2, <1>3, <1>4, <1>5, <1>6 DEF Serve

(* An execution that exists belongs to a project.                          *)
LEMMA Owned ==
    ASSUME Shape, NEW e \in Execs, st[e] # "none"
    PROVE  owner[e] \in Projects /\ owner[e] # NoProject
  BY DEF Shape, TypeOK

(* The staging end writes the columns of one project.                      *)
LEMMA StagingEnd ==
    ASSUME Shape, NEW o \in Orchs, EndStaging(o)
    PROVE  /\ owner[o] \in Projects
           /\ project' \in [Projects -> Rows]
           /\ project'[owner[o]].staging = "complete"
           /\ \A q \in Projects : project'[q].status = project[q].status
           /\ \A q \in Projects \ {owner[o]} : project'[q] = project[q]
           /\ ~project[owner[o]].launched
  <1> DEFINE new(b) == [project[owner[o]] EXCEPT !.staging = "complete", !.launched = b]
             r == new(owner[o] \in ChainProjects)
  <1>1. owner[o] \in Projects /\ project[owner[o]] \in Rows
    BY Owned DEF EndStaging, Execs, Shape, TypeOK
  <1>2. (owner[o] \in ChainProjects) \in BOOLEAN
    OBVIOUS
  <1>3. \A b \in BOOLEAN : /\ new(b) \in Rows
                           /\ new(b).staging = "complete"
                           /\ new(b).status = project[owner[o]].status
    BY <1>1 DEF Rows
  <1>4. project' = [project EXCEPT ![owner[o]] = r]
    BY DEF EndStaging, Shape, TypeOK
  <1> HIDE DEF new
  <1>5. r \in Rows /\ r.staging = "complete" /\ r.status = project[owner[o]].status
    BY <1>2, <1>3, Zenon
  <1> HIDE DEF r
  <1> QED BY <1>1, <1>4, <1>5 DEF EndStaging, Shape, TypeOK

LEMMA OtherShape ==
    ASSUME Shape,
           \/ \E p \in Projects : Cancel(p)
           \/ DeactivateProduct
           \/ \E e \in Execs : Agent(e)
           \/ \E o \in Orchs, w \in Workers : SpawnJob(o, w)
           \/ \E o \in Orchs : EndStaging(o)
    PROVE  Shape'
  <1>1. ASSUME NEW p \in Projects, Cancel(p) PROVE Shape'
    <2>1. project' \in [Projects -> Rows]
      BY <1>1, RowShape DEF Cancel, Shape, TypeOK, Statuses
    <2> QED BY <1>1, <2>1 DEF Cancel, Shape, TypeOK, SlotShape
  <1>2. ASSUME DeactivateProduct PROVE Shape'
    <2>1. project' \in [Projects -> Rows]
      BY <1>2, RowShape DEF DeactivateProduct, Shape, TypeOK, Statuses
    <2> QED BY <1>2, <2>1 DEF DeactivateProduct, Shape, TypeOK, SlotShape
  <1>3. ASSUME NEW e \in Execs, GetJobMission(e) PROVE Shape'
    BY <1>3 DEF GetJobMission, Shape, TypeOK, SlotShape
  <1>4. ASSUME NEW e \in Execs, CompleteJob(e) PROVE Shape'
    BY <1>4 DEF CompleteJob, Shape, TypeOK, SlotShape
  <1>5. ASSUME NEW o \in Orchs, NEW w \in Workers, SpawnJob(o, w) PROVE Shape'
    <2>1. owner[o] \in Projects /\ owner[o] # NoProject /\ w \in Execs
      BY <1>5, Owned DEF SpawnJob, Execs
    <2> QED BY <1>5, <2>1 DEF SpawnJob, Shape, TypeOK, SlotShape
  <1>6. ASSUME NEW o \in Orchs, EndStaging(o) PROVE Shape'
    <2>1. owner[o] \in Projects /\ o \in Execs
      BY <1>6, Owned DEF EndStaging, Execs
    <2> QED BY <1>6, <2>1, StagingEnd, ZenonT(120) DEF EndStaging, Shape, TypeOK, SlotShape
  <1> QED BY <1>1, <1>2, <1>3, <1>4, <1>5, <1>6 DEF Agent

(* However the requests interleave, project rows, executions and what a *)
(* request holds have their shapes: Shape is an invariant.              *)
THEOREM ShapeHolds == Spec => []Shape
  <1>1. Init => Shape
    BY RowShape, IdleShape DEF Init, Shape, TypeOK, SlotShape
  <1>2. Shape /\ [Next]_vars => Shape'
    <2> SUFFICES ASSUME Shape, [Next]_vars PROVE Shape'
      OBVIOUS
    <2>1. CASE UNCHANGED vars
      BY <2>1 DEF vars, Shape, TypeOK, SlotShape
    <2>2. CASE Next
      BY <2>2, RequestShape, ServeShape, OtherShape DEF Next
    <2> QED BY <2>1, <2>2
  <1> QED BY <1>1, <1>2, PTL DEF Spec

(* Rows, executions and requests keep their types, however the requests    *)
(* interleave, and an execution has a status as long as it has a row.      *)
THEOREM ActivationTypes == Spec => []TypeOK
  BY ShapeHolds, PTL DEF Shape

-----------------------------------------------------------------------------
(* Requests that overlap.                                                  *)

(* A request that retires orchestrators either takes an active project out *)
(* of the active state or looks for an orchestrator afterwards, and none   *)
(* but an activation makes a project active.  Its rows stay those of its   *)
(* project until they are gone.                                            *)
Careful(s) ==
    /\ \A e \in s.execs : owner[e] \in {s.p, NoProject}
    /\ s.new.status = "active" => s.op = "activate" \/ s.read.status = "active"
    /\ \/ s.execs = {}
       \/ s.op \in {"continue", "restage"}
       \/ s.op = "deactivate" /\ s.read.status = "active" /\ s.new.status = "inactive"

(* An active project has an orchestrator or a request is about to look for *)
(* one.                                                                    *)
Attended == \A p \in Projects : project[p].status = "active" => Live(p) # {} \/ Sought(p)

CrewInv ==
    /\ \A t \in Slots : slot[t].phase = "begun" => Careful(slot[t])
    /\ Attended

(* The operations that retire the orchestrator of a project whatever its   *)
(* status has become.                                                      *)
Blunt == {"complete", "delete", "reset"}

LEMMA BeginCareful ==
    ASSUME Shape, CrewInv, NEW t \in Slots, NEW p \in Projects, NEW op, NEW new \in Rows,
           NEW execs \in SUBSET Of(p), Begin(t, op, p, new, execs),
           new.status = "active" => op = "activate" \/ project[p].status = "active",
           \/ execs = {}
           \/ op \in {"continue", "restage"}
           \/ op = "deactivate" /\ project[p].status = "active" /\ new.status = "inactive"
    PROVE  CrewInv'
  <1> DEFINE s == [phase |-> "begun", op |-> op, p |-> p, read |-> project[p], new |-> new,
                   rivals |-> IF op = "activate" THEN Rivals(p) ELSE {}, execs |-> execs]
  <1>1. /\ slot' = [slot EXCEPT ![t] = s] /\ UNCHANGED <<project, owner, st, ran>>
        /\ slot[t].phase = "idle"
    BY DEF Begin
  <1>2. slot'[t] = s /\ \A u \in Slots \ {t} : slot'[u] = slot[u]
    BY <1>1 DEF Shape, TypeOK
  <1>3. Careful(s)
    BY DEF Careful, Of
  <1>4. \A u \in Slots : slot'[u].phase = "begun" => Careful(slot'[u])
    BY <1>2, <1>3 DEF CrewInv
  <1>5. \A q : Sought(q) => Sought(q)'
    BY <1>1, <1>2 DEF Sought
  <1>6. \A q : Live(q)' = Live(q)
    BY <1>1 DEF Live, Of
  <1> HIDE DEF s
  <1> QED BY <1>1, <1>4, <1>5, <1>6 DEF CrewInv, Attended, Careful

LEMMA RequestCareful ==
    ASSUME Shape, CrewInv, Ops \cap Blunt = {}, NEW t \in Slots, NEW p \in Projects, Request(t, p)
    PROVE  CrewInv'
  <1>1. project[p] \in Rows /\ {} \in SUBSET Of(p)
    BY DEF Shape, TypeOK
  <1>2. /\ Live(p) \in SUBSET Of(p)
        /\ {e \in Of(p) : st[e] = "decommissioned"} \in SUBSET Of(p)
    BY DEF Live
  <1>3. ~Complete(t, p) /\ ~Delete(t, p) /\ ~ResetToPrestage(t, p)
    BY Zenon DEF Blunt, Complete, Delete, ResetToPrestage, Begin
  <1>4. CASE Activate(t, p)
    <2> DEFINE new == [project[p] EXCEPT !.status = "active"]
    <2>1. new \in Rows
      BY <1>1 DEF Rows, Statuses
    <2>2. Begin(t, "activate", p, new, {})
      BY <1>4 DEF Activate
    <2> HIDE DEF new
    <2> QED BY <1>1, <2>1, <2>2, BeginCareful
  <1>5. CASE Deactivate(t, p)
    <2> DEFINE reset == [project[p] EXCEPT !.status = "inactive", !.staging = "none",
                                           !.launched = FALSE]
               plain == [project[p] EXCEPT !.status = "inactive"]
    <2>1. /\ reset \in Rows /\ reset.status = "inactive"
          /\ plain \in Rows /\ plain.status = "inactive"
      BY <1>1 DEF Rows, Statuses
    <2>2. /\ project[p].status = "active"
          /\ \/ Begin(t, "deactivate", p, reset, Live(p))
             \/ Begin(t, "deactivate", p, plain, {})
      BY <1>5 DEF Deactivate
    <2> HIDE DEF reset, plain
    <2> QED BY <1>1, <1>2, <2>1, <2>2, BeginCareful
  <1>6. CASE ContinueWorking(t, p)
    <2> DEFINE new == [project[p] EXCEPT !.status = "inactive"]
    <2>1. new \in Rows /\ new.status = "inactive"
      BY <1>1 DEF Rows, Statuses
    <2>2. Begin(t, "continue", p, new, {e \in Of(p) : st[e] = "decommissioned"})
      BY <1>6 DEF ContinueWorking
    <2> HIDE DEF new
    <2> QED BY <1>2, <2>1, <2>2, BeginCareful
  <1>7. CASE Restore(t, p)
    <2> DEFINE new == [project[p] EXCEPT !.status = "inactive", !.deleted = FALSE]
    <2>1. new \in Rows /\ new.status = "inactive"
      BY <1>1 DEF Rows, Statuses
    <2>2. Begin(t, "restore", p, new, {})
      BY <1>7 DEF Restore
    <2> HIDE DEF new
    <2> QED BY <1>1, <2>1, <2>2, BeginCareful
  <1>8. CASE UpdateMission(t, p)
    <2> DEFINE new == [project[p] EXCEPT !.staging = IF @ = "complete" THEN @ ELSE "staging"]
    <2>1. new \in Rows /\ new.status = project[p].status
      BY <1>1 DEF Rows, Statuses
    <2>2. Begin(t, "mission", p, new, {})
      BY <1>8 DEF UpdateMission
    <2> HIDE DEF new
    <2> QED BY <1>1, <2>1, <2>2, BeginCareful
  <1>9. CASE Unstage(t, p)
    <2> DEFINE new == [project[p] EXCEPT !.staging = "none"]
    <2>1. new \in Rows /\ new.status = project[p].status
      BY <1>1 DEF Rows
    <2>2. Begin(t, "unstage", p, new, {})
      BY <1>9 DEF Unstage
    <2> HIDE DEF new
    <2> QED BY <1>1, <2>1, <2>2, BeginCareful
  <1>10. CASE Restage(t, p)
    <2> DEFINE new == [project[p] EXCEPT !.staging = "none", !.launched = FALSE]
    <2>1. new \in Rows /\ new.status = project[p].status
      BY <1>1 DEF Rows
    <2>2. Begin(t, "restage", p, new, Live(p))
      BY <1>10 DEF Restage
    <2> HIDE DEF new
    <2> QED BY <1>2, <2>1, <2>2, BeginCareful
  <1>11. CASE CancelStaging(t, p)
    <2> DEFINE new == [project[p] EXCEPT !.status = "cancelled"]
    <2>1. new \in Rows /\ new.status = "cancelled"
      BY <1>1 DEF Rows, Statuses
    <2>2. Begin(t, "cancel_staging", p, new, {})
      BY <1>11 DEF CancelStaging
    <2> HIDE DEF new
    <2> QED BY <1>1, <2>1, <2>2, BeginCareful
  <1>12. CASE LaunchImplementation(t, p)
    <2> DEFINE new == [project[p] EXCEPT !.launched = TRUE, !.ever = TRUE]
    <2>1. new \in Rows /\ new.status = project[p].status
      BY <1>1 DEF Rows
    <2>2. Begin(t, "launch", p, new, {})
      BY <1>12 DEF LaunchImplementation
    <2> HIDE DEF new
    <2> QED BY <1>1, <2>1, <2>2, BeginCareful
  <1>13. CASE StagePrompt(t, p)
    <2> DEFINE n == [Idle EXCEPT !.phase = IF Live(p) = {} THEN "generate" ELSE "mark",
                                 !.op = "stage", !.p = p, !.read = project[p]]
    <2>1. /\ slot' = [slot EXCEPT ![t] = n] /\ UNCHANGED <<project, owner, st, ran>>
          /\ slot[t].phase = "idle"
      BY <1>13 DEF StagePrompt
    <2>2. n.phase # "begun"
      BY DEF Idle
    <2> HIDE DEF n
    <2>3. slot'[t].phase # "begun" /\ \A u \in Slots \ {t} : slot'[u] = slot[u]
      BY <2>1, <2>2 DEF Shape, TypeOK
    <2>4. \A q : (Sought(q) => Sought(q)') /\ Live(q)' = Live(q)
      BY <2>1, <2>3 DEF Sought, Live, Of
    <2> QED BY <2>1, <2>3, <2>4 DEF CrewInv, Attended, Careful
  <1> QED BY <1>3, <1>4, <1>5, <1>6, <1>7, <1>8, <1>9, <1>10, <1>11, <1>12, <1>13 DEF Request

(* What a commit leaves active has an orchestrator, or the request goes on *)
(* to look for one.                                                        *)
LEMMA CommitCareful ==
    ASSUME Shape, CrewInv, NEW t \in Slots, Commit(t)
    PROVE  CrewInv'
  <1> DEFINE s == slot[t]
             p == s.p
  <1>1. /\ s.phase = "begun" /\ p \in Projects /\ s.new \in Rows /\ s.read \in Rows
        /\ project[p] \in Rows /\ s.execs \in SUBSET Execs /\ Careful(s)
    BY DEF Commit, Shape, TypeOK, SlotShape, CrewInv
  <1>2. project'[p].status = IF s.new.status = s.read.status THEN project[p].status
                             ELSE s.new.status
    BY <1>1 DEF Commit, Written, Merge, Rows
  <1>3. \A q \in Projects \ {p} : project'[q].status = "active" => project[q].status = "active"
    BY <1>1 DEF Commit, Written, Shape, TypeOK, Rows
  <1>4. /\ \A e \in Execs : st'[e] = IF e \in s.execs THEN Fate(s.op) ELSE st[e]
        /\ \A e \in Execs : owner'[e] = IF st'[e] = "none" THEN NoProject ELSE owner[e]
        /\ Fate(s.op) = "none" \/ \A e \in s.execs : st[e] # "none"
        /\ s.op = "continue" => Fate(s.op) = "waiting"
    BY DEF Commit, Writable, Fate
  <1>5. /\ slot'[t].phase = IF s.op \in {"activate", "restage"} THEN "ensure" ELSE "idle"
        /\ s.op \in {"activate", "restage"} => slot'[t].p = p
        /\ \A u \in Slots \ {t} : slot'[u] = slot[u]
    BY DEF Commit, AfterCommit, Idle, Shape, TypeOK
  <1>6. \A e \in Execs : owner'[e] \in {owner[e], NoProject}
    BY <1>4
  <1>7. (\A u \in Slots : slot[u].phase = "begun" => Careful(slot[u]))'
    <2> SUFFICES ASSUME NEW u \in Slots, (slot[u].phase = "begun")' PROVE Careful(slot[u])'
      OBVIOUS
    <2>1. u # t /\ slot'[u] = slot[u] /\ Careful(slot[u]) /\ slot[u].execs \in SUBSET Execs
      BY <1>5 DEF CrewInv, Shape, TypeOK
    <2> QED BY <1>6, <2>1 DEF Careful
  <1>8. \A q : Sought(q) => Sought(q)'
    BY <1>1, <1>5 DEF Sought
  <1>9. ASSUME NEW q \in Projects, q # p \/ s.execs = {} \/ s.op = "continue"
        PROVE  Live(q) \subseteq Live(q)'
    <2> SUFFICES ASSUME NEW o \in Live(q) PROVE o \in Live(q)'
      OBVIOUS
    <2>1. o \in Orchs /\ o \in Execs /\ owner[o] = q /\ st[o] # "decommissioned" /\ q # NoProject
      BY ProjectsAssumption DEF Live, Of, Execs, ProjectsAssumption
    <2>2. st[o] # "none"
      BY <2>1 DEF Shape, TypeOK
    <2>3. st'[o] \notin {"none", "decommissioned"}
      BY <1>1, <1>4, <1>9, <2>1, <2>2 DEF Careful
    <2> QED BY <1>4, <2>1, <2>3 DEF Live, Of
  <1>10. Attended'
    <2> SUFFICES ASSUME NEW q \in Projects, project'[q].status = "active"
                 PROVE  Live(q)' # {} \/ Sought(q)'
      BY DEF Attended
    <2>1. CASE q = p /\ s.op \in {"activate", "restage"}
      BY <1>5, <2>1 DEF Sought
    <2>2. CASE ~(q = p /\ s.op \in {"activate", "restage"})
      <3>1. project[q].status = "active" /\ (q # p \/ s.execs = {} \/ s.op = "continue")
        BY <1>1, <1>2, <1>3, <2>2 DEF Careful
      <3> QED BY <1>8, <1>9, <3>1 DEF CrewInv, Attended
    <2> QED BY <2>1, <2>2
  <1> QED BY <1>7, <1>10 DEF CrewInv

(* A new orchestrator takes a row no request refers to.                    *)
LEMMA AddCareful ==
    ASSUME Shape, CrewInv, NEW p \in Projects, AddOrchestrator(p)
    PROVE  /\ Live(p)' # {}
           /\ \A q \in Projects : Live(q) \subseteq Live(q)'
           /\ \A u \in Slots : \A e \in slot[u].execs : owner'[e] = owner[e]
  <1>1. PICK o \in Orchs : /\ st[o] = "none" /\ \A u \in Slots : o \notin slot[u].execs
                           /\ owner' = [owner EXCEPT ![o] = p]
                           /\ st' = [st EXCEPT ![o] = "waiting"]
    BY DEF AddOrchestrator, Unused
  <1>2. o \in Execs /\ owner[o] = NoProject
    BY <1>1 DEF Execs, Shape, TypeOK
  <1>3. o \in Live(p)'
    BY <1>1, <1>2 DEF Live, Of, Shape, TypeOK
  <1>4. \A q \in Projects : Live(q) \subseteq Live(q)'
    BY <1>1, <1>2, ProjectsAssumption DEF Live, Of, Shape, TypeOK, ProjectsAssumption
  <1>5. \A u \in Slots : \A e \in slot[u].execs : owner'[e] = owner[e]
    BY <1>1 DEF Shape, TypeOK
  <1> QED BY <1>3, <1>4, <1>5

LEMMA ServeCareful ==
    ASSUME Shape, CrewInv, NEW t \in Slots, Serve(t)
    PROVE  CrewInv'
  <1>1. CASE Commit(t)
    BY <1>1, CommitCareful
  <1>2. CASE Rollback(t)
    <2>1. slot'[t].phase = "idle" /\ slot[t].phase = "begun"
          /\ \A u \in Slots \ {t} : slot'[u] = slot[u]
      BY <1>2 DEF Rollback, Idle, Shape, TypeOK
    <2>2. \A q : (Sought(q) => Sought(q)') /\ Live(q)' = Live(q)
      BY <1>2, <2>1 DEF Rollback, Sought, Live, Of
    <2> QED BY <1>2, <2>1, <2>2 DEF Rollback, CrewInv, Attended, Careful
  <1>3. CASE EnsureFixture(t)
    <2>1. /\ slot'[t].phase # "begun"
          /\ Live(slot[t].p) = {} => slot'[t].phase = "create" /\ slot'[t].p = slot[t].p
          /\ \A u \in Slots \ {t} : slot'[u] = slot[u]
      BY <1>3 DEF EnsureFixture, Idle, Shape, TypeOK
    <2>2. \A q : (Sought(q) => Sought(q)' \/ Live(q) # {}) /\ Live(q)' = Live(q)
      BY <1>3, <2>1 DEF EnsureFixture, Sought, Live, Of
    <2> QED BY <1>3, <2>1, <2>2 DEF EnsureFixture, CrewInv, Attended, Careful
  <1>4. CASE CreateFixture(t)
    <2>1. /\ slot[t].p \in Projects /\ AddOrchestrator(slot[t].p) /\ project' = project
          /\ slot'[t].phase = "idle" /\ \A u \in Slots \ {t} : slot'[u] = slot[u]
      BY <1>4 DEF CreateFixture, Idle, Shape, SlotShape, TypeOK
    <2>2. \A q : Sought(q) => Sought(q)' \/ q = slot[t].p
      BY <2>1 DEF Sought
    <2> QED BY <2>1, <2>2, AddCareful DEF CrewInv, Attended, Careful
  <1>5. CASE GenerateNew(t)
    <2>1. /\ slot[t].p \in Projects /\ AddOrchestrator(slot[t].p) /\ slot[t].phase = "generate"
          /\ slot'[t].phase = "mark" /\ \A u \in Slots \ {t} : slot'[u] = slot[u]
      BY <1>5 DEF GenerateNew, Shape, SlotShape, TypeOK
    <2>2. \A q : Sought(q) => Sought(q)'
      BY <2>1 DEF Sought
    <2>3. \A q \in Projects : project'[q].status = project[q].status
      BY <1>5, <2>1, StagingWritten DEF GenerateNew
    <2> QED BY <2>1, <2>2, <2>3, AddCareful DEF CrewInv, Attended, Careful
  <1>6. CASE MarkStaged(t)
    <2>1. /\ slot[t].p \in Projects /\ slot[t].phase = "mark" /\ UNCHANGED <<owner, st>>
          /\ slot'[t].phase = "idle" /\ \A u \in Slots \ {t} : slot'[u] = slot[u]
      BY <1>6 DEF MarkStaged, Idle, Shape, SlotShape, TypeOK
    <2>2. \A q : (Sought(q) => Sought(q)') /\ Live(q)' = Live(q)
      BY <2>1 DEF Sought, Live, Of
    <2>3. \A q \in Projects : project'[q].status = project[q].status
      BY <1>6, <2>1, StagingWritten DEF MarkStaged
    <2> QED BY <2>1, <2>2, <2>3 DEF CrewInv, Attended, Careful
  <1> QED BY <1>1, <1>2, <1>3, <1>4, <1>5, <1>6 DEF Serve

(* A step outside the requests makes no project active, keeps the live     *)
(* orchestrators and gives no row a request refers to to another project.  *)
LEMMA OtherCareful ==
    ASSUME Shape, CrewInv, slot' = slot,
           \A q \in Projects : project'[q].status = "active" => project[q].status = "active",
           \A q \in Projects : Live(q) \subseteq Live(q)',
           \A u \in Slots : \A e \in slot[u].execs : owner'[e] = owner[e]
    PROVE  CrewInv'
  <1>1. \A q : Sought(q) => Sought(q)'
    BY DEF Sought
  <1> QED BY <1>1 DEF CrewInv, Attended, Careful

(* However activations, deactivations, stagings, restages, continuations   *)
(* and restores overlap, in any number, a project that is active when no   *)
(* request is in flight has an orchestrator: a deactivation that deletes   *)
(* it leaves the project inactive whatever was committed in between, and a *)
(* restage looks for one after its commit.                                 *)
THEOREM ActiveCrewedHolds ==
    ASSUME Ops \cap Blunt = {}
    PROVE  Spec => []ActiveCrewed
  <1>1. Init => CrewInv
    BY DEF Init, CrewInv, Attended, NewRow, Idle
  <1>2. Shape /\ CrewInv /\ [Next]_vars => CrewInv'
    <2> SUFFICES ASSUME Shape, CrewInv, [Next]_vars PROVE CrewInv'
      OBVIOUS
    <2>1. CASE UNCHANGED vars
      BY <2>1 DEF vars, CrewInv, Attended, Careful, Sought, Live, Of
    <2>2. ASSUME NEW t \in Slots, NEW p \in Projects, Request(t, p) PROVE CrewInv'
      BY <2>2, RequestCareful
    <2>3. ASSUME NEW t \in Slots, Serve(t) PROVE CrewInv'
      BY <2>3, ServeCareful
    <2>4. ASSUME NEW p \in Projects, Cancel(p) PROVE CrewInv'
      <3>1. \A q \in Projects : project'[q].status = "active" => project[q].status = "active"
        BY <2>4 DEF Cancel, Shape, TypeOK, Rows
      <3> QED BY <2>4, <3>1, OtherCareful DEF Cancel, Live, Of
    <2>5. ASSUME DeactivateProduct PROVE CrewInv'
      <3>1. \A q \in Projects : project'[q].status = "active" => project[q].status = "active"
        BY <2>5 DEF DeactivateProduct, Shape, TypeOK, Rows
      <3> QED BY <2>5, <3>1, OtherCareful DEF DeactivateProduct, Live, Of
    <2>6. ASSUME NEW e \in Execs, Agent(e) PROVE CrewInv'
      <3>1. \A q \in Projects : Live(q) \subseteq Live(q)'
        BY <2>6 DEF Agent, GetJobMission, CompleteJob, Live, Of, Shape, TypeOK
      <3> QED BY <2>6, <3>1, OtherCareful DEF Agent, GetJobMission, CompleteJob
    <2>7. ASSUME NEW o \in Orchs, NEW w \in Workers, SpawnJob(o, w) PROVE CrewInv'
      <3>1. w \notin Orchs /\ w \in Execs
        BY ProjectsAssumption DEF ProjectsAssumption, Execs
      <3>2. \A q \in Projects : Live(q) \subseteq Live(q)'
        BY <2>7, <3>1 DEF SpawnJob, Live, Of, Shape, TypeOK
      <3>3. \A u \in Slots : \A e \in slot[u].execs : owner'[e] = owner[e]
        BY <2>7 DEF SpawnJob, Shape, TypeOK
      <3> QED BY <2>7, <3>2, <3>3, OtherCareful DEF SpawnJob
    <2>8. ASSUME NEW o \in Orchs, EndStaging(o) PROVE CrewInv'
      <3>1. \A q \in Projects : project'[q].status = project[q].status
        BY <2>8, StagingEnd
      <3>2. \A q \in Projects : Live(q) \subseteq Live(q)'
        BY <2>8 DEF EndStaging, Live, Of, Shape, TypeOK
      <3> QED BY <2>8, <3>1, <3>2, OtherCareful DEF EndStaging
    <2> QED BY <2>1, <2>2, <2>3, <2>4, <2>5, <2>6, <2>7, <2>8 DEF Next
  <1>3. CrewInv => ActiveCrewed
    BY DEF CrewInv, Attended, Sought, ActiveCrewed
  <1> QED BY <1>1, <1>2, <1>3, ShapeHolds, PTL DEF Spec

-----------------------------------------------------------------------------
(* Requests served one at a time.                                          *)

(* A request that fits as it begins preserves the serial invariant.        *)
LEMMA BeginSerial ==
    ASSUME OneAtATime, Shape, SerialInv, NEW t \in Slots, NEW p \in Projects, NEW op,
           NEW new \in Rows, NEW execs \in SUBSET Of(p), Begin(t, op, p, new, execs),
           new.status = "active" => \/ op = "activate"
                                    \/ project[p].status = "active" /\ (op = "restage" \/ execs = {}),
           new.launched => new.staging = "complete",
           project[p].launched /\ ~new.launched =>
               \A w \in Workers : owner[w] = p /\ st[w] = "working" => w \in execs,
           op = "deactivate" => \A e \in execs : ~ran[e]
    PROVE  SerialInv'
  <1> DEFINE s == [phase |-> "begun", op |-> op, p |-> p, read |-> project[p], new |-> new,
                   rivals |-> IF op = "activate" THEN Rivals(p) ELSE {}, execs |-> execs]
  <1>1. /\ slot' = [slot EXCEPT ![t] = s] /\ UNCHANGED <<project, owner, st, ran>>
        /\ slot[t].phase = "idle"
    BY DEF Begin
  <1>2. slot'[t] = s
    BY <1>1 DEF Shape, TypeOK
  <1>4. Fits(s)
    BY DEF Fits, KeepsCrew, KeepsWork
  <1>5. (\A u \in Slots : Fits(slot[u]))'
    BY <1>2, <1>1, <1>4 DEF OneAtATime, Fits, KeepsCrew, KeepsWork, Of, Live
  <1>6. Crewed => Crewed'
    BY <1>1 DEF Crewed, Sought, Live, Of, OneAtATime
  <1> QED BY <1>1, <1>5, <1>6 DEF SerialInv, LaunchOrder, RanKnown, WorkersLaunched

(* Each request fits as it begins.                                         *)
LEMMA RequestSerial ==
    ASSUME OneAtATime, "stage_launched" \notin Ops, Shape, SerialInv,
           NEW t \in Slots, NEW p \in Projects, Request(t, p)
    PROVE  SerialInv'
  <1>1. /\ project[p] \in Rows /\ {} \in SUBSET Of(p)
        /\ project[p].launched => project[p].staging = "complete"
    BY DEF Shape, TypeOK, SerialInv, LaunchOrder
  <1>2. /\ Live(p) \in SUBSET Of(p)
        /\ ActiveExecs(p) \in SUBSET Of(p)
        /\ {e \in Of(p) : st[e] = "decommissioned"} \in SUBSET Of(p)
    BY DEF Live, ActiveExecs
  <1>3. CASE Activate(t, p)
    <2> DEFINE new == [project[p] EXCEPT !.status = "active"]
    <2>1. /\ new \in Rows /\ new.launched = project[p].launched
          /\ new.staging = project[p].staging
      BY <1>1 DEF Rows, Statuses
    <2>2. Begin(t, "activate", p, new, {})
      BY <1>3 DEF Activate
    <2> HIDE DEF new
    <2> QED BY <1>1, <2>1, <2>2, BeginSerial
  <1>4. CASE Deactivate(t, p)
    <2> DEFINE reset == [project[p] EXCEPT !.status = "inactive", !.staging = "none",
                                           !.launched = FALSE]
               plain == [project[p] EXCEPT !.status = "inactive"]
    <2>1. /\ reset \in Rows /\ reset.status = "inactive" /\ ~reset.launched
          /\ plain \in Rows /\ plain.status = "inactive"
          /\ plain.launched = project[p].launched /\ plain.staging = project[p].staging
      BY <1>1 DEF Rows, Statuses
    <2>2. \/ NeverRun(p) /\ Begin(t, "deactivate", p, reset, Live(p))
          \/ Begin(t, "deactivate", p, plain, {})
      BY <1>4 DEF Deactivate
    <2>3. NeverRun(p) => \A w \in Workers : ~(owner[w] = p /\ st[w] = "working")
      BY DEF NeverRun, LiveWorkers, Of, Execs
    <2>4. NeverRun(p) => \A e \in Live(p) : ~ran[e]
      BY DEF NeverRun
    <2> HIDE DEF reset, plain
    <2> QED BY <1>1, <1>2, <2>1, <2>2, <2>3, <2>4, BeginSerial
  <1>5. CASE Complete(t, p)
    <2> DEFINE new == [project[p] EXCEPT !.status = "completed"]
    <2>1. /\ new \in Rows /\ new.status = "completed" /\ new.launched = project[p].launched
          /\ new.staging = project[p].staging
      BY <1>1 DEF Rows, Statuses
    <2>2. PICK execs \in {ActiveExecs(p), {}} : Begin(t, "complete", p, new, execs)
      BY <1>5 DEF Complete
    <2> HIDE DEF new
    <2> QED BY <1>1, <1>2, <2>1, <2>2, BeginSerial
  <1>6. CASE ContinueWorking(t, p)
    <2> DEFINE new == [project[p] EXCEPT !.status = "inactive"]
    <2>1. /\ new \in Rows /\ new.status = "inactive" /\ new.launched = project[p].launched
          /\ new.staging = project[p].staging
      BY <1>1 DEF Rows, Statuses
    <2>2. Begin(t, "continue", p, new, {e \in Of(p) : st[e] = "decommissioned"})
      BY <1>6 DEF ContinueWorking
    <2> HIDE DEF new
    <2> QED BY <1>1, <1>2, <2>1, <2>2, BeginSerial
  <1>7. CASE Delete(t, p)
    <2> DEFINE new == [project[p] EXCEPT !.status = "deleted", !.deleted = TRUE]
    <2>1. /\ new \in Rows /\ new.status = "deleted" /\ new.launched = project[p].launched
          /\ new.staging = project[p].staging
      BY <1>1 DEF Rows, Statuses
    <2>2. Begin(t, "delete", p, new, ActiveExecs(p))
      BY <1>7 DEF Delete
    <2> HIDE DEF new
    <2> QED BY <1>1, <1>2, <2>1, <2>2, BeginSerial
  <1>8. CASE Restore(t, p)
    <2> DEFINE new == [project[p] EXCEPT !.status = "inactive", !.deleted = FALSE]
    <2>1. /\ new \in Rows /\ new.status = "inactive" /\ new.launched = project[p].launched
          /\ new.staging = project[p].staging
      BY <1>1 DEF Rows, Statuses
    <2>2. Begin(t, "restore", p, new, {})
      BY <1>8 DEF Restore
    <2> HIDE DEF new
    <2> QED BY <1>1, <2>1, <2>2, BeginSerial
  <1>9. CASE ResetToPrestage(t, p)
    <2> DEFINE new == [NewRow EXCEPT !.deleted = project[p].deleted]
    <2>1. new \in Rows /\ new.status = "inactive" /\ ~new.launched
      BY <1>1 DEF Rows, Statuses, NewRow
    <2>2. Begin(t, "reset", p, new, Of(p))
      BY <1>9 DEF ResetToPrestage
    <2>3. \A w \in Workers : owner[w] = p => w \in Of(p)
      BY DEF Of, Execs
    <2> HIDE DEF new
    <2> QED BY <2>1, <2>2, <2>3, BeginSerial
  <1>10. CASE UpdateMission(t, p)
    <2> DEFINE new == [project[p] EXCEPT !.staging = IF @ = "complete" THEN @ ELSE "staging"]
    <2>1. /\ new \in Rows /\ new.status = project[p].status
          /\ new.launched = project[p].launched
          /\ project[p].staging = "complete" => new.staging = "complete"
      BY <1>1 DEF Rows, Statuses
    <2>2. Begin(t, "mission", p, new, {})
      BY <1>10 DEF UpdateMission
    <2> HIDE DEF new
    <2> QED BY <1>1, <2>1, <2>2, BeginSerial
  <1>11. CASE Unstage(t, p)
    <2> DEFINE new == [project[p] EXCEPT !.staging = "none"]
    <2>1. /\ new \in Rows /\ new.status = project[p].status
          /\ new.launched = project[p].launched
      BY <1>1 DEF Rows
    <2>2. Begin(t, "unstage", p, new, {}) /\ ~project[p].launched
      BY <1>1, <1>11 DEF Unstage
    <2> HIDE DEF new
    <2> QED BY <1>1, <2>1, <2>2, BeginSerial
  <1>12. CASE Restage(t, p)
    <2> DEFINE new == [project[p] EXCEPT !.staging = "none", !.launched = FALSE]
    <2>1. new \in Rows /\ new.status = project[p].status /\ ~new.launched
      BY <1>1 DEF Rows
    <2>2. Begin(t, "restage", p, new, Live(p)) /\ ~project[p].launched
      BY <1>1, <1>12 DEF Restage
    <2> HIDE DEF new
    <2> QED BY <1>2, <2>1, <2>2, BeginSerial
  <1>13. CASE CancelStaging(t, p)
    <2> DEFINE new == [project[p] EXCEPT !.status = "cancelled"]
    <2>1. /\ new \in Rows /\ new.status = "cancelled" /\ new.launched = project[p].launched
          /\ new.staging = project[p].staging
      BY <1>1 DEF Rows, Statuses
    <2>2. Begin(t, "cancel_staging", p, new, {})
      BY <1>13 DEF CancelStaging
    <2> HIDE DEF new
    <2> QED BY <1>1, <2>1, <2>2, BeginSerial
  <1>14. CASE LaunchImplementation(t, p)
    <2> DEFINE new == [project[p] EXCEPT !.launched = TRUE, !.ever = TRUE]
    <2>1. /\ new \in Rows /\ new.launched /\ new.status = project[p].status
          /\ new.staging = "complete"
      BY <1>1, <1>14 DEF Rows, LaunchImplementation
    <2>2. Begin(t, "launch", p, new, {})
      BY <1>14 DEF LaunchImplementation
    <2> HIDE DEF new
    <2> QED BY <1>1, <2>1, <2>2, BeginSerial
  <1>15. CASE StagePrompt(t, p)
    <2> DEFINE s == [Idle EXCEPT !.phase = IF Live(p) = {} THEN "generate" ELSE "mark",
                                 !.op = "stage", !.p = p, !.read = project[p]]
    <2>1. /\ slot' = [slot EXCEPT ![t] = s] /\ UNCHANGED <<project, owner, st, ran>>
          /\ slot[t].phase = "idle" /\ ~project[p].launched
      BY <1>15 DEF StagePrompt
    <2>2. /\ s.phase \in {"generate", "mark"} /\ s.p = p
          /\ s.phase = "generate" => Live(p) = {}
      BY DEF Idle
    <2> HIDE DEF s
    <2>3. slot'[t] = s
      BY <2>1 DEF Shape, TypeOK
    <2>4. (\A u \in Slots : Fits(slot[u]))'
      BY <2>1, <2>2, <2>3 DEF OneAtATime, Fits, Of, Live
    <2>5. Crewed => Crewed'
      BY <2>1 DEF Crewed, Sought, Live, Of, OneAtATime
    <2> QED BY <2>1, <2>4, <2>5 DEF SerialInv, LaunchOrder, RanKnown, WorkersLaunched
  <1> QED BY <1>3, <1>4, <1>5, <1>6, <1>7, <1>8, <1>9, <1>10, <1>11, <1>12, <1>13, <1>14,
             <1>15 DEF Request

(* A commit writes what was read and decided, for nothing has changed.     *)
LEMMA CommitSerial ==
    ASSUME OneAtATime, Shape, Shape', SerialInv, NEW t \in Slots, Commit(t)
    PROVE  SerialInv'
  <1> DEFINE s == slot[t]
             p == s.p
  <1>1. /\ s.phase = "begun" /\ p \in Projects /\ s.new \in Rows
        /\ s.execs \in SUBSET Of(p) /\ s.op \in Ops \cup {"none"}
        /\ s.read = project[p] /\ Fits(s)
    BY DEF Commit, Shape, TypeOK, SlotShape, SerialInv, Fits
  <1>2. /\ project'[p].status = s.new.status
        /\ project'[p].launched = s.new.launched
        /\ project'[p].staging = s.new.staging
    <2>1. project[p] \in Rows
      BY <1>1 DEF Shape, TypeOK
    <2>2. project'[p] = Merge(project[p], project[p], s.new)
      BY <1>1 DEF Commit, Written
    <2> QED BY <1>1, <2>1, <2>2 DEF Merge, Rows
  <1>3. \A q \in Projects \ {p} :
           /\ project'[q].launched = project[q].launched
           /\ project'[q].staging = project[q].staging
           /\ project'[q].status = "active" => project[q].status = "active"
    BY <1>1 DEF Commit, Written, Shape, TypeOK, Rows
  <1>4. /\ \A e \in Execs : st'[e] = IF e \in s.execs THEN Fate(s.op) ELSE st[e]
        /\ \A e \in Execs : owner'[e] = IF st'[e] = "none" THEN NoProject ELSE owner[e]
        /\ \A e \in Execs : ran'[e] = (ran[e] /\ st'[e] # "none")
        /\ Fate(s.op) \in {"none", "waiting", "decommissioned"}
        /\ s.op # "continue" => Fate(s.op) # "waiting"
    BY DEF Commit, Fate
  <1>5. /\ slot'[t].phase = IF s.op \in {"activate", "restage"} THEN "ensure" ELSE "idle"
        /\ s.op \in {"activate", "restage"} => slot'[t].p = p
    BY DEF Commit, AfterCommit, Idle, Shape, TypeOK
  <1>6. (\A u \in Slots : Fits(slot[u]))'
    BY <1>5 DEF OneAtATime, Fits
  <1>7. LaunchOrder'
    BY <1>1, <1>2, <1>3 DEF SerialInv, LaunchOrder, Fits, KeepsWork
  <1>8. RanKnown'
    BY <1>4 DEF RanKnown
  <1>9. WorkersLaunched'
    <2> SUFFICES ASSUME NEW w \in Workers, st'[w] = "working" PROVE project'[owner'[w]].launched
      BY DEF WorkersLaunched
    <2>1. /\ st[w] = "working" /\ w \notin s.execs /\ owner'[w] = owner[w]
          /\ owner[w] \in Projects
      BY <1>4, Owned DEF Execs
    <2>2. project[owner[w]].launched
      BY <2>1 DEF SerialInv, WorkersLaunched
    <2> QED BY <1>1, <1>2, <1>3, <2>1, <2>2 DEF Fits, KeepsWork
  <1>10. ASSUME "continue" \notin Ops PROVE Crewed'
    <2>1. Crewed
      BY <1>10 DEF SerialInv
    <2>2. Fate(s.op) # "waiting"
      BY <1>1, <1>4, <1>10 DEF Fate
    <2>3. \A q : Live(q)' \subseteq Live(q) \/ q = NoProject
      BY <1>4, <2>2 DEF Live, Of, Execs
    <2>4. \A q \in Projects : (q # p \/ s.execs = {}) => Live(q)' = Live(q)
      BY <1>1, <1>4, ProjectsAssumption DEF Live, Of, Execs, Shape, TypeOK, ProjectsAssumption
    <2>5. ASSUME NEW q \in Projects PROVE \A o, u \in Live(q)' : o = u
      BY <2>1, <2>3, ProjectsAssumption DEF Crewed, ProjectsAssumption
    <2>6. ASSUME NEW q \in Projects, project'[q].status = "active" PROVE Live(q)' # {} \/ Sought(q)'
      <3>1. \A x \in Projects : ~Sought(x)
        BY <1>1 DEF Sought, OneAtATime
      <3>2. CASE s.op \in {"activate", "restage"} /\ q = p
        BY <1>5, <3>2 DEF Sought
      <3>3. CASE ~(s.op \in {"activate", "restage"} /\ q = p)
        <4>1. project[q].status = "active" /\ (q # p \/ s.execs = {})
          BY <1>1, <1>2, <1>3, <2>6, <3>3 DEF Fits, KeepsCrew
        <4> QED BY <2>1, <2>4, <3>1, <4>1 DEF Crewed
      <3> QED BY <3>2, <3>3
    <2> QED BY <2>5, <2>6 DEF Crewed
  <1> QED BY <1>6, <1>7, <1>8, <1>9, <1>10 DEF SerialInv

(* A new orchestrator is the only one of a project that had none.          *)
LEMMA AddSerial ==
    ASSUME Shape, RanKnown, WorkersLaunched, NEW p \in Projects, AddOrchestrator(p),
           ran' = ran, \A q \in Projects : project'[q].launched = project[q].launched
    PROVE  /\ RanKnown'
           /\ WorkersLaunched'
           /\ \A q \in Projects \ {p} : Live(q)' = Live(q)
           /\ Live(p) = {} => Live(p)' # {} /\ \A o, u \in Live(p)' : o = u
  <1>1. PICK o \in Orchs : /\ st[o] = "none"
                           /\ owner' = [owner EXCEPT ![o] = p]
                           /\ st' = [st EXCEPT ![o] = "waiting"]
    BY DEF AddOrchestrator, Unused
  <1>2. o \in Execs /\ o \notin Workers /\ owner[o] = NoProject
    BY <1>1, ProjectsAssumption DEF Execs, ProjectsAssumption, Shape, TypeOK
  <1>3. RanKnown'
    BY <1>1 DEF RanKnown, Shape, TypeOK
  <1>4. WorkersLaunched'
    BY <1>1, <1>2, Owned DEF WorkersLaunched, Shape, TypeOK, Execs
  <1>5. \A q \in Projects \ {p} : Live(q)' = Live(q)
    BY <1>1, <1>2, ProjectsAssumption DEF Live, Of, Shape, TypeOK, ProjectsAssumption
  <1>6. Live(p) = {} => Live(p)' = {o}
    BY <1>1, <1>2 DEF Live, Of, Shape, TypeOK, Execs
  <1> QED BY <1>3, <1>4, <1>5, <1>6

(* Every step of the request in flight preserves the serial invariant.     *)
LEMMA ServeSerial ==
    ASSUME OneAtATime, Shape, Shape', SerialInv, NEW t \in Slots, Serve(t)
    PROVE  SerialInv'
  <1>p. PICK p : p = slot[t].p
    OBVIOUS
  <1>0. /\ Fits(slot[t]) /\ LaunchOrder /\ RanKnown /\ WorkersLaunched
        /\ \A u \in Slots : u = t
    BY DEF SerialInv, OneAtATime
  <1>1. CASE Commit(t)
    BY <1>1, CommitSerial
  <1>2. CASE Rollback(t)
    <2>1. slot[t].phase = "begun" /\ slot'[t].phase = "idle"
      BY <1>2 DEF Rollback, Idle, Shape, TypeOK
    <2>2. (\A u \in Slots : Fits(slot[u]))'
      BY <1>p, <1>0, <2>1 DEF Fits
    <2>3. Crewed => Crewed'
      BY <1>p, <1>0, <1>2, <2>1 DEF Rollback, Crewed, Sought, Live, Of
    <2> QED BY <1>2, <2>2, <2>3
            DEF Rollback, SerialInv, LaunchOrder, RanKnown, WorkersLaunched
  <1>3. CASE EnsureFixture(t)
    <2>1. /\ slot[t].phase = "ensure"
          /\ Live(p) = {} => slot'[t].phase = "create" /\ slot'[t].p = p
          /\ Live(p) # {} => slot'[t].phase = "idle"
          /\ UNCHANGED <<project, owner, st, ran>>
      BY <1>p, <1>3 DEF EnsureFixture, Idle, Shape, TypeOK
    <2>2. (\A u \in Slots : Fits(slot[u]))'
      BY <1>p, <1>0, <2>1 DEF Fits, Live, Of
    <2>3. Crewed => Crewed'
      BY <1>p, <1>0, <2>1 DEF Crewed, Sought, Live, Of
    <2> QED BY <2>1, <2>2, <2>3 DEF SerialInv, LaunchOrder, RanKnown, WorkersLaunched
  <1>4. CASE CreateFixture(t)
    <2>1. /\ slot[t].phase = "create" /\ p \in Projects /\ AddOrchestrator(p)
          /\ slot'[t].phase = "idle" /\ UNCHANGED <<project, ran>>
      BY <1>p, <1>4 DEF CreateFixture, Idle, Shape, TypeOK, SlotShape
    <2>2. Live(p) = {}
      BY <1>p, <1>0, <2>1 DEF Fits
    <2>3. /\ RanKnown' /\ WorkersLaunched'
          /\ \A q \in Projects \ {p} : Live(q)' = Live(q)
          /\ Live(p)' # {} /\ \A o, u \in Live(p)' : o = u
      BY <1>p, <1>0, <2>1, <2>2, AddSerial
    <2>4. (\A u \in Slots : Fits(slot[u]))'
      BY <1>p, <1>0, <2>1 DEF Fits
    <2>5. Crewed => Crewed'
      BY <1>p, <1>0, <2>1, <2>3 DEF Crewed, Sought
    <2> QED BY <1>p, <1>0, <2>1, <2>3, <2>4, <2>5 DEF SerialInv, LaunchOrder
  <1>5. CASE GenerateNew(t)
    <2>1. /\ slot[t].phase = "generate" /\ p \in Projects /\ AddOrchestrator(p)
          /\ slot'[t].phase = "mark" /\ slot'[t].p = p /\ UNCHANGED ran
          /\ project' = [project EXCEPT ![p].staging = "staging"]
      BY <1>p, <1>5 DEF GenerateNew, Shape, TypeOK, SlotShape
    <2>2. Live(p) = {} /\ ~project[p].launched
      BY <1>p, <1>0, <2>1 DEF Fits
    <2>3. /\ \A q \in Projects : /\ project'[q].status = project[q].status
                                 /\ project'[q].launched = project[q].launched
          /\ \A q \in Projects \ {p} : project'[q] = project[q]
      BY <2>1, StagingWritten
    <2>4. /\ RanKnown' /\ WorkersLaunched'
          /\ \A q \in Projects \ {p} : Live(q)' = Live(q)
          /\ Live(p)' # {} /\ \A o, u \in Live(p)' : o = u
      BY <1>p, <1>0, <2>1, <2>2, <2>3, AddSerial
    <2>5. (\A u \in Slots : Fits(slot[u]))'
      BY <1>p, <1>0, <2>1, <2>2, <2>3 DEF Fits
    <2>6. Crewed => Crewed'
      BY <1>p, <1>0, <2>1, <2>3, <2>4 DEF Crewed, Sought
    <2> QED BY <1>p, <1>0, <2>2, <2>3, <2>4, <2>5, <2>6 DEF SerialInv, LaunchOrder
  <1>6. CASE MarkStaged(t)
    <2>1. /\ slot[t].phase = "mark" /\ p \in Projects
          /\ slot'[t].phase = "idle" /\ UNCHANGED <<owner, st, ran>>
          /\ project' = [project EXCEPT ![p].staging = "staged"]
      BY <1>p, <1>6 DEF MarkStaged, Idle, Shape, TypeOK, SlotShape
    <2>2. ~project[p].launched
      BY <1>p, <1>0, <2>1 DEF Fits
    <2>3. /\ \A q \in Projects : /\ project'[q].status = project[q].status
                                 /\ project'[q].launched = project[q].launched
          /\ \A q \in Projects \ {p} : project'[q] = project[q]
      BY <2>1, StagingWritten
    <2>4. (\A u \in Slots : Fits(slot[u]))'
      BY <1>p, <1>0, <2>1 DEF Fits
    <2>5. Crewed => Crewed'
      BY <1>p, <1>0, <2>1, <2>3 DEF Crewed, Sought, Live, Of
    <2>6. WorkersLaunched'
      BY <1>p, <1>0, <2>1, <2>3, Owned DEF WorkersLaunched, Execs
    <2> QED BY <1>p, <1>0, <2>1, <2>2, <2>3, <2>4, <2>5, <2>6 DEF SerialInv, LaunchOrder, RanKnown
  <1> QED BY <1>1, <1>2, <1>3, <1>4, <1>5, <1>6 DEF Serve

(* The calls of one transaction find no request in flight.                 *)
LEMMA OtherSerial ==
    ASSUME OneAtATime, Shape, Shape', SerialInv,
           \/ \E p \in Projects : Cancel(p)
           \/ DeactivateProduct
           \/ \E e \in Execs : Agent(e)
           \/ \E o \in Orchs, w \in Workers : SpawnJob(o, w)
           \/ \E o \in Orchs : EndStaging(o)
    PROVE  SerialInv'
  <1>1. \A t \in Slots : slot[t].phase = "idle" /\ slot'[t] = slot[t]
    BY DEF OneAtATime, Cancel, DeactivateProduct, Agent, GetJobMission, CompleteJob, SpawnJob,
           EndStaging, Served
  <1>2. (\A t \in Slots : Fits(slot[t]))'
    BY <1>1 DEF Fits
  <1>3. \A q \in Projects : ~Sought(q)
    BY <1>1 DEF Sought
  <1>4. ASSUME UNCHANGED <<owner, st, ran>>,
               \A q \in Projects : /\ project'[q].launched = project[q].launched
                                   /\ project'[q].staging = project[q].staging
                                   /\ project'[q].status = "active" => project[q].status = "active"
        PROVE  SerialInv'
    <2>1. WorkersLaunched'
      BY <1>4, Owned DEF SerialInv, WorkersLaunched, Execs
    <2>2. Crewed => Crewed'
      BY <1>3, <1>4 DEF Crewed, Live, Of
    <2> QED BY <1>2, <1>4, <2>1, <2>2 DEF SerialInv, LaunchOrder, RanKnown
  <1>5. ASSUME NEW p \in Projects, Cancel(p) PROVE SerialInv'
    BY <1>4, <1>5 DEF Cancel, Shape, TypeOK, Rows
  <1>6. ASSUME DeactivateProduct PROVE SerialInv'
    BY <1>4, <1>6 DEF DeactivateProduct, Shape, TypeOK, Rows
  <1>7. ASSUME NEW e \in Execs, GetJobMission(e) PROVE SerialInv'
    <2>1. RanKnown'
      BY <1>7 DEF GetJobMission, SerialInv, RanKnown, Shape, TypeOK
    <2>2. WorkersLaunched'
      BY <1>7 DEF GetJobMission, SerialInv, WorkersLaunched, Shape, TypeOK
    <2>3. \A q \in Projects : Live(q)' = Live(q)
      BY <1>7 DEF GetJobMission, Live, Of, Shape, TypeOK, Execs
    <2>4. Crewed => Crewed'
      BY <1>3, <1>7, <2>3 DEF GetJobMission, Crewed
    <2> QED BY <1>2, <1>7, <2>1, <2>2, <2>4 DEF GetJobMission, SerialInv, LaunchOrder
  <1>8. ASSUME NEW e \in Execs, CompleteJob(e) PROVE SerialInv'
    <2>1. RanKnown'
      BY <1>8 DEF CompleteJob, SerialInv, RanKnown, Shape, TypeOK
    <2>2. WorkersLaunched'
      BY <1>8 DEF CompleteJob, SerialInv, WorkersLaunched, Shape, TypeOK, Execs
    <2>3. \A q \in Projects : Live(q)' = Live(q)
      BY <1>8 DEF CompleteJob, Live, Of, Shape, TypeOK, Execs
    <2>4. Crewed => Crewed'
      BY <1>3, <1>8, <2>3 DEF CompleteJob, Crewed
    <2> QED BY <1>2, <1>8, <2>1, <2>2, <2>4 DEF CompleteJob, SerialInv, LaunchOrder
  <1>9. ASSUME NEW o \in Orchs, NEW w \in Workers, SpawnJob(o, w) PROVE SerialInv'
    <2>1. w \in Execs /\ w \notin Orchs
      BY ProjectsAssumption DEF Execs, ProjectsAssumption
    <2>2. RanKnown'
      BY <1>9, <2>1 DEF SpawnJob, SerialInv, RanKnown, Shape, TypeOK
    <2>3. WorkersLaunched'
      BY <1>9, <2>1 DEF SpawnJob, SerialInv, WorkersLaunched, Shape, TypeOK, Execs
    <2>4. \A q \in Projects : Live(q)' = Live(q)
      BY <1>9, <2>1 DEF SpawnJob, Live, Of, Shape, TypeOK, Execs
    <2>5. Crewed => Crewed'
      BY <1>3, <1>9, <2>4 DEF SpawnJob, Crewed
    <2> QED BY <1>2, <1>9, <2>2, <2>3, <2>5 DEF SpawnJob, SerialInv, LaunchOrder
  <1>10. ASSUME NEW o \in Orchs, EndStaging(o) PROVE SerialInv'
    <2>1. /\ owner[o] \in Projects /\ o \in Execs /\ o \notin Workers
          /\ project'[owner[o]].staging = "complete"
          /\ \A q \in Projects : project'[q].status = project[q].status
          /\ \A q \in Projects \ {owner[o]} : project'[q] = project[q]
          /\ ~project[owner[o]].launched
      BY <1>10, StagingEnd, ProjectsAssumption DEF Execs, ProjectsAssumption
    <2>2. RanKnown'
      BY <1>10 DEF EndStaging, SerialInv, RanKnown, Shape, TypeOK
    <2>3. WorkersLaunched'
      BY <1>10, <2>1, Owned DEF EndStaging, SerialInv, WorkersLaunched, Shape, TypeOK, Execs
    <2>4. \A q \in Projects : Live(q)' = Live(q)
      BY <1>10 DEF EndStaging, Live, Of, Shape, TypeOK, Execs
    <2>5. Crewed => Crewed'
      BY <1>3, <2>1, <2>4 DEF Crewed
    <2> QED BY <1>2, <2>1, <2>2, <2>3, <2>5 DEF SerialInv, LaunchOrder
  <1> QED BY <1>5, <1>6, <1>7, <1>8, <1>9, <1>10 DEF Agent

LEMMA SerialHolds ==
    ASSUME OneAtATime, "stage_launched" \notin Ops
    PROVE  Spec => [](Shape /\ SerialInv)
  <1>1. Init => SerialInv
    <2> SUFFICES ASSUME Init PROVE SerialInv
      OBVIOUS
    <2>1. \A t \in Slots : slot[t].phase = "idle"
      BY DEF Init, Idle
    <2>2. \A p \in Projects : ~project[p].launched /\ project[p].status = "inactive"
      BY DEF Init, NewRow
    <2>3. \A p \in Projects : Live(p) = {}
      BY ProjectsAssumption DEF Init, Live, Of, Execs, ProjectsAssumption
    <2>4. RanKnown /\ WorkersLaunched
      BY DEF Init, RanKnown, WorkersLaunched, Execs
    <2> QED BY <2>1, <2>2, <2>3, <2>4 DEF SerialInv, Fits, LaunchOrder, Crewed
  <1>2. Shape /\ Shape' /\ SerialInv /\ [Next]_vars => SerialInv'
    <2> SUFFICES ASSUME Shape, Shape', SerialInv, [Next]_vars PROVE SerialInv'
      OBVIOUS
    <2>1. CASE UNCHANGED vars
      BY <2>1 DEF vars, SerialInv, Fits, KeepsCrew, KeepsWork, LaunchOrder, RanKnown,
                  WorkersLaunched, Crewed, Sought, Live, Of
    <2>2. CASE Next
      BY <2>2, RequestSerial, ServeSerial, OtherSerial DEF Next
    <2> QED BY <2>1, <2>2
  <1> QED BY <1>1, <1>2, ShapeHolds, PTL DEF Spec

(* Served one at a time, and unless completed projects are reopened, the   *)
(* requests leave every active project with exactly one orchestrator that  *)
(* is not decommissioned (activation, deactivation, restage, staging       *)
(* prompt, closeout, deletion and reset included).                         *)
THEOREM ActiveStaffedHolds ==
    ASSUME OneAtATime, "stage_launched" \notin Ops, "continue" \notin Ops
    PROVE  Spec => []ActiveStaffed
  <1>1. SerialInv => ActiveStaffed
    <2> SUFFICES ASSUME Crewed, \A t \in Slots : slot[t].phase = "idle",
                        NEW p \in Projects, project[p].status = "active"
                 PROVE  Cardinality(Live(p)) = 1
      BY DEF SerialInv, ActiveStaffed
    <2>1. ~Sought(p)
      BY DEF Sought
    <2>2. PICK o \in Live(p) : Live(p) = {o}
      BY <2>1 DEF Crewed
    <2> QED BY <2>2, FS_Singleton
  <1> QED BY <1>1, SerialHolds, PTL

(* Served one at a time, and unless the callers stage a launched project   *)
(* again, no request takes the launch away under a specialist at work.     *)
THEOREM WorkersLaunchedHolds ==
    ASSUME OneAtATime, "stage_launched" \notin Ops
    PROVE  Spec => []WorkersLaunched
  <1>1. SerialInv => WorkersLaunched
    BY DEF SerialInv
  <1> QED BY <1>1, SerialHolds, PTL

(* Served one at a time, a request deletes the row of an orchestrator that *)
(* ran only to reset its project: a deactivation that read it as never run *)
(* still finds it so when it commits.                                      *)
THEOREM RunsKeptHolds ==
    ASSUME OneAtATime, "stage_launched" \notin Ops
    PROVE  Spec => RunsKept
  <1>1. Shape /\ SerialInv /\ [Next]_vars =>
          [\A o \in Orchs : ran[o] /\ st'[o] = "none" => \E t \in Slots : slot[t].op = "reset"]_vars
    <2> SUFFICES ASSUME Shape, SerialInv, Next, NEW o \in Orchs, ran[o], st'[o] = "none"
                 PROVE  \E t \in Slots : slot[t].op = "reset"
      OBVIOUS
    <2>1. o \in Execs /\ st[o] # "none" /\ st \in [Execs -> {"none", "waiting", "working", "complete", "decommissioned"}]
      BY DEF SerialInv, RanKnown, Execs, Shape, TypeOK
    <2>2. ~(UNCHANGED st) /\ ~(\E e \in Execs : \E x \in {"waiting", "working", "complete"} :
                                 st' = [st EXCEPT ![e] = x])
      BY <2>1
    <2>3. ASSUME NEW t \in Slots, NEW p \in Projects, Request(t, p) PROVE UNCHANGED st
      BY <2>3 DEF Request, Activate, Deactivate, Complete, ContinueWorking, Delete, Restore,
         ResetToPrestage, UpdateMission, Unstage, Restage, CancelStaging, LaunchImplementation,
         StagePrompt, Begin
    <2>4. ASSUME NEW p, AddOrchestrator(p)
          PROVE  \E e \in Execs : \E x \in {"waiting", "working", "complete"} : st' = [st EXCEPT ![e] = x]
      BY <2>4 DEF AddOrchestrator, Unused, Execs
    <2>5. PICK t \in Slots : Commit(t)
      BY <2>2, <2>3, <2>4 DEF Next, Serve, Rollback, EnsureFixture, CreateFixture, GenerateNew,
         MarkStaged, Cancel, DeactivateProduct, Agent, GetJobMission, CompleteJob, SpawnJob,
         EndStaging, Execs
    <2>6. slot[t].op \in {"deactivate", "reset"} /\ o \in slot[t].execs
      BY <2>1, <2>5 DEF Commit, Fate
    <2> QED BY <2>5, <2>6 DEF SerialInv, Fits, Commit
  <1> QED BY <1>1, SerialHolds, PTL DEF RunsKept, Spec

-----------------------------------------------------------------------------
(* Two active products, or two active projects of one product, are one.    *)
OneEach ==
    /\ \A p, q \in on : p = q
    /\ \A j, k \in running : home[j] = home[k] => j = k

LEMMA OneAtMost == ASSUME NEW S, \A x, y \in S : x = y PROVE Cardinality(S) <= 1
  <1>1. CASE S = {}
    BY <1>1, FS_EmptySet
  <1>2. CASE S # {}
    <2>1. PICK x \in S : S = {x}
      BY <1>2
    <2> QED BY <2>1, FS_Singleton
  <1> QED BY <1>1, <1>2

LEMMA OneEachBounds == ASSUME OneEach PROVE Switch!OneActiveEach
  <1>1. Cardinality(on) <= 1
    BY OneAtMost DEF OneEach
  <1>2. ASSUME NEW p \in Products PROVE Cardinality(Switch!ToStop({p})) <= 1
    <2>1. \A j, k \in Switch!ToStop({p}) : j = k
      BY DEF OneEach, Switch!ToStop, Switch!Of
    <2> DEFINE S == Switch!ToStop({p})
    <2>2. \A j, k \in S : j = k
      BY <2>1
    <2> HIDE DEF S
    <2>3. Cardinality(S) <= 1
      BY <2>2, OneAtMost
    <2> QED BY <2>3 DEF S
  <1> QED BY <1>1, <1>2 DEF Switch!OneActiveEach, Switch!Cardinality, Cardinality

LEMMA Shrinks ==
    ASSUME OneEach, on' \subseteq on, running' \subseteq running, home' = home
    PROVE  OneEach'
  BY DEF OneEach

(* A commit that makes a product active finds no other active that it did   *)
(* not switch off, or is refused.                                          *)
LEMMA ActivateKept == ASSUME OneEach, NEW s \in Callers, Switch!CommitActivate(s) PROVE OneEach'
  <1>1. running' \subseteq running /\ home' = home
    BY DEF Switch!CommitActivate, Switch!Settle
  <1>2. CASE on' \subseteq on
    BY <1>1, <1>2, Shrinks
  <1>3. CASE ~(on' \subseteq on)
    <2>1. ~Switch!Conflict(s) /\ ~call[s].was /\ on' = (on \ call[s].off) \union {call[s].target}
      BY <1>3 DEF Switch!CommitActivate
    <2>2. on' \subseteq {call[s].target}
      BY <2>1 DEF Switch!Conflict
    <2> QED BY <1>1, <2>2 DEF OneEach
  <1> QED BY <1>2, <1>3

LEMMA StartKept == ASSUME OneEach, NEW s \in Callers, Switch!CommitStart(s) PROVE OneEach'
  <1>1. on' = on /\ home' = home
    BY DEF Switch!CommitStart
  <1>2. CASE running' \subseteq running
    BY <1>1, <1>2, Shrinks
  <1>3. CASE ~(running' \subseteq running)
    <2> DEFINE j == call[s].target
    <2>1. Switch!Siblings(j) \ call[s].off = {} /\ running' = (running \ call[s].off) \union {j}
      BY <1>3 DEF Switch!CommitStart
    <2>2. \A k \in running' : home[k] = home[j] => k = j
      BY <2>1 DEF Switch!Siblings
    <2>3. \A k \in running' : k \in running \/ k = j
      BY <2>1
    <2> HIDE DEF j
    <2> QED BY <1>1, <2>2, <2>3 DEF OneEach
  <1> QED BY <1>2, <1>3

LEMMA SwitchSteps == ASSUME OneEach, [Switch!Next]_(Switch!vars) PROVE OneEach'
  <1>1. CASE UNCHANGED Switch!vars
    BY <1>1, Shrinks DEF Switch!vars
  <1>2. ASSUME NEW s \in Callers,
               \/ \E p \in Products : Switch!BeginActivate(s, p) \/ Switch!BeginDeactivate(s, p)
               \/ Switch!Cascade(s) \/ Switch!ReadRoster(s)
               \/ \E j \in Started : Switch!BeginStart(s, j)
        PROVE  OneEach'
    BY <1>2, Shrinks DEF Switch!BeginActivate, Switch!BeginDeactivate, Switch!Cascade, Switch!ReadRoster,
                         Switch!BeginStart, Switch!Store
  <1>3. ASSUME NEW s \in Callers, Switch!CommitDeactivate(s) \/ Switch!Assign(s) PROVE OneEach'
    BY <1>3, Shrinks DEF Switch!CommitDeactivate, Switch!Settle, Switch!Assign
  <1>4. ASSUME NEW p \in Products, Switch!Delete(p) \/ Switch!Restore(p) PROVE OneEach'
    BY <1>4, Shrinks DEF Switch!Delete, Switch!Restore
  <1>5. ASSUME NEW j \in Started, Switch!Stop(j) \/ Switch!JobCompletes(j) PROVE OneEach'
    BY <1>5, Shrinks DEF Switch!Stop, Switch!JobCompletes
  <1> QED BY <1>1, <1>2, <1>3, <1>4, <1>5, ActivateKept, StartKept DEF Switch!Next

(* However activations, deactivations, deletions and starts overlap, a     *)
(* tenant has at most one active product and a product at most one active  *)
(* project: the two partial unique indexes decide at the commit.           *)
THEOREM OneActiveEachHolds == Switch!Spec => []Switch!OneActiveEach
  <1>1. Switch!Init => OneEach
    BY DEF Switch!Init, OneEach
  <1>2. OneEach /\ [Switch!Next]_(Switch!vars) => OneEach'
    BY SwitchSteps
  <1>3. OneEach => Switch!OneActiveEach
    BY OneEachBounds
  <1> QED BY <1>1, <1>2, <1>3, PTL DEF Switch!Spec

-----------------------------------------------------------------------------
(* The composition of MCProjects: each part moves by itself, so what holds *)
(* of a module holds of its part, whatever the constants of the others.    *)

LEMMA SwitchMoves == MCSpec => Switch!Spec
  <1>1. MCInit => Switch!Init
    BY DEF MCInit
  <1>2. [MCNext]_<<vars, part, switchVars>> => [Switch!Next]_(Switch!vars)
    BY DEF MCNext, switchVars, Switch!vars
  <1> QED BY <1>1, <1>2, PTL DEF MCSpec, Switch!Spec

Activating == part = "activation"

LEMMA ActivationMoves == MCSpec /\ Activating => Spec /\ []Activating
  <1>1. MCInit /\ Activating => Init
    BY DEF MCInit, Activating
  <1>2. Activating /\ [MCNext]_<<vars, part, switchVars>> => Activating' /\ [Next]_vars
    BY DEF MCNext, vars, Activating
  <1> QED BY <1>1, <1>2, PTL DEF MCSpec, Spec

LEMMA OthersMove == MCSpec /\ ~Activating => []~Activating
  <1>1. ~Activating /\ [MCNext]_<<vars, part, switchVars>> => ~Activating'
    BY DEF MCNext, Activating
  <1> QED BY <1>1, PTL DEF MCSpec

(* With requests served one at a time, an active project has exactly one    *)
(* orchestrator and its specialists work only after the launch.             *)
THEOREM SerialCrewHolds ==
    ASSUME OneAtATime, "stage_launched" \notin Ops, "continue" \notin Ops
    PROVE  MCSpec => []SerialCrew
  <1>1. Activating /\ ActiveStaffed /\ WorkersLaunched => SerialCrew
    BY DEF SerialCrew
  <1>2. ~Activating => SerialCrew
    BY DEF SerialCrew, Activating
  <1> QED BY <1>1, <1>2, ActivationMoves, OthersMove, ActiveStaffedHolds, WorkersLaunchedHolds, PTL

(* With requests served one at a time, no row of an orchestrator that ran   *)
(* is deleted but by a reset.                                              *)
THEOREM SerialRunsKeptHolds ==
    ASSUME OneAtATime, "stage_launched" \notin Ops
    PROVE  MCSpec => SerialRunsKept
  <1>1. ~Activating =>
          [part = "activation" /\ (\E o \in Orchs : ran[o] /\ st'[o] = "none")
             => \E t \in Slots : slot[t].op = "reset"]_vars
    BY DEF Activating
  <1>2. [\A o \in Orchs : ran[o] /\ st'[o] = "none" => \E t \in Slots : slot[t].op = "reset"]_vars =>
          [part = "activation" /\ (\E o \in Orchs : ran[o] /\ st'[o] = "none")
             => \E t \in Slots : slot[t].op = "reset"]_vars
    OBVIOUS
  <1> QED BY <1>1, <1>2, ActivationMoves, OthersMove, RunsKeptHolds, PTL DEF RunsKept, SerialRunsKept

(* A tenant has at most one active product and a product at most one active *)
(* project, whatever requests of the other parts there are.                 *)
THEOREM OneActiveEachAlways == MCSpec => []OneActiveEach
  BY SwitchMoves, OneActiveEachHolds, PTL DEF OneActiveEach
=============================================================================
