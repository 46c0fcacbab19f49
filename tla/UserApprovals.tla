--------------------------- MODULE UserApprovals ---------------------------
(***************************************************************************)
(* User approvals (the human-in-the-loop gate) on top of the lifecycle of  *)
(* AgentLifecycle.  request_approval, and complete_job when a 'hitl'       *)
(* tenant's closeout carries findings, insert a pending user_approvals row *)
(* and park the orchestrator in 'awaiting_user'; the user's decision marks *)
(* the row decided and restores the status the orchestrator had before.    *)
(*                                                                         *)
(* The rows of both tables are read and written inside the transactions of *)
(* AgentLifecycle.  The check for an existing pending row is a SELECT with *)
(* no unique index behind it.  mark_decided flushes its UPDATE before it   *)
(* reads the execution, so from then on it holds the approval's row lock.  *)
(***************************************************************************)
EXTENDS AgentLifecycle

CONSTANTS
    Approvals,   \* user_approvals rows that may be inserted
    Choices,     \* option ids; the gate offers "approve" and "reject"
    NoApproval,  \* the transaction writes no approval row
    NoAgent      \* an approval row that does not exist yet has no agent

ASSUME ApprovalsAssumption ==
    /\ NoApproval \notin Approvals
    /\ NoAgent \notin Agents

VARIABLES
    approval,  \* user_approvals, by row
    row,       \* the approval row each transaction in flight will write
    flagged    \* agents whose last completion result carried findings

approvalVars == <<approval, row, flagged>>
varsA == <<vars, approvalVars>>

Approval == [state : {"none", "pending", "decided"}, agent : Agents \cup {NoAgent},
             gate : BOOLEAN, pre : Statuses, choice : Choices \cup {"none"}]
Absent == [state |-> "none", agent |-> NoAgent, gate |-> FALSE, pre |-> "none",
           choice |-> "none"]
NoRow == [id |-> NoApproval, to |-> Absent]

TypeOKA ==
    /\ TypeOK
    /\ approval \in [Approvals -> Approval]
    /\ row \in [Slots -> [id : Approvals \cup {NoApproval}, to : Approval]]
    /\ flagged \subseteq Agents

InitA ==
    /\ Init
    /\ approval = [x \in Approvals |-> Absent]
    /\ row = [t \in Slots |-> NoRow]
    /\ flagged = {}

-----------------------------------------------------------------------------
PendingOf(a) == {x \in Approvals : approval[x].state = "pending" /\ approval[x].agent = a}
GateApprovals(a) == {x \in Approvals : approval[x].gate /\ approval[x].agent = a}
GateDecided(a) == \E x \in GateApprovals(a) : approval[x].state = "decided"
Fresh(x) == approval[x].state = "none" /\ \A t \in Slots : row[t].id # x

(* Mutant of CreatePending: without the check for a pending approval.       *)
CreatePendingUnchecked(t, a, x, gate) ==
    /\ Fresh(x)
    /\ Hold(t, {a}, [NoWrite EXCEPT !.status = Net(status[a], "awaiting_user")])
    /\ row' = [row EXCEPT ![t] = [id |-> x, to |->
           [state |-> "pending", agent |-> a, gate |-> gate, pre |-> status[a],
            choice |-> "none"]]]
    /\ UNCHANGED <<rows, old, inbox, launched, sent, waived, approval, flagged>>

(* create_pending: refused while the execution has a pending approval; any *)
(* status of the execution will do, and is remembered.                     *)
CreatePending(t, a, x, gate) ==
    /\ PendingOf(a) = {}
    /\ Fresh(x)
    /\ Hold(t, {a}, [NoWrite EXCEPT !.status = Net(status[a], "awaiting_user")])
    /\ row' = [row EXCEPT ![t] = [id |-> x, to |->
           [state |-> "pending", agent |-> a, gate |-> gate, pre |-> status[a],
            choice |-> "none"]]]
    /\ UNCHANGED <<rows, old, inbox, launched, sent, waived, approval, flagged>>

(* request_approval, an orchestrator's tool.                               *)
RequestApproval(t, a, x) ==
    /\ Free(t)
    /\ a \in Orchestrators
    /\ Exists(a)
    /\ CreatePending(t, a, x, FALSE)

(* complete_job with findings and no approval by the gate yet: the gate    *)
(* opens a transaction of its own, then refuses the completion.            *)
GateCloseout(t, a) ==
    /\ Free(t)
    /\ a \in Orchestrators
    /\ CompletionAllowed(a)
    /\ ~IsStagingEnd(a)
    /\ GateApprovals(a) = {}
    /\ slot' = [slot EXCEPT ![t] = [IdleSlot EXCEPT !.phase = "gate", !.targets = {a}]]
    /\ UNCHANGED <<rows, old, inbox, launched, sent, waived, approvalVars>>

CreateGateApproval(t, a, x) ==
    /\ slot[t].phase = "gate"
    /\ a \in slot[t].targets
    /\ CreatePending(t, a, x, TRUE)

(* create_pending raises, because another approval got in between or its   *)
(* insert failed: no approval, and no completion.                          *)
RefuseGateApproval(t, a) ==
    /\ slot[t].phase = "gate"
    /\ a \in slot[t].targets
    /\ slot' = [slot EXCEPT ![t] = IdleSlot]
    /\ UNCHANGED <<rows, old, inbox, launched, sent, waived, approvalVars>>

(* complete_job past the gate: a clean result, or findings and a gate      *)
(* approval the user has decided.                                          *)
CompleteOrchestrator(t, a) ==
    /\ CompleteJob(t, a)
    /\ \/ flagged' = flagged \ {a}
       \/ /\ GateDecided(a)
          /\ flagged' = flagged \cup {a}
    /\ UNCHANGED <<approval, row>>

(* Mutant of DecideRead: without the check that the approval is pending.    *)
DecideReadAny(t, x) ==
    /\ Free(t)
    /\ approval[x].state # "none"
    /\ \E choice \in Choices :
         row' = [row EXCEPT ![t] = [id |-> x, to |->
                    [approval[x] EXCEPT !.state = "decided", !.choice = choice]]]
    /\ slot' = [slot EXCEPT ![t] = [IdleSlot EXCEPT !.phase = "decide",
                                    !.targets = {approval[x].agent}]]
    /\ UNCHANGED <<rows, old, inbox, launched, sent, waived, approval, flagged>>

(* mark_decided reads a pending approval ...                               *)
DecideRead(t, x) ==
    /\ Free(t)
    /\ approval[x].state = "pending"
    /\ \E choice \in Choices :
         row' = [row EXCEPT ![t] = [id |-> x, to |->
                    [approval[x] EXCEPT !.state = "decided", !.choice = choice]]]
    /\ slot' = [slot EXCEPT ![t] = [IdleSlot EXCEPT !.phase = "decide",
                                    !.targets = {approval[x].agent}]]
    /\ UNCHANGED <<rows, old, inbox, launched, sent, waived, approval, flagged>>

RowLocked(x) == \E t \in Slots : slot[t].phase = "write" /\ row[t].id = x

(* Mutant of Restored: a parked agent is only resumed to 'working'.         *)
RestoredIfWorking(t, a) ==
    IF status[a] = "awaiting_user" /\ row[t].to.pre = "working"
    THEN [NoWrite EXCEPT !.status = "working"]
    ELSE NoWrite

(* What a decision writes to the execution: its former status, unless it   *)
(* is no longer waiting for the user.                                      *)
Restored(t, a) ==
    IF status[a] = "awaiting_user"
    THEN [NoWrite EXCEPT !.status = IF row[t].to.pre = "awaiting_user"
                                    THEN "working" ELSE row[t].to.pre]
    ELSE NoWrite

(* ... flushes the decision, which waits for the row's lock, and only then *)
(* reads the execution.  Its second look at the row's status is served     *)
(* from the session's identity map and sees 'pending' again.               *)
DecideFlush(t, a) ==
    /\ slot[t].phase = "decide"
    /\ a \in slot[t].targets
    /\ ~RowLocked(row[t].id)
    /\ Hold(t, {a}, Restored(t, a))
    /\ UNCHANGED <<rows, old, inbox, launched, sent, waived, approvalVars>>

CommitA(t) ==
    /\ Commit(t)
    /\ IF t \in Slots
       THEN /\ approval' = [x \in Approvals |-> IF x = row[t].id THEN row[t].to
                                                ELSE approval[x]]
            /\ row' = [row EXCEPT ![t] = NoRow]
       ELSE UNCHANGED <<approval, row>>
    /\ UNCHANGED flagged

-----------------------------------------------------------------------------
ApprovalStep(t, a) ==
    \/ GateCloseout(t, a)
    \/ RefuseGateApproval(t, a)
    \/ CompleteOrchestrator(t, a)
    \/ DecideFlush(t, a)
    \/ \E x \in Approvals : RequestApproval(t, a, x) \/ CreateGateApproval(t, a, x)

CoreStep ==
    /\ \/ \E t \in Slots : RequestStep(t)
       \/ \E t \in Slots, a \in Specialists : CompleteJob(t, a)
       \/ \E m \in Monitors : MonitorStep(m)
       \/ Environment
    /\ UNCHANGED approvalVars

NextA ==
    \/ CoreStep
    \/ \E t \in Txns : CommitA(t)
    \/ \E t \in Slots, a \in Orchestrators : ApprovalStep(t, a)
    \/ \E t \in Slots, x \in Approvals : DecideRead(t, x)

SpecA == InitA /\ [][NextA]_varsA

-----------------------------------------------------------------------------
(* A parked orchestrator can always be released: while its execution is    *)
(* 'awaiting_user' a pending approval exists for the user to decide, even  *)
(* when requests, decisions and the agent's other tools interleave.        *)
AwaitingHasPendingApproval ==
    \A a \in Agents : status[a] = "awaiting_user" => PendingOf(a) # {}

(* create_pending's "single-pending-per-agent invariant".                  *)
SinglePending ==
    \A x, y \in Approvals :
        /\ approval[x].state = "pending" /\ approval[y].state = "pending"
        /\ approval[x].agent = approval[y].agent
        => x = y

(* A decision stands: "UserApproval is not pending" and "Lost race" refuse *)
(* a second one.                                                           *)
DecisionStep == \A x \in Approvals :
    approval[x].state = "decided" => approval'[x] = approval[x]
DecisionsAreFinal == [][DecisionStep]_varsA

(* Only a decision of the user releases a parked orchestrator.             *)
ReleaseStep == \A a \in Agents :
    status[a] = "awaiting_user" /\ status'[a] # "awaiting_user" =>
        \E x \in PendingOf(a) : approval'[x].state = "decided"
OnlyDecisionsRelease == [][ReleaseStep]_varsA

(* A closeout with findings stands on the user's approval of it.  The code  *)
(* accepts any decided gate approval of the execution: one that chose       *)
(* "reject" (Send back for rework), or one of an earlier closeout.          *)
FindingsApproved ==
    \A a \in flagged : \E x \in GateApprovals(a) :
        approval[x].state = "decided" /\ approval[x].choice = "approve"
=============================================================================
