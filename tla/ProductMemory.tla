---------------------------- MODULE ProductMemory ----------------------------
(***************************************************************************)
(* The numbered 360-memory entries of one product and the calls that write *)
(* them: write_memory_entry, write_project_closeout, the dashboard's       *)
(* completion of a project, the context tuning that is stamped with an     *)
(* entry's number and the deletion of a project (write_memory_entry.py,    *)
(* project_closeout.py, project_lifecycle_service, project_closeout_       *)
(* service.py, product_tuning_service.py, project_deletion_service.py).    *)
(*                                                                         *)
(* A call looks through its gates, reads the highest number, and inserts   *)
(* under the number that follows.  A unique index refuses a number taken   *)
(* meanwhile; the refusal undoes the call.  Two calls are not of a piece:  *)
(* the completion commits although its closeout was refused, and the       *)
(* closeout of a chain's member commits halfway.                           *)
(***************************************************************************)
EXTENDS Integers, FiniteSets, FiniteSetsExt

CONSTANTS
    Projects, Agents,
    Orchestrators,  \* the agents that orchestrate a project
    ProjectOf,      \* the project an agent works for
    Chained,        \* the projects in an active chain run
    Slots,          \* the calls that may be open at once
    None,           \* NULL
    GitEnabled,     \* does the tenant's git integration ask for commits?
    Threshold,      \* the user's tuning_reminder_threshold
    Ops,            \* the operations called
    Interleaved,    \* may calls and agents overlap?
    MaxNumber       \* bound: entries the product gets

Statuses == {"waiting", "working", "resting", "awaiting_user", "complete", "decommissioned"}
OrchestratorOnly == {"completion", "handover"}
Kinds == OrchestratorOnly \cup {"discovery", "closeout"}

MemoryAssumption ==
    /\ Orchestrators \subseteq Agents /\ ProjectOf \in [Agents -> Projects]
    /\ Chained \subseteq Projects
    /\ MaxNumber \in Nat /\ Threshold \in Nat /\ None \notin Projects \cup Nat
    /\ GitEnabled \in BOOLEAN /\ Interleaved \in BOOLEAN
    /\ Ops \subseteq {"write", "close", "complete", "closeout", "delete", "tune", "agents", "owe"}

VARIABLES
    entries,   \* product_memory_entries of the product, by sequence
    executed,  \* the projects with closeout_executed_at
    completed, \* the projects whose status a closeout made completed (or terminated)
    marked,    \* the chained projects that are completed in their run
    marking,   \* the projects whose deletion has marked the entries it saw
    gone,      \* the projects whose row is deleted
    status,    \* of each agent's execution ("working": blocked and silent too)
    owing,     \* what is open on the agent: nothing, its closeout entries, or
               \* other entries or unread posts ("work")
    stamp,     \* last_tuned_at_sequence
    tunedAt,   \* the highest number when the last tuning was applied
    answer,    \* what the last write_memory_entry said, and what was so
    slot       \* the open calls

vars == <<entries, executed, completed, marked, marking, gone, status, owing, stamp, tunedAt, answer, slot>>

Idle == [phase |-> "idle", project |-> None, author |-> None, kind |-> "discovery",
         ticks |-> FALSE, forced |-> FALSE, completes |-> FALSE, picked |-> {}, number |-> 0]

Init ==
    /\ entries = << >> /\ executed = {} /\ completed = {} /\ marked = {} /\ marking = {} /\ gone = {}
    /\ status = [a \in Agents |-> "waiting"] /\ owing = [a \in Agents |-> "none"]
    /\ stamp = None /\ tunedAt = None
    /\ answer = [verified |-> FALSE, ready |-> TRUE]
    /\ slot = [t \in Slots |-> Idle]

Team(p) == {a \in Agents : ProjectOf[a] = p}
Quiet == Interleaved \/ (marking = gone /\ \A t \in Slots : slot[t].phase = "idle")

\* The executions and todo lists whose rows an open call has written.
Held == UNION {slot[t].picked : t \in {u \in Slots : slot[u].phase = "numbered"}}
        \cup {slot[t].author : t \in {u \in Slots : slot[u].ticks}}

\* A completion holds the project's row from its first query on: the changes of
\* the row are flushed then.
RowFree(p) == \A t \in Slots : ~(slot[t].completes /\ slot[t].project = p)

-----------------------------------------------------------------------------
(* The gates, which read the executions without a lock.                    *)

Active == {"waiting", "working"}
Terminal == {"complete", "decommissioned"}

\* evaluate_closeout_readiness as write_project_closeout reads it: the agents
\* not finished.
Unfinished(p) == {a \in Team(p) : status[a] \notin Terminal}

\* As write_memory_entry reads it: another agent is not finished or still owes
\* something, or the author's list is not empty.  In own, the author's entries
\* that the call has ticked off.
Blocked(p, author, own) ==
    \/ \E a \in Team(p) \ {author} :
          status[a] # "decommissioned" /\ (status[a] # "complete" \/ owing[a] # "none")
    \/ owing[author] # "none" /\ ~own

-----------------------------------------------------------------------------
(* write_memory_entry.                                                     *)

\* The call is refused for a kind its author may not write.  An author who
\* asks for it has its closeout entries ticked off before the gates of a
\* completion, and a completion they refuse commits the ticks all the same.
BeginWrite(t, a, kind, ack, commits) ==
    LET p == ProjectOf[a]
        ticks == ack /\ owing[a] = "own" /\ a \notin Held
        refused == kind = "completion" /\ (Blocked(p, a, ticks) \/ (GitEnabled /\ ~commits))
    IN  /\ Quiet /\ slot[t].phase = "idle" /\ p \notin marking \cup gone
        /\ kind \in OrchestratorOnly => a \in Orchestrators
        /\ IF refused
           THEN /\ owing' = IF ticks THEN [owing EXCEPT ![a] = "none"] ELSE owing
                /\ UNCHANGED slot
           ELSE /\ slot' = [slot EXCEPT ![t] = [Idle EXCEPT !.phase = "gated", !.project = p,
                                !.author = a, !.kind = kind, !.ticks = ticks]]
                /\ UNCHANGED owing
        /\ UNCHANGED <<entries, executed, completed, marked, marking, gone, status, stamp, tunedAt, answer>>

-----------------------------------------------------------------------------
(* write_project_closeout and the completion, which calls it by force.     *)

\* Without force the call is refused while an agent is not finished.  The
\* completion (_complete_project_transaction) has set the project's status and
\* stamp and, in a transaction of its own, marked a member in its run.
BeginClose(t, p, force, completes) ==
    /\ Quiet /\ slot[t].phase = "idle" /\ p \notin marking \cup gone
    /\ Unfinished(p) = {} \/ force
    /\ completes => RowFree(p)
    /\ marked' = IF completes THEN marked \cup ({p} \cap Chained) ELSE marked
    /\ slot' = [slot EXCEPT ![t] = [Idle EXCEPT !.phase = IF Unfinished(p) = {} THEN "gated" ELSE "forcing",
                        !.project = p, !.kind = "closeout", !.forced = Unfinished(p) # {},
                        !.completes = completes]]
    /\ UNCHANGED <<entries, executed, completed, marking, gone, status, owing, stamp, tunedAt, answer>>

\* _handle_force_close: an orchestrator at work, or one waiting for specialists
\* in flight, is not decommissioned by the call; otherwise the agents with an
\* active status are picked.  A refused completion catches the refusal and
\* commits its status and stamp; two active orchestrators, which the query of
\* one does not expect, undo it like any other call.
ForceClose(t) ==
    LET p == slot[t].project
        orch == {a \in Team(p) \cap Orchestrators : status[a] \in Active}
        inFlight == {a \in Team(p) \ Orchestrators : status[a] \notin Terminal}
        crashed == \E a, b \in orch : a # b
        refused == orch # {} /\ ((\E a \in orch : status[a] = "working") \/ inFlight # {})
        only == IF refused /\ ~crashed /\ slot[t].completes THEN {p} ELSE {}
    IN  /\ slot[t].phase = "forcing"
        /\ slot' = [slot EXCEPT ![t] =
             IF crashed \/ refused THEN Idle
             ELSE [@ EXCEPT !.phase = "gated", !.picked = {a \in Team(p) : status[a] \in Active}]]
        /\ executed' = executed \cup only /\ completed' = completed \cup only
        /\ UNCHANGED <<entries, marked, marking, gone, status, owing, stamp, tunedAt, answer>>

\* close_out_project: status, stamp and decommissioning without an entry.  No
\* endpoint calls it.
CloseOut(p) ==
    LET open == {a \in Team(p) : status[a] \notin Terminal} IN
    /\ Quiet /\ p \notin marking \cup gone /\ RowFree(p) /\ open \cap Held = {}
    /\ executed' = executed \cup {p} /\ completed' = completed \cup {p}
    /\ marked' = marked \cup ({p} \cap Chained)
    /\ status' = [a \in Agents |-> IF a \in open THEN "decommissioned" ELSE status[a]]
    /\ UNCHANGED <<entries, marking, gone, owing, stamp, tunedAt, answer, slot>>

-----------------------------------------------------------------------------
(* The number and the insert.                                              *)

Highest == Max({0} \cup DOMAIN entries)

\* The picked executions are flushed as decommissioned, which locks them, and
\* the next number is read.
TakeNumber(t) ==
    /\ slot[t].phase = "gated" /\ Highest < MaxNumber
    /\ slot[t].picked \cap Held = {}
    /\ slot[t].picked # {} => slot[t].project \notin marking \ gone
    /\ slot' = [slot EXCEPT ![t].phase = "numbered", ![t].number = Highest + 1]
    /\ UNCHANGED <<entries, executed, completed, marked, marking, gone, status, owing, stamp, tunedAt, answer>>

\* The entries with the one a call inserts under its number.
Inserted(s) ==
    [n \in DOMAIN entries \cup {s.number} |->
        IF n = s.number THEN [project |-> s.project, kind |-> s.kind, deleted |-> FALSE]
        ELSE entries[n]]

\* A closeout's first commit of a chain's member: marking it in its run, on the
\* call's own session, commits what the call has done so far.
Midway(s) == s.kind = "closeout" /\ s.project \in Chained \ marked

\* What the transaction of a numbered call leaves beside the entry.  The status
\* of a solo project is the archive's to change.
Closed(s) ==
    /\ executed' = IF s.kind = "closeout" THEN executed \cup {s.project} ELSE executed
    /\ completed' = IF s.completes \/ (s.kind = "closeout" /\ s.project \in Chained \cap marked)
                    THEN completed \cup {s.project} ELSE completed
    /\ marked' = IF Midway(s) THEN marked \cup {s.project} ELSE marked
    /\ status' = [a \in Agents |-> IF a \in s.picked THEN "decommissioned" ELSE status[a]]
    /\ owing' = IF s.ticks THEN [owing EXCEPT ![s.author] = "none"] ELSE owing

Told(s) == IF Midway(s) THEN [Idle EXCEPT !.phase = "told", !.project = s.project, !.kind = "closeout"]
           ELSE Idle

(* Mutant of Commit: the insert replaces the row that has the number.      *)
CommitUpsert(t) ==
    LET s == slot[t] IN
    /\ s.phase = "numbered" /\ s.project \notin gone
    /\ entries' = Inserted(s)
    /\ Closed(s)
    /\ slot' = [slot EXCEPT ![t] = Told(s)]
    /\ UNCHANGED <<marking, gone, stamp, tunedAt, answer>>

\* create_entry and the rest of the transaction.  write_memory_entry looks at
\* the readiness once more for its answer and takes "not ready" for a yes.
Commit(t) ==
    LET s == slot[t] IN
    /\ s.phase = "numbered" /\ s.number \notin DOMAIN entries /\ s.project \notin gone
    /\ s.kind = "closeout" => s.completes \/ RowFree(s.project)
    /\ entries' = Inserted(s)
    /\ Closed(s)
    /\ answer' = IF s.kind = "closeout" THEN answer
                 ELSE [verified |-> TRUE, ready |-> ~Blocked(s.project, s.author, s.ticks)]
    /\ slot' = [slot EXCEPT ![t] = Told(s)]
    /\ UNCHANGED <<marking, gone, stamp, tunedAt>>

\* The second transaction of a member's closeout: the status of its row.
CompleteMember(t) ==
    LET p == slot[t].project IN
    /\ slot[t].phase = "told" /\ p \notin gone /\ RowFree(p)
    /\ completed' = completed \cup {p}
    /\ slot' = [slot EXCEPT ![t] = Idle]
    /\ UNCHANGED <<entries, executed, marked, marking, gone, status, owing, stamp, tunedAt, answer>>

(* Mutant of Fail: the decommissioning is not undone.                      *)
FailHalfway(t) ==
    /\ slot[t].phase # "idle"
    /\ status' = [a \in Agents |-> IF a \in slot[t].picked THEN "decommissioned" ELSE status[a]]
    /\ slot' = [slot EXCEPT ![t] = Idle]
    /\ UNCHANGED <<entries, executed, completed, marked, marking, gone, owing, stamp, tunedAt, answer>>

\* The number is taken, the project is no longer there, the database ends a
\* deadlock, or the process stops: what the open transaction wrote is undone.
Fail(t) ==
    /\ slot[t].phase # "idle"
    /\ slot' = [slot EXCEPT ![t] = Idle]
    /\ UNCHANGED <<entries, executed, completed, marked, marking, gone, status, owing, stamp, tunedAt, answer>>

-----------------------------------------------------------------------------
(* The deletion of a project and the tuning of the product's context.      *)

\* nuclear_delete_project deletes the agents (their rows stay locked) and marks
\* the entries it sees ...
DeleteMarks(p) ==
    /\ Quiet /\ p \notin marking /\ Team(p) \cap Held = {}
    /\ marking' = marking \cup {p}
    /\ entries' = [n \in DOMAIN entries |->
         IF entries[n].project = p THEN [entries[n] EXCEPT !.deleted = TRUE] ELSE entries[n]]
    /\ UNCHANGED <<executed, completed, marked, gone, status, owing, stamp, tunedAt, answer, slot>>

\* ... and deletes the project's row, which sets its entries' reference to NULL.
DeleteRow(p) ==
    /\ p \in marking \ gone /\ RowFree(p)
    /\ gone' = gone \cup {p}
    /\ entries' = [n \in DOMAIN entries |->
         IF entries[n].project = p THEN [entries[n] EXCEPT !.project = None] ELSE entries[n]]
    /\ UNCHANGED <<executed, completed, marked, marking, status, owing, stamp, tunedAt, answer, slot>>

\* apply_tuning_updates stamps the product.  The stored dictionary itself is
\* changed before an equal one is assigned, so the assignment is no change to
\* write, unless nothing was stored yet.
Tune ==
    /\ Quiet
    /\ stamp' = IF stamp = None THEN Highest ELSE stamp
    /\ tunedAt' = Highest
    /\ UNCHANGED <<entries, executed, completed, marked, marking, gone, status, owing, answer, slot>>

\* check_tuning_staleness, which the reminder and the banner go by.
IsStale == Highest - (IF stamp = None THEN 0 ELSE stamp) >= Threshold

-----------------------------------------------------------------------------
(* What the agents do meanwhile.                                           *)

Moves == {<<"waiting", "working">>, <<"working", "resting">>, <<"resting", "working">>,
          <<"working", "awaiting_user">>, <<"awaiting_user", "working">>,
          <<"working", "complete">>, <<"complete", "working">>}

AgentMoves(a, to) ==
    /\ Quiet /\ a \notin Held /\ ProjectOf[a] \notin marking
    /\ <<status[a], to>> \in Moves
    /\ to = "complete" => owing[a] # "work"
    /\ status' = [status EXCEPT ![a] = to]
    /\ UNCHANGED <<entries, executed, completed, marked, marking, gone, owing, stamp, tunedAt, answer, slot>>

\* The agent's list gets entries, a post comes in, or the work is done.
Owes(a, what) ==
    /\ Quiet /\ a \notin Held /\ ProjectOf[a] \notin marking
    /\ owing[a] = "none" \/ what = "work" \/ (owing[a] = "work" /\ what = "none")
    /\ what = "own" => a \in Orchestrators
    /\ owing' = [owing EXCEPT ![a] = what]
    /\ UNCHANGED <<entries, executed, completed, marked, marking, gone, status, stamp, tunedAt, answer, slot>>

Next ==
    \/ "write" \in Ops /\ \E t \in Slots, a \in Agents, kind \in Kinds \ {"closeout"}, ack, commits \in BOOLEAN :
          BeginWrite(t, a, kind, ack, commits)
    \/ "close" \in Ops /\ \E t \in Slots, p \in Projects, force \in BOOLEAN : BeginClose(t, p, force, FALSE)
    \/ "complete" \in Ops /\ \E t \in Slots, p \in Projects : BeginClose(t, p, TRUE, TRUE)
    \/ "closeout" \in Ops /\ \E p \in Projects : CloseOut(p)
    \/ \E t \in Slots : ForceClose(t) \/ TakeNumber(t) \/ Commit(t) \/ CompleteMember(t) \/ Fail(t)
    \/ "delete" \in Ops /\ \E p \in Projects : DeleteMarks(p) \/ DeleteRow(p)
    \/ "tune" \in Ops /\ Tune
    \/ "agents" \in Ops /\ \E a \in Agents, to \in Statuses : AgentMoves(a, to)
    \/ "owe" \in Ops /\ \E a \in Agents, what \in {"none", "own", "work"} : Owes(a, what)

Spec == Init /\ [][Next]_vars

-----------------------------------------------------------------------------
(* Properties.                                                             *)

\* The shape of the state (product_memory_entry.py, agent_identity.py).
TypeOK ==
    /\ DOMAIN entries \subseteq 1..MaxNumber
    /\ \A n \in DOMAIN entries :
         entries[n] \in [project : Projects \cup {None}, kind : Kinds, deleted : BOOLEAN]
    /\ executed \subseteq Projects /\ completed \subseteq Projects /\ marked \subseteq Chained
    /\ gone \subseteq marking /\ marking \subseteq Projects
    /\ status \in [Agents -> Statuses] /\ owing \in [Agents -> {"none", "own", "work"}]
    /\ {stamp, tunedAt} \subseteq 0..MaxNumber \cup {None}
    /\ answer \in [verified : BOOLEAN, ready : BOOLEAN]
    /\ slot \in [Slots -> [phase : {"idle", "forcing", "gated", "numbered", "told"},
                           project : Projects \cup {None}, author : Agents \cup {None}, kind : Kinds,
                           ticks : BOOLEAN, forced : BOOLEAN, completes : BOOLEAN,
                           picked : SUBSET Agents, number : 0..MaxNumber]]

HasEntry(p) == \E n \in DOMAIN entries : entries[n].project = p /\ entries[n].kind = "closeout"

\* The stamp is what a closeout amounts to: whatever part of one is committed,
\* however it was called, refused, cut short or overlapped, a project carries
\* the stamp exactly when a closeout entry tells of it or its row is completed,
\* and no agent is decommissioned for a closeout that did not happen.  A
\* conductor and the advance of its chain go by the stamp (project_closeout.py,
\* BE-6198).
StampAgrees ==
    \A p \in Projects \ gone :
        /\ p \in executed <=> HasEntry(p) \/ p \in completed
        /\ (\E a \in Team(p) : status[a] = "decommissioned") => p \in executed

\* What is written stays: no later call takes the number of an entry, and none
\* brings an entry marked as deleted back (uq_product_sequence).
EntriesKept ==
    [][\A n \in DOMAIN entries :
         /\ n \in DOMAIN entries' /\ entries'[n].kind = entries[n].kind
         /\ entries'[n].project \in {entries[n].project, None}
         /\ entries[n].deleted => entries'[n].deleted]_vars

\* One call after the other never meets a number that is taken, whatever was
\* deleted before (get_next_sequence counts entries marked as deleted).
NumberFree == \A t \in Slots : slot[t].phase = "numbered" => slot[t].number \notin DOMAIN entries

\* Calls one after the other: when a closeout without force commits, every
\* agent of the project is finished, and when a completion does, everyone but
\* its author is (evaluate_closeout_readiness).
ClosingStep ==
    \A t \in Slots :
        (slot[t].phase = "numbered" /\ DOMAIN entries' # DOMAIN entries /\ slot[t].number \in DOMAIN entries')
        => /\ slot[t].kind = "closeout" /\ ~slot[t].forced
              => \A a \in Team(slot[t].project) : status[a] \in Terminal
           /\ slot[t].kind = "completion"
              => \A a \in Team(slot[t].project) \ {slot[t].author} : status[a] \in Terminal

\* The stamp is the number the last tuning saw (context_tuning_banner.py: the
\* tuning "stamps last_tuned_at_sequence to the current project sequence on
\* every tune").
StampIsLastTune == stamp = tunedAt

\* A reminder is due only when as many projects were completed since the last
\* tuning (context_tuning_banner.py).
StaleMeansProjects ==
    IsStale => Cardinality({entries[n].project : n \in
                   {m \in DOMAIN entries : /\ tunedAt # None => m > tunedAt
                                           /\ entries[m].kind \in {"completion", "closeout"}}}) >= Threshold

\* write_memory_entry says that all agents are finished and all lists empty only
\* when they are (write_memory_entry.py, _check_closeout_readiness).
AnswerTruthful == answer.verified => answer.ready

\* Closeout entries are ticked off only by the write they wait for
\* (write_memory_entry.py, acknowledge_closeout_todo).
TicksWithEntry ==
    [][\A a \in Agents : owing[a] = "own" /\ owing'[a] = "none" => DOMAIN entries' # DOMAIN entries]_vars

\* A forced closeout leaves nobody behind (project_closeout.py: "auto-
\* decommissions any remaining active agents before closing").
ForcedLeavesNobody ==
    [][\A t \in Slots :
         (slot[t].forced /\ slot[t].phase = "numbered" /\ slot[t].number \in DOMAIN entries' \ DOMAIN entries)
         => \A a \in Team(slot[t].project) : status'[a] \in Terminal]_vars

\* A forced closeout stops no specialist in flight (_memory_tools.py: force is
\* refused "while any specialist is still in flight").
NoWorkForcedOut ==
    [][\A t \in Slots :
         (slot[t].forced /\ slot[t].phase = "numbered" /\ slot'[t].phase # "numbered")
         => \A a \in slot[t].picked \ Orchestrators :
               status[a] = "working" => status'[a] # "decommissioned"]_vars

\* A completed project has its entry (README.md: "Each completed project writes
\* to 360 Memory automatically").
CompletedTold == \A p \in completed \ gone : HasEntry(p)

\* A member's entry and the status of its row come in one transaction
\* (project_closeout.py: "flip the project ROW here in the same transaction").
MemberAtOnce == \A p \in Chained \ gone : HasEntry(p) => p \in completed

\* The entries of a deleted project are marked (mark_entries_deleted: "Called
\* when a project is deleted - marks entries as deleted").
DeletedMarked == \A n \in DOMAIN entries : entries[n].project = None => entries[n].deleted
==========================================================================
