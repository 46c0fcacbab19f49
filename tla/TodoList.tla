------------------------------ MODULE TodoList ------------------------------
(***************************************************************************)
(* The todo list of one agent's job: what report_progress does to the rows *)
(* of agent_todo_items and to the step counts kept on the job, and how     *)
(* complete_job gates on the rows (progress_service.py,                    *)
(* progress_repository.py, job_completion_service.py).                     *)
(*                                                                         *)
(* A report first loads the execution and the job.  Its first query after  *)
(* that flushes the execution's new last_progress_at, which locks that row *)
(* until the commit; so what a report reads of the rows and what it writes *)
(* is one step, and two reports of a job never overlap there.              *)
(***************************************************************************)
EXTENDS Integers, Sequences, FiniteSets, SequencesExt, FiniteSetsExt

CONSTANTS
    Lists,        \* the lists agents send: sequences of [content, status]
    Appends,      \* the lists they append
    Blank,        \* the content of an entry that has none
    Closeouts,    \* the contents that are about the agent's own closeout
    Slots,        \* the calls that may be open at once
    MaxRows,      \* bound: rows a list grows to by appending
    Interleaved   \* may calls overlap?

Statuses == {"pending", "in_progress", "completed", "skipped"}
Entries == UNION {Range(l) : l \in Lists \cup Appends}

TodoAssumption ==
    /\ \A l \in Lists \cup Appends : l \in Seq(Entries)
    /\ \A e \in Entries : e.status \in Statuses
    /\ MaxRows \in Nat /\ Interleaved \in BOOLEAN

VARIABLES
    rows,      \* agent_todo_items of the job, in the order they were inserted
    steps,     \* the counts in the job's metadata
    done,      \* is the execution complete?
    slot       \* the open calls

vars == <<rows, steps, done, slot>>

Idle == [phase |-> "idle", list |-> <<>>, append |-> FALSE, replace |-> FALSE, ticks |-> {}]
NoSteps == [total |-> 0, completed |-> 0, skipped |-> 0]

Init == rows = <<>> /\ steps = NoSteps /\ done = FALSE /\ slot = [t \in Slots |-> Idle]

Quiet == Interleaved \/ \A t \in Slots : slot[t].phase = "idle"

Count(s, status) == Cardinality({i \in DOMAIN s : s[i].status = status})

\* The row of an entry in place n of a list numbered from first on.
RowOf(e, first, n) == [content |-> e.content, status |-> e.status, seq |-> first + n - 1]

\* The entries with content, numbered by their place in the list from first on.
Numbered(list, first) ==
    LET kept[n \in 0..Len(list)] ==
          IF n = 0 THEN <<>>
          ELSE IF list[n].content = Blank THEN kept[n - 1]
          ELSE Append(kept[n - 1], RowOf(list[n], first, n))
    IN  kept[Len(list)]

-----------------------------------------------------------------------------
(* report_progress.                                                        *)

\* The execution and the job are loaded; on a completed one the report is a
\* no-op.
Load(t, list, append, replace) ==
    /\ Quiet /\ slot[t].phase = "idle" /\ ~done
    /\ slot' = [slot EXCEPT ![t] = [phase |-> "loaded", list |-> list, append |-> append,
                                    replace |-> replace, ticks |-> {}]]
    /\ UNCHANGED <<rows, steps, done>>

(* Mutant of Regresses: the guard looks at the length of the lists. *)
RegressesInLength(list) == Len(list) < Count(rows, "completed")

\* The guard against lost work compares numbers of completed entries.
Regresses(list) == Count(list, "completed") < Count(rows, "completed")

\* The guard against dropped rows, which the caller can waive.
Shrinks(list, replace) == ~replace /\ Len(Numbered(list, 0)) < Len(rows)

Unchanged(list) == Len(rows) = Len(Numbered(list, 0)) /\ Range(rows) = Range(Numbered(list, 0))

\* todo_items: the whole list replaces the rows, unless it is the same list or
\* a guard refuses it, which takes the whole report back.
Replace(t) ==
    LET list == slot[t].list IN
    /\ slot[t].phase = "loaded" /\ ~slot[t].append
    /\ IF ~Unchanged(list) /\ (Regresses(list) \/ Shrinks(list, slot[t].replace))
       THEN UNCHANGED <<rows, steps>>
       ELSE /\ rows' = IF Unchanged(list) THEN rows ELSE Numbered(list, 0)
            /\ steps' = [total |-> Len(list), completed |-> Count(list, "completed"), skipped |-> 0]
    /\ slot' = [u \in Slots |->
         IF u = t THEN Idle
         ELSE IF rows' # rows /\ slot[u].ticks # {} THEN [slot[u] EXCEPT !.phase = "stale"] ELSE slot[u]]
    /\ UNCHANGED done

(* Mutant of NextSequence: the number of rows, as if no entry were blank.  *)
NextSequenceByCount == Len(rows)

\* get_max_todo_sequence and the number that follows it: a maximum of zero is
\* falsy and counts as no row at all.
NextSequence ==
    LET top == IF rows = <<>> THEN 0 ELSE Max({rows[i].seq : i \in DOMAIN rows})
    IN  IF top = 0 THEN 0 ELSE top + 1

\* todo_append: the entries are added behind the rows and the counts taken anew.
AppendRows(t) ==
    LET added == Numbered(slot[t].list, NextSequence) IN
    /\ slot[t].phase = "loaded" /\ slot[t].append
    /\ Len(rows) + Len(added) <= MaxRows
    /\ rows' = rows \o added
    /\ steps' = IF added = <<>> THEN steps
                ELSE [total |-> Len(rows'), completed |-> Count(rows', "completed"),
                      skipped |-> Count(rows', "skipped")]
    /\ slot' = [slot EXCEPT ![t] = Idle]
    /\ UNCHANGED done

-----------------------------------------------------------------------------
(* complete_job.                                                           *)

\* The rows still open.
Open == {i \in DOMAIN rows : rows[i].status \notin {"completed", "skipped"}}
OwnCloseout == {i \in Open : rows[i].content \in Closeouts}

\* The gate reads the open rows and lets the completion pass when all of them
\* are about the closeout itself; those it will tick off.
Gate(t) ==
    /\ Quiet /\ slot[t].phase = "idle" /\ ~done
    /\ Open = OwnCloseout
    /\ slot' = [slot EXCEPT ![t] = [Idle EXCEPT !.phase = "passed", !.ticks = OwnCloseout]]
    /\ UNCHANGED <<rows, steps, done>>

Complete(t) ==
    /\ slot[t].phase = "passed"
    /\ rows' = [i \in DOMAIN rows |->
         IF i \in slot[t].ticks THEN [rows[i] EXCEPT !.status = "completed"] ELSE rows[i]]
    /\ done' = TRUE
    /\ slot' = [slot EXCEPT ![t] = Idle]
    /\ UNCHANGED steps

\* A row to tick off was deleted by a replacement in between: the update finds
\* no row and the completion fails.
CompleteFails(t) ==
    /\ slot[t].phase = "stale"
    /\ slot' = [slot EXCEPT ![t] = Idle]
    /\ UNCHANGED <<rows, steps, done>>

\* An action-required post puts the completed agent back to work.
Reactivate ==
    /\ done
    /\ done' = FALSE
    /\ UNCHANGED <<rows, steps, slot>>

-----------------------------------------------------------------------------
Next ==
    \/ \E t \in Slots :
         \/ \E list \in Lists, replace \in BOOLEAN : Load(t, list, FALSE, replace)
         \/ \E list \in Appends : Load(t, list, TRUE, FALSE)
         \/ Replace(t) \/ AppendRows(t) \/ Gate(t) \/ Complete(t) \/ CompleteFails(t)
    \/ Reactivate

Spec == Init /\ [][Next]_vars

-----------------------------------------------------------------------------
(* Rows, counts and open calls have their shape.                           *)
Row == [content : {e.content : e \in Entries} \ {Blank}, status : Statuses, seq : Nat]
TypeOK ==
    /\ rows \in Seq(Row)
    /\ steps \in [total : Nat, completed : Nat, skipped : Nat]
    /\ done \in BOOLEAN
    /\ \A t \in Slots : /\ slot[t].phase \in {"idle", "loaded", "passed", "stale"}
                        /\ slot[t].ticks \subseteq 1..MaxRows

(* The rows have an order: however replacements, appends and completions   *)
(* interleave, no two rows share the number the list is sorted by.  It     *)
(* asks for lists with content behind the first place: a highest number of *)
(* 0 is taken for none, so what is appended to a list of one row gets its  *)
(* number 0 again.                                                         *)
OrderKept == \A i, j \in DOMAIN rows : rows[i].seq = rows[j].seq => i = j

(* No report loses completed work: the number of completed rows never      *)
(* falls, whichever lists overlapping reports bring.                       *)
CompletedKept == [][Count(rows', "completed") >= Count(rows, "completed")]_vars

(* A completed agent has no work open: an ordinary todo blocks the         *)
(* completion until it is done, and a report that comes late is a no-op.   *)
NothingOpenWhenDone == done => Open = {}
=============================================================================
