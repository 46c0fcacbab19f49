------------------------------ MODULE JobBoard ------------------------------
(* The agents of the open project as the dashboard shows them: one store   *)
(* of rows, replaced by every load of a project's jobs, patched by events  *)
(* in the order they arrive, progress through a debounce, and filtered by  *)
(* project when shown.                                                     *)
(*                                                                         *)
(* An agent's status and progress are version numbers of their own, since  *)
(* different events carry them.  The messages-waiting counts are left out. *)
EXTENDS Naturals, SequencesExt

CONSTANTS Agents,
          Projects,
          ProjectOf(_),  \* the project of an agent
          None,          \* no row, no progress
          Loads,         \* loads of jobs in flight at once (bound)
          MaxVersion,    \* statuses and progress reports of an agent (bound)
          MaxWire,       \* events announced and not yet delivered (bound)
          Ops            \* of {"remove", "switch", "hasty", "reconnect", "overlap", "overtake"}

Versions == 0..MaxVersion
Rows == [status : Versions, progress : Versions, home : BOOLEAN]

JobBoardAssumption ==
    /\ \A a \in Agents : ProjectOf(a) \in Projects
    /\ MaxVersion \in Nat /\ MaxWire \in Nat \ {0}
    /\ None \notin Rows \cup Versions
    /\ Ops \subseteq {"remove", "switch", "hasty", "reconnect", "overlap", "overtake"}

VARIABLES
    rows,     \* the server's rows
    wire,     \* events on their way, in the order of their announcement
    open,     \* the project on screen
    load,     \* loads in flight: their project, and the rows they read
    board,    \* jobsById
    pending   \* pendingUpdates: the progress that waits for its debounce

vars == <<rows, wire, open, load, board, pending>>

Row(status, progress, home) == [status |-> status, progress |-> progress, home |-> home]
NoLoad == [step |-> "idle", project |-> CHOOSE p \in Projects : TRUE, rows |-> [a \in Agents |-> None]]
Event(kind, a, version) == [kind |-> kind, agent |-> a, version |-> version]

TypeOK ==
    /\ rows \in [Agents -> Rows \cup {None}]
    /\ \A i \in DOMAIN wire : /\ wire[i].kind \in {"created", "status", "progress", "removed"}
                              /\ wire[i].agent \in Agents /\ wire[i].version \in Versions
    /\ Len(wire) <= MaxWire
    /\ open \in Projects
    /\ \A l \in Loads : /\ load[l].step \in {"idle", "sent", "read"} /\ load[l].project \in Projects
                        /\ load[l].rows \in [Agents -> Rows \cup {None}]
    /\ board \in [Agents -> Rows \cup {None}]
    /\ pending \in [Agents -> Versions \cup {None}]

Init ==
    /\ rows = [a \in Agents |-> None]
    /\ wire = <<>>
    /\ open \in Projects
    /\ load = [l \in Loads |-> NoLoad]
    /\ board = [a \in Agents |-> None]
    /\ pending = [a \in Agents |-> None]

-----------------------------------------------------------------------------
(* The server: each change is announced after its commit, and two requests *)
(* may announce theirs in the other order.                                 *)

Announce(e) ==
    /\ Len(wire) < MaxWire
    /\ \/ wire' = Append(wire, e)
       \/ /\ "overtake" \in Ops /\ wire # <<>>
          /\ wire' = InsertAt(wire, Len(wire), e)

Change(a, row, e) ==
    /\ rows' = [rows EXCEPT ![a] = row]
    /\ Announce(e)
    /\ UNCHANGED <<open, load, board, pending>>

Create(a) == rows[a] = None /\ Change(a, Row(0, 0, TRUE), Event("created", a, 0))
SetStatus(a) ==
    /\ rows[a] # None /\ rows[a].status < MaxVersion
    /\ LET v == rows[a].status + 1 IN Change(a, [rows[a] EXCEPT !.status = v], Event("status", a, v))
Report(a) ==
    /\ rows[a] # None /\ rows[a].progress < MaxVersion
    /\ LET v == rows[a].progress + 1 IN Change(a, [rows[a] EXCEPT !.progress = v], Event("progress", a, v))
\* A fixture that never ran is deleted with its project's deactivation.
Delete(a) ==
    /\ "remove" \in Ops /\ rows[a] = Row(0, 0, TRUE)
    /\ Change(a, None, Event("removed", a, 0))

-----------------------------------------------------------------------------
(* Loads.                                                                  *)

\* Nothing overlaps a load between its read and its answer.
Apart == "overlap" \in Ops \/ \A l \in Loads : load[l].step # "read"

Begin(l, p) == load[l].step = "idle" /\ load' = [load EXCEPT ![l] = [NoLoad EXCEPT !.step = "sent", !.project = p]]
\* The page shows another project and loads its jobs.  A hasty user is back
\* before the debounce of what was reported when it was open last.
Switch(l, p) ==
    /\ "switch" \in Ops /\ p # open
    /\ "hasty" \in Ops \/ \A a \in Agents : ProjectOf(a) = p => pending[a] = None
    /\ "overlap" \in Ops \/ load = [k \in Loads |-> NoLoad]
    /\ open' = p /\ Begin(l, p)
    /\ UNCHANGED <<rows, wire, board, pending>>
\* The socket is lost with its events; the new one loads the jobs again,
\* long after any debounce.
Reconnect(l) ==
    /\ "reconnect" \in Ops /\ Apart /\ \A a \in Agents : pending[a] = None
    /\ wire' = <<>> /\ Begin(l, open)
    /\ UNCHANGED <<rows, open, board, pending>>
Read(l) ==
    /\ load[l].step = "sent"
    /\ load' = [load EXCEPT ![l].step = "read",
                            ![l].rows = [a \in Agents |-> IF ProjectOf(a) = load[l].project THEN rows[a] ELSE None]]
    /\ UNCHANGED <<rows, wire, open, board, pending>>
\* setJobs: the answer is the board, whatever project is open by now.
SetJobs(l) ==
    /\ load[l].step = "read"
    /\ board' = load[l].rows
    /\ load' = [load EXCEPT ![l] = NoLoad]
    /\ UNCHANGED <<rows, wire, open, pending>>

-----------------------------------------------------------------------------
(* Events.                                                                 *)

\* agent:created: a new row, or the old one with the event's fields.
Born(row) == IF row = None THEN Row(0, 0, TRUE) ELSE [row EXCEPT !.status = 0, !.home = TRUE]
\* A progress patch names no project: it never makes a row that is shown.
Patched(row, v) == IF row = None THEN Row(0, v, FALSE) ELSE [row EXCEPT !.progress = v]
\* flushPendingForJob, before a status is set.
Flushed(a) == IF pending[a] = None THEN board[a] ELSE Patched(board[a], pending[a])

\* defaultShouldRoute drops the events of other projects.
Deliver ==
    /\ wire # <<>> /\ Apart
    /\ wire' = Tail(wire)
    /\ LET e == Head(wire)  a == Head(wire).agent IN
       IF ProjectOf(a) # open THEN UNCHANGED <<board, pending>>
       ELSE CASE e.kind = "created" ->
                    board' = [board EXCEPT ![a] = Born(board[a])] /\ UNCHANGED pending
              [] e.kind = "progress" ->
                    pending' = [pending EXCEPT ![a] = e.version] /\ UNCHANGED board
              [] e.kind = "removed" ->
                    board' = [board EXCEPT ![a] = None] /\ UNCHANGED pending
              [] e.kind = "status" /\ board[a] = None -> UNCHANGED <<board, pending>>
              [] e.kind = "status" /\ board[a] # None ->
                    /\ board' = [board EXCEPT ![a] = [Flushed(a) EXCEPT !.status = e.version, !.home = TRUE]]
                    /\ pending' = [pending EXCEPT ![a] = None]
    /\ UNCHANGED <<rows, open, load>>

\* The debounce ends: flushPendingUpdates.
Flush ==
    /\ \E a \in Agents : pending[a] # None
    /\ board' = [a \in Agents |-> Flushed(a)]
    /\ pending' = [a \in Agents |-> None]
    /\ UNCHANGED <<rows, wire, open, load>>

Next ==
    \/ \E a \in Agents : Create(a) \/ SetStatus(a) \/ Report(a) \/ Delete(a)
    \/ \E l \in Loads : Reconnect(l) \/ Read(l) \/ SetJobs(l) \/ \E p \in Projects : Switch(l, p)
    \/ Deliver \/ Flush

Spec == Init /\ [][Next]_vars

-----------------------------------------------------------------------------
(* Properties.                                                             *)

Quiet == wire = <<>> /\ (\A l \in Loads : load[l].step = "idle") /\ \A a \in Agents : pending[a] = None
Shown(a) == IF board[a] # None /\ board[a].home THEN board[a] ELSE None

\* At rest the open project's agents are shown as the server holds them,
\* after lost events, removals, switches and debounced progress; it holds
\* of the loads that nothing overlaps, and not of the others (setJobs takes
\* an answer for the present state of the project on screen).
RowsSettle == Quiet => \A a \in Agents : ProjectOf(a) = open => Shown(a) = rows[a]
=============================================================================
