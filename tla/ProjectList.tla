----------------------------- MODULE ProjectList -----------------------------
(* The project list of the dashboard: one store whose rows are fetched by  *)
(* the Projects page (filters, debounced search, deduplicated requests),   *)
(* by bare refreshes of other views and of realtime events, and changed    *)
(* optimistically by an activation that may fail.                          *)
(*                                                                         *)
(* Requests overlap and are answered in any order; what the server holds   *)
(* is a version number.  A list is the query it answers and the version    *)
(* it was read at.  One project is followed through its rows: an event     *)
(* about it fetches it alone, and the answer replaces its row, wherever    *)
(* that row came from.                                                     *)
EXTENDS Naturals

CONSTANTS Queries,     \* filters of the Projects page
          First,       \* the filter a page opens with
          Bare,        \* the default list: no remembered query
          Statuses,    \* statuses of the project that is followed
          Selects,     \* the statuses a list selects
          Slots,       \* fetchProjects calls in flight at once (bound)
          Pulls,       \* fetchProject calls in flight at once (bound)
          MaxChanges,  \* changes of the server's projects (bound)
          Failures,    \* a fetch may fail
          Ops          \* of {"search", "activate", "leave", "stray"}

ListAssumption ==
    /\ First \in Queries /\ Bare \notin Queries
    /\ Statuses # {} /\ Selects \in [Queries \cup {Bare} -> SUBSET Statuses]
    /\ MaxChanges \in Nat /\ Failures \in BOOLEAN
    /\ Ops \subseteq {"search", "activate", "leave", "stray"}

VARIABLES
    page,      \* the view on screen: "projects" or "other"
    opening,   \* an onMounted of the Projects page awaits the products
    query,     \* the filter chosen on the page
    typed,     \* the search box's debounce will fetch this query
    asked,     \* _lastParamsJson of the page
    stray,     \* what a page that is gone will still fetch
    last,      \* _lastListOpts
    call,      \* the calls for a list in flight
    pull,      \* the calls for the project that is followed
    shown,     \* projects: the list on screen, its query, the version it was
               \* read at, and the version its row of the project shows, if any
    failed,    \* the newest call failed and none succeeded since
    optimist,  \* an activation awaits its answer
    world,     \* version of the server's projects
    item,      \* the project that is followed, and its last version
    news,      \* how many events of a kind are on their way
    owed       \* history: the newest change that a list is fetched for

pageVars == <<page, opening, query, typed, asked, stray>>
listVars == <<last, call, shown, failed>>
serverVars == <<world, item, news, owed>>
vars == <<pageVars, listVars, pull, optimist, serverVars>>

Lists == Queries \cup {Bare}
Idle == [step |-> "idle", query |-> Bare, version |-> 0, rows |-> {}, newest |-> FALSE]
Sent(q) == [Idle EXCEPT !.step = "sent", !.query = q, !.newest = TRUE]
NoPull == [step |-> "idle", version |-> 0]
\* The versions of the project on a list the server answers with.
Listed(q) == IF item.status \in Selects[q] THEN {item.version} ELSE {}

TypeOK ==
    /\ page \in {"projects", "other"} /\ opening \in BOOLEAN
    /\ query \in Lists /\ typed \in Lists /\ asked \in Lists /\ stray \in Lists
    /\ last \in Lists
    /\ call \in [Slots -> [step : {"idle", "sent", "read"}, query : Lists, version : 0..MaxChanges,
                           rows : SUBSET (0..MaxChanges), newest : BOOLEAN]]
    /\ pull \in [Pulls -> [step : {"idle", "sent", "read"}, version : 0..MaxChanges]]
    /\ shown \in [query : Lists, version : 0..MaxChanges, rows : SUBSET (0..MaxChanges), whole : BOOLEAN]
    /\ failed \in BOOLEAN
    /\ optimist \in {"none", "here", "elsewhere"}
    /\ world \in 0..MaxChanges /\ owed \in 0..MaxChanges
    /\ item \in [version : 0..MaxChanges, status : Statuses]
    /\ news \in [{"created", "updated"} -> 0..MaxChanges]

Init ==
    /\ page = "other" /\ opening = FALSE
    /\ query = Bare /\ typed = Bare /\ asked = Bare /\ stray = Bare /\ last = Bare
    /\ call = [s \in Slots |-> Idle] /\ pull = [r \in Pulls |-> NoPull]
    /\ world = 0 /\ owed = 0 /\ news = [kind \in {"created", "updated"} |-> 0]
    /\ item \in [version : {0}, status : Statuses]
    /\ shown = [query |-> Bare, version |-> 0, rows |-> Listed(Bare), whole |-> TRUE]
    /\ failed = FALSE /\ optimist = "none"

-----------------------------------------------------------------------------
(* fetchProjects.                                                          *)

\* The anti-clobber guard: a bare refresh replays the remembered query.
Replayed(q) == IF q = Bare THEN last ELSE q

\* Dispatch: the call takes the next fetchSeq and every older one loses it.
Dispatch(s, q) ==
    /\ call[s].step = "idle"
    /\ last' = q
    /\ call' = [t \in Slots |-> IF t = s THEN Sent(q) ELSE [call[t] EXCEPT !.newest = FALSE]]
Fetch(s, q) == Dispatch(s, Replayed(q)) /\ UNCHANGED <<shown, failed>>

\* The server reads its rows.
Read(s) ==
    /\ call[s].step = "sent"
    /\ call' = [call EXCEPT ![s].step = "read", ![s].version = world, ![s].rows = Listed(call[s].query)]
    /\ UNCHANGED <<pageVars, last, shown, failed, pull, optimist, serverVars>>

\* Mutant: whatever is answered is shown.
CurrentAlways(s) == TRUE
\* An answer is dropped unless its call is still the newest.
Current(s) == call[s].newest
Answer(s) ==
    /\ call[s].step = "read"
    /\ call' = [call EXCEPT ![s] = Idle]
    /\ IF Current(s)
       THEN /\ shown' = [query |-> call[s].query, version |-> call[s].version,
                         rows |-> call[s].rows, whole |-> TRUE]
            /\ failed' = FALSE
            /\ optimist' = IF optimist = "here" THEN "elsewhere" ELSE optimist
       ELSE UNCHANGED <<shown, failed, optimist>>
    /\ UNCHANGED <<pageVars, last, pull, serverVars>>
Lose(s) ==
    /\ Failures /\ call[s].step \in {"sent", "read"}
    /\ call' = [call EXCEPT ![s] = Idle]
    /\ failed' = (failed \/ Current(s))
    /\ UNCHANGED <<pageVars, last, shown, pull, optimist, serverVars>>

-----------------------------------------------------------------------------
(* fetchProject.                                                           *)

\* _upsertEntity: the row is replaced where it stands, and put nowhere else.
Upserted(version) == [shown EXCEPT !.rows = IF @ = {} THEN {} ELSE {version}]

ReadRow(r) ==
    /\ pull[r].step = "sent"
    /\ pull' = [pull EXCEPT ![r].step = "read", ![r].version = item.version]
    /\ UNCHANGED <<pageVars, listVars, optimist, serverVars>>

\* Every answer is shown: the filter is not asked again, nor what was shown.
AnswerRow(r) ==
    /\ pull[r].step = "read"
    /\ pull' = [pull EXCEPT ![r] = NoPull]
    /\ shown' = Upserted(pull[r].version)
    /\ UNCHANGED <<pageVars, last, call, failed, optimist, serverVars>>
LoseRow(r) ==
    /\ Failures /\ pull[r].step \in {"sent", "read"}
    /\ pull' = [pull EXCEPT ![r] = NoPull]
    /\ UNCHANGED <<pageVars, listVars, optimist, serverVars>>

-----------------------------------------------------------------------------
(* The Projects page.                                                      *)

\* fetchPage: the same parameters are not asked twice in a row.
FetchPage(s, q) ==
    /\ asked' = q
    /\ IF asked = q THEN UNCHANGED listVars ELSE Fetch(s, q)

Open ==
    /\ page = "other"
    /\ page' = "projects" /\ opening' = TRUE
    /\ query' = First /\ typed' = Bare /\ asked' = Bare
    /\ UNCHANGED <<stray, listVars, pull, optimist, serverVars>>

\* The products are there: the first page is fetched.
Opened(s) ==
    /\ opening
    /\ opening' = FALSE
    /\ FetchPage(s, query)
    /\ UNCHANGED <<page, query, typed, stray, pull, optimist, serverVars>>

Filter(s, q) ==
    /\ page = "projects" /\ q # query
    /\ query' = q
    /\ FetchPage(s, q)
    /\ UNCHANGED <<page, opening, typed, stray, pull, optimist, serverVars>>

\* The search box: the query counts at once, the fetch waits for a pause.
Type(q) ==
    /\ "search" \in Ops /\ page = "projects" /\ q # query
    /\ query' = q /\ typed' = q
    /\ UNCHANGED <<page, opening, asked, stray, listVars, pull, optimist, serverVars>>
Search(s) ==
    /\ typed # Bare
    /\ typed' = Bare
    /\ FetchPage(s, query)
    /\ UNCHANGED <<page, opening, query, stray, pull, optimist, serverVars>>

\* Leaving: clearListQuery, then the next view's bare fetch.  Neither the
\* debounce nor a mount that still waits is cancelled: their fetch comes
\* from a page that is gone.
Pending == (typed # Bare \/ opening) /\ asked # query
Leave(s) ==
    /\ "leave" \in Ops /\ page = "projects"
    /\ Pending => "stray" \in Ops /\ stray = Bare
    /\ page' = "other" /\ opening' = FALSE
    /\ query' = Bare /\ typed' = Bare /\ asked' = Bare
    /\ stray' = IF Pending THEN query ELSE stray
    /\ Dispatch(s, Bare)
    /\ UNCHANGED <<shown, failed, pull, optimist, serverVars>>
Stray(s) ==
    /\ stray # Bare
    /\ stray' = Bare /\ Fetch(s, stray)
    /\ UNCHANGED <<page, opening, query, typed, asked, pull, optimist, serverVars>>

\* reloadProjects forgets what was asked.
Reload(s) ==
    /\ page = "projects" /\ ~opening
    /\ asked' = query /\ Fetch(s, query)
    /\ UNCHANGED <<page, opening, query, typed, stray, pull, optimist, serverVars>>

-----------------------------------------------------------------------------
(* What changes on the server.                                             *)

Changed(kind) ==
    /\ world < MaxChanges /\ world' = world + 1
    /\ news' = [news EXCEPT ![kind] = @ + 1]

\* Another project is created.
Create ==
    /\ Changed("created") /\ owed' = world'
    /\ UNCHANGED <<pageVars, listVars, pull, optimist, item>>

\* The followed project is renamed, launched, closed, ... by someone else.
Update(status) ==
    /\ Changed("updated") /\ item' = [version |-> world', status |-> status]
    /\ UNCHANGED <<pageVars, listVars, pull, optimist, owed>>

\* By the page's user: the answer's row is put in place, and reloadProjects
\* follows.
Mutate(s, status) ==
    /\ page = "projects" /\ ~opening
    /\ Changed("updated") /\ item' = [version |-> world', status |-> status]
    /\ owed' = world'
    /\ shown' = Upserted(world')
    /\ asked' = query /\ Dispatch(s, Replayed(query))
    /\ UNCHANGED <<page, opening, query, typed, stray, failed, pull, optimist>>

-----------------------------------------------------------------------------
(* Realtime and optimistic changes.                                        *)

\* handleRealtimeUpdate of "created", and project:created: refreshList.
Refresh(s) ==
    /\ news["created"] > 0 /\ news' = [news EXCEPT !["created"] = @ - 1]
    /\ Fetch(s, last)
    /\ UNCHANGED <<pageVars, pull, optimist, world, item, owed>>

\* handleRealtimeUpdate of any other event: fetchProject.
Notice(r) ==
    /\ news["updated"] > 0 /\ news' = [news EXCEPT !["updated"] = @ - 1]
    /\ pull[r].step = "idle" /\ pull' = [pull EXCEPT ![r].step = "sent"]
    /\ UNCHANGED <<pageVars, listVars, optimist, world, item, owed>>

\* A reconnect: the events on their way are lost, and refreshList makes up
\* for them.
Reconnect(s) ==
    /\ news' = [kind \in {"created", "updated"} |-> 0]
    /\ owed' = world
    /\ Fetch(s, last)
    /\ UNCHANGED <<pageVars, pull, optimist, world, item>>

\* activateProject and deactivateProject of another project: its row is
\* flipped at its index, and put back there when the call fails.
Optimistic ==
    /\ "activate" \in Ops /\ optimist = "none" /\ page = "projects"
    /\ optimist' = "here"
    /\ UNCHANGED <<pageVars, listVars, pull, serverVars>>
Reconcile(s) ==
    /\ optimist # "none" /\ world < MaxChanges
    /\ optimist' = "none" /\ world' = world + 1 /\ owed' = world'
    /\ Fetch(s, last)
    /\ UNCHANGED <<pageVars, pull, item, news>>
RollBack ==
    /\ optimist # "none"
    /\ optimist' = "none"
    /\ shown' = [shown EXCEPT !.whole = @ /\ optimist = "here"]
    /\ UNCHANGED <<pageVars, last, call, failed, pull, serverVars>>

Next ==
    \/ \E s \in Slots :
        \/ Read(s) \/ Answer(s) \/ Lose(s) \/ Opened(s) \/ Search(s)
        \/ Leave(s) \/ Stray(s) \/ Reload(s) \/ Refresh(s) \/ Reconnect(s) \/ Reconcile(s)
        \/ \E q \in Queries : Filter(s, q)
        \/ \E status \in Statuses : Mutate(s, status)
    \/ \E r \in Pulls : Notice(r) \/ ReadRow(r) \/ AnswerRow(r) \/ LoseRow(r)
    \/ \E q \in Queries : Type(q)
    \/ \E status \in Statuses : Update(status)
    \/ Open \/ Create \/ Optimistic \/ RollBack

Spec == Init /\ [][Next]_vars

-----------------------------------------------------------------------------
(* Properties.                                                             *)

Quiet ==
    /\ news["created"] = 0 /\ news["updated"] = 0
    /\ typed = Bare /\ ~opening /\ stray = Bare
    /\ \A s \in Slots : call[s].step = "idle"
    /\ \A r \in Pulls : pull[r].step = "idle"

\* Whatever overlapped - filters changed in a row, refreshes of events, of
\* reconnects and of other stores, answers in the wrong order, rows replaced
\* in between - a page that has come to rest lists what its user's filter
\* selects at a moment no older than the newest project created, the user's
\* own last change and the last reconnect (fetchSeq, _lastListOpts, the
\* anti-clobber guard).  Of changes others make to a listed project it says
\* nothing: see ListRowsSettle.
ListSettled ==
    page = "projects" /\ Quiet /\ ~failed =>
        shown.query = query /\ shown.version >= owed

\* What the comments promise and the code does not keep: a project's row is
\* the server's, on the lists that select it and on no other,
ListRowsSettle == page = "projects" /\ Quiet /\ ~failed => shown.rows = Listed(query)
\* other views show the default list,
OthersGetTheDefault == page = "other" /\ Quiet /\ ~failed => shown.query = Bare
\* and a rolled-back activation leaves the rows of the list as they are.
RollbackRestores == shown.whole
=============================================================================
