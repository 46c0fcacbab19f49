----------------------------- MODULE StageFlags -----------------------------
(* The staging flags of the project page: what the browser derives from    *)
(* events, from fetches of the project and from its own calls, beside the  *)
(* staging columns of the row the server holds.                            *)
(*                                                                         *)
(* Events come in order over the socket; fetches and answers of calls come *)
(* over connections of their own, at any time.  A service call reads and   *)
(* commits in one step, but for the end of staging, which is announced     *)
(* before it is committed.                                                 *)
EXTENDS Naturals, Sequences

CONSTANTS Gets,     \* fetches of the project in flight at once (bound)
          MaxWire,  \* events on their way (bound)
          Ops       \* of {"touch", "reconnect", "abort", "late", "others", "blind"}

StageFlagsAssumption ==
    /\ MaxWire \in Nat \ {0}
    /\ Ops \subseteq {"touch", "reconnect", "abort", "late", "others", "blind"}

VARIABLES
    row,     \* staging_status and implementation_launched_at, as committed
    ending,  \* staging_complete is announced and not yet committed
    wire,    \* events on their way to the browser
    get,     \* fetches of the project, with the row they read
    own,     \* the call of this browser that is under way
    page     \* the flags of the project in projectStateStore

vars == <<row, ending, wire, get, own, page>>

Rows == [staging : {"none", "staged", "staging", "complete"}, launched : BOOLEAN]
Fresh == [staging |-> "none", launched |-> FALSE]
NoGet == [step |-> "idle", row |-> Fresh]
NoFlags == [staged |-> FALSE, staging |-> FALSE, complete |-> FALSE, launched |-> FALSE]

TypeOK ==
    /\ row \in Rows /\ ending \in BOOLEAN
    /\ wire \in Seq({"mission", "complete", "launched", "touch"}) /\ Len(wire) <= MaxWire
    /\ get \in [Gets -> [step : {"idle", "sent", "read"}, row : Rows]]
    /\ own \in {"none", "generating", "stage", "restage", "unstage"}
    /\ page \in [staged : BOOLEAN, staging : BOOLEAN, complete : BOOLEAN, launched : BOOLEAN]

Init ==
    /\ row = Fresh /\ ending = FALSE /\ wire = <<>>
    /\ get = [g \in Gets |-> NoGet]
    /\ own = "none" /\ page = NoFlags

-----------------------------------------------------------------------------
(* The server.                                                             *)

Announce(event) == Len(wire) < MaxWire /\ wire' = Append(wire, event)
\* An agent holds the prompt of this staging cycle, or of an earlier one.
Prompted == (row.staging # "none" /\ own \notin {"generating", "stage"}) \/ "late" \in Ops

\* update_project_mission: staging_complete is not downgraded, the event
\* is the same.
WriteMission ==
    /\ Prompted /\ ~ending
    /\ row' = [row EXCEPT !.staging = IF @ = "complete" THEN @ ELSE "staging"]
    /\ Announce("mission")
    /\ UNCHANGED <<ending, get, own, page>>

\* mark_staging_complete flushes and announces; its caller commits, or not.
EndStaging ==
    /\ Prompted /\ ~ending /\ row.staging \in {"staged", "staging"}
    /\ ending' = TRUE
    /\ Announce("complete")
    /\ UNCHANGED <<row, get, own, page>>
CommitEnd ==
    /\ ending /\ ending' = FALSE
    /\ row' = [row EXCEPT !.staging = "complete"]
    /\ UNCHANGED <<wire, get, own, page>>
AbortEnd ==
    /\ ending /\ "abort" \in Ops /\ ending' = FALSE
    /\ UNCHANGED <<row, wire, get, own, page>>

LaunchImplementation ==
    /\ row.staging = "complete" /\ ~ending
    /\ row' = [row EXCEPT !.launched = TRUE]
    /\ Announce("launched")
    /\ UNCHANGED <<ending, get, own, page>>

\* A change of the project that leaves its staging alone.
Touch ==
    /\ "touch" \in Ops /\ Announce("touch")
    /\ UNCHANGED <<row, ending, get, own, page>>

\* What restage and unstage require, and what every one of them leaves.
MayRestage == row.staging = "staging" \/ (row.staging = "complete" /\ ~row.launched)
MayUnstage == row.staging = "staged"
\* Another browser restages or unstages: nobody is told.
Elsewhere ==
    /\ "others" \in Ops /\ ~ending /\ (MayRestage \/ MayUnstage)
    /\ row' = Fresh
    /\ UNCHANGED <<ending, wire, get, own, page>>

-----------------------------------------------------------------------------
(* The buttons of this browser.                                            *)

CanRestage == page.complete /\ ~page.launched /\ ~page.staging
Click(call) == own = "none" /\ ~page.staging /\ own' = call /\ UNCHANGED <<ending, wire, get, page>>

\* The generator commits `staging', mark_staged makes it `staged'.
Stage ==
    /\ Click("generating") /\ ~page.staged /\ ~page.complete
    /\ row.staging \notin {"staged", "staging"} /\ ~ending
    /\ row' = [row EXCEPT !.staging = "staging"]
MarkStaged ==
    /\ own = "generating" /\ own' = "stage" /\ ~ending
    /\ row' = [row EXCEPT !.staging = "staged"]
    /\ UNCHANGED <<ending, wire, get, page>>
Unstage ==
    /\ Click("unstage") /\ page.staged
    /\ MayUnstage /\ ~ending
    /\ row' = [row EXCEPT !.staging = "none"]
Restage ==
    /\ Click("restage") /\ ~page.staged /\ CanRestage
    /\ MayRestage /\ ~ending
    /\ row' = Fresh

\* The answer of its own call sets the flags it knows.
Answered ==
    /\ own \in {"stage", "restage", "unstage"} /\ own' = "none"
    /\ page' = CASE own = "stage" -> [page EXCEPT !.staged = TRUE]
                 [] own = "unstage" -> [page EXCEPT !.staged = FALSE, !.staging = FALSE]
                 [] own = "restage" -> NoFlags
    /\ UNCHANGED <<row, ending, wire, get>>

-----------------------------------------------------------------------------
(* Events and fetches.                                                     *)

Fetched(g) == get[g].step = "idle" /\ get' = [get EXCEPT ![g] = [NoGet EXCEPT !.step = "sent"]]

\* handleMissionUpdated, handleStagingComplete, handleImplementationLaunched;
\* all but the first refetch the project.
Deliver(g) ==
    /\ wire # <<>> /\ wire' = Tail(wire)
    /\ page' = CASE Head(wire) = "mission" -> [page EXCEPT !.staged = FALSE, !.staging = TRUE]
                 [] Head(wire) = "complete" -> [page EXCEPT !.complete = TRUE, !.staging = FALSE]
                 [] Head(wire) = "launched" -> [page EXCEPT !.launched = TRUE]
                 [] OTHER -> page
    /\ IF Head(wire) = "mission" THEN UNCHANGED get ELSE Fetched(g)
    /\ UNCHANGED <<row, ending, own>>

ReadProject(g) ==
    /\ get[g].step = "sent"
    /\ get' = [get EXCEPT ![g] = [step |-> "read", row |-> row]]
    /\ UNCHANGED <<row, ending, wire, own, page>>

\* setProject: the flags of the fetched row, the two monotonic ones kept.
FlagsOf(r) == [staged |-> r.staging = "staged", staging |-> r.staging = "staging",
               complete |-> r.staging = "complete", launched |-> r.launched]
\* Mutant: the fetched row alone.
MergedPlainly(r) == FlagsOf(r)
Merged(r) == [FlagsOf(r) EXCEPT !.complete = @ \/ page.complete, !.launched = @ \/ page.launched]
SetProject(g) ==
    /\ get[g].step = "read"
    /\ get' = [get EXCEPT ![g] = NoGet]
    /\ page' = Merged(get[g].row)
    /\ UNCHANGED <<row, ending, wire, own>>

\* The socket is lost with what it carried; the new one refetches.
Reconnect(g) ==
    /\ "reconnect" \in Ops /\ (ending => "blind" \in Ops)
    /\ wire' = <<>> /\ Fetched(g)
    /\ UNCHANGED <<row, ending, own, page>>

Next ==
    \/ WriteMission \/ EndStaging \/ CommitEnd \/ AbortEnd \/ LaunchImplementation \/ Touch
    \/ Elsewhere \/ Stage \/ MarkStaged \/ Unstage \/ Restage \/ Answered
    \/ \E g \in Gets : Deliver(g) \/ ReadProject(g) \/ SetProject(g) \/ Reconnect(g)

Spec == Init /\ [][Next]_vars

-----------------------------------------------------------------------------
(* Properties.                                                             *)

Quiet == ~ending /\ wire = <<>> /\ own = "none" /\ \A g \in Gets : get[g].step = "idle"

\* However late a fetch is answered and however many events were lost, a
\* page at rest knows that staging is complete and that implementation was
\* launched (the OR-merge of setProject, the resync of a reconnect).
FlagsCatchUp ==
    Quiet => /\ row.staging = "complete" => page.complete
             /\ row.launched => page.launched

\* What comments promise and the code does not keep: a page at rest offers
\* the launch once staging is complete,
LaunchOffered ==
    Quiet /\ row.staging = "complete" /\ ~row.launched => page.complete /\ ~page.staging
\* and shows staging as complete only when it is.
FlagsConverge == Quiet => (page.complete => row.staging = "complete")
=============================================================================
