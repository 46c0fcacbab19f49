---------------------------- MODULE MCMessages ----------------------------
(* Small instances for TLC of what is delivered late, twice or out of      *)
(* order.  HubThread: one agent draining a thread, and two agents meeting  *)
(* on the bound one.  TodoList: two reports of one agent.  The dashboard:  *)
(* LiveSocket, the project list, and the staging flags and the agents of   *)
(* the project page.  `part' is what moves in a behaviour; their state     *)
(* spaces add up.                                                          *)
EXTENDS HubThread, TLC

CONSTANTS Other,       \* the agent of HubThread that only meets
          Replacements, Appends, Blank, Closeouts, Reports, MaxRows, Overlapping,            \* TodoList
          Sockets, NoSocket, Entities, MaxAttempts, MaxQueue, MaxPins, MaxFrames,     \* LiveSocket
          MaxFaults, Faults, SocketOps,
          Queries, First, Bare, Standings, Selects, Fetches, Pulls, MaxChanges, Failures, PageOps,  \* ProjectList
          Gets, MaxWire, FlagOps,                                                     \* StageFlags
          Workers, Projects, ProjectOf(_), None, Loads, MaxVersion, MaxEvents, BoardOps  \* JobBoard

VARIABLES part, rows, steps, done, report,
          status, socket, attempts, retry, steady, armed, queue, pins, net, attached, again,
          frames, pending, layout, awaited, routed, missed, up, registered, watched, faults,
          view, opening, query, typed, asked, stray, last, fetch, pull, shown, failed, optimist,
          world, item, news, owed,
          project, ending, wire, get, own, flags,
          agents, events, open, load, board, delayed

todoVars == <<rows, steps, done, report>>
socketVars == <<status, socket, attempts, retry, steady, armed, queue, pins, net, attached, again,
                frames, pending, layout, awaited, routed, missed, up, registered, watched, faults>>
listVars == <<view, opening, query, typed, asked, stray, last, fetch, pull, shown, failed, optimist,
              world, item, news, owed>>
flagVars == <<project, ending, wire, get, own, flags>>
boardVars == <<agents, events, open, load, board, delayed>>

Todo == INSTANCE TodoList
    WITH Lists <- Replacements, Slots <- Reports, Interleaved <- Overlapping, slot <- report
Socket == INSTANCE LiveSocket WITH Projects <- Entities, Ops <- SocketOps
List == INSTANCE ProjectList
    WITH Statuses <- Standings, Slots <- Fetches, Ops <- PageOps, page <- view, call <- fetch
Flags == INSTANCE StageFlags WITH Ops <- FlagOps, row <- project, page <- flags
Board == INSTANCE JobBoard
    WITH Agents <- Workers, MaxWire <- MaxEvents, Ops <- BoardOps, rows <- agents,
         wire <- events, pending <- delayed
ASSUME InstancesFit ==
    /\ Todo!TodoAssumption /\ Socket!LiveSocketAssumption /\ List!ListAssumption
    /\ Flags!StageFlagsAssumption /\ Board!JobBoardAssumption

\* One of two equal calls, whichever module's calls they are.
Symmetry == Permutations(Slots)

MCInit ==
    /\ part \in {"drain", "rendezvous", "todo", "socket", "list", "rows", "flags", "board"}
    /\ Init /\ Todo!Init /\ Socket!Init /\ List!Init /\ Flags!Init /\ Board!Init
    /\ part # "board" => open = CHOOSE p \in Projects : TRUE
    /\ part # "rows" => item.status = CHOOSE s \in Standings : TRUE

\* One agent drains the one thread there is, which may be deleted.
Draining ==
    /\ tick' <= 2 /\ \A t \in Threads : Live(t)' => thread'[t].marker
    /\ \A t \in Threads : Other \notin joined'[t]
    /\ \A s \in Resolvers : resolver'[s].agent # Other
\* Two agents open threads of their own and are told of decisions.
Meeting ==
    /\ UNCHANGED reader
    /\ \A p \in Posts : post'[p].phase # "none" => post'[p].decision
    /\ \A t \in Threads : thread'[t].state # "deleted"

\* The project list, where the followed project stays as it is, ...
Unfollowed == UNCHANGED <<pull, item>> /\ world' <= 1
\* ... or changes on a page that stays open, and nothing is typed, activated or failing.
Followed == typed' = Bare /\ optimist' = "none" /\ ~failed' /\ (view = "projects" => view' = view)

\* Everything but the variables of this part stays as it is.
Only(p) ==
    /\ part = p /\ UNCHANGED part
    /\ IF p \in {"drain", "rendezvous"} THEN TRUE ELSE UNCHANGED vars
    /\ IF p = "todo" THEN TRUE ELSE UNCHANGED todoVars
    /\ IF p = "socket" THEN TRUE ELSE UNCHANGED socketVars
    /\ IF p \in {"list", "rows"} THEN TRUE ELSE UNCHANGED listVars
    /\ IF p = "flags" THEN TRUE ELSE UNCHANGED flagVars
    /\ IF p = "board" THEN TRUE ELSE UNCHANGED boardVars
MCNext ==
    \/ Only("drain") /\ Next /\ Draining
    \/ Only("rendezvous") /\ Next /\ Meeting
    \/ Only("todo") /\ Todo!Next
    \/ Only("socket") /\ Socket!Next
    \/ Only("list") /\ List!Next /\ Unfollowed
    \/ Only("rows") /\ List!Next /\ Followed
    \/ Only("flags") /\ Flags!Next
    \/ Only("board") /\ Board!Next

allVars == <<vars, part, todoVars, socketVars, listVars, flagVars, boardVars>>
MCSpec == MCInit /\ [][MCNext]_allVars

\* The properties of the instances, each in its own behaviours.
DecisionsMeet == part = "rendezvous" => DecisionOnKnownThread
\* Of lists in which something stands behind the first place: a list of one
\* row and what is appended to it tie at number 0.
OrderKept == Todo!OrderKept
CompletedKept == Todo!CompletedKept
SubscriptionsAgree == Socket!SubscriptionsAgree
ListSettled == List!ListSettled
\* The project page at rest: its staging flags and its agents.
PageSettled == Flags!FlagsCatchUp /\ Board!RowsSettle

-----------------------------------------------------------------------------
(* Values of the constants. *)
CONSTANTS a1, w1, w2, close, none, p1, q1, q2

Post(to, action, loop, kept) == [to |-> to, action |-> action, loop |-> loop, status |-> kept]
Mixed == {Post(Everyone, FALSE, FALSE, "keep"), Post(a1, TRUE, FALSE, "keep")}

E(content, step) == [content |-> content, status |-> step]
SomeLists == {<<E(w1, "completed"), E(w2, "pending")>>,
              <<E(w1, "pending"), E(none, "pending"), E(close, "pending")>>,
              <<E(w1, "completed"), E(w2, "skipped"), E(close, "in_progress")>>}
SomeAppends == {<<E(w2, "pending"), E(w1, "completed")>>, <<E(none, "pending"), E(close, "completed")>>}
Home(a) == p1
\* One filter shows what is under way, as the default list does, one what is over.
ByStatus == [list \in {q1, q2, none} |-> IF list = q2 THEN {"done"} ELSE {"open"}]
===========================================================================
