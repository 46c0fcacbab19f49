----------------------------- MODULE MCRecords -----------------------------
(* Small instances for TLC of WorkItems, with two requests in flight and   *)
(* one at a time, and of ProductMemory likewise.  `part' is the instance   *)
(* that moves in a behaviour, the others stay as they start: their state   *)
(* spaces add up, and their constants are chosen one by one.  An instance  *)
(* is of a module with its theorems: RecordProofs cites them of it.        *)
EXTENDS WorkItems, TLC

CONSTANTS PlainProducts, PlainItems, PlainLegacy, PlainTop,
          Members, Crew, Leads, MemberOf, Linked, Lines, MaxEntries, null,   \* of ProductMemory
          Callers,      \* the requests in flight, of ProductMemory
          Alone,        \* the only one of the other WorkItems
          PlainOps,     \* the operations called one at a time
          MemoryOps, LedgerOps

VARIABLES part, items, current, plans, request,
          entries, executed, completed, marked, marking, gone, status, owing, stamp, tunedAt, answer, call

plainVars == <<items, current, plans, request>>
memoryVars == <<entries, executed, completed, marked, marking, gone, status, owing, stamp, tunedAt, answer, call>>

\* WorkItems itself is the instance with the races.
Plain == INSTANCE WorkItemsProofs
    WITH item <- items, active <- current, roadmap <- plans, slot <- request,
         Products <- PlainProducts, Items <- PlainItems, Slots <- {Alone}, Top <- PlainTop,
         Legacy <- PlainLegacy, Ops <- PlainOps, Interleaved <- FALSE

Memory == INSTANCE ProductMemoryProofs
    WITH Projects <- Members, Agents <- Crew, Orchestrators <- Leads, ProjectOf <- MemberOf,
         Chained <- Linked, Slots <- Callers, GitEnabled <- TRUE, Threshold <- Lines, Interleaved <- TRUE,
         MaxNumber <- MaxEntries, None <- null, Ops <- MemoryOps, slot <- call
Ledger == INSTANCE ProductMemoryProofs
    WITH Projects <- Members, Agents <- Crew, Orchestrators <- Leads, ProjectOf <- MemberOf,
         Chained <- {}, Slots <- Callers, GitEnabled <- FALSE, Threshold <- Lines, Interleaved <- FALSE,
         MaxNumber <- MaxEntries, None <- null, Ops <- LedgerOps, slot <- call
ASSUME RecordsFit == Plain!ItemsAssumption /\ Memory!MemoryAssumption /\ Ledger!MemoryAssumption

MCInit ==
    /\ part \in {"races", "plain", "memory", "ledger"}
    /\ Init /\ Plain!Init /\ Memory!Init
    /\ part # "plain" => /\ current = CHOOSE p \in PlainProducts : TRUE
                         /\ \A k \in PlainLegacy : items[k].prod = current

MCNext ==
    /\ UNCHANGED part
    /\ \/ part = "races" /\ Next /\ UNCHANGED <<plainVars, memoryVars>>
       \/ part = "plain" /\ Plain!Next /\ UNCHANGED <<vars, memoryVars>>
       \/ part = "memory" /\ Memory!Next /\ UNCHANGED <<vars, plainVars>>
       \/ part = "ledger" /\ Ledger!Next /\ UNCHANGED <<vars, plainVars>>

MCSpec == MCInit /\ [][MCNext]_<<vars, part, plainVars, memoryVars>>

Symmetry == Permutations(Items) \cup Permutations(Slots) \cup Permutations(Callers)

PlainKeepsNumber == Plain!LiveKeepsNumber
PlainRoadmapKept == Plain!RoadmapKept
StampAgrees == IF part = "ledger" THEN Ledger!StampAgrees /\ Ledger!NumberFree ELSE Memory!StampAgrees
EntriesKept == Memory!EntriesKept /\ [][part = "ledger" => Ledger!ClosingStep]_memoryVars

-----------------------------------------------------------------------------
(* Values of the constants. *)
CONSTANTS i1, i2, i3, p1, p2, k1, k2, j1, o1
Sole == [o \in {o1} |-> j1]
===========================================================================
