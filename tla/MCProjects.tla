---------------------------- MODULE MCProjects ----------------------------
(* Small instances for TLC of ProjectActivation, served one request at a   *)
(* time, with completed projects continued, and with two requests in       *)
(* flight, and of ProductSwitch.  `part' is the instance that moves in a   *)
(* behaviour, the other stays as it starts: their state spaces add up, and *)
(* their constants are chosen one by one.                                  *)
EXTENDS ProjectActivation, TLC

CONSTANTS RaceOps,     \* the operations called with two requests in flight
          RaceOrchs,   \* the rows of orchestrators they may create
          ReopenOps,   \* the operations called where completed projects are continued
          Products,    \* of ProductSwitch
          Started,     \* its projects
          Callers,     \* its requests
          SwitchOps,   \* the operations called
          Overlapping  \* whether its requests overlap

VARIABLES part, on, deleted, roster, home, running, job, call

switchVars == <<on, deleted, roster, home, running, job, call>>

\* ProjectActivation itself is the instance with one request at a time.
Races == INSTANCE ProjectActivation
            WITH Slots <- {"t1", "t2"}, Orchs <- RaceOrchs, Workers <- {}, Interleaved <- TRUE,
                 Ops <- RaceOps
Reopened == INSTANCE ProjectActivation WITH Ops <- ReopenOps
Switch == INSTANCE ProductSwitch
            WITH Projects <- Started, Slots <- Callers, Ops <- SwitchOps, Interleaved <- Overlapping,
                 owner <- home, slot <- call

MCInit ==
    /\ Switch!Init
    /\ \/ part \in {"activation", "reopened", "switch"} /\ Init
       \/ part = "races" /\ Races!Init
    /\ part # "switch" => home = [j \in Started |-> CHOOSE p \in Products : TRUE]

MCNext ==
    /\ UNCHANGED part
    /\ \/ part = "activation" /\ Next /\ UNCHANGED switchVars
       \/ part = "reopened" /\ Reopened!Next /\ UNCHANGED switchVars
       \/ part = "races" /\ Races!Next /\ UNCHANGED switchVars
       \/ part = "switch" /\ Switch!Next /\ UNCHANGED vars

MCSpec == MCInit /\ [][MCNext]_<<vars, part, switchVars>>

Symmetry == Permutations(Projects) \cup Permutations(Orchs)
              \cup Permutations(Products) \cup Permutations(Started) \cup Permutations(Callers)

\* The properties of the instances, each in its own behaviours.
SerialCrew == part = "activation" => ActiveStaffed /\ WorkersLaunched
SerialRunsKept ==
    [][part = "activation" /\ (\E o \in Orchs : ran[o] /\ st'[o] = "none")
          => \E t \in Slots : slot[t].op = "reset"]_vars
CrewKept ==
    /\ part = "races" => Races!ActiveCrewed
    /\ part = "reopened" => ActiveStaffed
OneActiveEach == Switch!OneActiveEach
===========================================================================
