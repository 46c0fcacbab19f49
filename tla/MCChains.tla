----------------------------- MODULE MCChains -----------------------------
(* Small instances for TLC of two kinds of chains: the families of refresh *)
(* tokens, and the runs of projects, a run of two with two requests in     *)
(* flight and a mark that may fail to advance, and, served one request at  *)
(* a time, a run of three and two runs that want the same two.  `part' is  *)
(* the instance that moves in a behaviour, the others stay as they start:  *)
(* their state spaces add up, and their constants are chosen one by one.   *)
(* An instance is of SequenceRun with its theorems: ChainProofs cites them *)
(* of it.                                                                  *)
EXTENDS TokenRefresh, SequencesExt, TLC

CONSTANTS Pair, Trio,            \* the projects of the runs
          Solo, Duo,             \* the runs
          PairChains, TrioChains,
          NoProject, NoRun,
          Callers, Alone,        \* the requests in flight, and the only one
          RaceOps,    \* the operations called with requests in flight
          SerialOps,  \* those called one at a time on a run of three
          TurnOps     \* and with two runs of the same projects

VARIABLES part, run, conductor, settle, member, call

runVars == <<run, conductor, settle, member, call>>

Races == INSTANCE SequenceRunProofs
    WITH Projects <- Pair, Runs <- Solo, Chains <- PairChains, Slots <- Callers,
         Interleaved <- TRUE, Ops <- RaceOps, Faults <- {"advance"}, slot <- call
Serial == INSTANCE SequenceRunProofs
    WITH Projects <- Trio, Runs <- Solo, Chains <- TrioChains, Slots <- {Alone},
         Interleaved <- FALSE, Ops <- SerialOps, Faults <- {}, slot <- call
Turns == INSTANCE SequenceRunProofs
    WITH Projects <- Pair, Runs <- Duo, Chains <- PairChains, Slots <- {Alone},
         Interleaved <- FALSE, Ops <- TurnOps, Faults <- {"advance"}, slot <- call
ASSUME RunsFit ==
    Races!SequenceRunAssumption /\ Serial!SequenceRunAssumption /\ Turns!SequenceRunAssumption

MCInit ==
    /\ part \in {"tokens", "races", "serial", "turns"}
    /\ Init
    /\ CASE part = "serial" -> Serial!Init [] part = "turns" -> Turns!Init [] OTHER -> Races!Init

MCNext ==
    /\ UNCHANGED part
    /\ \/ part = "tokens" /\ Next /\ UNCHANGED runVars
       \/ part = "races" /\ Races!Next /\ UNCHANGED vars
       \/ part = "serial" /\ Serial!Next /\ UNCHANGED vars
       \/ part = "turns" /\ Turns!Next /\ UNCHANGED vars

MCSpec == MCInit /\ [][MCNext]_<<vars, part, runVars>>

Symmetry == Permutations(Slots) \cup Permutations(Tokens \ Roots) \cup Permutations(Callers)

\* The properties of the instances, each in its own behaviours.
TruthfulCopies ==
    CASE part = "serial" -> Serial!TruthfulCopy
      [] part = "turns" -> Turns!TruthfulCopy
      [] OTHER -> Races!TruthfulCopy
PurgedAreFinished ==
    [][part # "turns" => \A r \in Solo : Races!Purged(r) =>
          /\ part = "serial" => settle[r] = {}
          /\ \A p \in ToSet(run[r].order) :
                \/ member[p].ended
                \/ IF part = "serial" THEN Serial!Closing(p) ELSE Races!Closing(p)]_runVars
PassedAreFinished ==
    [][part = "serial" => \A r \in Solo : run'[r].index > run[r].index =>
          run[r].copy[run[r].order[run'[r].index]] \in Serial!Terminal]_runVars
\* Served one request at a time, the runs keep to the contract of ChainContract.
RunsHonoured ==
    /\ part = "serial" => Serial!Contract!Init
    /\ part = "turns" => Turns!Contract!Init
    /\ [][/\ part = "serial" => [Serial!Contract!Next]_(Serial!Contract!vars)
          /\ part = "turns" => [Turns!Contract!Next]_(Turns!Contract!vars)]_runVars

-----------------------------------------------------------------------------
(* Values of the constants. *)
CONSTANTS a, b, c, d, t1, t2, t3, p1, p2, p3
InTurn == {<<p1, p2>>}
AllThree == {<<p1, p2, p3>>}
===========================================================================
