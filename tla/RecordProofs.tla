---------------------------- MODULE RecordProofs ----------------------------
(***************************************************************************)
(* Theorems about MCRecords, for any products, items, projects, agents and *)
(* entries of its instances.  The part that moves never changes, and the   *)
(* other variables stay as they start, so a behaviour is one of each       *)
(* instance, and the theorems of WorkItemsProofs and ProductMemoryProofs   *)
(* apply to it.                                                            *)
(***************************************************************************)
EXTENDS MCRecords, TLAPS

InLedger == part = "ledger"

(* Both instances of ProductMemory start in the same state. *)
LEMMA LedgerStarts == Memory!Init => Ledger!Init
  BY DEF Memory!Init, Ledger!Init, Memory!Idle, Ledger!Idle

LEMMA PlainRuns == MCSpec => Plain!Spec
  <1>1. MCInit => Plain!Init
    BY DEF MCInit
  <1>2. [MCNext]_<<vars, part, plainVars, memoryVars>> => [Plain!Next]_(Plain!vars)
    BY DEF MCNext, plainVars, Plain!vars
  <1> QED BY <1>1, <1>2, PTL DEF MCSpec, Plain!Spec

LEMMA LedgerRuns == MCSpec /\ InLedger => Ledger!Spec /\ []InLedger
  <1>1. MCInit => Ledger!Init
    BY LedgerStarts DEF MCInit
  <1>2. InLedger /\ [MCNext]_<<vars, part, plainVars, memoryVars>> => InLedger' /\ [Ledger!Next]_(Ledger!vars)
    BY DEF MCNext, InLedger, memoryVars, Ledger!vars
  <1> QED BY <1>1, <1>2, PTL DEF MCSpec, Ledger!Spec

LEMMA MemoryRuns == MCSpec /\ ~InLedger => Memory!Spec /\ []~InLedger
  <1>1. MCInit => Memory!Init
    BY DEF MCInit
  <1>2. ~InLedger /\ [MCNext]_<<vars, part, plainVars, memoryVars>> => ~InLedger' /\ [Memory!Next]_(Memory!vars)
    BY DEF MCNext, InLedger, memoryVars, Memory!vars
  <1> QED BY <1>1, <1>2, PTL DEF MCSpec, Memory!Spec

-----------------------------------------------------------------------------
(* Served one request at a time, nothing changes the number of a live item *)
(* but a request for another one: neither a restore, nor a conversion, nor *)
(* the allocation for somebody else.                                       *)
THEOREM PlainKeepsNumberHolds == MCSpec => PlainKeepsNumber
  <1>1. Plain!Spec => Plain!LiveKeepsNumber
    BY RecordsFit, Plain!LiveKeepsNumberHolds
  <1> QED BY <1>1, PlainRuns, PTL DEF PlainKeepsNumber

(* Served one request at a time, an entry leaves a roadmap only because it *)
(* is removed or its work is gone: a conversion keeps it.                  *)
THEOREM PlainRoadmapKeptHolds == MCSpec => PlainRoadmapKept
  <1>1. Plain!Spec => Plain!RoadmapKept
    BY RecordsFit, Plain!RoadmapKeptHolds
  <1> QED BY <1>1, PlainRuns, PTL DEF PlainRoadmapKept

(* The stamp of a project agrees with what its closeouts left, however the *)
(* calls overlap, are refused or cut short, and served one at a time no    *)
(* call meets a number that is taken.                                      *)
THEOREM StampAgreesComposed == MCSpec => []StampAgrees
  <1>1. MCSpec /\ InLedger => []StampAgrees
    <2>1. Ledger!Spec => []Ledger!StampAgrees /\ []Ledger!NumberFree
      BY RecordsFit, Ledger!StampAgreesHolds, Ledger!NumberFreeHolds
    <2>2. InLedger /\ Ledger!StampAgrees /\ Ledger!NumberFree => StampAgrees
      BY DEF InLedger, StampAgrees
    <2> QED BY <2>1, <2>2, LedgerRuns, PTL
  <1>2. MCSpec /\ ~InLedger => []StampAgrees
    <2>1. Memory!Spec => []Memory!StampAgrees
      BY RecordsFit, Memory!StampAgreesHolds
    <2>2. ~InLedger /\ Memory!StampAgrees => StampAgrees
      BY DEF InLedger, StampAgrees
    <2> QED BY <2>1, <2>2, MemoryRuns, PTL
  <1> QED BY <1>1, <1>2, PTL

(* What is written stays, however the calls overlap, and served one at a   *)
(* time a closeout without force commits over a finished team only.        *)
THEOREM EntriesKeptComposed == MCSpec => EntriesKept
  <1>1. MCSpec /\ InLedger => EntriesKept
    <2>1. Ledger!Spec => Ledger!EntriesKept /\ [][Ledger!ClosingStep]_(Ledger!vars)
      BY RecordsFit, Ledger!EntriesKeptHolds, Ledger!ClosingStepHolds
    <2>2. Ledger!EntriesKept => Memory!EntriesKept
      BY DEF Ledger!EntriesKept, Memory!EntriesKept, Ledger!vars, Memory!vars
    <2>3. [Ledger!ClosingStep]_(Ledger!vars) => [part = "ledger" => Ledger!ClosingStep]_memoryVars
      BY DEF Ledger!vars, memoryVars
    <2> QED BY <2>1, <2>2, <2>3, LedgerRuns, PTL DEF EntriesKept
  <1>2. MCSpec /\ ~InLedger => EntriesKept
    <2>1. Memory!Spec => Memory!EntriesKept
      BY RecordsFit, Memory!EntriesKeptHolds
    <2>2. ~InLedger => [part = "ledger" => Ledger!ClosingStep]_memoryVars
      BY DEF InLedger
    <2> QED BY <2>1, <2>2, MemoryRuns, PTL DEF EntriesKept
  <1> QED BY <1>1, <1>2, PTL
=============================================================================
