------------------------ MODULE ProductMemoryProofs ------------------------
(***************************************************************************)
(* Theorems about ProductMemory, for any number of projects, agents, calls *)
(* and entries.  However the calls overlap, fail or are refused, the stamp *)
(* of a closeout agrees with what the closeout left (StampAgrees) and what *)
(* is written stays (EntriesKept).  Served one at a time, a call finds its *)
(* number free, closes only what is finished and marks the entries of a    *)
(* project it deletes.                                                     *)
(***************************************************************************)
EXTENDS ProductMemory, WellFoundedInduction, TLAPS

(* A nonempty set of naturals has a least element, and one below a bound   *)
(* has a greatest: Max of FiniteSetsExt is in it.                          *)
LEMMA LeastExists == ASSUME NEW T \in SUBSET Nat, T # {} PROVE \E x \in T : \A y \in T : x <= y
  <1> DEFINE R == OpToRel(<, Nat)
  <1>1. \E x \in T : \A y \in T : ~ (<<y, x>> \in R)
    BY WFMin, NatLessThanWellFounded, Zenon
  <1>2. PICK x \in T : \A y \in T : ~ (<<y, x>> \in R)
    BY <1>1
  <1>3. \A y \in T : y < x => <<y, x>> \in R
    BY DEF OpToRel
  <1>4. \A y \in T : ~ (y < x)
    BY <1>2, <1>3, Zenon
  <1> HIDE DEF R
  <1>5. \A y \in T : x \in Nat /\ y \in Nat
    OBVIOUS
  <1>6. \A y \in T : x <= y
    BY <1>4, <1>5, SMT
  <1> QED
    BY <1>6, Zenon

LEMMA MaxOfBounded ==
    ASSUME NEW top \in Nat, NEW S \in SUBSET (0 .. top), S # {}
    PROVE  Max(S) \in S /\ \A x \in S : x <= Max(S)
  <1> DEFINE T == {top - x : x \in S}
  <1>0. \A x \in S : top - x \in Nat
    OBVIOUS
  <1>1. T \in SUBSET Nat /\ T # {}
    BY <1>0, Zenon
  <1>2. PICK m \in T : \A y \in T : m <= y
    BY <1>1, LeastExists
  <1>3. PICK x \in S : m = top - x
    OBVIOUS
  <1>4. \A y \in S : x >= y
    <2> TAKE y \in S
    <2>1. top - y \in T
      OBVIOUS
    <2> HIDE DEF T
    <2> QED
      BY <1>2, <1>3, <2>1
  <1>5. Max(S) \in S /\ \A y \in S : Max(S) >= y
    BY <1>4, Zenon DEF Max
  <1> QED
    BY <1>5

-----------------------------------------------------------------------------
(* What an open call holds: a project, the executions picked by a closeout *)
(* among the project's own, and once numbered a number of the product.     *)
CallFits(s) ==
    s.phase # "idle" =>
        /\ s.project \in Projects
        /\ s.picked \subseteq Team(s.project)
        /\ s.phase = "forcing" \/ s.completes \/ s.picked # {} => s.kind = "closeout"
        /\ s.phase = "numbered" => s.number >= 1

Shape ==
    /\ TypeOK
    /\ \A t \in Slots : CallFits(slot[t])

(* One call at a time: what its gates saw is still so, its number is free, *)
(* and no call is open while a project is half deleted.                    *)
GatesHold(s) ==
    s.phase \in {"forcing", "gated", "numbered"} =>
        /\ s.kind = "closeout" /\ ~s.forced => Unfinished(s.project) = {}
        /\ s.kind = "completion" => ~Blocked(s.project, s.author, s.ticks)

SerialInv ==
    /\ \A t, u \in Slots : slot[t].phase # "idle" /\ slot[u].phase # "idle" => t = u
    /\ marking # gone => \A t \in Slots : slot[t].phase = "idle"
    /\ \A t \in Slots : GatesHold(slot[t])
    /\ NumberFree
    /\ DeletedMarked
    /\ \A n \in DOMAIN entries : entries[n].project \in marking \ gone => entries[n].deleted

-----------------------------------------------------------------------------
(* Types.                                                                  *)

SlotType == [phase : {"idle", "forcing", "gated", "numbered", "told"},
             project : Projects \cup {None}, author : Agents \cup {None}, kind : Kinds,
             ticks : BOOLEAN, forced : BOOLEAN, completes : BOOLEAN, picked : SUBSET Agents, number : 0..MaxNumber]

EntryType == [project : Projects \cup {None}, kind : Kinds, deleted : BOOLEAN]

LEMMA IdleType ==
    ASSUME MemoryAssumption
    PROVE  Idle \in SlotType /\ CallFits(Idle) /\ Idle.phase = "idle"
  BY DEF Idle, SlotType, CallFits, MemoryAssumption, Kinds

(* The highest number is one of the product's, and none of an entry is     *)
(* above it.                                                               *)
LEMMA HighestBounds ==
    ASSUME MemoryAssumption, Shape
    PROVE  Highest \in 0..MaxNumber /\ \A n \in DOMAIN entries : n <= Highest
  <1> DEFINE S == {0} \cup DOMAIN entries
  <1>1. MaxNumber \in Nat
    BY DEF MemoryAssumption
  <1>2. S \in SUBSET (0..MaxNumber) /\ S # {}
    BY <1>1 DEF Shape, TypeOK
  <1> HIDE DEF S
  <1>3. Max(S) \in S /\ \A x \in S : x <= Max(S)
    BY <1>1, <1>2, MaxOfBounded
  <1> QED BY <1>2, <1>3 DEF Highest, S

(* Putting a fitting call into a slot keeps the shape of the slots.        *)
LEMMA PutShape ==
    ASSUME Shape, NEW t \in Slots, NEW s \in SlotType, CallFits(s),
           slot' = [slot EXCEPT ![t] = s]
    PROVE  slot' \in [Slots -> SlotType] /\ (\A u \in Slots : CallFits(slot[u]))'
  <1>1. slot \in [Slots -> SlotType]
    BY DEF Shape, TypeOK, SlotType
  <1>2. \A u \in Slots : CallFits(slot'[u])
    BY <1>1 DEF Shape
  <1> QED BY <1>1, <1>2 DEF CallFits, Team

LEMMA FreeShape ==
    ASSUME MemoryAssumption, Shape, NEW t \in Slots, slot' = [slot EXCEPT ![t] = Idle]
    PROVE  slot' \in [Slots -> SlotType] /\ (\A u \in Slots : CallFits(slot[u]))'
  BY IdleType, PutShape

(* What a committed closeout leaves in its slot fits too.                  *)
LEMMA ToldFits ==
    ASSUME MemoryAssumption, NEW s \in SlotType, CallFits(s), s.phase # "idle"
    PROVE  /\ Told(s) \in SlotType /\ CallFits(Told(s))
           /\ Told(s).phase \in {"idle", "told"}
           /\ Told(s).phase = "told" => Told(s).project = s.project /\ s.kind = "closeout"
  BY IdleType, ZenonT(60) DEF Told, Midway, Idle, SlotType, CallFits, Kinds

LEMMA ShapeStep == ASSUME MemoryAssumption, Shape, [Next]_vars PROVE Shape'
  <1> USE DEF MemoryAssumption
  <1>1. ASSUME NEW t \in Slots, NEW a \in Agents, NEW kind \in Kinds \ {"closeout"},
               NEW ack \in BOOLEAN, NEW commits \in BOOLEAN, BeginWrite(t, a, kind, ack, commits)
        PROVE  Shape'
    <2>1. PICK ticks \in BOOLEAN : ticks <=> (ack /\ owing[a] = "own" /\ a \notin Held)
      OBVIOUS
    <2> DEFINE s == [Idle EXCEPT !.phase = "gated", !.project = ProjectOf[a],
                                 !.author = a, !.kind = kind, !.ticks = ticks]
    <2>2. /\ slot' = [slot EXCEPT ![t] = s] \/ UNCHANGED slot
          /\ owing' = [owing EXCEPT ![a] = "none"] \/ UNCHANGED owing
          /\ UNCHANGED <<entries, executed, completed, marked, marking, gone, status, stamp, tunedAt, answer>>
      BY <1>1, <2>1 DEF BeginWrite
    <2>3. s \in SlotType /\ CallFits(s)
      BY IdleType DEF SlotType, CallFits, Idle
    <2> HIDE DEF s
    <2>4. slot' \in [Slots -> SlotType] /\ (\A u \in Slots : CallFits(slot[u]))'
      BY <2>2, <2>3, PutShape DEF Shape, TypeOK, SlotType, CallFits, Team
    <2> QED BY <2>2, <2>4 DEF Shape, TypeOK, SlotType
  <1>2. ASSUME NEW t \in Slots, NEW p \in Projects, NEW force \in BOOLEAN,
               NEW completes \in BOOLEAN, BeginClose(t, p, force, completes)
        PROVE  Shape'
    <2>1. PICK f \in BOOLEAN : f <=> Unfinished(p) # {}
      OBVIOUS
    <2> DEFINE s == [Idle EXCEPT !.phase = IF Unfinished(p) = {} THEN "gated" ELSE "forcing",
                        !.project = p, !.kind = "closeout", !.forced = f, !.completes = completes]
    <2>2. /\ slot' = [slot EXCEPT ![t] = s]
          /\ marked' \in {marked, marked \cup ({p} \cap Chained)}
          /\ UNCHANGED <<entries, executed, completed, marking, gone, status, owing, stamp, tunedAt, answer>>
      BY <1>2, <2>1 DEF BeginClose
    <2>3. s \in SlotType /\ CallFits(s)
      BY IdleType, ZenonT(60) DEF SlotType, CallFits, Idle, Kinds
    <2> HIDE DEF s
    <2> QED BY <2>2, <2>3, PutShape DEF Shape, TypeOK, SlotType
  <1>3. ASSUME NEW t \in Slots, ForceClose(t) PROVE Shape'
    <2> DEFINE s == [slot[t] EXCEPT !.phase = "gated",
                        !.picked = {a \in Team(slot[t].project) : status[a] \in Active}]
    <2>1. /\ slot[t].phase = "forcing"
          /\ slot' = [slot EXCEPT ![t] = s] \/ slot' = [slot EXCEPT ![t] = Idle]
          /\ UNCHANGED <<entries, marked, marking, gone, status, owing, stamp, tunedAt, answer>>
      BY <1>3 DEF ForceClose
    <2>0. executed' \subseteq executed \cup {slot[t].project} /\ completed' \subseteq completed \cup {slot[t].project}
      BY <1>3 DEF ForceClose
    <2>2. slot[t] \in SlotType /\ CallFits(slot[t])
      BY DEF Shape, TypeOK, SlotType
    <2>4. executed' \subseteq Projects /\ completed' \subseteq Projects
      BY <2>0, <2>1, <2>2 DEF CallFits, Shape, TypeOK
    <2>3. s \in SlotType /\ CallFits(s)
      BY <2>1, <2>2 DEF SlotType, CallFits, Team
    <2> HIDE DEF s
    <2> QED BY <2>1, <2>3, <2>4, PutShape, FreeShape DEF Shape, TypeOK, SlotType
  <1>4. ASSUME NEW t \in Slots, TakeNumber(t) PROVE Shape'
    <2>0. Highest + 1 \in 1..MaxNumber
      BY <1>4, HighestBounds DEF TakeNumber
    <2>1. PICK h \in 1..MaxNumber : h = Highest + 1
      BY <2>0
    <2> DEFINE s == [slot[t] EXCEPT !.phase = "numbered", !.number = h]
    <2>2. /\ slot[t].phase = "gated"
          /\ slot' = [slot EXCEPT ![t] = s]
          /\ UNCHANGED <<entries, executed, completed, marked, marking, gone, status, owing, stamp, tunedAt, answer>>
      BY <1>4, <2>1 DEF TakeNumber, Shape, TypeOK
    <2>3. slot[t] \in SlotType /\ CallFits(slot[t])
      BY DEF Shape, TypeOK, SlotType
    <2>4. h \in 0..MaxNumber /\ h >= 1
      OBVIOUS
    <2>5. s \in SlotType
      BY <2>3, <2>4 DEF SlotType
    <2>6. CallFits(s)
      BY <2>2, <2>3, <2>4 DEF SlotType, CallFits
    <2> HIDE DEF s
    <2> QED BY <2>2, <2>5, <2>6, PutShape DEF Shape, TypeOK, SlotType
  <1>5. ASSUME NEW t \in Slots, Commit(t) PROVE Shape'
    <2> DEFINE s == slot[t]
               e == [project |-> s.project, kind |-> s.kind, deleted |-> FALSE]
    <2>1. /\ s \in SlotType /\ s.phase = "numbered" /\ s.project \in Projects
          /\ s.number \in 1..MaxNumber
      BY <1>5 DEF Commit, Shape, TypeOK, SlotType, CallFits
    <2>2. DOMAIN entries' = DOMAIN entries \cup {s.number}
      BY <1>5 DEF Commit, Inserted
    <2>3. e \in EntryType
      BY <2>1 DEF EntryType, SlotType
    <2>4. \A n \in DOMAIN entries' : entries'[n] \in EntryType
      BY <1>5, <2>3 DEF Commit, Inserted, Shape, TypeOK, EntryType
    <2>5. /\ executed' \subseteq Projects /\ completed' \subseteq Projects /\ marked' \subseteq Chained
          /\ status' \in [Agents -> Statuses]
          /\ owing' \in [Agents -> {"none", "own", "work"}]
      BY <1>5, <2>1 DEF Commit, Closed, Midway, Shape, TypeOK, Statuses
    <2>6. answer' \in [verified : BOOLEAN, ready : BOOLEAN]
      <3>1. PICK b \in BOOLEAN : b <=> ~Blocked(s.project, s.author, s.ticks)
        OBVIOUS
      <3>2. answer' = answer \/ answer' = [verified |-> TRUE, ready |-> b]
        BY <1>5, <3>1 DEF Commit
      <3>3. [verified |-> TRUE, ready |-> b] \in [verified : BOOLEAN, ready : BOOLEAN]
        OBVIOUS
      <3>4. answer \in [verified : BOOLEAN, ready : BOOLEAN]
        BY DEF Shape, TypeOK
      <3> QED BY <3>2, <3>3, <3>4, Zenon
    <2>7. slot' = [slot EXCEPT ![t] = Told(s)] /\ UNCHANGED <<marking, gone, stamp, tunedAt>>
      BY <1>5 DEF Commit
    <2>8. slot' \in [Slots -> SlotType] /\ (\A u \in Slots : CallFits(slot[u]))'
      <3>1. CallFits(s)
        BY DEF Shape
      <3>2. Told(s) \in SlotType /\ CallFits(Told(s))
        BY <2>1, <3>1, ToldFits
      <3> QED BY <2>7, <3>2, PutShape
    <2>9. DOMAIN entries' \subseteq 1..MaxNumber
      BY <2>1, <2>2 DEF Shape, TypeOK
    <2> HIDE DEF s, e
    <2> QED BY <2>4, <2>5, <2>6, <2>7, <2>8, <2>9 DEF Shape, TypeOK, SlotType, EntryType
  <1>6. ASSUME NEW t \in Slots, Fail(t) PROVE Shape'
    BY <1>6, FreeShape DEF Fail, Shape, TypeOK, SlotType
  <1>12. ASSUME NEW t \in Slots, CompleteMember(t) PROVE Shape'
    <2>1. slot[t].project \in Projects
      BY <1>12 DEF CompleteMember, Shape, CallFits
    <2> QED BY <1>12, <2>1, FreeShape DEF CompleteMember, Shape, TypeOK, SlotType
  <1>13. ASSUME NEW p \in Projects, CloseOut(p) PROVE Shape'
    <2>1. status' \in [Agents -> Statuses]
      BY <1>13 DEF CloseOut, Shape, TypeOK, Statuses
    <2>2. /\ executed' \subseteq Projects /\ completed' \subseteq Projects /\ marked' \subseteq Chained
          /\ UNCHANGED <<entries, marking, gone, owing, stamp, tunedAt, answer, slot>>
      BY <1>13 DEF CloseOut, Shape, TypeOK
    <2>3. (\A u \in Slots : CallFits(slot[u]))'
      BY <2>2 DEF Shape, CallFits, Team
    <2>4. TypeOK'
      BY <2>1, <2>2 DEF Shape, TypeOK
    <2> QED BY <2>3, <2>4 DEF Shape
  <1>7. ASSUME NEW p \in Projects, DeleteMarks(p) \/ DeleteRow(p) PROVE Shape'
    <2>1. \A n \in DOMAIN entries : /\ [entries[n] EXCEPT !.deleted = TRUE] \in EntryType
                                    /\ [entries[n] EXCEPT !.project = None] \in EntryType
                                    /\ entries[n] \in EntryType
      BY ZenonT(60) DEF Shape, TypeOK, EntryType
    <2>2. /\ DOMAIN entries' = DOMAIN entries
          /\ \A n \in DOMAIN entries : entries'[n] \in EntryType
      BY <1>7, <2>1 DEF DeleteMarks, DeleteRow
    <2> QED BY <1>7, <2>2
            DEF DeleteMarks, DeleteRow, Shape, TypeOK, EntryType, CallFits, Team
  <1>8. ASSUME Tune PROVE Shape'
    BY <1>8, HighestBounds DEF Tune, Shape, TypeOK, CallFits, Team
  <1>9. ASSUME NEW a \in Agents, NEW to \in Statuses, AgentMoves(a, to) PROVE Shape'
    BY <1>9 DEF AgentMoves, Shape, TypeOK, CallFits, Team
  <1>10. ASSUME NEW a \in Agents, NEW what \in {"none", "own", "work"}, Owes(a, what) PROVE Shape'
    BY <1>10 DEF Owes, Shape, TypeOK, CallFits, Team
  <1>11. CASE UNCHANGED vars
    BY <1>11 DEF vars, Shape, TypeOK, CallFits, Team
  <1>14. ASSUME NEW t \in Slots, ForceClose(t) \/ TakeNumber(t) \/ Commit(t) \/ CompleteMember(t) \/ Fail(t)
         PROVE  Shape'
    BY <1>3, <1>4, <1>5, <1>6, <1>12, <1>14
  <1>15. ASSUME NEW t \in Slots, NEW p \in Projects PROVE BeginClose(t, p, TRUE, TRUE) => Shape'
    BY <1>2
  <1>16. ASSUME NEW t \in Slots, NEW p \in Projects, NEW force \in BOOLEAN
         PROVE  BeginClose(t, p, force, FALSE) => Shape'
    BY <1>2
  <1> HIDE DEF MemoryAssumption
  <1> QED BY <1>1, <1>7, <1>8, <1>9, <1>10, <1>11, <1>13, <1>14, <1>15, <1>16, ZenonT(60) DEF Next

LEMMA ShapeInit == ASSUME MemoryAssumption, Init PROVE Shape
  BY IdleType DEF Init, Shape, TypeOK, SlotType, Statuses, MemoryAssumption

(* However the calls overlap, rows and requests have their shapes: Shape, *)
(* on which every other result about the memory rests, is an invariant.   *)
THEOREM MemoryShape == ASSUME MemoryAssumption PROVE Spec => []Shape
  <1>1. Shape /\ [Next]_vars => Shape'
    BY ShapeStep
  <1> QED BY <1>1, ShapeInit, PTL DEF Spec

(* The state of the 360 memory keeps its types however the calls overlap.  *)
THEOREM MemoryTypes == ASSUME MemoryAssumption PROVE Spec => []TypeOK
  BY MemoryShape, PTL DEF Shape

-----------------------------------------------------------------------------
(* However the calls overlap.                                              *)

(* What the first commit of a member's closeout leaves to its second one.  *)
StampInv ==
    /\ StampAgrees
    /\ \A t \in Slots : slot[t].phase = "told" => slot[t].project \in executed

(* A step that leaves stamps, statuses and the kinds and projects of the   *)
(* entries alone, and decommissions nobody, keeps the stamps agreeing.     *)
LEMMA Untouched ==
    ASSUME StampAgrees, executed' = executed, completed' = completed, gone \subseteq gone',
           DOMAIN entries' = DOMAIN entries,
           \A n \in DOMAIN entries : /\ entries'[n].kind = entries[n].kind
                                     /\ \A p \in Projects \ gone' :
                                           entries'[n].project = p <=> entries[n].project = p,
           \A a \in Agents : status'[a] = "decommissioned" => status[a] = "decommissioned"
    PROVE  StampAgrees'
  BY DEF StampAgrees, HasEntry, Team

(* A step that stamps and completes one project, decommissioning nobody    *)
(* but its agents, keeps them agreeing.                                    *)
LEMMA Stamping ==
    ASSUME StampAgrees, NEW p \in Projects, executed' = executed \cup {p}, completed' = completed \cup {p},
           entries' = entries, gone' = gone,
           \A a \in Agents \ Team(p) : status'[a] = status[a]
    PROVE  StampAgrees'
  BY DEF StampAgrees, HasEntry, Team

(* The stamp agrees with what is left of the closeouts however the calls   *)
(* overlap, are refused or cut short: a project carries it exactly when an *)
(* entry tells of it or its row is completed, and nobody is decommissioned *)
(* without it.                                                             *)
THEOREM StampAgreesHolds == ASSUME MemoryAssumption PROVE Spec => []StampAgrees
  <1>1. Init => StampInv
    BY DEF Init, StampInv, StampAgrees, HasEntry, Team, Idle
  <1>2. Shape /\ StampInv /\ [Next]_vars => StampInv'
    <2> SUFFICES ASSUME Shape, StampInv, [Next]_vars PROVE StampInv'
      OBVIOUS
    <2>0. StampAgrees /\ slot \in [Slots -> SlotType] /\ Idle.phase = "idle"
      BY IdleType DEF StampInv, Shape, TypeOK, SlotType
    (* A call that begins, goes on or ends without a closeout. *)
    <2>1. ASSUME UNCHANGED <<entries, executed, completed, gone, status>>,
                 \/ UNCHANGED slot
                 \/ \E t \in Slots : /\ slot'[t].phase # "told"
                                     /\ \A u \in Slots \ {t} : slot'[u] = slot[u]
          PROVE  StampInv'
      BY <2>1 DEF StampInv, StampAgrees, HasEntry, Team
    <2>2. ASSUME NEW t \in Slots, NEW a \in Agents, NEW kind \in Kinds \ {"closeout"},
                 NEW ack \in BOOLEAN, NEW commits \in BOOLEAN, BeginWrite(t, a, kind, ack, commits)
          PROVE  StampInv'
      BY <2>0, <2>1, <2>2, ZenonT(60) DEF BeginWrite, Idle
    <2>3. ASSUME NEW t \in Slots, NEW p \in Projects, NEW force \in BOOLEAN,
                 NEW completes \in BOOLEAN, BeginClose(t, p, force, completes)
          PROVE  StampInv'
      BY <2>0, <2>1, <2>3 DEF BeginClose, Idle
    <2>4. ASSUME NEW t \in Slots, ForceClose(t) PROVE StampInv'
      <3>1. /\ slot[t].project \in Projects
            /\ slot'[t].phase # "told" /\ \A u \in Slots \ {t} : slot'[u] = slot[u]
            /\ UNCHANGED <<entries, gone, status>>
        BY <2>0, <2>4 DEF ForceClose, Shape, CallFits, SlotType
      <3>2. CASE executed' = executed /\ completed' = completed
        BY <2>1, <3>1, <3>2
      <3>3. CASE executed' = executed \cup {slot[t].project} /\ completed' = completed \cup {slot[t].project}
        <4>1. StampAgrees'
          BY <2>0, <3>1, <3>3, Stamping
        <4> QED BY <3>1, <3>3, <4>1 DEF StampInv
      <3> QED BY <2>4, <3>2, <3>3 DEF ForceClose
    <2>5. ASSUME NEW p \in Projects, CloseOut(p) PROVE StampInv'
      <3>1. \A a \in Agents \ Team(p) : status'[a] = status[a]
        BY <2>5 DEF CloseOut
      <3>2. StampAgrees'
        BY <2>0, <2>5, <3>1, Stamping DEF CloseOut
      <3> QED BY <2>5, <3>2 DEF CloseOut, StampInv
    <2>6. ASSUME NEW t \in Slots, TakeNumber(t) PROVE StampInv'
      BY <2>0, <2>1, <2>6 DEF TakeNumber, SlotType
    <2>7. ASSUME NEW t \in Slots, Commit(t) PROVE StampInv'
      <3> DEFINE s == slot[t]
      <3>1. /\ s.project \in Projects /\ s.picked \subseteq Team(s.project)
            /\ s.picked # {} \/ s.completes => s.kind = "closeout"
            /\ s.phase # "idle" /\ CallFits(s) /\ s \in SlotType
        BY <2>0, <2>7 DEF Commit, Shape, CallFits
      <3>2. /\ DOMAIN entries' = DOMAIN entries \cup {s.number}
            /\ s.number \notin DOMAIN entries
            /\ entries'[s.number].project = s.project /\ entries'[s.number].kind = s.kind
            /\ \A n \in DOMAIN entries : entries'[n] = entries[n]
        BY <2>7 DEF Commit, Inserted
      <3>3. /\ executed' = IF s.kind = "closeout" THEN executed \cup {s.project} ELSE executed
            /\ completed' = completed \/ (s.kind = "closeout" /\ completed' = completed \cup {s.project})
            /\ status' = [a \in Agents |-> IF a \in s.picked THEN "decommissioned" ELSE status[a]]
            /\ gone' = gone
        BY <2>7, <3>1 DEF Commit, Closed
      <3>4. \A p \in Projects : HasEntry(p)' <=> HasEntry(p) \/ (p = s.project /\ s.kind = "closeout")
        BY <3>2 DEF HasEntry
      <3>5. slot'[t] = Told(s) /\ \A u \in Slots \ {t} : slot'[u] = slot[u]
        BY <2>0, <2>7 DEF Commit
      <3>6. Told(s).phase = "told" => Told(s).project = s.project /\ s.kind = "closeout"
        BY <3>1, ToldFits
      <3> HIDE DEF s
      <3>7. \A u \in Slots : slot'[u].phase = "told" => slot'[u].project \in executed'
        BY <3>3, <3>5, <3>6 DEF StampInv
      <3>8. \A p \in Projects \ gone : (p \in executed <=> HasEntry(p) \/ p \in completed)
                 /\ ((\E a \in Team(p) : status[a] = "decommissioned") => p \in executed)
        BY <2>0 DEF StampAgrees
      <3>9. \A p \in Projects \ gone : (p \in executed' <=> HasEntry(p)' \/ p \in completed')
        BY <3>3, <3>4, <3>8
      <3>10. \A p \in Projects \ gone : (\E a \in Team(p) : status'[a] = "decommissioned") => p \in executed'
        BY <3>1, <3>3, <3>8 DEF Team
      <3> QED BY <3>3, <3>7, <3>9, <3>10 DEF StampInv, StampAgrees, HasEntry, Team
    <2>8. ASSUME NEW t \in Slots, CompleteMember(t) PROVE StampInv'
      <3>1. slot[t].project \in executed /\ completed' = completed \cup {slot[t].project}
        BY <2>8 DEF CompleteMember, StampInv
      <3>2. /\ slot'[t].phase # "told" /\ \A u \in Slots \ {t} : slot'[u] = slot[u]
            /\ UNCHANGED <<entries, executed, gone, status>>
        BY <2>0, <2>8 DEF CompleteMember
      <3> QED BY <3>1, <3>2 DEF StampInv, StampAgrees, HasEntry, Team
    <2>9. ASSUME NEW t \in Slots, Fail(t) PROVE StampInv'
      BY <2>0, <2>1, <2>9 DEF Fail
    <2>10. ASSUME NEW p \in Projects, DeleteMarks(p) PROVE StampInv'
      <3>1. StampAgrees'
        BY <2>0, <2>10, Untouched DEF DeleteMarks, Shape, TypeOK
      <3> QED BY <2>10, <3>1 DEF DeleteMarks, StampInv
    <2>11. ASSUME NEW p \in Projects, DeleteRow(p) PROVE StampInv'
      <3>1. StampAgrees'
        BY <2>0, <2>11, Untouched DEF DeleteRow, Shape, TypeOK, MemoryAssumption
      <3> QED BY <2>11, <3>1 DEF DeleteRow, StampInv
    <2>12. ASSUME NEW a \in Agents, NEW to \in Statuses, AgentMoves(a, to) PROVE StampInv'
      <3>1. StampAgrees'
        BY <2>0, <2>12, Untouched DEF AgentMoves, Moves, Shape, TypeOK
      <3> QED BY <2>12, <3>1 DEF AgentMoves, StampInv
    <2>13. ASSUME Tune \/ \E a \in Agents, what \in {"none", "own", "work"} : Owes(a, what) PROVE StampInv'
      BY <2>1, <2>13 DEF Tune, Owes
    <2>14. CASE UNCHANGED vars
      BY <2>1, <2>14 DEF vars
    <2> QED BY <2>2, <2>3, <2>4, <2>5, <2>6, <2>7, <2>8, <2>9, <2>10, <2>11, <2>12, <2>13, <2>14 DEF Next
  <1>3. StampInv => StampAgrees
    BY DEF StampInv
  <1> QED BY <1>1, <1>2, <1>3, MemoryShape, PTL DEF Spec

(* What is written stays, however the calls overlap: no call takes the     *)
(* number of an entry, and a deletion only marks entries and clears their  *)
(* reference to the project.                                               *)
THEOREM EntriesKeptHolds == ASSUME MemoryAssumption PROVE Spec => EntriesKept
  <1> DEFINE Kept(n) == /\ n \in DOMAIN entries' /\ entries'[n].kind = entries[n].kind
                        /\ entries'[n].project \in {entries[n].project, None}
                        /\ entries[n].deleted => entries'[n].deleted
  <1>1. Shape /\ [Next]_vars => [\A n \in DOMAIN entries :
           /\ n \in DOMAIN entries' /\ entries'[n].kind = entries[n].kind
           /\ entries'[n].project \in {entries[n].project, None}
           /\ entries[n].deleted => entries'[n].deleted]_vars
    <2> SUFFICES ASSUME Shape, Next, NEW n \in DOMAIN entries PROVE Kept(n)
      OBVIOUS
    <2>0. entries[n] \in EntryType
      BY DEF Shape, TypeOK, EntryType
    <2>1. CASE UNCHANGED entries
      BY <2>1
    <2>2. ASSUME NEW t \in Slots, Commit(t) PROVE Kept(n)
      BY <2>2 DEF Commit, Inserted
    <2>3. ASSUME NEW p \in Projects, DeleteMarks(p) PROVE Kept(n)
      BY <2>0, <2>3 DEF DeleteMarks, EntryType
    <2>4. ASSUME NEW p \in Projects, DeleteRow(p) PROVE Kept(n)
      BY <2>0, <2>4 DEF DeleteRow, EntryType
    <2> QED BY <2>1, <2>2, <2>3, <2>4, ZenonT(60)
            DEF Next, BeginWrite, BeginClose, ForceClose, CloseOut, TakeNumber, CompleteMember, Fail,
                Tune, AgentMoves, Owes
  <1> QED BY <1>1, MemoryShape, PTL DEF EntriesKept, Spec

-----------------------------------------------------------------------------
(* Served one at a time.                                                   *)

LEMMA SerialStep ==
    ASSUME MemoryAssumption, ~Interleaved, Shape, SerialInv, [Next]_vars
    PROVE  SerialInv'
  <1> DEFINE Ones == \A t, u \in Slots : slot[t].phase # "idle" /\ slot[u].phase # "idle" => t = u
             Marked == \A n \in DOMAIN entries : entries[n].project \in marking \ gone => entries[n].deleted
             AllIdle == \A t \in Slots : slot[t].phase = "idle"
  <1>0. slot \in [Slots -> SlotType] /\ Idle.phase = "idle"
    BY IdleType DEF Shape, TypeOK, SlotType
  (* A call that begins, or goes on. *)
  <1>1. ASSUME NEW t \in Slots, NEW s, slot' = [slot EXCEPT ![t] = s],
               (AllIdle /\ marking = gone) \/ slot[t].phase # "idle",
               GatesHold(s), s.phase = "numbered" => s.number \notin DOMAIN entries,
               UNCHANGED <<entries, marking, gone, status>>, UNCHANGED owing
        PROVE  SerialInv'
    <2>1. slot'[t] = s /\ \A u \in Slots \ {t} : slot'[u] = slot[u]
      BY <1>0, <1>1
    <2>2. \A u \in Slots \ {t} : slot[u].phase = "idle"
      BY <1>1 DEF SerialInv
    <2>3. Ones' /\ NumberFree'
      BY <1>1, <2>1, <2>2 DEF NumberFree
    <2>4. (\A u \in Slots : GatesHold(slot[u]))'
      BY <1>1, <2>1, <2>2 DEF GatesHold, Unfinished, Blocked, Team
    <2>5. (marking # gone => AllIdle)' /\ DeletedMarked' /\ Marked'
      BY <1>1, <2>1, <2>2 DEF SerialInv, DeletedMarked
    <2> QED BY <2>3, <2>4, <2>5 DEF SerialInv
  (* A call that has committed, or ends. *)
  <1>2. ASSUME NEW t \in Slots, NEW s, slot' = [slot EXCEPT ![t] = s], s.phase \in {"idle", "told"},
               slot[t].phase # "idle", DeletedMarked', Marked', UNCHANGED <<marking, gone>>
        PROVE  SerialInv'
    <2>1. /\ slot'[t] = s /\ marking = gone
          /\ \A u \in Slots \ {t} : slot'[u] = slot[u] /\ slot[u].phase = "idle"
      BY <1>0, <1>2 DEF SerialInv
    <2> QED BY <1>2, <2>1 DEF SerialInv, GatesHold, NumberFree
  (* A step between two calls. *)
  <1>3. ASSUME AllIdle, UNCHANGED slot, DeletedMarked', Marked'
        PROVE  SerialInv'
    BY <1>3 DEF SerialInv, GatesHold, NumberFree
  <1>4. Quiet => AllIdle /\ marking = gone
    BY DEF Quiet
  <1>5. None \notin Projects
    BY DEF MemoryAssumption
  <1>6. ASSUME NEW t \in Slots, NEW a \in Agents, NEW kind \in Kinds \ {"closeout"},
               NEW ack \in BOOLEAN, NEW commits \in BOOLEAN, BeginWrite(t, a, kind, ack, commits)
        PROVE  SerialInv'
    <2>0. PICK ticks \in BOOLEAN : ticks <=> (ack /\ owing[a] = "own" /\ a \notin Held)
      OBVIOUS
    <2> DEFINE s == [Idle EXCEPT !.phase = "gated", !.project = ProjectOf[a],
                                 !.author = a, !.kind = kind, !.ticks = ticks]
    <2>1. /\ Quiet
          /\ UNCHANGED <<entries, executed, completed, marked, marking, gone, status, stamp, tunedAt, answer>>
          /\ \/ UNCHANGED slot
             \/ /\ slot' = [slot EXCEPT ![t] = s] /\ UNCHANGED owing
                /\ kind = "completion" => ~Blocked(ProjectOf[a], a, ticks)
      BY <1>6, <2>0 DEF BeginWrite
    <2>2. /\ s.phase = "gated" /\ s.project = ProjectOf[a] /\ s.author = a /\ s.kind = kind
          /\ s.ticks = ticks
      BY DEF Idle
    <2> HIDE DEF s
    <2>3. CASE UNCHANGED slot
      BY <1>3, <1>4, <2>1, <2>3 DEF SerialInv, DeletedMarked
    <2>4. CASE slot' # slot
      <3>1. GatesHold(s)
        BY <2>1, <2>2, <2>4 DEF GatesHold
      <3> QED BY <1>1, <1>4, <2>1, <2>2, <2>4, <3>1
    <2> QED BY <2>3, <2>4
  <1>7. ASSUME NEW t \in Slots, NEW p \in Projects, NEW force \in BOOLEAN,
               NEW completes \in BOOLEAN, BeginClose(t, p, force, completes)
        PROVE  SerialInv'
    <2>0. PICK f \in BOOLEAN : f <=> Unfinished(p) # {}
      OBVIOUS
    <2> DEFINE s == [Idle EXCEPT !.phase = IF Unfinished(p) = {} THEN "gated" ELSE "forcing",
                        !.project = p, !.kind = "closeout", !.forced = f, !.completes = completes]
    <2>1. /\ Quiet /\ slot' = [slot EXCEPT ![t] = s]
          /\ UNCHANGED <<entries, executed, completed, marking, gone, status, owing, stamp, tunedAt, answer>>
      BY <1>7, <2>0 DEF BeginClose
    <2>2. /\ s.phase \in {"gated", "forcing"} /\ s.project = p /\ s.kind = "closeout"
          /\ s.forced = f
      BY DEF Idle
    <2> HIDE DEF s
    <2>3. GatesHold(s)
      BY <2>0, <2>2 DEF GatesHold
    <2> QED BY <1>1, <1>4, <2>1, <2>2, <2>3
  <1>8. ASSUME NEW t \in Slots, ForceClose(t) PROVE SerialInv'
    <2> DEFINE s == [slot[t] EXCEPT !.phase = "gated",
                        !.picked = {a \in Team(slot[t].project) : status[a] \in Active}]
    <2>1. /\ slot[t].phase = "forcing" /\ slot[t] \in SlotType /\ GatesHold(slot[t])
          /\ slot' = [slot EXCEPT ![t] = s] \/ slot' = [slot EXCEPT ![t] = Idle]
          /\ UNCHANGED <<entries, marked, marking, gone, status, owing, stamp, tunedAt, answer>>
      BY <1>0, <1>8 DEF ForceClose, SerialInv
    <2>2. s.phase = "gated" /\ GatesHold(s)
      BY <2>1 DEF GatesHold, SlotType
    <2> HIDE DEF s
    <2>3. DeletedMarked' /\ Marked'
      BY <2>1 DEF SerialInv, DeletedMarked
    <2> QED BY <1>0, <1>1, <1>2, <2>1, <2>2, <2>3
  <1>9. ASSUME NEW t \in Slots, TakeNumber(t) PROVE SerialInv'
    <2>0. PICK h : h = Highest + 1
      OBVIOUS
    <2> DEFINE s == [slot[t] EXCEPT !.phase = "numbered", !.number = h]
    <2>1. /\ slot[t].phase = "gated" /\ slot[t] \in SlotType /\ GatesHold(slot[t])
          /\ slot' = [slot EXCEPT ![t] = s]
          /\ UNCHANGED <<entries, executed, completed, marked, marking, gone, status, owing, stamp, tunedAt, answer>>
      BY <1>0, <1>9, <2>0 DEF TakeNumber, SerialInv
    <2>2. h \notin DOMAIN entries
      BY <2>0, HighestBounds
    <2>3. s.phase = "numbered" /\ s.number = h /\ GatesHold(s)
      BY <2>1 DEF GatesHold, SlotType
    <2> HIDE DEF s
    <2> QED BY <1>1, <2>1, <2>2, <2>3
  <1>10. ASSUME NEW t \in Slots, Commit(t) PROVE SerialInv'
    <2> DEFINE s == slot[t]
    <2>1. /\ s.phase = "numbered" /\ s.project \in Projects /\ marking = gone
          /\ slot' = [slot EXCEPT ![t] = Told(s)] /\ UNCHANGED <<marking, gone>>
          /\ s \in SlotType /\ CallFits(s)
      BY <1>0, <1>10 DEF Commit, Shape, CallFits, SerialInv
    <2>4. Told(s).phase \in {"idle", "told"}
      BY <2>1, ToldFits
    <2>2. /\ DOMAIN entries' = DOMAIN entries \cup {s.number}
          /\ entries'[s.number].project = s.project
          /\ \A n \in DOMAIN entries : entries'[n] = entries[n]
      BY <1>10 DEF Commit, Inserted
    <2> HIDE DEF s
    <2>3. DeletedMarked' /\ Marked'
      BY <1>5, <2>1, <2>2 DEF SerialInv, DeletedMarked
    <2> QED BY <1>2, <2>1, <2>3, <2>4 DEF s
  <1>11. ASSUME NEW t \in Slots, Fail(t) PROVE SerialInv'
    <2>1. DeletedMarked' /\ Marked'
      BY <1>11 DEF Fail, SerialInv, DeletedMarked
    <2> QED BY <1>0, <1>2, <1>11, <2>1 DEF Fail
  <1>16. ASSUME NEW t \in Slots, CompleteMember(t) PROVE SerialInv'
    <2>1. DeletedMarked' /\ Marked'
      BY <1>16 DEF CompleteMember, SerialInv, DeletedMarked
    <2> QED BY <1>0, <1>2, <1>16, <2>1 DEF CompleteMember
  <1>12. ASSUME NEW p \in Projects, DeleteMarks(p) PROVE SerialInv'
    <2>1. AllIdle /\ marking = gone
      BY <1>4, <1>12 DEF DeleteMarks
    <2>2. \A n \in DOMAIN entries : entries[n] \in EntryType
      BY DEF Shape, TypeOK, EntryType
    <2>3. /\ DOMAIN entries' = DOMAIN entries
          /\ \A n \in DOMAIN entries : /\ entries'[n].project = entries[n].project
                                       /\ entries[n].deleted => entries'[n].deleted
                                       /\ entries[n].project = p => entries'[n].deleted
      BY <1>12, <2>2 DEF DeleteMarks, EntryType
    <2>4. DeletedMarked'
      BY <2>3 DEF SerialInv, DeletedMarked
    <2>5. Marked'
      BY <1>12, <2>1, <2>3 DEF DeleteMarks
    <2> QED BY <1>3, <1>12, <2>1, <2>4, <2>5 DEF DeleteMarks
  <1>13. ASSUME NEW p \in Projects, DeleteRow(p) PROVE SerialInv'
    <2>1. AllIdle
      BY <1>13 DEF DeleteRow, SerialInv
    <2>2. \A n \in DOMAIN entries : entries[n] \in EntryType
      BY DEF Shape, TypeOK, EntryType
    <2>3. /\ DOMAIN entries' = DOMAIN entries
          /\ \A n \in DOMAIN entries : /\ entries'[n].deleted = entries[n].deleted
                                       /\ entries'[n].project = IF entries[n].project = p THEN None
                                                               ELSE entries[n].project
      BY <1>13, <2>2 DEF DeleteRow, EntryType
    <2>4. DeletedMarked'
      BY <1>13, <2>3 DEF DeleteRow, SerialInv, DeletedMarked
    <2>5. Marked'
      BY <1>13, <1>5, <2>3 DEF DeleteRow, SerialInv, Shape, TypeOK
    <2> QED BY <1>3, <1>13, <2>1, <2>4, <2>5 DEF DeleteRow
  <1>14. ASSUME Quiet, UNCHANGED <<slot, entries, marking, gone>> PROVE SerialInv'
    BY <1>3, <1>4, <1>14 DEF SerialInv, DeletedMarked
  <1>15. CASE UNCHANGED vars
    BY <1>15 DEF vars, SerialInv, GatesHold, NumberFree, DeletedMarked, Unfinished, Blocked, Team
  <1> QED BY <1>6, <1>7, <1>8, <1>9, <1>10, <1>11, <1>12, <1>13, <1>14, <1>15, <1>16
          DEF Next, CloseOut, Tune, AgentMoves, Owes

LEMMA SerialHolds ==
    ASSUME MemoryAssumption, ~Interleaved PROVE Spec => [](Shape /\ SerialInv)
  <1>1. Init => SerialInv
    BY DEF Init, SerialInv, Idle, GatesHold, NumberFree, DeletedMarked
  <1>2. Shape /\ SerialInv /\ [Next]_vars => SerialInv'
    BY SerialStep
  <1> QED BY <1>1, <1>2, MemoryShape, PTL DEF Spec

(* Served one at a time, no call meets a number that is taken: the highest *)
(* number counts the entries that a deletion has marked.                   *)
THEOREM NumberFreeHolds ==
    ASSUME MemoryAssumption, ~Interleaved PROVE Spec => []NumberFree
  <1>1. SerialInv => NumberFree
    BY DEF SerialInv
  <1> QED BY <1>1, SerialHolds, PTL

(* Served one at a time, a deletion marks every entry whose reference to   *)
(* the project it clears.                                                  *)
THEOREM DeletedMarkedHolds ==
    ASSUME MemoryAssumption, ~Interleaved PROVE Spec => []DeletedMarked
  <1>1. SerialInv => DeletedMarked
    BY DEF SerialInv
  <1> QED BY <1>1, SerialHolds, PTL

(* Served one at a time, a closeout without force commits only over a      *)
(* finished project, and a completion only when all but its author are:    *)
(* the gates were passed in the same call.                                 *)
THEOREM ClosingStepHolds ==
    ASSUME MemoryAssumption, ~Interleaved PROVE Spec => [][ClosingStep]_vars
  <1>1. Shape /\ SerialInv => ClosingStep
    <2> SUFFICES ASSUME Shape, SerialInv, NEW t \in Slots, slot[t].phase = "numbered"
                 PROVE  /\ slot[t].kind = "closeout" /\ ~slot[t].forced
                              => \A a \in Team(slot[t].project) : status[a] \in Terminal
                        /\ slot[t].kind = "completion"
                              => \A a \in Team(slot[t].project) \ {slot[t].author} : status[a] \in Terminal
      BY DEF ClosingStep
    <2>1. GatesHold(slot[t])
      BY DEF SerialInv
    <2> QED BY <2>1 DEF GatesHold, Unfinished, Blocked, Terminal
  <1> QED BY <1>1, SerialHolds, PTL
=============================================================================
