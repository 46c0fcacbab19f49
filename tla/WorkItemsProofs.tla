--------------------------- MODULE WorkItemsProofs ---------------------------
(***************************************************************************)
(* Theorems about WorkItems, for any number of products, items and         *)
(* requests in flight.                                                     *)
(*                                                                         *)
(* Overlapping requests: the projects and tasks of a product draw their    *)
(* numbers from one counter, as long as nobody picks a number by hand and  *)
(* no task becomes a project.  The number a request holds is different     *)
(* from every live number of its product (RequestFits), and it stays so    *)
(* because at most one request per product holds one (OneHolder): the      *)
(* advisory lock is kept to the commit.                                    *)
(*                                                                         *)
(* One request after the other, with every operation allowed: numbers,     *)
(* roadmaps and the trash keep what they promise, because what a request   *)
(* has read is still so when it commits (StillSo).  The runs show that     *)
(* overlapping requests break each of these.                               *)
(***************************************************************************)
EXTENDS WorkItems, WellFoundedInduction, TLAPS

(* A nonempty set of naturals has a least element, and one below a bound   *)
(* has a greatest: Max of FiniteSetsExt is in it.                          *)
LEMMA LeastExists == ASSUME NEW T \in SUBSET Nat, T # {} PROVE \E x \in T : \A y \in T : x <= y
  <1> DEFINE R == OpToRel(<, Nat)
  <1>1. \E x \in T : \A y \in T : ~ (<<y, x>> \in R)
    BY WFMin, NatLessThanWellFounded, Zenon
  <1>2. PICK x \in T : \A y \in T : ~ (<<y, x>> \in R)
    BY <1>1
  <1>3. \A y \in T : y < x => <<y, x>> \in R
    BY DEF OpToRel
  <1>4. \A y \in T : ~ (y < x)
    BY <1>2, <1>3, Zenon
  <1> HIDE DEF R
  <1>5. \A y \in T : x \in Nat /\ y \in Nat
    OBVIOUS
  <1>6. \A y \in T : x <= y
    BY <1>4, <1>5, SMT
  <1> QED
    BY <1>6, Zenon

LEMMA MaxOfBounded ==
    ASSUME NEW top \in Nat, NEW S \in SUBSET (0 .. top), S # {}
    PROVE  Max(S) \in S /\ \A x \in S : x <= Max(S)
  <1> DEFINE T == {top - x : x \in S}
  <1>0. \A x \in S : top - x \in Nat
    OBVIOUS
  <1>1. T \in SUBSET Nat /\ T # {}
    BY <1>0, Zenon
  <1>2. PICK m \in T : \A y \in T : m <= y
    BY <1>1, LeastExists
  <1>3. PICK x \in S : m = top - x
    OBVIOUS
  <1>4. \A y \in S : x >= y
    <2> TAKE y \in S
    <2>1. top - y \in T
      OBVIOUS
    <2> HIDE DEF T
    <2> QED
      BY <1>2, <1>3, <2>1
  <1>5. Max(S) \in S /\ \A y \in S : Max(S) >= y
    BY <1>4, Zenon DEF Max
  <1> QED
    BY <1>5

-----------------------------------------------------------------------------
Rows == [kind : Kinds, prod : Products \union {None}, num : 0..Top, tag : Tags, trashed : BOOLEAN]
Requests ==
    [pc : {"idle", "queued", "numbered", "moved", "listed", "checked", "inserted"},
     op : {None, "task", "project", "restore", "renumber", "convert", "purge"},
     id : Items \union {None}, prod : Products \union {None}, num : 0..Top, tag : Tags,
     auto : BOOLEAN, held : SUBSET Items, seen : SUBSET (Items \union Products),
     why : {None, "done", "exhausted", "collided", "duplicate", "failed"}]

Typed == item \in [Items -> Rows] /\ active \in Products /\ slot \in [Slots -> Requests]

RequestFits(r) ==
    /\ r.pc # "moved"
    /\ r.pc \in {"queued", "numbered"} =>
         /\ r.op \in {"task", "project", "restore"}
         /\ r.op # "restore" => r.auto
         /\ r.op = "restore" => r.id \in Items /\ item[r.id].kind # "none" /\ item[r.id].prod = r.prod
    /\ r.pc = "queued" => r.auto
    /\ r.pc = "numbered" /\ ~r.auto => r.num = 0
    /\ r.pc = "numbered" /\ r.auto => r.num # 0 /\ \A j \in LiveOf(r.prod) : item[j].num # r.num
Holds(r) == r.pc = "numbered" /\ r.auto
OneHolder ==
    \A s, t \in Slots : Holds(slot[s]) /\ Holds(slot[t]) /\ slot[s].prod = slot[t].prod => s = t

CounterInv == Typed /\ (\A s \in Slots : RequestFits(slot[s])) /\ OneHolder /\ OneCounter
ByCounter == Ops \cap {"manual", "renumber", "convert", "stale"} = {}

(* A number just taken is above every live number of the product. *)
LEMMA NextIsFree ==
    ASSUME Typed, NEW p PROVE NextNumber(p) \in 1..(Top + 1) /\ \A j \in LiveOf(p) : item[j].num < NextNumber(p)
  <1> USE ItemsAssumption
  <1> DEFINE N == LiveNumbers(p) \union {0}
  <1>0. \A j \in Items : item[j].num \in 0..Top
    BY DEF Typed, Rows
  <1>1. N \in SUBSET (0..Top) /\ N # {} /\ \A j \in LiveOf(p) : item[j].num \in N
    BY <1>0 DEF LiveNumbers, LiveOf
  <1>2. NextNumber(p) = Max(N) + 1
    BY DEF NextNumber
  <1> HIDE DEF N
  <1>3. Max(N) \in N /\ \A x \in N : x <= Max(N)
    BY <1>1, MaxOfBounded
  <1>4. PICK m : m = Max(N)
    OBVIOUS
  <1>5. m \in 0..Top /\ \A j \in LiveOf(p) : item[j].num \in 0..Top /\ item[j].num <= m
    BY <1>1, <1>3, <1>4
  <1> QED
    BY <1>2, <1>4, <1>5

LEMMA IdleFits == Idle \in Requests /\ Idle.pc = "idle"
  BY ItemsAssumption DEF Idle, Requests, Tags

LEMMA CounterInit == Init => CounterInv
  <1> USE ItemsAssumption
  <1> SUFFICES ASSUME Init PROVE CounterInv
    OBVIOUS
  <1>1. active \in Products /\ slot = [s \in Slots |-> Idle]
    BY DEF Init
  <1>2. PICK p \in Products :
          item = [i \in Items |-> [kind |-> IF i \in Legacy THEN "task" ELSE "none",
                                   prod |-> IF i \in Legacy THEN p ELSE None,
                                   num |-> 0, tag |-> "untyped", trashed |-> FALSE]]
    BY DEF Init
  <1>3. item \in [Items -> Rows] /\ \A i \in Items : item[i].num = 0
    BY <1>2 DEF Rows, Kinds, Tags
  <1>4. slot \in [Slots -> Requests] /\ \A s \in Slots : slot[s].pc = "idle"
    BY <1>1, IdleFits
  <1>5. OneCounter
    BY <1>3 DEF OneCounter
  <1>6. OneHolder /\ \A s \in Slots : RequestFits(slot[s])
    BY <1>4 DEF OneHolder, Holds, RequestFits
  <1> QED
    BY <1>1, <1>3, <1>4, <1>5, <1>6 DEF CounterInv, Typed

-----------------------------------------------------------------------------
(* The three kinds of step: a request moves on, rows only leave, one row   *)
(* is written with the number its request holds.                           *)

LEMMA RequestMoves ==
    ASSUME CounterInv, NEW s \in Slots, NEW r \in Requests,
           slot' = [slot EXCEPT ![s] = r], item' = item, active' \in Products,
           RequestFits(r),
           Holds(r) => \A t \in Slots \ {s} : ~(Holds(slot[t]) /\ slot[t].prod = r.prod)
    PROVE  CounterInv'
  <1>1. Typed'
    BY DEF CounterInv, Typed
  <1>2. \A t \in Slots : slot'[t] = IF t = s THEN r ELSE slot[t]
    BY DEF CounterInv, Typed
  <1>3. \A u : LiveOf(u)' = LiveOf(u)
    BY DEF LiveOf, Live
  <1>4. \A t \in Slots : RequestFits(slot[t])'
    <2> TAKE t \in Slots
    <2>1. RequestFits(slot'[t])
      BY <1>2 DEF CounterInv
    <2> QED
      BY <1>3, <2>1 DEF RequestFits
  <1>5. OneHolder'
    BY <1>2 DEF CounterInv, OneHolder, Holds
  <1>6. OneCounter'
    BY DEF CounterInv, OneCounter, Live
  <1> QED
    BY <1>1, <1>4, <1>5, <1>6 DEF CounterInv

LEMMA RowsLeave ==
    ASSUME CounterInv, item' \in [Items -> Rows], active' \in Products, slot' \in [Slots -> Requests],
           \A i \in Items : /\ item'[i].prod = item[i].prod /\ item'[i].num = item[i].num
                            /\ item[i].kind # "none" => item'[i].kind # "none"
                            /\ Live(i)' => Live(i),
           \A t \in Slots : /\ slot'[t].pc = slot[t].pc /\ slot'[t].op = slot[t].op
                            /\ slot'[t].id = slot[t].id /\ slot'[t].prod = slot[t].prod
                            /\ slot'[t].num = slot[t].num /\ slot'[t].auto = slot[t].auto
    PROVE  CounterInv'
  <1>1. \A u : LiveOf(u)' \subseteq LiveOf(u)
    BY DEF LiveOf
  <1>2. \A t \in Slots : RequestFits(slot[t])'
    <2> TAKE t \in Slots
    <2>1. RequestFits(slot[t])
      BY DEF CounterInv
    <2>2. \A u : \A j \in LiveOf(u)' : j \in LiveOf(u) /\ item'[j].num = item[j].num
      BY <1>1 DEF LiveOf
    <2> QED
      BY <2>1, <2>2 DEF RequestFits
  <1>3. OneHolder'
    BY DEF CounterInv, OneHolder, Holds
  <1>4. OneCounter'
    BY DEF CounterInv, OneCounter
  <1> QED
    BY <1>2, <1>3, <1>4 DEF CounterInv, Typed

LEMMA RowWritten ==
    ASSUME CounterInv, NEW s \in Slots, NEW r \in Requests, NEW i \in Items, NEW row \in Rows,
           slot' = [slot EXCEPT ![s] = r], r.pc = "idle",
           item' = [item EXCEPT ![i] = row], active' = active,
           slot[s].pc = "numbered", row.num = slot[s].num, row.prod = slot[s].prod, row.kind # "none",
           item[i].kind # "none" => item[i].prod = row.prod
    PROVE  CounterInv'
  <1>0. Typed /\ \A t \in Slots : RequestFits(slot[t])
    BY DEF CounterInv
  <1>1. \A t \in Slots : slot'[t] = IF t = s THEN r ELSE slot[t]
    BY <1>0 DEF Typed
  <1>2. \A j \in Items : item'[j] = IF j = i THEN row ELSE item[j]
    BY <1>0 DEF Typed
  <1>3. Typed'
    BY <1>0 DEF Typed
  <1>4. OneHolder'
    BY <1>1 DEF CounterInv, OneHolder, Holds
  <1>5. \A j \in Items : j # i => Live(j)' = Live(j)
    BY <1>2 DEF Live
  <1>6. \A j \in Items : j # i /\ Live(j) /\ item[j].prod = row.prod /\ item[j].num = row.num => row.num = 0
    <2> SUFFICES ASSUME NEW j \in Items, Live(j), item[j].prod = row.prod, item[j].num = row.num
                 PROVE  row.num = 0
      OBVIOUS
    <2>1. j \in LiveOf(slot[s].prod)
      BY DEF LiveOf
    <2> QED
      BY <1>0, <2>1 DEF RequestFits
  <1>7. OneCounter'
    <2> SUFFICES ASSUME NEW j \in Items, NEW k \in Items, j # k, Live(j)', Live(k)',
                        item'[j].prod = item'[k].prod, item'[j].num # 0
                 PROVE  item'[j].num # item'[k].num
      BY DEF OneCounter
    <2>1. CASE j # i /\ k # i
      BY <1>2, <1>5, <2>1 DEF CounterInv, OneCounter
    <2>2. CASE j = i
      BY <1>2, <1>5, <1>6, <2>2
    <2>3. CASE k = i
      BY <1>2, <1>5, <1>6, <2>3
    <2> QED
      BY <2>1, <2>2, <2>3
  <1>8. \A t \in Slots : RequestFits(slot[t])'
    <2> SUFFICES ASSUME NEW t \in Slots PROVE RequestFits(slot[t])'
      OBVIOUS
    <2>1. CASE t = s
      BY <1>1, <2>1 DEF RequestFits
    <2>2. CASE t # s
      <3>1. slot'[t] = slot[t] /\ RequestFits(slot[t])
        BY <1>0, <1>1, <2>2
      <3>2. slot[t].op = "restore" /\ slot[t].pc \in {"queued", "numbered"} =>
               /\ slot[t].id \in Items /\ item'[slot[t].id].kind # "none"
               /\ item'[slot[t].id].prod = slot[t].prod
        BY <1>2, <3>1 DEF RequestFits
      <3>3. Holds(slot[t]) => \A j \in LiveOf(slot[t].prod)' : item'[j].num # slot[t].num
        <4> SUFFICES ASSUME Holds(slot[t]), NEW j \in Items, Live(j)', item'[j].prod = slot[t].prod
                     PROVE  item'[j].num # slot[t].num
          BY <3>1 DEF LiveOf
        <4>1. CASE j # i
          <5>1. j \in LiveOf(slot[t].prod) /\ item'[j] = item[j]
            BY <1>2, <1>5, <4>1 DEF LiveOf
          <5> QED
            BY <3>1, <5>1 DEF RequestFits, Holds
        <4>2. CASE j = i
          <5>1. item'[j].num = slot[s].num /\ slot[s].prod = slot[t].prod
            BY <1>2, <4>2
          <5>2. ~slot[s].auto
            BY <2>2, <5>1 DEF CounterInv, OneHolder, Holds
          <5> QED
            BY <1>0, <3>1, <5>1, <5>2 DEF RequestFits, Holds
        <4> QED
          BY <4>1, <4>2
      <3> QED
        BY <3>1, <3>2, <3>3 DEF RequestFits, Holds
    <2> QED
      BY <2>1, <2>2
  <1> QED
    BY <1>3, <1>4, <1>7, <1>8 DEF CounterInv

-----------------------------------------------------------------------------
(* The operations.                                                         *)

(* A request that starts with no number, and a request that ends. *)
LEMMA CreatesFit ==
    ASSUME CounterInv, NEW s \in Slots, NEW kind \in {"task", "project"}, NEW tag \in Tags,
           BeginCreate(s, kind, tag)
    PROVE  CounterInv'
  <1> USE ItemsAssumption
  <1> DEFINE r == [Idle EXCEPT !.pc = "queued", !.op = kind, !.prod = active, !.tag = tag,
                               !.auto = TRUE]
  <1>1. slot' = [slot EXCEPT ![s] = r] /\ item' = item /\ active' = active
    BY DEF BeginCreate, Start
  <1>2. active \in Products
    BY DEF CounterInv, Typed
  <1>3. r \in Requests /\ r.pc = "queued" /\ r.op = kind /\ r.auto
    BY <1>2, IdleFits DEF Requests
  <1> HIDE DEF r
  <1>4. RequestFits(r) /\ ~Holds(r)
    BY <1>3 DEF RequestFits, Holds
  <1> QED
    BY <1>1, <1>2, <1>3, <1>4, RequestMoves

LEMMA RestoresFit ==
    ASSUME CounterInv, NEW s \in Slots, NEW i \in Items, BeginRestore(s, i)
    PROVE  CounterInv'
  <1> USE ItemsAssumption
  <1> DEFINE numbered == item[i].kind = "project" \/ item[i].num # 0
             r == [Idle EXCEPT !.pc = IF numbered THEN "queued" ELSE "numbered",
                               !.op = "restore", !.id = i, !.prod = item[i].prod,
                               !.auto = numbered]
  <1>1. /\ slot' = [slot EXCEPT ![s] = r] /\ item' = item /\ active' = active
        /\ item[i].kind \in {"task", "project"}
    BY DEF BeginRestore, Start, Trashed
  <1>2. active \in Products /\ item[i] \in Rows
    BY DEF CounterInv, Typed
  <1>3. Idle.num = 0
    BY DEF Idle
  <1>4. /\ r \in Requests /\ r.op = "restore" /\ r.id = i /\ r.prod = item[i].prod /\ r.num = 0
        /\ r.pc \in {"queued", "numbered"} /\ (r.pc = "numbered" <=> ~r.auto)
    <2>1. item[i].prod \in Products \union {None}
      BY <1>2 DEF Rows
    <2>2. CASE numbered
      BY <1>3, <2>1, <2>2, IdleFits DEF Requests
    <2>3. CASE ~numbered
      BY <1>3, <2>1, <2>3, IdleFits DEF Requests
    <2> QED
      BY <2>2, <2>3
  <1> HIDE DEF r
  <1>5. RequestFits(r) /\ ~Holds(r)
    BY <1>1, <1>4 DEF RequestFits, Holds
  <1> QED
    BY <1>1, <1>2, <1>4, <1>5, RequestMoves

LEMMA PlansFit ==
    ASSUME CounterInv, NEW s \in Slots,
           \/ \E i \in Items : BeginPlan(s, i)
           \/ BeginPurge(s)
    PROVE  CounterInv'
  <1> USE ItemsAssumption
  <1>0. active \in Products /\ item \in [Items -> Rows]
    BY DEF CounterInv, Typed
  <1>1. ASSUME NEW i \in Items, BeginPlan(s, i) PROVE CounterInv'
    <2> DEFINE r == [Idle EXCEPT !.pc = "checked", !.op = item[i].kind, !.id = i, !.prod = active]
    <2>1. slot' = [slot EXCEPT ![s] = r] /\ item' = item /\ active' = active
          /\ item[i].kind \in {"task", "project"}
      BY <1>1 DEF BeginPlan, Start, Plannable
    <2>2. r \in Requests /\ r.pc = "checked"
      BY <1>0, <2>1, IdleFits DEF Requests
    <2> HIDE DEF r
    <2>3. RequestFits(r) /\ ~Holds(r)
      BY <2>2 DEF RequestFits, Holds
    <2> QED
      BY <1>0, <2>1, <2>2, <2>3, RequestMoves
  <1>2. CASE BeginPurge(s)
    <2> DEFINE r == [Idle EXCEPT !.pc = "listed", !.op = "purge",
                                 !.seen = {i \in Items : Trashed(i) /\ item[i].kind = "project"}]
    <2>1. slot' = [slot EXCEPT ![s] = r] /\ item' = item /\ active' = active
      BY <1>2 DEF BeginPurge, Start
    <2>2. r \in Requests /\ r.pc = "listed"
      BY IdleFits DEF Requests
    <2> HIDE DEF r
    <2>3. RequestFits(r) /\ ~Holds(r)
      BY <2>2 DEF RequestFits, Holds
    <2> QED
      BY <1>0, <2>1, <2>2, <2>3, RequestMoves
  <1> QED
    BY <1>1, <1>2

(* A finished request: its record is idle again. *)
LEMMA EndIsIdle ==
    ASSUME NEW why \in {"done", "exhausted", "collided", "duplicate", "failed"},
           NEW s, End(s, why)
    PROVE  \E r \in Requests : r.pc = "idle" /\ slot' = [slot EXCEPT ![s] = r]
  <1>1. [Idle EXCEPT !.why = why] \in Requests /\ [Idle EXCEPT !.why = why].pc = "idle"
    BY IdleFits DEF Requests
  <1> QED
    BY <1>1 DEF End

LEMMA EndsFit ==
    ASSUME CounterInv, NEW s \in Slots, NEW why \in {"done", "exhausted", "collided", "duplicate", "failed"},
           End(s, why), item' = item, active' = active
    PROVE  CounterInv'
  <1>1. PICK r \in Requests : r.pc = "idle" /\ slot' = [slot EXCEPT ![s] = r]
    BY EndIsIdle
  <1>2. RequestFits(r) /\ ~Holds(r)
    BY <1>1 DEF RequestFits, Holds
  <1>3. active \in Products
    BY DEF CounterInv, Typed
  <1> QED
    BY <1>1, <1>2, <1>3, RequestMoves

LEMMA TakesFit ==
    ASSUME CounterInv, NEW s \in Slots, TakeNumber(s) PROVE CounterInv'
  <1> USE ItemsAssumption
  <1>0. Typed /\ RequestFits(slot[s]) /\ slot[s] \in Requests
    BY DEF CounterInv, Typed
  <1> DEFINE p == slot[s].prod
             rows == {i \in Items : item[i].kind \in {"task", "project"} /\ item[i].prod = p}
  <1>1. slot[s].pc = "queued" /\ SeriesFree(p) /\ item' = item /\ active' = active
    BY DEF TakeNumber
  <1>2. CASE NextNumber(p) > Top
    <2>1. End(s, "exhausted")
      BY <1>2 DEF TakeNumber
    <2> QED
      BY <1>1, <2>1, EndsFit
  <1>3. CASE ~(NextNumber(p) > Top)
    <2>1. PICK n, h : n = NextNumber(p) /\ h = rows
      OBVIOUS
    <2>2. h \in SUBSET Items
      BY <2>1
    <2>3. n \in 1..Top /\ \A j \in LiveOf(p) : item[j].num < n
      BY <1>0, <1>3, <2>1, NextIsFree
    <2> DEFINE r == [slot[s] EXCEPT !.pc = "numbered", !.num = n, !.held = h]
    <2>4. slot' = [slot EXCEPT ![s] = r]
      BY <1>0, <1>3, <2>1 DEF TakeNumber, Typed
    <2>5. /\ r \in Requests /\ r.pc = "numbered" /\ r.num = n /\ r.prod = p
          /\ r.op = slot[s].op /\ r.id = slot[s].id /\ r.auto = slot[s].auto
      <3>1. n \in 0..Top
        BY <2>3
      <3>2. slot[s] \in Requests
        BY <1>0
      <3> HIDE DEF rows
      <3> QED
        BY <2>2, <3>1, <3>2 DEF Requests
    <2> HIDE DEF r
    <2>6. \A j \in LiveOf(p) : item[j].num # n
      <3>1. \A j \in LiveOf(p) : item[j].num \in 0..Top
        BY <1>0 DEF LiveOf, Typed, Rows
      <3> QED
        BY <2>3, <3>1
    <2>7. RequestFits(r)
      BY <1>0, <1>1, <2>3, <2>5, <2>6 DEF RequestFits
    <2>8. \A t \in Slots \ {s} : ~(Holds(slot[t]) /\ slot[t].prod = r.prod)
      BY <1>1, <2>5 DEF SeriesFree, Holds
    <2>9. active' \in Products
      BY <1>0, <1>1 DEF Typed
    <2> QED
      BY <1>1, <2>4, <2>5, <2>7, <2>8, <2>9, RequestMoves
  <1> QED
    BY <1>2, <1>3

(* The commits. *)
LEMMA CreateCommits ==
    ASSUME CounterInv, NEW s \in Slots, CommitCreate(s) PROVE CounterInv'
  <1> USE ItemsAssumption
  <1>0. Typed /\ RequestFits(slot[s]) /\ slot[s] \in Requests
    BY DEF CounterInv, Typed
  <1> DEFINE row == [kind |-> slot[s].op, prod |-> slot[s].prod, num |-> slot[s].num,
                     tag |-> slot[s].tag, trashed |-> FALSE]
             why == IF slot[s].auto THEN "collided" ELSE "duplicate"
  <1>1. /\ slot[s].pc = "numbered" /\ slot[s].op \in {"task", "project"} /\ active' = active
        /\ \E i \in Items : /\ item[i].kind = "none"
                            /\ \/ End(s, why) /\ item' = item
                               \/ item' = [item EXCEPT ![i] = row] /\ End(s, "done")
    BY DEF CommitCreate
  <1>2. row \in Rows /\ row.num = slot[s].num /\ row.prod = slot[s].prod /\ row.kind # "none"
    BY <1>0, <1>1 DEF Requests, Rows, Kinds
  <1>3. why \in {"collided", "duplicate"}
    OBVIOUS
  <1> HIDE DEF row, why
  <1>4. CASE End(s, why) /\ item' = item
    BY <1>1, <1>3, <1>4, EndsFit
  <1>5. ASSUME NEW i \in Items, item[i].kind = "none", item' = [item EXCEPT ![i] = row], End(s, "done")
        PROVE  CounterInv'
    <2>1. PICK r \in Requests : r.pc = "idle" /\ slot' = [slot EXCEPT ![s] = r]
      BY <1>5, EndIsIdle
    <2> QED
      BY <1>1, <1>2, <1>5, <2>1, RowWritten
  <1> QED
    BY <1>1, <1>4, <1>5

LEMMA UpdateCommits ==
    ASSUME CounterInv, NEW s \in Slots, CommitUpdate(s) PROVE CounterInv'
  <1> USE ItemsAssumption
  <1>0. Typed /\ RequestFits(slot[s]) /\ slot[s] \in Requests
    BY DEF CounterInv, Typed
  <1>1. slot[s].pc = "numbered" /\ slot[s].op = "restore" /\ active' = active
    BY <1>0 DEF CommitUpdate, RequestFits
  <1>2. PICK i : i = slot[s].id
    OBVIOUS
  <1>3. i \in Items /\ item[i] \in Rows /\ item[i].kind # "none" /\ item[i].prod = slot[s].prod
    BY <1>0, <1>1, <1>2 DEF RequestFits, Typed
  <1> DEFINE row == [item[i] EXCEPT !.num = slot[s].num,
                                    !.trashed = IF slot[s].op = "restore" THEN FALSE ELSE @]
             why == IF slot[s].auto /\ item[i].kind # "gone" THEN "collided" ELSE "failed"
  <1>4. \/ End(s, why) /\ item' = item
        \/ item' = [item EXCEPT ![i] = row] /\ End(s, "done")
    BY <1>2 DEF CommitUpdate
  <1>5. row \in Rows /\ row.num = slot[s].num /\ row.prod = slot[s].prod /\ row.kind # "none"
    <2>1. slot[s].num \in 0..Top
      BY <1>0 DEF Requests
    <2> QED
      BY <1>1, <1>3, <2>1 DEF Rows
  <1>6. why \in {"collided", "failed"}
    OBVIOUS
  <1> HIDE DEF row, why
  <1>7. CASE End(s, why) /\ item' = item
    BY <1>1, <1>6, <1>7, EndsFit
  <1>8. CASE item' = [item EXCEPT ![i] = row] /\ End(s, "done")
    <2>1. PICK r \in Requests : r.pc = "idle" /\ slot' = [slot EXCEPT ![s] = r]
      BY <1>8, EndIsIdle
    <2> QED
      BY <1>1, <1>3, <1>5, <1>8, <2>1, RowWritten
  <1> QED
    BY <1>4, <1>7, <1>8

LEMMA PlanEnds ==
    ASSUME CounterInv, NEW s \in Slots, Insert(s) \/ CommitPlan(s) \/ EndPurge(s) PROVE CounterInv'
  <1>0. Typed /\ slot[s] \in Requests
    BY DEF CounterInv, Typed
  <1>1. CASE End(s, "done") \/ End(s, "failed")
    <2>1. item' = item /\ active' = active
      BY DEF Insert, CommitPlan, EndPurge
    <2> QED
      BY <1>1, <2>1, EndsFit
  <1>2. CASE slot' = [slot EXCEPT ![s].pc = "inserted"]
    <2> DEFINE r == [slot[s] EXCEPT !.pc = "inserted"]
    <2>1. slot' = [slot EXCEPT ![s] = r]
      BY <1>0, <1>2 DEF Typed
    <2>2. r \in Requests /\ r.pc = "inserted"
      BY <1>0 DEF Requests
    <2> HIDE DEF r
    <2>3. RequestFits(r) /\ ~Holds(r)
      BY <2>2 DEF RequestFits, Holds
    <2>4. item' = item /\ active' \in Products
      BY <1>0 DEF Insert, CommitPlan, EndPurge, Typed
    <2> QED
      BY <2>1, <2>2, <2>3, <2>4, RequestMoves
  <1> QED
    BY <1>1, <1>2 DEF Insert, CommitPlan, EndPurge

(* What goes to the trash, or for good. *)
LEMMA RowEdited ==
    ASSUME Typed, NEW i \in Items, NEW row \in Rows, item' = [item EXCEPT ![i] = row],
           row.prod = item[i].prod, row.num = item[i].num, row.kind # "none",
           row.trashed \/ row.kind = "gone"
    PROVE  /\ item' \in [Items -> Rows]
           /\ \A j \in Items : /\ item'[j].prod = item[j].prod /\ item'[j].num = item[j].num
                               /\ item[j].kind # "none" => item'[j].kind # "none"
                               /\ Live(j)' => Live(j)
  <1>1. \A j \in Items : item'[j] = IF j = i THEN row ELSE item[j]
    BY DEF Typed
  <1>2. \A j \in Items : Live(j)' => Live(j)
    BY <1>1 DEF Live
  <1>3. item' \in [Items -> Rows]
    BY DEF Typed
  <1> QED
    BY <1>1, <1>2, <1>3

LEMMA TrashLeaves ==
    ASSUME CounterInv, NEW i \in Items, Trash(i) \/ Reap(i) PROVE CounterInv'
  <1>0. Typed /\ item[i] \in Rows
    BY DEF CounterInv, Typed
  <1>1. slot' = slot /\ active' = active
    BY DEF Trash, Reap, Destroy
  <1>2. CASE Trash(i)
    <2> DEFINE row == [item[i] EXCEPT !.trashed = TRUE]
    <2>1. item' = [item EXCEPT ![i] = row] /\ item[i].kind \in {"task", "project"}
      BY <1>0, <1>2 DEF Trash, Live, Typed
    <2>2. row \in Rows /\ row.prod = item[i].prod /\ row.num = item[i].num /\ row.kind # "none" /\ row.trashed
      BY <1>0, <2>1 DEF Rows
    <2> HIDE DEF row
    <2>3. /\ item' \in [Items -> Rows]
          /\ \A j \in Items : /\ item'[j].prod = item[j].prod /\ item'[j].num = item[j].num
                              /\ item[j].kind # "none" => item'[j].kind # "none"
                              /\ Live(j)' => Live(j)
      BY <1>0, <2>1, <2>2, RowEdited
    <2> QED
      BY <1>0, <1>1, <2>3, RowsLeave DEF Typed
  <1>3. CASE Reap(i)
    <2> DEFINE row == [item[i] EXCEPT !.kind = "gone"]
    <2>1. item' = [item EXCEPT ![i] = row]
      BY <1>0, <1>3 DEF Reap, Destroy, Typed
    <2>2. row \in Rows /\ row.prod = item[i].prod /\ row.num = item[i].num /\ row.kind = "gone"
      BY <1>0 DEF Rows, Kinds
    <2> HIDE DEF row
    <2>3. /\ item' \in [Items -> Rows]
          /\ \A j \in Items : /\ item'[j].prod = item[j].prod /\ item'[j].num = item[j].num
                              /\ item[j].kind # "none" => item'[j].kind # "none"
                              /\ Live(j)' => Live(j)
      BY <1>0, <2>1, <2>2, RowEdited
    <2> QED
      BY <1>0, <1>1, <2>3, RowsLeave DEF Typed
  <1> QED
    BY <1>2, <1>3

LEMMA PurgeLeaves ==
    ASSUME CounterInv, NEW s \in Slots, NEW i \in Items, PurgeOne(s, i) PROVE CounterInv'
  <1>0. Typed /\ item[i] \in Rows /\ slot[s] \in Requests
    BY DEF CounterInv, Typed
  <1> DEFINE r == [slot[s] EXCEPT !.seen = @ \ {i}]
  <1>1. slot' = [slot EXCEPT ![s] = r] /\ active' = active
    BY <1>0 DEF PurgeOne, Destroy, Typed
  <1>2. /\ r \in Requests /\ r.pc = slot[s].pc /\ r.op = slot[s].op /\ r.id = slot[s].id
        /\ r.prod = slot[s].prod /\ r.num = slot[s].num /\ r.auto = slot[s].auto
    BY <1>0 DEF Requests
  <1> HIDE DEF r
  <1>3. /\ slot' \in [Slots -> Requests]
        /\ \A t \in Slots : /\ slot'[t].pc = slot[t].pc /\ slot'[t].op = slot[t].op
                            /\ slot'[t].id = slot[t].id /\ slot'[t].prod = slot[t].prod
                            /\ slot'[t].num = slot[t].num /\ slot'[t].auto = slot[t].auto
    BY <1>0, <1>1, <1>2 DEF Typed
  <1>4. CASE item[i].kind = "gone"
    <2>1. item' = item
      BY <1>4 DEF PurgeOne
    <2>2. \A j \in Items : Live(j)' => Live(j)
      BY <2>1 DEF Live
    <2> QED
      BY <1>0, <1>1, <1>3, <2>1, <2>2, RowsLeave DEF Typed
  <1>5. CASE item[i].kind # "gone"
    <2> DEFINE row == [item[i] EXCEPT !.kind = "gone"]
    <2>1. item' = [item EXCEPT ![i] = row]
      BY <1>0, <1>5 DEF PurgeOne, Destroy, Typed
    <2>2. row \in Rows /\ row.prod = item[i].prod /\ row.num = item[i].num /\ row.kind = "gone"
      BY <1>0 DEF Rows, Kinds
    <2> HIDE DEF row
    <2>3. /\ item' \in [Items -> Rows]
          /\ \A j \in Items : /\ item'[j].prod = item[j].prod /\ item'[j].num = item[j].num
                              /\ item[j].kind # "none" => item'[j].kind # "none"
                              /\ Live(j)' => Live(j)
      BY <1>0, <2>1, <2>2, RowEdited
    <2> QED
      BY <1>0, <1>1, <1>3, <2>3, RowsLeave DEF Typed
  <1> QED
    BY <1>4, <1>5

-----------------------------------------------------------------------------
(* The invariant.                                                          *)

LEMMA CounterStep ==
    ASSUME ByCounter, CounterInv, [Next]_vars PROVE CounterInv'
  <1>1. ASSUME UNCHANGED <<item, slot>>, active' \in Products PROVE CounterInv'
    <2>1. \A j \in Items : Live(j)' => Live(j)
      BY <1>1 DEF Live
    <2> QED
      BY <1>1, <2>1, RowsLeave DEF CounterInv, Typed
  <1>2. ASSUME NEW s \in Slots,
               \/ \E tag \in Tags, n \in 1..Top : BeginManual(s, tag, n)
               \/ \E i \in Items, n \in 1..Top : BeginRenumber(s, i, n)
               \/ \E i \in Items, op \in {"convert", "stale"} : BeginConvert(s, op, i)
        PROVE  FALSE
    BY <1>2 DEF ByCounter, BeginManual, BeginRenumber, BeginConvert, Start
  <1>3. ASSUME NEW s \in Slots, Move(s) \/ CommitConvert(s) PROVE FALSE
    BY <1>3 DEF CounterInv, RequestFits, Move, CommitConvert
  <1>4. ASSUME NEW s \in Slots,
               \/ \E kind \in {"task", "project"}, tag \in Tags : BeginCreate(s, kind, tag)
               \/ \E i \in Items : BeginRestore(s, i) \/ PurgeOne(s, i)
               \/ (\E i \in Items : BeginPlan(s, i)) \/ BeginPurge(s)
        PROVE  CounterInv'
    BY <1>4, CreatesFit, RestoresFit, PlansFit, PurgeLeaves
  <1>5. ASSUME NEW s \in Slots,
               \/ TakeNumber(s) \/ CommitCreate(s) \/ CommitUpdate(s)
               \/ Insert(s) \/ CommitPlan(s) \/ EndPurge(s)
        PROVE  CounterInv'
    BY <1>5, TakesFit, CreateCommits, UpdateCommits, PlanEnds
  <1>6. ASSUME NEW i \in Items, Trash(i) \/ Reap(i) \/ RemoveItem(i) PROVE CounterInv'
    <2>1. CASE RemoveItem(i)
      <3>1. UNCHANGED <<item, slot>> /\ active' = active
        BY <2>1 DEF RemoveItem
      <3> QED
        BY <1>1, <3>1 DEF CounterInv, Typed
    <2> QED
      BY <1>6, <2>1, TrashLeaves
  <1>7. ASSUME NEW p \in Products, Switch(p) PROVE CounterInv'
    <2>1. UNCHANGED <<item, slot>> /\ active' = p
      BY <1>7 DEF Switch
    <2> QED
      BY <1>1, <2>1
  <1>8. ASSUME UNCHANGED vars PROVE CounterInv'
    <2>1. UNCHANGED <<item, slot>> /\ active' = active
      BY <1>8 DEF vars
    <2> QED
      BY <1>1, <2>1 DEF CounterInv, Typed
  <1>9. CASE Next
    <2>1. CASE \E s \in Slots :
               \/ \E kind \in {"task", "project"}, tag \in Tags : BeginCreate(s, kind, tag)
               \/ \E tag \in Tags, n \in 1..Top : BeginManual(s, tag, n)
               \/ \E i \in Items, n \in 1..Top : BeginRenumber(s, i, n)
               \/ \E i \in Items : BeginRestore(s, i) \/ BeginPlan(s, i) \/ PurgeOne(s, i)
               \/ \E i \in Items, op \in {"convert", "stale"} : BeginConvert(s, op, i)
               \/ TakeNumber(s) \/ CommitCreate(s) \/ CommitUpdate(s)
               \/ Move(s) \/ CommitConvert(s)
               \/ BeginPurge(s) \/ EndPurge(s)
               \/ Insert(s) \/ CommitPlan(s)
      BY <1>2, <1>3, <1>4, <1>5, <2>1, Zenon
    <2> QED
      BY <1>6, <1>7, <1>9, <2>1, Zenon DEF Next
  <1> QED
    BY <1>8, <1>9

(* The projects and tasks of a product that are not in the trash have      *)
(* numbers of their own, however their creations, deletions, restorations  *)
(* and purges overlap: two callers of get_next_series_number_shared never  *)
(* come away with one number, and a restored row never meets a live one.   *)
THEOREM OneCounterHolds ==
    ASSUME ByCounter PROVE Spec => []OneCounter
  <1>1. Init => CounterInv
    BY CounterInit
  <1>2. CounterInv /\ [Next]_vars => CounterInv'
    BY CounterStep
  <1>3. CounterInv => OneCounter
    BY DEF CounterInv
  <1> QED
    BY <1>1, <1>2, <1>3, PTL DEF Spec

-----------------------------------------------------------------------------
(* One request after the other.                                            *)

Numbering(r) == r.pc \in {"queued", "numbered"}

(* What a request has read is still so while it is alone.                  *)
StillSo(r) ==
    /\ Numbering(r) /\ r.op = "restore" => Trashed(r.id) /\ r.prod = item[r.id].prod
    /\ Numbering(r) /\ r.op \in {"restore", "renumber", "convert"} => r.id \in Items
    /\ Numbering(r) => r.op \in {"task", "project", "restore", "renumber", "convert"}
    /\ r.pc = "moved" => /\ r.id \in Items /\ item[r.id].kind = "task" /\ r.op = "convert"
                         /\ r.seen = {p \in Products : <<p, r.id>> \in roadmap}
    /\ r.pc = "listed" => r.op = "purge" /\ \A i \in r.seen : i \in Items /\ Trashed(i)
    /\ r.pc \in {"checked", "inserted"} =>
         /\ r.id \in Items /\ r.prod \in Products /\ item[r.id].prod = r.prod
         /\ item[r.id].kind \in {"task", "project"}
    /\ r.pc = "queued" => r.auto
    /\ Numbering(r) /\ r.op = "renumber" => ~r.auto
    /\ r.pc = "numbered" /\ r.auto => \A j \in LiveOf(r.prod) : item[j].num # r.num
    /\ r.pc = "numbered" /\ r.op = "restore" /\ ~r.auto => r.num = 0 /\ item[r.id].kind = "task"
    /\ r.why # "collided"
    /\ "stale" \notin Ops /\ r.op = "convert" /\ r.pc # "idle" => r.prod = item[r.id].prod

AloneInv ==
    /\ \A s, t \in Slots : slot[s].pc # "idle" /\ slot[t].pc # "idle" => s = t
    /\ \A s \in Slots : StillSo(slot[s])
    /\ roadmap \subseteq Products \X Items
    /\ \A e \in roadmap : item[e[2]].kind # "none"
    /\ "stale" \notin Ops => RoadmapOwn

SoloInv == Typed /\ AloneInv

(* A request that is alone begins, goes on or ends.                        *)
LEMMA SoloRequest ==
    ASSUME SoloInv, NEW s \in Slots, NEW r \in Requests, slot' = [slot EXCEPT ![s] = r],
           slot[s].pc # "idle" \/ \A t \in Slots : slot[t].pc = "idle",
           item' \in [Items -> Rows], active' \in Products, StillSo(r)',
           roadmap' \subseteq Products \X Items,
           \A e \in roadmap' : item'[e[2]].kind # "none",
           "stale" \notin Ops => RoadmapOwn'
    PROVE  SoloInv'
  <1>1. slot'[s] = r /\ \A t \in Slots \ {s} : slot'[t] = slot[t]
    BY DEF SoloInv, Typed
  <1>2. \A t \in Slots \ {s} : slot'[t].pc = "idle" /\ slot'[t].why # "collided"
    BY <1>1 DEF SoloInv, AloneInv, StillSo
  <1>3. (\A t \in Slots : StillSo(slot[t]))'
    BY <1>1, <1>2 DEF StillSo, Numbering
  <1> QED BY <1>1, <1>2, <1>3 DEF SoloInv, AloneInv, Typed

(* The same, when the step writes no row and no entry.                     *)
LEMMA SoloMove ==
    ASSUME SoloInv, NEW s \in Slots, NEW r \in Requests, slot' = [slot EXCEPT ![s] = r],
           slot[s].pc # "idle" \/ \A t \in Slots : slot[t].pc = "idle",
           UNCHANGED <<item, active, roadmap>>, StillSo(r)
    PROVE  SoloInv'
  <1>1. StillSo(r)'
    BY DEF StillSo, Numbering, Trashed, LiveOf, Live
  <1> QED BY <1>1, SoloRequest DEF SoloInv, AloneInv, Typed, RoadmapOwn

(* A request that ends claims nothing.                                     *)
LEMMA SoloEnd ==
    ASSUME SoloInv, NEW s \in Slots, NEW why \in {"done", "exhausted", "duplicate", "failed"},
           End(s, why), slot[s].pc # "idle",
           item' \in [Items -> Rows], active' \in Products,
           roadmap' \subseteq Products \X Items,
           \A e \in roadmap' : item'[e[2]].kind # "none",
           "stale" \notin Ops => RoadmapOwn'
    PROVE  SoloInv'
  <1> DEFINE r == [Idle EXCEPT !.why = why]
  <1>1. r \in Requests /\ r.pc = "idle" /\ r.why = why /\ slot' = [slot EXCEPT ![s] = r]
    BY IdleFits DEF Requests, End
  <1> HIDE DEF r
  <1>2. StillSo(r)'
    BY <1>1 DEF StillSo, Numbering
  <1> QED BY <1>1, <1>2, SoloRequest

LEMMA SoloEndPlain ==
    ASSUME SoloInv, NEW s \in Slots, NEW why \in {"done", "exhausted", "duplicate", "failed"},
           End(s, why), slot[s].pc # "idle", UNCHANGED <<item, active, roadmap>>
    PROVE  SoloInv'
  BY SoloEnd DEF SoloInv, AloneInv, Typed, RoadmapOwn

(* Each request begins with what it reads.                                 *)
LEMMA SoloStarts ==
    ASSUME ~Interleaved, SoloInv, NEW s \in Slots,
           \/ \E kind \in {"task", "project"}, tag \in Tags : BeginCreate(s, kind, tag)
           \/ \E tag \in Tags, n \in 1..Top : BeginManual(s, tag, n)
           \/ \E i \in Items, n \in 1..Top : BeginRenumber(s, i, n)
           \/ \E i \in Items : BeginRestore(s, i) \/ BeginPlan(s, i)
           \/ \E i \in Items, op \in {"convert", "stale"} : BeginConvert(s, op, i)
           \/ BeginPurge(s)
    PROVE  SoloInv'
  <1> USE ItemsAssumption
  <1>0. /\ active \in Products /\ item \in [Items -> Rows] /\ Idle \in Requests
        /\ \A i \in Items : item[i].num \in 0..Top /\ item[i].prod \in Products \union {None}
                            /\ item[i].tag \in Tags
    BY IdleFits DEF SoloInv, Typed, Rows
  <1>1. ASSUME NEW op, NEW r, Start(s, op, r)
        PROVE  /\ slot' = [slot EXCEPT ![s] = r] /\ UNCHANGED <<item, active, roadmap>>
               /\ \A t \in Slots : slot[t].pc = "idle"
    BY <1>1 DEF Start
  <1>2. ASSUME NEW kind \in {"task", "project"}, NEW tag \in Tags, BeginCreate(s, kind, tag)
        PROVE  SoloInv'
    <2> DEFINE r == [Idle EXCEPT !.pc = "queued", !.op = kind, !.prod = active, !.tag = tag,
                                 !.auto = TRUE]
    <2>1. Start(s, kind, r)
      BY <1>2 DEF BeginCreate
    <2>2. r \in Requests /\ r.pc = "queued" /\ r.op = kind /\ r.auto /\ r.why = None
      BY <1>0 DEF Requests, Idle
    <2> HIDE DEF r
    <2>3. StillSo(r)
      BY <2>2 DEF StillSo, Numbering, None
    <2> QED BY <1>1, <2>1, <2>2, <2>3, SoloMove
  <1>3. ASSUME NEW tag \in Tags, NEW n \in 1..Top, BeginManual(s, tag, n) PROVE SoloInv'
    <2> DEFINE r == [Idle EXCEPT !.pc = "numbered", !.op = "project", !.prod = active,
                                 !.tag = tag, !.num = n]
    <2>1. Start(s, "manual", r)
      BY <1>3 DEF BeginManual
    <2>2. r \in Requests /\ r.pc = "numbered" /\ r.op = "project" /\ ~r.auto /\ r.why = None
      <3>1. n \in 0..Top
        OBVIOUS
      <3> QED BY <1>0, <3>1 DEF Requests, Idle
    <2> HIDE DEF r
    <2>3. StillSo(r)
      BY <2>2 DEF StillSo, Numbering, None
    <2> QED BY <1>1, <2>1, <2>2, <2>3, SoloMove
  <1>4. ASSUME NEW i \in Items, NEW n \in 1..Top, BeginRenumber(s, i, n) PROVE SoloInv'
    <2> DEFINE r == [Idle EXCEPT !.pc = "numbered", !.op = "renumber", !.id = i,
                                 !.prod = item[i].prod, !.num = n]
    <2>1. Start(s, "renumber", r)
      BY <1>4 DEF BeginRenumber
    <2>2. /\ r \in Requests /\ r.pc = "numbered" /\ r.op = "renumber" /\ ~r.auto /\ r.id = i
          /\ r.why = None
      <3>1. n \in 0..Top
        OBVIOUS
      <3> QED BY <1>0, <3>1 DEF Requests, Idle
    <2> HIDE DEF r
    <2>3. StillSo(r)
      BY <2>2 DEF StillSo, Numbering, None
    <2> QED BY <1>1, <2>1, <2>2, <2>3, SoloMove
  <1>5. ASSUME NEW i \in Items, BeginRestore(s, i) PROVE SoloInv'
    <2>0. PICK auto \in BOOLEAN : auto <=> item[i].kind = "project" \/ item[i].num # 0
      OBVIOUS
    <2> DEFINE r == [Idle EXCEPT !.pc = IF auto THEN "queued" ELSE "numbered",
                                 !.op = "restore", !.id = i, !.prod = item[i].prod,
                                 !.auto = auto]
    <2>1. Trashed(i) /\ Start(s, "restore", r)
      BY <1>5, <2>0 DEF BeginRestore
    <2>2. /\ r \in Requests /\ r.pc = (IF auto THEN "queued" ELSE "numbered") /\ r.op = "restore"
          /\ r.id = i /\ r.prod = item[i].prod /\ r.auto = auto /\ r.why = None /\ r.num = 0
      BY <1>0, ZenonT(60) DEF Requests, Idle
    <2> HIDE DEF r
    <2>3. StillSo(r)
      BY <2>0, <2>1, <2>2 DEF StillSo, Numbering, None, Trashed
    <2> QED BY <1>1, <2>1, <2>2, <2>3, SoloMove
  <1>6. ASSUME NEW i \in Items, BeginPlan(s, i) PROVE SoloInv'
    <2> DEFINE r == [Idle EXCEPT !.pc = "checked", !.op = item[i].kind, !.id = i, !.prod = active]
    <2>1. /\ Start(s, "plan", r) /\ item[i].prod = active
          /\ item[i].kind \in {"task", "project"}
      BY <1>6 DEF BeginPlan, Plannable
    <2>2. r \in Requests /\ r.pc = "checked" /\ r.op = item[i].kind /\ r.id = i /\ r.prod = active /\ r.why = None
      BY <1>0, <2>1 DEF Requests, Idle
    <2> HIDE DEF r
    <2>3. StillSo(r)
      BY <1>0, <2>1, <2>2 DEF StillSo, Numbering, None
    <2> QED BY <1>1, <2>1, <2>2, <2>3, SoloMove
  <1>7. ASSUME NEW i \in Items, NEW op \in {"convert", "stale"}, BeginConvert(s, op, i) PROVE SoloInv'
    <2>0. PICK auto \in BOOLEAN : auto <=> item[i].num = 0
      OBVIOUS
    <2> DEFINE r == [Idle EXCEPT !.pc = IF auto THEN "queued" ELSE "numbered",
                                 !.op = "convert", !.id = i, !.prod = active,
                                 !.num = item[i].num, !.auto = auto]
    <2>1. Start(s, op, r) /\ op \in Ops /\ (op = "convert" => item[i].prod = active)
      BY <1>7, <2>0 DEF BeginConvert, Start
    <2>2. /\ r \in Requests /\ r.pc = (IF auto THEN "queued" ELSE "numbered") /\ r.op = "convert"
          /\ r.id = i /\ r.prod = active /\ r.auto = auto /\ r.why = None
      BY <1>0, ZenonT(60) DEF Requests, Idle
    <2> HIDE DEF r
    <2>3. StillSo(r)
      BY <2>0, <2>1, <2>2 DEF StillSo, Numbering, None
    <2> QED BY <1>1, <2>1, <2>2, <2>3, SoloMove
  <1>8. ASSUME BeginPurge(s) PROVE SoloInv'
    <2> DEFINE r == [Idle EXCEPT !.pc = "listed", !.op = "purge",
                                 !.seen = {i \in Items : Trashed(i) /\ item[i].kind = "project"}]
    <2>1. Start(s, "purge", r)
      BY <1>8 DEF BeginPurge
    <2>2. /\ r \in Requests /\ r.pc = "listed" /\ r.op = "purge" /\ r.why = None
          /\ r.seen = {i \in Items : Trashed(i) /\ item[i].kind = "project"}
      BY <1>0 DEF Requests, Idle
    <2> HIDE DEF r
    <2>3. StillSo(r)
      BY <2>2 DEF StillSo, Numbering, None
    <2> QED BY <1>1, <2>1, <2>2, <2>3, SoloMove
  <1> QED BY <1>2, <1>3, <1>4, <1>5, <1>6, <1>7, <1>8

(* A number is taken and used by the same request.                         *)
LEMMA SoloTakes == ASSUME SoloInv, NEW s \in Slots, TakeNumber(s) PROVE SoloInv'
  <1> USE ItemsAssumption
  <1>0. Typed /\ StillSo(slot[s]) /\ slot[s] \in Requests
    BY DEF SoloInv, AloneInv, Typed
  <1> DEFINE p == slot[s].prod
             rows == {i \in Items : item[i].kind \in {"task", "project"} /\ item[i].prod = p}
  <1>1. slot[s].pc = "queued" /\ UNCHANGED <<item, active, roadmap>>
    BY DEF TakeNumber
  <1>2. CASE NextNumber(p) > Top
    BY <1>1, <1>2, SoloEndPlain DEF TakeNumber
  <1>3. CASE ~(NextNumber(p) > Top)
    <2>1. PICK n, h : n = NextNumber(p) /\ h = rows
      OBVIOUS
    <2>2. h \in SUBSET Items
      BY <2>1
    <2>3. n \in 0..Top /\ \A j \in LiveOf(p) : item[j].num \in Nat /\ item[j].num < n
      BY <1>0, <1>3, <2>1, NextIsFree DEF LiveOf, Typed, Rows
    <2> DEFINE r == [slot[s] EXCEPT !.pc = "numbered", !.num = n, !.held = h]
    <2>4. slot' = [slot EXCEPT ![s] = r]
      BY <1>0, <1>3, <2>1 DEF TakeNumber, Typed
    <2>5. /\ r \in Requests /\ r.pc = "numbered" /\ r.num = n /\ r.prod = p /\ r.seen = slot[s].seen
          /\ r.op = slot[s].op /\ r.id = slot[s].id /\ r.auto = slot[s].auto /\ r.why = slot[s].why
      <3> HIDE DEF rows
      <3> QED BY <1>0, <2>2, <2>3 DEF Requests
    <2>6. r.auto
      BY <1>0, <1>1, <2>5 DEF StillSo
    <2> HIDE DEF r
    <2>7. \A j \in LiveOf(p) : item[j].num # n
      BY <2>3
    <2>8. StillSo(r)
      BY <1>0, <1>1, <2>5, <2>6, <2>7 DEF StillSo, Numbering
    <2> QED BY <1>1, <2>4, <2>5, <2>8, SoloMove
  <1> QED BY <1>2, <1>3

(* The commits.                                                            *)
LEMMA SoloCommits ==
    ASSUME SoloInv, NEW s \in Slots, CommitCreate(s) \/ CommitUpdate(s) PROVE SoloInv'
  <1> USE ItemsAssumption
  <1>0. /\ Typed /\ StillSo(slot[s]) /\ slot[s] \in Requests /\ active \in Products
        /\ item \in [Items -> Rows]
        /\ roadmap \subseteq Products \X Items
        /\ \A e \in roadmap : item[e[2]].kind # "none"
        /\ "stale" \notin Ops => RoadmapOwn
    BY DEF SoloInv, AloneInv, Typed
  <1>1. CASE CommitCreate(s)
    <2> DEFINE row == [kind |-> slot[s].op, prod |-> slot[s].prod, num |-> slot[s].num,
                       tag |-> slot[s].tag, trashed |-> FALSE]
               why == IF slot[s].auto THEN "collided" ELSE "duplicate"
    <2>1. PICK i \in Items :
             /\ item[i].kind = "none"
             /\ IF Clash(i, row) THEN End(s, why) /\ UNCHANGED item
                ELSE item' = [item EXCEPT ![i] = row] /\ End(s, "done")
      BY <1>1 DEF CommitCreate
    <2>2. /\ slot[s].pc = "numbered" /\ slot[s].op \in {"task", "project"}
          /\ UNCHANGED <<active, roadmap>>
      BY <1>1 DEF CommitCreate
    <2>3. row \in Rows /\ row.kind # "none" /\ row.num = slot[s].num /\ row.prod = slot[s].prod
      BY <1>0, <2>2 DEF Requests, Rows, Kinds
    <2>4. slot[s].auto => ~Clash(i, row)
      BY <1>0, <2>2, <2>3 DEF Clash, StillSo, LiveOf
    <2> HIDE DEF row
    <2>5. CASE Clash(i, row)
      <3>1. End(s, "duplicate") /\ UNCHANGED <<item, active, roadmap>>
        BY <2>1, <2>2, <2>4, <2>5
      <3> QED BY <2>2, <3>1, SoloEndPlain
    <2>6. CASE ~Clash(i, row)
      <3>1. item' = [item EXCEPT ![i] = row] /\ End(s, "done")
        BY <2>1, <2>6
      <3>2. item' \in [Items -> Rows] /\ \A j \in Items \ {i} : item'[j] = item[j]
        BY <1>0, <2>3, <3>1
      <3>3. \A e \in roadmap : e[2] \in Items /\ e[2] # i
        BY <1>0, <2>1
      <3>4. RoadmapOwn => RoadmapOwn'
        BY <2>2, <3>2, <3>3 DEF RoadmapOwn
      <3> QED BY <1>0, <2>2, <3>1, <3>2, <3>3, <3>4, SoloEnd
    <2> QED BY <2>5, <2>6
  <1>2. CASE CommitUpdate(s)
    <2>0. PICK i : i = slot[s].id
      OBVIOUS
    <2> DEFINE row == [item[i] EXCEPT !.num = slot[s].num,
                                  !.trashed = IF slot[s].op = "restore" THEN FALSE ELSE @]
    <2>1. /\ slot[s].pc = "numbered" /\ slot[s].op \in {"restore", "renumber"}
          /\ UNCHANGED <<active, roadmap>>
          /\ \/ /\ End(s, IF slot[s].auto /\ item[i].kind # "gone" THEN "collided" ELSE "failed")
                /\ item[i].kind = "gone" \/ (~row.trashed /\ Clash(i, row))
                /\ UNCHANGED item
             \/ item' = [item EXCEPT ![i] = row] /\ End(s, "done")
      BY <1>2, <2>0 DEF CommitUpdate
    <2>2. i \in Items /\ item[i] \in Rows
      BY <1>0, <2>0, <2>1 DEF StillSo, Numbering
    <2>3. /\ row \in Rows /\ row.kind = item[i].kind /\ row.prod = item[i].prod
          /\ row.num = slot[s].num
      BY <1>0, <2>2 DEF Requests, Rows
    <2>4. ~(slot[s].auto /\ item[i].kind # "gone" /\ Clash(i, row))
      <3>1. CASE slot[s].op = "restore"
        BY <1>0, <2>0, <2>1, <2>3, <3>1 DEF Clash, StillSo, LiveOf, Numbering
      <3>2. CASE slot[s].op = "renumber"
        BY <1>0, <2>1, <3>2 DEF StillSo, Numbering
      <3> QED BY <2>1, <3>1, <3>2
    <2> HIDE DEF row
    <2>5. CASE UNCHANGED item
      <3>1. End(s, "failed") \/ End(s, "done")
        BY <2>1, <2>4
      <3> QED BY <2>1, <2>5, <3>1, SoloEndPlain
    <2>6. CASE item' = [item EXCEPT ![i] = row] /\ End(s, "done")
      <3>1. /\ item' \in [Items -> Rows]
            /\ \A j \in Items : /\ item'[j].kind = item[j].kind /\ item'[j].prod = item[j].prod
        BY <1>0, <2>2, <2>3, <2>6
      <3>2. \A e \in roadmap : e[2] \in Items
        BY <1>0
      <3>3. RoadmapOwn => RoadmapOwn'
        BY <2>1, <3>1, <3>2 DEF RoadmapOwn
      <3> QED BY <1>0, <2>1, <2>6, <3>1, <3>2, <3>3, SoloEnd
    <2> QED BY <2>1, <2>5, <2>6
  <1> QED BY <1>1, <1>2

(* A conversion finds its entries as it saw them, and keeps them.          *)
LEMMA SoloConverts ==
    ASSUME SoloInv, NEW s \in Slots, Move(s) \/ CommitConvert(s)
    PROVE  SoloInv' /\ (CommitConvert(s) => roadmap \subseteq roadmap')
  <1> USE ItemsAssumption
  <1>0. /\ Typed /\ StillSo(slot[s]) /\ slot[s] \in Requests /\ active \in Products
        /\ item \in [Items -> Rows]
        /\ roadmap \subseteq Products \X Items
        /\ \A e \in roadmap : item[e[2]].kind # "none"
        /\ "stale" \notin Ops => RoadmapOwn
    BY DEF SoloInv, AloneInv, Typed
  <1>p. PICK i : i = slot[s].id
    OBVIOUS
  <1>1. CASE Move(s)
    <2>1. slot[s].pc = "numbered" /\ slot[s].op = "convert" /\ UNCHANGED <<item, active, roadmap>>
      BY <1>1 DEF Move
    <2>2. CASE item[i].kind # "task"
      BY <1>1, <1>p, <2>1, <2>2, SoloEndPlain DEF Move, CommitConvert
    <2>3. CASE item[i].kind = "task"
      <3>1. PICK x \in SUBSET Products : x = {p \in Products : <<p, i>> \in roadmap}
        OBVIOUS
      <3> DEFINE r == [slot[s] EXCEPT !.pc = "moved", !.seen = x]
      <3>2. slot' = [slot EXCEPT ![s] = r]
        BY <1>0, <1>1, <1>p, <2>3, <3>1 DEF Move, Typed
      <3>3. /\ r \in Requests /\ r.pc = "moved" /\ r.seen = x /\ r.id = i /\ r.prod = slot[s].prod
            /\ r.op = "convert" /\ r.why = slot[s].why /\ i \in Items
        BY <1>0, <1>p, <2>1 DEF Requests, StillSo, Numbering
      <3> HIDE DEF r
      <3>4. StillSo(r)
        BY <1>0, <1>p, <2>1, <2>3, <3>1, <3>3 DEF StillSo, Numbering
      <3> QED BY <2>1, <3>2, <3>3, <3>4, SoloMove DEF CommitConvert
    <2> QED BY <2>2, <2>3
  <1>2. CASE CommitConvert(s)
    <2> DEFINE row == [kind |-> "project", prod |-> slot[s].prod, num |-> slot[s].num,
                       tag |-> "untyped", trashed |-> FALSE]
    <2>1. /\ slot[s].pc = "moved" /\ active' = active
          /\ \/ End(s, "failed") /\ UNCHANGED <<item, roadmap>>
             \/ /\ item' = [item EXCEPT ![i] = row]
                /\ roadmap' = {e \in roadmap : e[2] = i => e[1] \in slot[s].seen}
                /\ End(s, "done")
      BY <1>2, <1>p DEF CommitConvert
    <2>2. /\ i \in Items /\ item[i].kind = "task" /\ slot[s].op = "convert"
          /\ slot[s].seen = {p \in Products : <<p, i>> \in roadmap}
      BY <1>0, <1>p, <2>1 DEF StillSo
    <2>3. row \in Rows /\ row.kind = "project" /\ row.prod = slot[s].prod
      BY <1>0 DEF Requests, Rows, Kinds, Tags
    <2> HIDE DEF row
    <2>4. CASE End(s, "failed") /\ UNCHANGED <<item, roadmap>>
      BY <2>1, <2>4, SoloEndPlain
    <2>5. CASE /\ item' = [item EXCEPT ![i] = row]
               /\ roadmap' = {e \in roadmap : e[2] = i => e[1] \in slot[s].seen}
               /\ End(s, "done")
      <3>1. roadmap' = roadmap
        BY <1>0, <2>2, <2>5
      <3>2. item' \in [Items -> Rows] /\ item'[i] = row /\ \A j \in Items \ {i} : item'[j] = item[j]
        BY <1>0, <2>2, <2>3, <2>5
      <3>3. \A e \in roadmap : e[2] \in Items
        BY <1>0
      <3>4. "stale" \notin Ops => slot[s].prod = item[i].prod
        BY <1>0, <1>p, <2>1, <2>2 DEF StillSo
      <3>5. "stale" \notin Ops => RoadmapOwn'
        BY <1>0, <2>3, <3>1, <3>2, <3>3, <3>4 DEF RoadmapOwn
      <3>6. \A e \in roadmap' : item'[e[2]].kind # "none"
        BY <1>0, <2>3, <3>1, <3>2, <3>3
      <3> QED BY <1>0, <2>1, <2>5, <3>1, <3>2, <3>5, <3>6, SoloEnd
    <2> QED BY <2>1, <2>4, <2>5
  <1> QED BY <1>1, <1>2 DEF Move, CommitConvert

(* The purge destroys what it listed, and that is in the trash still.      *)
LEMMA SoloDestroys ==
    ASSUME SoloInv, NEW i \in Items, item[i].kind # "none", Destroy(i)
    PROVE  /\ item' \in [Items -> Rows] /\ active' = active
           /\ roadmap' \subseteq roadmap
           /\ \A j \in Items \ {i} : item'[j] = item[j]
           /\ item'[i].num = item[i].num /\ item'[i].kind = "gone"
           /\ \A e \in roadmap' : item'[e[2]].kind # "none"
           /\ "stale" \notin Ops => RoadmapOwn'
  <1> DEFINE row == [item[i] EXCEPT !.kind = "gone"]
  <1>1. /\ item \in [Items -> Rows] /\ item[i] \in Rows
        /\ roadmap \subseteq Products \X Items
        /\ \A e \in roadmap : item[e[2]].kind # "none"
        /\ "stale" \notin Ops => RoadmapOwn
    BY DEF SoloInv, AloneInv, Typed
  <1>2. row \in Rows /\ row.kind = "gone" /\ row.num = item[i].num /\ row.prod = item[i].prod
    BY <1>1 DEF Rows, Kinds
  <1>3. item' = [item EXCEPT ![i] = row] /\ active' = active
        /\ roadmap' = {e \in roadmap : e[2] # i}
    BY DEF Destroy
  <1> HIDE DEF row
  <1>4. item' \in [Items -> Rows] /\ item'[i] = row /\ \A j \in Items \ {i} : item'[j] = item[j]
    BY <1>1, <1>2, <1>3
  <1>5. \A e \in roadmap' : e \in roadmap /\ e[2] \in Items
    BY <1>1, <1>3
  <1>6. RoadmapOwn => RoadmapOwn'
    BY <1>2, <1>4, <1>5 DEF RoadmapOwn
  <1> QED BY <1>1, <1>2, <1>3, <1>4, <1>5, <1>6

LEMMA SoloPurges ==
    ASSUME SoloInv, NEW s \in Slots,
           (\E i \in Items : PurgeOne(s, i)) \/ EndPurge(s)
    PROVE  SoloInv'
  <1>0. /\ StillSo(slot[s]) /\ slot[s] \in Requests /\ active \in Products
        /\ slot \in [Slots -> Requests]
    BY DEF SoloInv, AloneInv, Typed
  <1>1. CASE EndPurge(s)
    BY <1>1, SoloEndPlain DEF EndPurge
  <1>2. ASSUME NEW i \in Items, PurgeOne(s, i) PROVE SoloInv'
    <2>1. PICK x \in SUBSET (Items \union Products) : x = slot[s].seen \ {i}
      BY <1>0 DEF Requests
    <2>r. PICK r : r = [slot[s] EXCEPT !.seen = x]
      OBVIOUS
    <2>2. /\ slot[s].pc = "listed" /\ i \in slot[s].seen /\ slot' = [slot EXCEPT ![s] = r]
          /\ UNCHANGED <<item, active, roadmap>> \/ Destroy(i)
      BY <1>0, <1>2, <2>1, <2>r DEF PurgeOne
    <2>3. /\ r \in Requests /\ r.pc = "listed" /\ r.seen = x /\ r.op = slot[s].op
          /\ r.id = slot[s].id /\ r.prod = slot[s].prod /\ r.why = slot[s].why
      BY <1>0, <2>2, <2>r DEF Requests
    <2>4. Trashed(i) /\ \A j \in x : j \in Items /\ j # i /\ Trashed(j)
      BY <1>0, <2>1, <2>2 DEF StillSo
    <2>5. CASE UNCHANGED <<item, active, roadmap>>
      <3>1. StillSo(r)
        BY <1>0, <2>2, <2>3, <2>4 DEF StillSo, Numbering
      <3> QED BY <2>2, <2>3, <2>5, <3>1, SoloMove
    <2>6. CASE Destroy(i)
      <3>1. /\ item' \in [Items -> Rows] /\ active' = active
            /\ roadmap' \subseteq roadmap
            /\ \A j \in Items \ {i} : item'[j] = item[j]
            /\ \A e \in roadmap' : item'[e[2]].kind # "none"
            /\ "stale" \notin Ops => RoadmapOwn'
        BY <2>4, <2>6, SoloDestroys DEF Trashed
      <3>2. \A j \in x : j \in Items /\ Trashed(j)'
        BY <2>4, <3>1 DEF Trashed
      <3>3. r.op = "purge" /\ r.why # "collided"
        BY <1>0, <2>2, <2>3 DEF StillSo
      <3>4. StillSo(r)'
        BY <2>3, <3>2, <3>3 DEF StillSo, Numbering
      <3>5. roadmap' \subseteq Products \X Items
        BY <3>1 DEF SoloInv, AloneInv
      <3>6. slot[s].pc # "idle"
        BY <2>2
      <3> QED BY <1>0, <2>2, <2>3, <3>1, <3>4, <3>5, <3>6, SoloRequest
    <2> QED BY <2>2, <2>5, <2>6
  <1> QED BY <1>1, <1>2

(* A plan inserts its entry, and commits it.                               *)
LEMMA SoloPlans ==
    ASSUME SoloInv, NEW s \in Slots, Insert(s) \/ CommitPlan(s) PROVE SoloInv'
  <1>0. /\ Typed /\ StillSo(slot[s]) /\ slot[s] \in Requests /\ active \in Products
        /\ slot \in [Slots -> Requests] /\ item \in [Items -> Rows]
        /\ roadmap \subseteq Products \X Items
        /\ \A e \in roadmap : item[e[2]].kind # "none"
        /\ "stale" \notin Ops => RoadmapOwn
    BY DEF SoloInv, AloneInv, Typed
  <1>1. CASE Insert(s)
    <2>1. slot[s].pc = "checked" /\ UNCHANGED <<item, active, roadmap>>
      BY <1>1 DEF Insert
    <2>2. CASE End(s, "failed")
      BY <2>1, <2>2, SoloEndPlain
    <2>3. CASE slot' = [slot EXCEPT ![s].pc = "inserted"]
      <3> DEFINE r == [slot[s] EXCEPT !.pc = "inserted"]
      <3>1. /\ r \in Requests /\ r.pc = "inserted" /\ r.id = slot[s].id /\ r.prod = slot[s].prod
            /\ r.op = slot[s].op /\ r.why = slot[s].why
        BY <1>0 DEF Requests
      <3>2. slot' = [slot EXCEPT ![s] = r]
        BY <1>0, <2>3
      <3> HIDE DEF r
      <3>3. StillSo(r)
        BY <1>0, <2>1, <3>1 DEF StillSo, Numbering
      <3> QED BY <2>1, <3>1, <3>2, <3>3, SoloMove
    <2> QED BY <1>1, <2>2, <2>3 DEF Insert
  <1>2. CASE CommitPlan(s)
    <2>1. /\ slot[s].pc = "inserted" /\ UNCHANGED <<item, active>> /\ End(s, "done")
          /\ roadmap' = roadmap \union {<<slot[s].prod, slot[s].id>>}
      BY <1>2 DEF CommitPlan
    <2>2. PICK p \in Products, i \in Items :
             /\ p = slot[s].prod /\ i = slot[s].id
             /\ item[i].prod = p /\ item[i].kind \in {"task", "project"}
      BY <1>0, <2>1 DEF StillSo
    <2>3. roadmap' = roadmap \union {<<p, i>>}
      BY <2>1, <2>2
    <2>4. roadmap' \subseteq Products \X Items
      BY <1>0, <2>3
    <2>5. \A e \in roadmap' : item'[e[2]].kind # "none"
      BY <1>0, <2>1, <2>2, <2>3
    <2>6. "stale" \notin Ops => RoadmapOwn'
      BY <1>0, <2>1, <2>2, <2>3 DEF RoadmapOwn
    <2> QED BY <1>0, <2>1, <2>4, <2>5, <2>6, SoloEnd
  <1> QED BY <1>1, <1>2

(* The steps of no request find every request ended.                       *)
LEMMA SoloOthers ==
    ASSUME SoloInv, UNCHANGED slot, \A t \in Slots : slot[t].pc = "idle",
           item' \in [Items -> Rows], active' \in Products,
           roadmap' \subseteq roadmap,
           \A i \in Items : item'[i].kind = "none" => item[i].kind = "none",
           \A i \in Items : item'[i].prod = item[i].prod
    PROVE  SoloInv'
  <1>1. /\ roadmap \subseteq Products \X Items
        /\ \A e \in roadmap : item[e[2]].kind # "none"
        /\ "stale" \notin Ops => RoadmapOwn
        /\ slot \in [Slots -> Requests]
        /\ \A t \in Slots : slot[t].why # "collided"
    BY DEF SoloInv, AloneInv, Typed, StillSo
  <1>2. \A e \in roadmap' : e \in roadmap /\ e[2] \in Items
    BY <1>1
  <1>3. (\A t \in Slots : StillSo(slot[t]))'
    BY <1>1 DEF StillSo, Numbering
  <1>4. RoadmapOwn => RoadmapOwn'
    BY <1>2 DEF RoadmapOwn
  <1>5. \A e \in roadmap' : item'[e[2]].kind # "none"
    BY <1>1, <1>2
  <1>6. roadmap' \subseteq Products \X Items
    BY <1>1
  <1>7. (\A s, t \in Slots : slot[s].pc # "idle" /\ slot[t].pc # "idle" => s = t)'
    OBVIOUS
  <1> QED BY <1>1, <1>3, <1>4, <1>5, <1>6, <1>7 DEF SoloInv, AloneInv, Typed

LEMMA SoloAdmin ==
    ASSUME ~Interleaved, SoloInv,
           \/ \E i \in Items : Trash(i) \/ Reap(i) \/ RemoveItem(i)
           \/ \E p \in Products : Switch(p)
    PROVE  SoloInv'
  <1>0. item \in [Items -> Rows] /\ active \in Products
    BY DEF SoloInv, Typed
  <1>1. ASSUME NEW i \in Items, Trash(i) PROVE SoloInv'
    <2> DEFINE row == [item[i] EXCEPT !.trashed = TRUE]
    <2>1. /\ item' = [item EXCEPT ![i] = row] /\ UNCHANGED <<active, roadmap, slot>>
          /\ \A t \in Slots : slot[t].pc = "idle"
      BY <1>0, <1>1 DEF Trash
    <2>2. row \in Rows /\ row.kind = item[i].kind /\ row.prod = item[i].prod
      BY <1>0 DEF Rows
    <2> HIDE DEF row
    <2>3. item' \in [Items -> Rows] /\ item'[i] = row /\ \A j \in Items \ {i} : item'[j] = item[j]
      BY <1>0, <2>1, <2>2
    <2> QED BY <1>0, <2>1, <2>2, <2>3, SoloOthers
  <1>2. ASSUME NEW i \in Items, Reap(i) PROVE SoloInv'
    <2>1. /\ UNCHANGED slot /\ Destroy(i) /\ item[i].kind = "task"
          /\ \A t \in Slots : slot[t].pc = "idle"
      BY <1>2 DEF Reap
    <2>2. /\ item' \in [Items -> Rows] /\ active' = active
          /\ roadmap' \subseteq roadmap
          /\ \A j \in Items \ {i} : item'[j] = item[j]
          /\ item'[i].kind = "gone" /\ item'[i].prod = item[i].prod
      <3>1. item'[i].prod = item[i].prod
        BY <1>0, <2>1 DEF Destroy, Rows
      <3> QED BY <2>1, <3>1, SoloDestroys
    <2> QED BY <1>0, <2>1, <2>2, SoloOthers
  <1>3. ASSUME NEW i \in Items, RemoveItem(i) PROVE SoloInv'
    BY <1>0, <1>3, SoloOthers DEF RemoveItem
  <1>4. ASSUME NEW p \in Products, Switch(p) PROVE SoloInv'
    BY <1>0, <1>4, SoloOthers DEF Switch
  <1> QED BY <1>1, <1>2, <1>3, <1>4

LEMMA SoloStep == ASSUME ~Interleaved, SoloInv, [Next]_vars PROVE SoloInv'
  <1>1. CASE UNCHANGED vars
    BY <1>1 DEF vars, SoloInv, AloneInv, Typed, StillSo, Numbering, Trashed, LiveOf, Live, RoadmapOwn
  <1>2. ASSUME NEW s \in Slots,
               \/ \E kind \in {"task", "project"}, tag \in Tags : BeginCreate(s, kind, tag)
               \/ \E tag \in Tags, n \in 1..Top : BeginManual(s, tag, n)
               \/ \E i \in Items, n \in 1..Top : BeginRenumber(s, i, n)
               \/ \E i \in Items : BeginRestore(s, i) \/ BeginPlan(s, i)
               \/ \E i \in Items, op \in {"convert", "stale"} : BeginConvert(s, op, i)
               \/ BeginPurge(s)
        PROVE SoloInv'
    BY <1>2, SoloStarts
  <1>3. ASSUME NEW s \in Slots,
               \/ TakeNumber(s) \/ CommitCreate(s) \/ CommitUpdate(s) \/ Move(s)
               \/ CommitConvert(s) \/ EndPurge(s) \/ Insert(s) \/ CommitPlan(s)
               \/ \E i \in Items : PurgeOne(s, i)
        PROVE SoloInv'
    BY <1>3, SoloTakes, SoloCommits, SoloConverts, SoloPurges, SoloPlans
  <1>4. CASE \/ \E i \in Items : Trash(i) \/ Reap(i) \/ RemoveItem(i)
             \/ \E p \in Products : Switch(p)
    BY <1>4, SoloAdmin
  <1> QED BY <1>1, <1>2, <1>3, <1>4 DEF Next

LEMMA SoloInit == Init => SoloInv
  <1> SUFFICES ASSUME Init PROVE SoloInv
    OBVIOUS
  <1>1. Typed
    BY CounterInit DEF CounterInv
  <1>2. roadmap = {} /\ \A s \in Slots : slot[s].pc = "idle" /\ slot[s].why = None
    BY DEF Init, Idle
  <1>3. \A s \in Slots : StillSo(slot[s])
    BY <1>2 DEF StillSo, Numbering, None
  <1> QED BY <1>1, <1>2, <1>3 DEF SoloInv, AloneInv, RoadmapOwn

LEMMA SoloHolds == ASSUME ~Interleaved PROVE Spec => []SoloInv
  <1>1. Init => SoloInv
    BY SoloInit
  <1>2. SoloInv /\ [Next]_vars => SoloInv'
    BY SoloStep
  <1> QED BY <1>1, <1>2, PTL DEF Spec

(* What a step may do to the numbers, the entries and the rows.            *)
NumberStep ==
    \A i \in Items :
      Live(i) /\ Live(i)' /\ item[i].kind = item[i].kind' /\ item[i].num # item[i].num'
          => \E s \in Slots : slot[s].op = "renumber" /\ slot[s].id = i
EntryStep == \A e \in roadmap \ roadmap' : item[e[2]].kind' = "gone" \/ item' = item
PurgeStep == \A i \in Items : item[i].kind' = "gone" /\ item[i].kind # "gone" => Trashed(i)
Steps == NumberStep /\ EntryStep /\ PurgeStep

(* A step that writes no row destroys none and loses only what is removed. *)
LEMMA RowsStay == ASSUME item' = item PROVE Steps
  BY DEF Steps, NumberStep, EntryStep, PurgeStep

(* The destruction of what is in the trash.                                *)
LEMMA DestroyStep ==
    ASSUME SoloInv, NEW i \in Items, Trashed(i), Destroy(i) PROVE Steps
  <1>1. /\ \A j \in Items \ {i} : item'[j] = item[j]
        /\ item'[i].kind = "gone"
    BY SoloDestroys DEF Trashed
  <1>2. \A e \in roadmap \ roadmap' : e[2] = i
    BY DEF Destroy
  <1> QED BY <1>1, <1>2 DEF Steps, NumberStep, EntryStep, PurgeStep, Live, Trashed

LEMMA CommitStep ==
    ASSUME SoloInv, NEW s \in Slots, CommitCreate(s) \/ CommitUpdate(s) PROVE Steps
  <1>0. /\ StillSo(slot[s]) /\ slot[s] \in Requests /\ item \in [Items -> Rows]
    BY DEF SoloInv, AloneInv, Typed
  <1>1. roadmap' = roadmap
    BY DEF CommitCreate, CommitUpdate
  <1>2. CASE item' = item
    BY <1>2, RowsStay
  <1>3. CASE CommitCreate(s) /\ item' # item
    <2>0. PICK i \in Items : \E row :
             /\ item[i].kind = "none" /\ item' = [item EXCEPT ![i] = row]
             /\ row.kind = slot[s].op /\ slot[s].op \in {"task", "project"}
      BY <1>3 DEF CommitCreate
    <2>1. PICK row :
             /\ item[i].kind = "none" /\ item' = [item EXCEPT ![i] = row]
             /\ row.kind = slot[s].op /\ slot[s].op \in {"task", "project"}
      BY <2>0
    <2>2. item'[i] = row /\ \A j \in Items \ {i} : item'[j] = item[j]
      BY <1>0, <2>1
    <2> QED BY <1>1, <2>1, <2>2 DEF Steps, NumberStep, EntryStep, PurgeStep, Live, Trashed
  <1>4. CASE CommitUpdate(s) /\ item' # item
    <2>1. PICK i : i = slot[s].id
      OBVIOUS
    <2>2. i \in Items /\ slot[s].op \in {"restore", "renumber"}
      BY <1>0, <1>4, <2>1 DEF CommitUpdate, StillSo, Numbering
    <2> DEFINE row == [item[i] EXCEPT !.num = slot[s].num,
                                  !.trashed = IF slot[s].op = "restore" THEN FALSE ELSE @]
    <2>3. item' = [item EXCEPT ![i] = row] /\ row.kind = item[i].kind
      BY <1>0, <1>4, <2>1, <2>2 DEF CommitUpdate, Rows
    <2> HIDE DEF row
    <2>4. item'[i].kind = item[i].kind /\ \A j \in Items \ {i} : item'[j] = item[j]
      BY <1>0, <2>2, <2>3
    <2>5. slot[s].op = "restore" => ~Live(i)
      BY <1>0, <1>4, <2>1 DEF CommitUpdate, StillSo, Numbering, Trashed, Live
    <2>6. NumberStep
      BY <2>1, <2>2, <2>4, <2>5 DEF NumberStep
    <2> QED BY <1>1, <2>4, <2>6 DEF Steps, EntryStep, PurgeStep
  <1> QED BY <1>2, <1>3, <1>4

LEMMA ConvertStep ==
    ASSUME SoloInv, NEW s \in Slots, CommitConvert(s) PROVE Steps
  <1>0. /\ StillSo(slot[s]) /\ slot[s] \in Requests /\ item \in [Items -> Rows]
    BY DEF SoloInv, AloneInv, Typed
  <1>1. roadmap \subseteq roadmap'
    BY SoloConverts
  <1>2. CASE item' = item
    BY <1>2, RowsStay
  <1>3. CASE item' # item
    <2>0. PICK i \in Items : \E row :
             /\ item[i].kind = "task" /\ item' = [item EXCEPT ![i] = row] /\ row.kind = "project"
      BY <1>0, <1>3 DEF CommitConvert, StillSo
    <2>1. PICK row :
             /\ item[i].kind = "task" /\ item' = [item EXCEPT ![i] = row] /\ row.kind = "project"
      BY <2>0
    <2>2. item'[i] = row /\ \A j \in Items \ {i} : item'[j] = item[j]
      BY <1>0, <2>1
    <2> QED BY <1>1, <2>1, <2>2 DEF Steps, NumberStep, EntryStep, PurgeStep
  <1> QED BY <1>2, <1>3

LEMMA EveryStep == ASSUME SoloInv, [Next]_vars PROVE Steps
  <1>0. /\ item \in [Items -> Rows] /\ roadmap \subseteq Products \X Items
        /\ \A s \in Slots : StillSo(slot[s])
    BY DEF SoloInv, AloneInv, Typed
  <1>1. ASSUME NEW s \in Slots,
               \/ \E kind \in {"task", "project"}, tag \in Tags : BeginCreate(s, kind, tag)
               \/ \E tag \in Tags, n \in 1..Top : BeginManual(s, tag, n)
               \/ \E i \in Items, n \in 1..Top : BeginRenumber(s, i, n)
               \/ \E i \in Items : BeginRestore(s, i) \/ BeginPlan(s, i)
               \/ \E i \in Items, op \in {"convert", "stale"} : BeginConvert(s, op, i)
               \/ BeginPurge(s)
        PROVE item' = item
    BY <1>1 DEF BeginCreate, BeginManual, BeginRenumber, BeginRestore, BeginPlan, BeginConvert,
                BeginPurge, Start
  <1>2. ASSUME NEW s \in Slots,
               TakeNumber(s) \/ Move(s) \/ EndPurge(s) \/ Insert(s) \/ CommitPlan(s)
        PROVE item' = item
    BY <1>2 DEF TakeNumber, Move, EndPurge, Insert, CommitPlan
  <1>3. ASSUME NEW s \in Slots, NEW i \in Items, PurgeOne(s, i) PROVE Steps
    <2>1. item' = item \/ Destroy(i)
      BY <1>3 DEF PurgeOne
    <2>2. Trashed(i)
      BY <1>0, <1>3 DEF PurgeOne, StillSo
    <2> QED BY <2>1, <2>2, RowsStay, DestroyStep
  <1>4. ASSUME NEW i \in Items, Trash(i) PROVE Steps
    <2> DEFINE row == [item[i] EXCEPT !.trashed = TRUE]
    <2>1. item' = [item EXCEPT ![i] = row] /\ roadmap' = roadmap
      BY <1>0, <1>4 DEF Trash
    <2>2. row.kind = item[i].kind /\ row.trashed = TRUE
      BY <1>0 DEF Rows
    <2> HIDE DEF row
    <2>3. item'[i] = row /\ \A j \in Items \ {i} : item'[j] = item[j]
      BY <1>0, <2>1
    <2> QED BY <2>1, <2>2, <2>3 DEF Steps, NumberStep, EntryStep, PurgeStep, Live
  <1>5. ASSUME NEW i \in Items, Reap(i) \/ RemoveItem(i) PROVE Steps
    BY <1>5, RowsStay, DestroyStep DEF Reap, RemoveItem
  <1>6. ASSUME NEW p \in Products, Switch(p) PROVE Steps
    BY <1>6, RowsStay DEF Switch
  <1>7. CASE UNCHANGED vars
    BY <1>7, RowsStay DEF vars
  <1> QED
    BY <1>1, <1>2, <1>3, <1>4, <1>5, <1>6, <1>7, RowsStay, CommitStep, ConvertStep DEF Next

(* When requests do not overlap, nothing changes the number of a live item *)
(* but a request for another one: neither a restore, nor a conversion, nor *)
(* the allocation for somebody else.                                       *)
THEOREM LiveKeepsNumberHolds == ASSUME ~Interleaved PROVE Spec => LiveKeepsNumber
  <1>1. SoloInv /\ [Next]_vars => NumberStep
    BY EveryStep DEF Steps
  <1> QED BY <1>1, SoloHolds, PTL DEF Spec, LiveKeepsNumber, NumberStep

(* When requests do not overlap, a conversion keeps its task's place on    *)
(* every roadmap; an entry goes only by its removal or with its work.      *)
THEOREM RoadmapKeptHolds == ASSUME ~Interleaved PROVE Spec => RoadmapKept
  <1>1. SoloInv /\ [Next]_vars => EntryStep
    BY EveryStep DEF Steps
  <1> QED BY <1>1, SoloHolds, PTL DEF Spec, RoadmapKept, EntryStep

(* When requests do not overlap, the purges destroy only what is in the    *)
(* trash when they get to it, not merely when they listed it.              *)
THEOREM PurgedFromTrashHolds == ASSUME ~Interleaved PROVE Spec => PurgedFromTrash
  <1>1. SoloInv /\ [Next]_vars => PurgeStep
    BY EveryStep DEF Steps
  <1> QED BY <1>1, SoloHolds, PTL DEF Spec, PurgedFromTrash, PurgeStep

(* When requests do not overlap, an allocated number is never refused as   *)
(* in use, although other numbers are picked by hand and carried along by  *)
(* conversions.                                                            *)
THEOREM AutoNeverCollidesHolds == ASSUME ~Interleaved PROVE Spec => []AutoNeverCollides
  <1>1. SoloInv => AutoNeverCollides
    BY DEF SoloInv, AloneInv, StillSo, AutoNeverCollides
  <1> QED BY <1>1, SoloHolds, PTL

(* When requests do not overlap and the page of tasks is that of the       *)
(* active product, a roadmap lists only the work of its own product.       *)
THEOREM RoadmapOwnHolds ==
    ASSUME ~Interleaved, "stale" \notin Ops PROVE Spec => []RoadmapOwn
  <1>1. SoloInv => RoadmapOwn
    BY DEF SoloInv, AloneInv
  <1> QED BY <1>1, SoloHolds, PTL
=============================================================================
