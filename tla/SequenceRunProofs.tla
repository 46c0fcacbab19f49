-------------------------- MODULE SequenceRunProofs --------------------------
(***************************************************************************)
(* Theorems about SequenceRun, for any number of projects, runs and        *)
(* requests in flight.                                                     *)
(***************************************************************************)
EXTENDS SequenceRun, FiniteSetTheorems, WellFoundedInduction, TLAPS

(* A nonempty set of naturals has a least element.                         *)
LEMMA LeastExists == ASSUME NEW T \in SUBSET Nat, T # {} PROVE \E x \in T : \A y \in T : x <= y
  <1> DEFINE R == OpToRel(<, Nat)
  <1>1. \E x \in T : \A y \in T : ~ (<<y, x>> \in R)
    BY WFMin, NatLessThanWellFounded, Zenon
  <1>2. PICK x \in T : \A y \in T : ~ (<<y, x>> \in R)
    BY <1>1
  <1>3. \A y \in T : y < x => <<y, x>> \in R
    BY DEF OpToRel
  <1>4. \A y \in T : ~ (y < x)
    BY <1>2, <1>3, Zenon
  <1> HIDE DEF R
  <1>5. \A y \in T : x \in Nat /\ y \in Nat
    OBVIOUS
  <1>6. \A y \in T : x <= y
    BY <1>4, <1>5, SMT
  <1> QED
    BY <1>6, Zenon

-----------------------------------------------------------------------------
Copies == [Projects -> {"pending", "implementing"} \cup Terminal]
RunRow == [status : Active \cup Ended \cup {"none", "purged"}, order : Seq(Projects),
           index : Nat, conducted : BOOLEAN, copy : Copies]
Phases == {"idle", "create", "read", "index", "write", "stamp", "find", "mark", "commit",
           "guard", "heal", "reheal", "settlement", "purge", "load", "reset", "cancel"}
Request == [op : Ops \cup {"none"}, phase : Phases, p : Projects \cup {NoProject},
            r : Runs \cup {NoRun}, read : RunRow]
Members == [row : {"live"} \cup Finished, closed : BOOLEAN,
            launched : BOOLEAN, ended : BOOLEAN, asked : BOOLEAN]

Shape ==
    /\ run \in [Runs -> RunRow]
    /\ conductor \in [Runs -> {"none", "working", "complete"}]
    /\ settle \in [Runs -> SUBSET Projects]
    /\ member \in [Projects -> Members]
    /\ slot \in [Slots -> Request]

ProjectOps == {"launch", "stall", "close", "complete_project", "remove", "delete", "resume"}
TeardownOps == {"complete", "decide"}

(* What a request in flight knows: its project, its run, that the project  *)
(* is in the order it read, and that a run to create is new.               *)
Sound(x) ==
    /\ x.phase = "idle" <=> x = Idle
    /\ x.op \in ProjectOps => x.p \in Projects
    /\ x.phase \notin {"idle", "create", "read", "stamp", "find", "commit"} => x.r \in Runs
    /\ x.op \in TeardownOps => x.r \in Runs
    /\ x.op = "launch" /\ x.phase \in {"index", "write"} => x.p \in ToSet(x.read.order)
    /\ x.phase = "create" => x.read.status = "pending"

(* The project has finished, or its closeout is under way.                 *)
Over(p) == member[p].ended \/ Closing(p)
Covered(copy) == \A p \in Projects : copy[p] \in Terminal => Over(p)

Truth ==
    /\ \A r \in Runs : Covered(run[r].copy)
    /\ \A s \in Slots : Sound(slot[s]) /\ Covered(slot[s].read.copy)
    /\ \A p \in Projects : member[p].row # "live" => member[p].ended

RunInv == Shape /\ Truth

-----------------------------------------------------------------------------
(* Taking a project out of an order leaves an order of projects, by        *)
(* induction on the entries looked at.                                     *)

Upto(g, order, p, n) ==
    g = [i \in 0..n |-> IF i = 0 THEN <<>>
                        ELSE IF order[i] = p THEN g[i - 1] ELSE Append(g[i - 1], order[i])]

LEMMA WithoutExists ==
    ASSUME NEW order \in Seq(Projects), NEW p, NEW n \in 0..Len(order)
    PROVE  \E g : Upto(g, order, p, n)
  <1> DEFINE T == {m \in 0..Len(order) : ~ \E g : Upto(g, order, p, m)}
  <1>0. Len(order) \in Nat
    OBVIOUS
  <1>1. SUFFICES ASSUME T # {} PROVE FALSE
    OBVIOUS
  <1>2. T \in SUBSET Nat
    BY <1>0
  <1> HIDE DEF T
  <1>3. PICK m \in T : \A k \in T : m <= k
    BY <1>1, <1>2, LeastExists
  <1>4. m \in 0..Len(order) /\ ~ \E g : Upto(g, order, p, m)
    BY <1>3 DEF T
  <1>5. CASE m = 0
    <2>1. Upto([i \in 0..0 |-> <<>>], order, p, m)
      BY <1>5 DEF Upto
    <2> QED BY <1>4, <2>1
  <1>6. CASE m # 0
    <2>1. m - 1 \in 0..Len(order) /\ m - 1 \notin T
      BY <1>0, <1>3, <1>4, <1>6
    <2>2. PICK g : Upto(g, order, p, m - 1)
      BY <2>1 DEF T
    <2> DEFINE h == [i \in 0..m |-> IF i < m THEN g[i]
                      ELSE IF order[m] = p THEN g[m - 1] ELSE Append(g[m - 1], order[m])]
    <2>3. \A i \in 0..m : h[i] = IF i = 0 THEN <<>>
                        ELSE IF order[i] = p THEN h[i - 1] ELSE Append(h[i - 1], order[i])
      <3>0. m \in Nat
        BY <1>0, <1>4
      <3>1. \A i \in 0..m : i < m => h[i] = g[i]
        OBVIOUS
      <3>2. h[m] = IF order[m] = p THEN g[m - 1] ELSE Append(g[m - 1], order[m])
        BY <3>0
      <3>3. \A i \in 0..(m - 1) : g[i] = IF i = 0 THEN <<>>
                          ELSE IF order[i] = p THEN g[i - 1] ELSE Append(g[i - 1], order[i])
        BY <2>2 DEF Upto
      <3> HIDE DEF h
      <3> TAKE i \in 0..m
      <3>4. CASE i = m
        <4>1. h[m - 1] = g[m - 1]
          BY <1>6, <3>0, <3>1
        <4> QED BY <1>6, <3>2, <3>4, <4>1
      <3>5. CASE i # m
        <4>1. i < m /\ i \in 0..(m - 1) /\ (i # 0 => i - 1 \in 0..m /\ i - 1 < m)
          BY <3>0, <3>5
        <4>2. h[i] = g[i] /\ (i # 0 => h[i - 1] = g[i - 1])
          BY <3>1, <4>1
        <4> QED BY <3>3, <4>1, <4>2
      <3> QED BY <3>4, <3>5
    <2>4. Upto(h, order, p, m)
      <3>1. h = [i \in 0..m |-> h[i]]
        OBVIOUS
      <3> HIDE DEF h
      <3> QED BY <2>3, <3>1 DEF Upto
    <2> QED BY <1>4, <2>4
  <1> QED BY <1>5, <1>6

(* What is left of an order is in the order's order: its i-th entry stands  *)
(* at i or behind it in the order it was taken from.                        *)

LeftOf(left, order, p, m) ==
    /\ left \in Seq(Projects) /\ Len(left) <= m
    /\ \A i \in 1..Len(left) : \E k \in 1..m : i <= k /\ left[i] = order[k] /\ order[k] # p
    /\ \A i, j \in 1..Len(left) : i < j => \E k, l \in 1..m :
          k < l /\ left[i] = order[k] /\ left[j] = order[l]

LEMMA WithoutOrdered ==
    ASSUME NEW order \in Seq(Projects), NEW p
    PROVE  LeftOf(Without(order, p), order, p, Len(order))
  <1>0. Len(order) \in Nat
    OBVIOUS
  <1> DEFINE g == CHOOSE g : Upto(g, order, p, Len(order))
  <1>1. Upto(g, order, p, Len(order))
    BY <1>0, WithoutExists
  <1>2. Without(order, p) = g[Len(order)]
    BY Zenon DEF Without, Upto
  <1> HIDE DEF g
  <1> DEFINE T == {m \in 0..Len(order) : ~LeftOf(g[m], order, p, m)}
  <1>3. T = {}
    <2>1. SUFFICES ASSUME T # {} PROVE FALSE
      OBVIOUS
    <2>2. T \in SUBSET Nat
      BY <1>0
    <2> HIDE DEF T
    <2>3. PICK m \in T : \A k \in T : m <= k
      BY <2>1, <2>2, LeastExists
    <2>4. m \in 0..Len(order) /\ ~LeftOf(g[m], order, p, m)
      BY <2>3 DEF T
    <2>5. CASE m = 0
      <3>1. g[m] = <<>>
        BY <1>0, <1>1, <2>5 DEF Upto
      <3>2. <<>> \in Seq(Projects) /\ Len(<<>>) = 0 /\ 1..0 = {}
        OBVIOUS
      <3>3. LeftOf(<<>>, order, p, 0)
        BY <3>2 DEF LeftOf
      <3> QED BY <2>4, <2>5, <3>1, <3>3
    <2>6. CASE m # 0
      <3>1. m - 1 \in 0..Len(order) /\ m - 1 \notin T
        BY <1>0, <2>3, <2>4, <2>6
      <3>2. LeftOf(g[m - 1], order, p, m - 1)
        BY <3>1 DEF T
      <3>3. g[m] = IF order[m] = p THEN g[m - 1] ELSE Append(g[m - 1], order[m])
        BY <1>1, <2>4, <2>6 DEF Upto
      <3>4. order[m] \in Projects /\ m \in Nat /\ m - 1 \in Nat
        BY <1>0, <2>4, <2>6
      <3>5. PICK h : h = g[m - 1]
        OBVIOUS
      <3>6. /\ h \in Seq(Projects) /\ Len(h) <= m - 1
            /\ \A i \in 1..Len(h) : \E k \in 1..(m - 1) : i <= k /\ h[i] = order[k] /\ order[k] # p
            /\ \A i, j \in 1..Len(h) : i < j => \E k, l \in 1..(m - 1) :
                  k < l /\ h[i] = order[k] /\ h[j] = order[l]
        BY <3>2, <3>5 DEF LeftOf
      <3>7. CASE order[m] = p
        <4>1. LeftOf(h, order, p, m)
          BY <3>4, <3>6 DEF LeftOf
        <4> QED BY <2>4, <3>3, <3>5, <3>7, <4>1
      <3>8. CASE order[m] # p
        <4>0. PICK f : f = Append(h, order[m])
          OBVIOUS
        <4>1. /\ f \in Seq(Projects) /\ Len(f) = Len(h) + 1 /\ f[Len(h) + 1] = order[m]
              /\ \A i \in 1..Len(h) : f[i] = h[i]
          BY <3>4, <3>6, <4>0
        <4>2. Len(h) \in Nat
          BY <3>6
        <4>3. Len(f) <= m
          BY <3>4, <3>6, <4>1, <4>2
        <4>4. \A i \in 1..Len(f) : \E k \in 1..m : i <= k /\ f[i] = order[k] /\ order[k] # p
          <5> TAKE i \in 1..Len(f)
          <5>1. CASE i = Len(h) + 1
            BY <3>4, <3>8, <4>1, <4>3, <5>1
          <5>2. CASE i \in 1..Len(h)
            BY <3>4, <3>6, <4>1, <5>2
          <5> QED BY <4>1, <4>2, <5>1, <5>2
        <4>5. \A i, j \in 1..Len(f) : i < j => \E k, l \in 1..m :
                 k < l /\ f[i] = order[k] /\ f[j] = order[l]
          <5> SUFFICES ASSUME NEW i \in 1..Len(f), NEW j \in 1..Len(f), i < j
                       PROVE  \E k, l \in 1..m : k < l /\ f[i] = order[k] /\ f[j] = order[l]
            OBVIOUS
          <5>0. i \in 1..Len(h)
            BY <4>1, <4>2
          <5>1. CASE j = Len(h) + 1
            <6>1. PICK k \in 1..(m - 1) : h[i] = order[k]
              BY <3>6, <5>0
            <6>2. k \in 1..m /\ m \in 1..m /\ k < m
              BY <3>4, <6>1
            <6> QED BY <4>1, <5>0, <5>1, <6>1, <6>2
          <5>2. CASE j \in 1..Len(h)
            <6>1. PICK k \in 1..(m - 1), l \in 1..(m - 1) : k < l /\ h[i] = order[k] /\ h[j] = order[l]
              BY <3>6, <5>0, <5>2
            <6>2. k \in 1..m /\ l \in 1..m
              BY <3>4, <6>1
            <6> QED BY <4>1, <5>0, <5>2, <6>1, <6>2
          <5> QED BY <4>1, <4>2, <5>1, <5>2
        <4>6. g[m] = f
          BY <3>3, <3>5, <3>8, <4>0
        <4>7. LeftOf(f, order, p, m)
          BY <4>1, <4>3, <4>4, <4>5, Zenon DEF LeftOf
        <4> QED BY <2>4, <4>6, <4>7
      <3> QED BY <3>7, <3>8
    <2> QED BY <2>5, <2>6
  <1>4. LeftOf(g[Len(order)], order, p, Len(order))
    BY <1>0, <1>3
  <1> QED BY <1>2, <1>4

LEMMA WithoutIsSeq ==
    ASSUME NEW order \in Seq(Projects), NEW p PROVE Without(order, p) \in Seq(Projects)
  BY WithoutOrdered DEF LeftOf

-----------------------------------------------------------------------------
(* What the writers of the rows and of the requests write.                 *)

LEMMA AbsentRow ==
    /\ Absent \in RunRow /\ \A p \in Projects : Absent.copy[p] \notin Terminal
    /\ Idle \in Request /\ Sound(Idle) /\ Idle.op = "none" /\ Idle.read = Absent
  <1>1. Absent \in RunRow /\ \A p \in Projects : Absent.copy[p] = "pending"
    <2>1. <<>> \in Seq(Projects)
      OBVIOUS
    <2> QED BY <2>1 DEF Absent, NewRun, RunRow, Copies
  <1>2. Idle \in Request /\ Idle.op = "none" /\ Idle.phase = "idle" /\ Idle.read = Absent
    BY <1>1 DEF Idle, Request, Phases
  <1>3. Sound(Idle)
    BY <1>2 DEF Sound, ProjectOps, TeardownOps
  <1> QED BY <1>1, <1>2, <1>3 DEF Terminal

LEMMA Updated ==
    ASSUME run \in [Runs -> RunRow], NEW r \in Runs, NEW columns, Update(r, columns),
           "status" \in DOMAIN columns => columns["status"] \in Active \cup Ended,
           "order" \in DOMAIN columns => columns["order"] \in Seq(Projects),
           "index" \in DOMAIN columns => columns["index"] \in Nat,
           "conducted" \in DOMAIN columns => columns["conducted"] = FALSE,
           "copy" \in DOMAIN columns => columns["copy"] \in Copies
    PROVE  /\ run' \in [Runs -> RunRow] /\ \A q \in Runs \ {r} : run'[q] = run[q]
           /\ run'[r].status = IF "status" \in DOMAIN columns THEN columns["status"] ELSE run[r].status
           /\ run'[r].order = IF "order" \in DOMAIN columns THEN columns["order"] ELSE run[r].order
           /\ run'[r].copy = IF "copy" \in DOMAIN columns THEN columns["copy"] ELSE run[r].copy
  <1> DEFINE x == [c \in DOMAIN run[r] |-> IF c \in DOMAIN columns THEN columns[c] ELSE run[r][c]]
  <1>1. run' = [run EXCEPT ![r] = x]
    BY DEF Update
  <1>2. DOMAIN run[r] = {"status", "order", "index", "conducted", "copy"}
    BY DEF RunRow
  <1>3. x \in RunRow
    BY <1>2 DEF RunRow
  <1>4. /\ x.status = IF "status" \in DOMAIN columns THEN columns["status"] ELSE run[r].status
        /\ x.order = IF "order" \in DOMAIN columns THEN columns["order"] ELSE run[r].order
        /\ x.copy = IF "copy" \in DOMAIN columns THEN columns["copy"] ELSE run[r].copy
    BY <1>2
  <1> HIDE DEF x
  <1> QED BY <1>1, <1>3, <1>4

(* The rows a project's end writes.                                        *)
LEMMA Finishes ==
    ASSUME Shape, NEW q \in Projects, NEW row \in {"live"} \cup Finished,
           NEW closed \in BOOLEAN, Finish(q, row, closed)
    PROVE  /\ member' \in [Projects -> Members] /\ member'[q].ended
           /\ \A p \in Projects \ {q} : member'[p] = member[p]
  <1>1. member \in [Projects -> Members]
    BY DEF Shape
  <1>2. PICK b \in BOOLEAN : b <=> (member[q].closed \/ closed)
    OBVIOUS
  <1>3. b = (member[q].closed \/ closed)
    BY <1>1, <1>2 DEF Members
  <1> DEFINE m == [member[q] EXCEPT !.row = row, !.closed = b, !.ended = TRUE]
  <1>4. member' = [member EXCEPT ![q] = m]
    BY <1>1, <1>3, Zenon DEF Finish
  <1>5. m \in Members /\ m.ended
    BY <1>1 DEF Members
  <1> HIDE DEF m
  <1> QED BY <1>1, <1>4, <1>5

Rowless == {"idle", "create", "read", "stamp", "find", "commit"}

(* A request that begins, reads a run, goes on, or ends.                   *)
LEMMA Begins ==
    ASSUME RunInv, NEW s \in Slots, NEW op \in Ops, NEW p \in Projects \cup {NoProject},
           NEW r \in Runs \cup {NoRun}, NEW phase \in Phases \ {"idle", "create", "index", "write"},
           slot[s].phase = "idle",
           slot' = [slot EXCEPT ![s] = [Idle EXCEPT !.op = op, !.phase = phase, !.p = p, !.r = r]],
           op \in ProjectOps => p \in Projects,
           phase \notin Rowless \/ op \in TeardownOps => r \in Runs
    PROVE  \E x \in Request : /\ slot' = [slot EXCEPT ![s] = x] /\ Sound(x) /\ x.read = Absent
                              /\ x.op = op /\ x.phase = phase /\ x.p = p /\ x.r = r /\ slot[s] = Idle
  <1>0. PICK x : x = [Idle EXCEPT !.op = op, !.phase = phase, !.p = p, !.r = r]
    OBVIOUS
  <1>1. /\ x \in Request /\ x.op = op /\ x.phase = phase /\ x.p = p /\ x.r = r /\ x.read = Absent
        /\ Idle.phase = "idle"
    BY <1>0, AbsentRow DEF Idle, Request
  <1>2. Sound(x)
    BY <1>1 DEF Sound, Rowless
  <1>3. slot[s] = Idle
    BY DEF RunInv, Truth, Sound
  <1> QED BY <1>0, <1>1, <1>2, <1>3

LEMMA Goes ==
    ASSUME RunInv, NEW s \in Slots, NEW phase \in Phases \ {"idle", "create"}, Goto(s, phase),
           slot[s].phase # "idle", phase \notin Rowless => slot[s].r \in Runs,
           slot[s].op = "launch" /\ phase \in {"index", "write"} => slot[s].p \in ToSet(slot[s].read.order)
    PROVE  \E x \in Request : /\ slot' = [slot EXCEPT ![s] = x] /\ Sound(x) /\ x.read = slot[s].read
                              /\ x.op = slot[s].op /\ x.phase = phase /\ x.p = slot[s].p
                              /\ x.r = slot[s].r
  <1>0. slot \in [Slots -> Request] /\ Sound(slot[s])
    BY DEF RunInv, Shape, Truth
  <1>1. PICK x : x = [slot[s] EXCEPT !.phase = phase]
    OBVIOUS
  <1>2. slot' = [slot EXCEPT ![s] = x]
    BY <1>1 DEF Goto
  <1>3. /\ x \in Request /\ x.read = slot[s].read /\ x.op = slot[s].op /\ x.phase = phase
        /\ x.p = slot[s].p /\ x.r = slot[s].r
    BY <1>0, <1>1 DEF Request
  <1>4. x # Idle
    BY <1>3 DEF Idle
  <1>5. Sound(x)
    BY <1>0, <1>3, <1>4 DEF Sound, Rowless
  <1> QED BY <1>2, <1>3, <1>5

LEMMA Reads ==
    ASSUME RunInv, NEW s \in Slots, NEW r \in Runs, NEW phase \in Phases \ {"idle", "create"},
           Read(s, r, phase), slot[s].phase # "idle",
           slot[s].op = "launch" => slot[s].p \in ToSet(run[r].order)
    PROVE  \E x \in Request : /\ slot' = [slot EXCEPT ![s] = x] /\ Sound(x) /\ x.read = run[r]
                              /\ x.op = slot[s].op /\ x.phase = phase /\ x.p = slot[s].p /\ x.r = r
  <1>0. slot \in [Slots -> Request] /\ Sound(slot[s]) /\ run[r] \in RunRow
    BY DEF RunInv, Shape, Truth
  <1>y. PICK y : y = run[r]
    OBVIOUS
  <1>1. PICK x : x = [slot[s] EXCEPT !.r = r, !.read = y, !.phase = phase]
    OBVIOUS
  <1>2. slot' = [slot EXCEPT ![s] = x]
    BY <1>0, <1>1, <1>y DEF Read
  <1>3. /\ x \in Request /\ x.read = y /\ x.op = slot[s].op /\ x.phase = phase
        /\ x.p = slot[s].p /\ x.r = r
    BY <1>0, <1>1, <1>y DEF Request
  <1>4. x # Idle
    BY <1>3 DEF Idle
  <1>5. Sound(x)
    BY <1>0, <1>3, <1>4, <1>y DEF Sound
  <1> QED BY <1>2, <1>3, <1>5, <1>y

OverKept == \A p \in Projects : Over(p) => Over(p)'

(* A step keeps the invariant when what it writes was over before it, and  *)
(* what was over stays over.                                               *)
LEMMA Keeps ==
    ASSUME RunInv, Shape', \A p \in Projects : member[p].ended => member'[p].ended,
           \A p \in Projects : member'[p].row # "live" => member'[p].ended,
           \A s \in Slots : slot[s].op \in {"close", "complete_project"} =>
               \/ slot'[s].op = slot[s].op /\ slot'[s].p = slot[s].p
               \/ member'[slot[s].p].ended,
           \A r \in Runs : Covered(run'[r].copy),
           \A s \in Slots : Sound(slot'[s]) /\ Covered(slot'[s].read.copy)
    PROVE  RunInv' /\ OverKept
  <1>1. OverKept
    BY DEF Over, Closing, OverKept
  <1>2. (\A r \in Runs : Covered(run[r].copy))'
    BY <1>1 DEF Covered, OverKept
  <1>3. (\A s \in Slots : Sound(slot[s]) /\ Covered(slot[s].read.copy))'
    BY <1>1 DEF Covered, Sound, OverKept
  <1> QED BY <1>1, <1>2, <1>3 DEF RunInv, Truth

(* The same for one request that moves on without writing a project.       *)
LEMMA Moves ==
    ASSUME RunInv, NEW s \in Slots, NEW x \in Request, slot' = [slot EXCEPT ![s] = x],
           Sound(x), Covered(x.read.copy), member' = member,
           run' \in [Runs -> RunRow], \A r \in Runs : Covered(run'[r].copy),
           conductor' \in [Runs -> {"none", "working", "complete"}],
           settle' \in [Runs -> SUBSET Projects],
           slot[s].op \in {"close", "complete_project"} => x.op = slot[s].op /\ x.p = slot[s].p
    PROVE  RunInv' /\ OverKept
  <1>0. Shape /\ Truth
    BY DEF RunInv
  <1>1. Shape'
    BY <1>0 DEF Shape
  <1>2. slot'[s] = x /\ \A t \in Slots \ {s} : slot'[t] = slot[t]
    BY <1>0 DEF Shape
  <1>3. \A t \in Slots : slot[t].op \in {"close", "complete_project"} =>
           slot'[t].op = slot[t].op /\ slot'[t].p = slot[t].p
    BY <1>2
  <1>4. \A t \in Slots : Sound(slot'[t]) /\ Covered(slot'[t].read.copy)
    BY <1>0, <1>2 DEF Truth
  <1>5. \A p \in Projects : (member[p].ended => member'[p].ended)
                            /\ (member'[p].row # "live" => member'[p].ended)
    BY <1>0 DEF Truth
  <1> QED BY <1>1, <1>3, <1>4, <1>5, Keeps

(* And for a project written while no request moves, or as one ends.       *)
LEMMA Ends ==
    ASSUME RunInv, member' \in [Projects -> Members],
           \A p \in Projects : (member[p].ended => member'[p].ended)
                               /\ (member'[p].row # "live" => member'[p].ended),
           run' \in [Runs -> RunRow], \A r \in Runs : Covered(run'[r].copy),
           conductor' \in [Runs -> {"none", "working", "complete"}],
           settle' \in [Runs -> SUBSET Projects],
           \/ slot' = slot
           \/ \E s \in Slots : /\ slot' = [slot EXCEPT ![s] = Idle]
                               /\ slot[s].op \in {"close", "complete_project"} => member'[slot[s].p].ended
    PROVE  RunInv' /\ OverKept
  <1>0. Shape /\ Truth
    BY DEF RunInv
  <1>1. Shape'
    BY <1>0, AbsentRow DEF Shape
  <1>2. \A t \in Slots : \/ slot'[t] = slot[t]
                         \/ /\ slot'[t] = Idle
                            /\ slot[t].op \in {"close", "complete_project"} => member'[slot[t].p].ended
    BY <1>0 DEF Shape
  <1>3. Covered(Idle.read.copy)
    BY AbsentRow DEF Covered
  <1>4. \A t \in Slots : Sound(slot'[t]) /\ Covered(slot'[t].read.copy)
    BY <1>0, <1>2, <1>3, AbsentRow DEF Truth
  <1>5. \A t \in Slots : slot[t].op \in {"close", "complete_project"} =>
           \/ slot'[t].op = slot[t].op /\ slot'[t].p = slot[t].p
           \/ member'[slot[t].p].ended
    BY <1>2
  <1> QED BY <1>1, <1>4, <1>5, Keeps

-----------------------------------------------------------------------------
(* The actions.                                                            *)

Same == UNCHANGED <<run, conductor, settle, member>>

LEMMA SameTyped ==
    ASSUME RunInv
    PROVE  /\ run \in [Runs -> RunRow] /\ conductor \in [Runs -> {"none", "working", "complete"}]
           /\ settle \in [Runs -> SUBSET Projects] /\ member \in [Projects -> Members]
           /\ slot \in [Slots -> Request]
           /\ \A r \in Runs : Covered(run[r].copy)
           /\ \A s \in Slots : Sound(slot[s]) /\ Covered(slot[s].read.copy)
           /\ \A p \in Projects : member[p].row # "live" => member[p].ended
           /\ Covered(Absent.copy)
  BY AbsentRow DEF RunInv, Shape, Truth, Covered

(* Requests that begin.                                                    *)
LEMMA BeginMoves ==
    ASSUME RunInv, NEW s \in Slots, NEW op \in Ops, NEW p \in Projects \cup {NoProject},
           NEW r \in Runs \cup {NoRun}, NEW phase \in Phases \ {"idle", "create", "index", "write"},
           Begin(s, op, p, r, phase), UNCHANGED <<run, conductor, member>>,
           settle' \in [Runs -> SUBSET Projects],
           op \in ProjectOps => p \in Projects,
           phase \notin Rowless \/ op \in TeardownOps => r \in Runs
    PROVE  RunInv' /\ OverKept
  <1>1. PICK x \in Request : /\ slot' = [slot EXCEPT ![s] = x] /\ Sound(x) /\ x.read = Absent
                             /\ slot[s] = Idle
    BY Begins DEF Begin
  <1> QED BY <1>1, SameTyped, AbsentRow, Moves

LEMMA WriteBegins ==
    ASSUME RunInv, NEW s \in Slots, NEW x \in Request, slot' = [slot EXCEPT ![s] = x],
           slot[s].phase = "idle", Same,
           x.op \notin {"launch", "none"}, x.phase \in {"write", "reset"}, x.r \in Runs,
           Covered(x.read.copy), x.op \in ProjectOps => x.p \in Projects
    PROVE  RunInv' /\ OverKept
  <1>1. x # Idle
    BY DEF Idle
  <1>2. Sound(x)
    BY <1>1 DEF Sound
  <1>3. slot[s].op = "none"
    BY AbsentRow DEF RunInv, Truth, Sound
  <1> QED BY <1>2, <1>3, SameTyped, Moves DEF Same

LEMMA RequestsBegin ==
    ASSUME RunInv, SequenceRunAssumption, NEW s \in Slots,
           \/ \E p \in Projects : \/ StagingEnd(s, p) \/ GoSilent(s, p)
                                  \/ \E op \in Ops : CloseMember(s, op, p)
                                  \/ \E r \in Runs : RemoveMember(s, r, p)
           \/ \E r \in Runs :
                CompleteJob(s, r) \/ Decide(s, r) \/ ReleaseGracefully(s, r) \/ OpenPage(s, r)
                \/ DeactivateChain(s, r)
           \/ \E chain \in Chains : Start(s, chain)
    PROVE  RunInv' /\ OverKept
  <1>0. /\ run \in [Runs -> RunRow] /\ settle \in [Runs -> SUBSET Projects]
        /\ \A r \in Runs : Covered(run[r].copy)
        /\ Absent \in RunRow /\ Covered(Absent.copy)
    BY SameTyped, AbsentRow
  <1>1. ASSUME NEW p \in Projects, StagingEnd(s, p) PROVE RunInv' /\ OverKept
    <2>1. Begin(s, "launch", p, NoRun, "read") /\ "launch" \in Ops /\ Same
      BY <1>1 DEF StagingEnd, Begin, Same
    <2> QED BY <2>1, <1>0, BeginMoves DEF Phases, Rowless, TeardownOps, Same
  <1>2. ASSUME NEW p \in Projects, GoSilent(s, p) PROVE RunInv' /\ OverKept
    <2>1. PICK r \in Runs : Begin(s, "stall", p, r, "write") /\ "stall" \in Ops /\ Same
      BY <1>2 DEF GoSilent, Begin, ActiveRuns, Same
    <2>2. PICK x : x = [Idle EXCEPT !.op = "stall", !.phase = "write", !.p = p, !.r = r]
      OBVIOUS
    <2>3. slot[s].phase = "idle" /\ slot' = [slot EXCEPT ![s] = x]
      BY <2>1, <2>2 DEF Begin
    <2>4. /\ x \in Request /\ x.op = "stall" /\ x.phase = "write" /\ x.p = p /\ x.r = r
          /\ x.read = Absent
      BY <2>1, <2>2, AbsentRow DEF Idle, Request, Phases
    <2> QED BY <1>0, <2>1, <2>3, <2>4, WriteBegins
  <1>3. ASSUME NEW p \in Projects, NEW op \in Ops, CloseMember(s, op, p) PROVE RunInv' /\ OverKept
    <2>1. Begin(s, op, p, NoRun, "find") /\ op \in {"close", "complete_project"} /\ Same
      BY <1>3 DEF CloseMember, Same
    <2> QED BY <2>1, <1>0, BeginMoves DEF Phases, Rowless, TeardownOps, Same
  <1>4. ASSUME NEW p \in Projects, NEW r \in Runs, RemoveMember(s, r, p) PROVE RunInv' /\ OverKept
    <2>1. Begin(s, "remove", p, r, "load") /\ "remove" \in Ops /\ Same
      BY <1>4 DEF RemoveMember, Begin, Same
    <2> QED BY <2>1, <1>0, BeginMoves DEF Phases, Rowless, TeardownOps, Same
  <1>5. ASSUME NEW r \in Runs, CompleteJob(s, r) PROVE RunInv' /\ OverKept
    <2>1. Begin(s, "complete", NoProject, r, "guard") /\ "complete" \in Ops /\ Same
      BY <1>5 DEF CompleteJob, Begin, Same
    <2> QED BY <2>1, <1>0, BeginMoves DEF Phases, Rowless, TeardownOps, ProjectOps, Same
  <1>6. ASSUME NEW r \in Runs, Decide(s, r) PROVE RunInv' /\ OverKept
    <2>1. /\ Begin(s, "decide", NoProject, r, "find") /\ "decide" \in Ops
          /\ UNCHANGED <<run, conductor, member>> /\ settle' \in [Runs -> SUBSET Projects]
      BY <1>0, <1>6 DEF Decide, Begin
    <2> QED BY <2>1, <1>0, BeginMoves DEF Phases, Rowless, TeardownOps, ProjectOps
  <1>7. ASSUME NEW r \in Runs, ReleaseGracefully(s, r) PROVE RunInv' /\ OverKept
    <2>2. PICK x : x = [Idle EXCEPT !.op = "release", !.phase = "write", !.p = NoProject, !.r = r]
      OBVIOUS
    <2>3. "release" \in Ops /\ Same /\ slot[s].phase = "idle" /\ slot' = [slot EXCEPT ![s] = x]
      BY <1>7, <2>2 DEF ReleaseGracefully, Begin, Same
    <2>4. /\ x \in Request /\ x.op = "release" /\ x.phase = "write" /\ x.r = r
          /\ x.read = Absent
      BY <2>2, <2>3, AbsentRow DEF Idle, Request, Phases
    <2> QED BY <1>0, <2>3, <2>4, WriteBegins DEF ProjectOps
  <1>8. ASSUME NEW r \in Runs, OpenPage(s, r) PROVE RunInv' /\ OverKept
    <2>0. PICK y : y = run[r]
      OBVIOUS
    <2>1. PICK q : q = InFlight(run[r])
      OBVIOUS
    <2>2. PICK x : x = [op |-> "resume", phase |-> "write", p |-> q, r |-> r, read |-> y]
      OBVIOUS
    <2>3. /\ "resume" \in Ops /\ Same /\ slot[s].phase = "idle" /\ q # NoProject
          /\ slot' = [slot EXCEPT ![s] = x]
      BY <1>8, <2>0, <2>1, <2>2 DEF OpenPage, Same
    <2>4. q \in Projects
      BY <1>0, <2>1, <2>3 DEF InFlight, RunRow
    <2>5. /\ x \in Request /\ x.op = "resume" /\ x.phase = "write" /\ x.p = q /\ x.r = r
          /\ x.read = run[r]
      BY <1>0, <2>0, <2>2, <2>3, <2>4 DEF Request, Phases
    <2> QED BY <1>0, <2>3, <2>4, <2>5, WriteBegins
  <1>9. ASSUME NEW r \in Runs, DeactivateChain(s, r) PROVE RunInv' /\ OverKept
    <2>0. PICK y : y = run[r]
      OBVIOUS
    <2>2. PICK x : x = [Idle EXCEPT !.op = "deactivate", !.phase = "reset", !.r = r, !.read = y]
      OBVIOUS
    <2>3. "deactivate" \in Ops /\ Same /\ slot[s].phase = "idle" /\ slot' = [slot EXCEPT ![s] = x]
      BY <1>9, <2>0, <2>2 DEF DeactivateChain, Same
    <2>4. /\ x \in Request /\ x.op = "deactivate" /\ x.phase = "reset" /\ x.r = r
          /\ x.read = run[r]
      BY <1>0, <2>0, <2>2, <2>3, AbsentRow DEF Idle, Request, Phases
    <2> QED BY <1>0, <2>3, <2>4, WriteBegins DEF ProjectOps
  <1>10. ASSUME NEW chain \in Chains, Start(s, chain) PROVE RunInv' /\ OverKept
    <2>1. PICK row : row = NewRun(chain)
      OBVIOUS
    <2>2. row \in RunRow /\ row.status = "pending" /\ \A p \in Projects : row.copy[p] = "pending"
      BY <2>1 DEF NewRun, RunRow, Copies, SequenceRunAssumption, Active
    <2>3. PICK x : x = [Idle EXCEPT !.op = "start", !.phase = "create", !.read = row]
      OBVIOUS
    <2>4. /\ slot[s].phase = "idle" /\ slot' = [slot EXCEPT ![s] = x] /\ "start" \in Ops /\ Same
      BY <1>10, <2>1, <2>3 DEF Start, Same
    <2>5. x \in Request /\ x.op = "start" /\ x.phase = "create" /\ x.read = row /\ x # Idle
      BY <2>2, <2>3, <2>4, AbsentRow DEF Idle, Request, Phases
    <2>6. Sound(x)
      BY <2>2, <2>5 DEF Sound, ProjectOps, TeardownOps
    <2>7. Covered(row.copy)
      BY <2>2 DEF Covered, Terminal
    <2>8. slot[s].op = "none"
      BY <2>4, AbsentRow DEF RunInv, Truth, Sound
    <2> QED BY <1>0, <2>4, <2>5, <2>6, <2>7, <2>8, SameTyped, Moves DEF Same
  <1> QED BY <1>1, <1>2, <1>3, <1>4, <1>5, <1>6, <1>7, <1>8, <1>9, <1>10

(* Requests that look a run up.                                            *)
LEMMA SlotSteps ==
    ASSUME RunInv, NEW s \in Slots, Same,
           \/ \E x \in Request : /\ slot' = [slot EXCEPT ![s] = x] /\ Sound(x)
                                 /\ x.read = slot[s].read \/ (\E r \in Runs : x.read = run[r])
                                 /\ x.op = slot[s].op /\ x.p = slot[s].p
           \/ Return(s) /\ slot[s].op \notin {"close", "complete_project"}
    PROVE  RunInv' /\ OverKept
  <1>1. CASE Return(s) /\ slot[s].op \notin {"close", "complete_project"}
    BY <1>1, SameTyped, Ends DEF Return, Same
  <1>2. ASSUME NEW x \in Request, slot' = [slot EXCEPT ![s] = x], Sound(x),
               x.read = slot[s].read \/ (\E r \in Runs : x.read = run[r]),
               x.op = slot[s].op /\ x.p = slot[s].p
        PROVE  RunInv' /\ OverKept
    <2>1. Covered(x.read.copy)
      BY <1>2, SameTyped
    <2> QED BY <1>2, <2>1, SameTyped, Moves DEF Same
  <1> QED BY <1>1, <1>2

LEMMA Lookups ==
    ASSUME RunInv, NEW s \in Slots,
           AdvanceRead(s) \/ MarkRead(s) \/ GuardRead(s) \/ LoadRun(s) \/ FindMembership(s)
    PROVE  RunInv' /\ OverKept
  <1>0. Sound(slot[s]) /\ slot[s] \in Request
    BY SameTyped
  <1>1. CASE AdvanceRead(s)
    <2>0. Same /\ slot[s].op = "launch" /\ slot[s].phase = "read"
      BY <1>1 DEF AdvanceRead, Is, Same
    <2>1. CASE Goto(s, "stamp")
      <3>1. PICK x \in Request : /\ slot' = [slot EXCEPT ![s] = x] /\ Sound(x) /\ x.read = slot[s].read
                                 /\ x.op = slot[s].op /\ x.p = slot[s].p
        BY <2>0, <2>1, Goes DEF Phases, Rowless
      <3> QED BY <2>0, <3>1, SlotSteps
    <2>2. ASSUME NEW r \in ActiveRuns(slot[s].p), Read(s, r, "index") PROVE RunInv' /\ OverKept
      <3>0. r \in Runs /\ slot[s].p \in ToSet(run[r].order)
        BY <2>2 DEF ActiveRuns
      <3>1. PICK x \in Request : /\ slot' = [slot EXCEPT ![s] = x] /\ Sound(x) /\ x.read = run[r]
                                 /\ x.op = slot[s].op /\ x.p = slot[s].p
        BY <2>0, <2>2, <3>0, Reads DEF Phases
      <3> QED BY <2>0, <3>0, <3>1, SlotSteps
    <2> QED BY <1>1, <2>1, <2>2 DEF AdvanceRead
  <1>2. CASE MarkRead(s)
    <2>0. Same /\ slot[s].op \in {"close", "complete_project"} /\ slot[s].phase = "find"
      BY <1>2 DEF MarkRead, Same
    <2>1. CASE Goto(s, "commit")
      <3>1. PICK x \in Request : /\ slot' = [slot EXCEPT ![s] = x] /\ Sound(x) /\ x.read = slot[s].read
                                 /\ x.op = slot[s].op /\ x.p = slot[s].p
        BY <2>0, <2>1, Goes DEF Phases, Rowless
      <3> QED BY <2>0, <3>1, SlotSteps
    <2>2. ASSUME NEW r \in ActiveRuns(slot[s].p), Read(s, r, "mark") PROVE RunInv' /\ OverKept
      <3>0. r \in Runs
        BY <2>2 DEF ActiveRuns
      <3>1. PICK x \in Request : /\ slot' = [slot EXCEPT ![s] = x] /\ Sound(x) /\ x.read = run[r]
                                 /\ x.op = slot[s].op /\ x.p = slot[s].p
        BY <2>0, <2>2, <3>0, Reads DEF Phases
      <3> QED BY <2>0, <3>0, <3>1, SlotSteps
    <2> QED BY <1>2, <2>1, <2>2 DEF MarkRead
  <1>3. CASE GuardRead(s)
    <2>0. Same /\ slot[s].op = "complete" /\ slot[s].phase = "guard" /\ slot[s].r \in Runs
      BY <1>0, <1>3 DEF GuardRead, Is, Same, Sound, TeardownOps
    <2>1. CASE Goto(s, "find")
      <3>1. PICK x \in Request : /\ slot' = [slot EXCEPT ![s] = x] /\ Sound(x) /\ x.read = slot[s].read
                                 /\ x.op = slot[s].op /\ x.p = slot[s].p
        BY <2>0, <2>1, Goes DEF Phases, Rowless
      <3> QED BY <2>0, <3>1, SlotSteps
    <2>2. CASE Read(s, slot[s].r, "heal")
      <3>1. PICK x \in Request : /\ slot' = [slot EXCEPT ![s] = x] /\ Sound(x) /\ x.read = run[slot[s].r]
                                 /\ x.op = slot[s].op /\ x.p = slot[s].p
        BY <2>0, <2>2, Reads DEF Phases
      <3> QED BY <2>0, <3>1, SlotSteps
    <2> QED BY <1>3, <2>1, <2>2 DEF GuardRead
  <1>4. CASE LoadRun(s)
    <2>0. /\ Same /\ slot[s].op \in {"remove", "delete"} /\ slot[s].phase = "load"
          /\ slot[s].r \in Runs
      BY <1>0, <1>4 DEF LoadRun, Same, Sound
    <2>1. CASE Goto(s, "cancel")
      <3>1. PICK x \in Request : /\ slot' = [slot EXCEPT ![s] = x] /\ Sound(x) /\ x.read = slot[s].read
                                 /\ x.op = slot[s].op /\ x.p = slot[s].p
        BY <2>0, <2>1, Goes DEF Phases, Rowless
      <3> QED BY <2>0, <3>1, SlotSteps
    <2>2. CASE Read(s, slot[s].r, "write")
      <3>1. PICK x \in Request : /\ slot' = [slot EXCEPT ![s] = x] /\ Sound(x) /\ x.read = run[slot[s].r]
                                 /\ x.op = slot[s].op /\ x.p = slot[s].p
        BY <2>0, <2>2, Reads DEF Phases
      <3> QED BY <2>0, <3>1, SlotSteps
    <2>3. CASE Return(s)
      BY <2>0, <2>3, SlotSteps
    <2> QED BY <1>4, <2>1, <2>2, <2>3 DEF LoadRun
  <1>5. CASE FindMembership(s)
    <2>0. Same /\ slot[s].op = "delete" /\ slot[s].phase = "find"
      BY <1>5 DEF FindMembership, Is, Same
    <2>1. CASE Return(s)
      BY <2>0, <2>1, SlotSteps
    <2>2. ASSUME NEW r \in ActiveRuns(slot[s].p), NEW phase \in {"cancel", "load"},
                 slot' = [slot EXCEPT ![s].r = r, ![s].phase = phase]
          PROVE  RunInv' /\ OverKept
      <3>0. r \in Runs
        BY DEF ActiveRuns
      <3>1. PICK x : x = [slot[s] EXCEPT !.r = r, !.phase = phase]
        OBVIOUS
      <3>2. slot' = [slot EXCEPT ![s] = x]
        BY <2>2, <3>1, SameTyped
      <3>3. /\ x \in Request /\ x.read = slot[s].read /\ x.op = slot[s].op /\ x.p = slot[s].p
            /\ x.r = r /\ x.phase = phase
        BY <1>0, <3>0, <3>1 DEF Request, Phases
      <3>4. Sound(x)
        BY <1>0, <2>0, <3>0, <3>3 DEF Sound, Idle
      <3> QED BY <2>0, <3>2, <3>3, <3>4, SlotSteps
    <2> QED BY <1>5, <2>1, <2>2 DEF FindMembership
  <1> QED BY <1>1, <1>2, <1>3, <1>4, <1>5

(* Calls that write columns of a run, from what was read of it.            *)
LEMMA Writes ==
    ASSUME RunInv, NEW r \in Runs, NEW columns, Update(r, columns),
           "status" \in DOMAIN columns => columns["status"] \in Active \cup Ended,
           "order" \in DOMAIN columns => columns["order"] \in Seq(Projects),
           "index" \in DOMAIN columns => columns["index"] \in Nat,
           "conducted" \in DOMAIN columns => columns["conducted"] = FALSE,
           "copy" \in DOMAIN columns => columns["copy"] \in Copies /\ Covered(columns["copy"])
    PROVE  run' \in [Runs -> RunRow] /\ \A q \in Runs : Covered(run'[q].copy)
  <1>1. /\ run' \in [Runs -> RunRow] /\ \A q \in Runs \ {r} : run'[q] = run[q]
        /\ run'[r].copy = IF "copy" \in DOMAIN columns THEN columns["copy"] ELSE run[r].copy
    BY SameTyped, Updated
  <1> QED BY <1>1, SameTyped

LEMMA Advances ==
    ASSUME RunInv, NEW s \in Slots, AdvanceIndex(s) \/ AdvanceWrite(s)
    PROVE  RunInv' /\ OverKept
  <1>0. /\ Sound(slot[s]) /\ slot[s] \in Request /\ slot[s].read \in RunRow
        /\ Covered(slot[s].read.copy)
    BY SameTyped DEF Request
  <1>1. /\ slot[s].op = "launch" /\ slot[s].phase \in {"index", "write"} /\ slot[s].r \in Runs
        /\ slot[s].p \in Projects /\ slot[s].p \in ToSet(slot[s].read.order)
    BY <1>0 DEF AdvanceIndex, AdvanceWrite, Is, Sound, ProjectOps
  <1>2. Forward(s) \in Nat
    <2> DEFINE o == slot[s].read.order
    <2>1. o \in Seq(Projects) /\ slot[s].read.index \in Nat
      BY <1>0 DEF RunRow
    <2>2. PICK i \in DOMAIN o : o[i] = slot[s].p
      BY <1>1, <2>1 DEF ToSet
    <2>3. (CHOOSE j \in DOMAIN o : o[j] = slot[s].p) \in DOMAIN o
      BY <2>2
    <2>4. Position(o, slot[s].p) \in Nat
      BY <2>1, <2>3, SMTT(60) DEF Position
    <2> QED BY <2>1, <2>4 DEF Forward
  <1>3. ASSUME NEW phase \in {"write", "stamp"}, Goto(s, phase),
               UNCHANGED <<conductor, settle, member>>,
               run' \in [Runs -> RunRow], \A q \in Runs : Covered(run'[q].copy)
        PROVE  RunInv' /\ OverKept
    <2>1. PICK x \in Request : /\ slot' = [slot EXCEPT ![s] = x] /\ Sound(x) /\ x.read = slot[s].read
                               /\ x.op = slot[s].op /\ x.p = slot[s].p
      BY <1>1, <1>3, Goes DEF Phases
    <2> QED BY <1>0, <1>3, <2>1, SameTyped, Moves
  <1>4. CASE AdvanceIndex(s)
    <2>1. run' \in [Runs -> RunRow] /\ \A q \in Runs : Covered(run'[q].copy)
      <3>1. CASE Update(slot[s].r, [index |-> Forward(s)])
        BY <1>1, <1>2, <3>1, Writes
      <3>2. CASE UNCHANGED run
        BY <3>2, SameTyped
      <3> QED BY <1>4, <3>1, <3>2 DEF AdvanceIndex
    <2> QED BY <1>3, <1>4, <2>1 DEF AdvanceIndex
  <1>5. CASE AdvanceWrite(s)
    <2> DEFINE implementing == [slot[s].read.copy EXCEPT ![slot[s].p] = "implementing"]
    <2>0. implementing \in Copies /\ Covered(implementing)
      <3>1. slot[s].read.copy \in Copies
        BY <1>0 DEF RunRow
      <3>2. implementing \in Copies
        BY <3>1 DEF Copies
      <3>3. \A p \in Projects : implementing[p] \in Terminal => slot[s].read.copy[p] \in Terminal
        BY <1>1, <3>1 DEF Copies, Terminal
      <3> QED BY <1>0, <3>2, <3>3 DEF Covered
    <2>1. PICK y : y = implementing
      OBVIOUS
    <2>2. y \in Copies /\ Covered(y)
      BY <2>0, <2>1
    <2>3. \/ Update(slot[s].r, [status |-> "running", copy |-> y, index |-> 0])
          \/ Update(slot[s].r, [status |-> "running", copy |-> y])
          \/ UNCHANGED run
      BY <1>5, <2>1 DEF AdvanceWrite
    <2>4. run' \in [Runs -> RunRow] /\ \A q \in Runs : Covered(run'[q].copy)
      <3>1. CASE Update(slot[s].r, [status |-> "running", copy |-> y, index |-> 0])
        BY <1>1, <2>2, <3>1, Writes DEF Active
      <3>2. CASE Update(slot[s].r, [status |-> "running", copy |-> y])
        BY <1>1, <2>2, <3>2, Writes DEF Active
      <3>3. CASE UNCHANGED run
        BY <3>3, SameTyped
      <3> QED BY <2>3, <3>1, <3>2, <3>3
    <2> QED BY <1>3, <1>5, <2>4 DEF AdvanceWrite
  <1> QED BY <1>4, <1>5

(* A run is created, stalled, released, resumed, dissolved, cancelled.     *)
LEMMA RunWrites ==
    ASSUME RunInv, NEW s \in Slots,
           \/ Create(s) \/ MarkStalled(s) \/ Release(s) \/ ResumeChain(s) \/ Dissolve(s)
           \/ DropMember(s) \/ EndMembership(s)
    PROVE  RunInv' /\ OverKept
  <1>0. /\ Sound(slot[s]) /\ slot[s] \in Request /\ slot[s].read \in RunRow
        /\ Covered(slot[s].read.copy)
    BY SameTyped DEF Request
  <1>1. ASSUME run' \in [Runs -> RunRow], \A q \in Runs : Covered(run'[q].copy),
               conductor' \in [Runs -> {"none", "working", "complete"}],
               UNCHANGED <<settle, member>>, Return(s),
               slot[s].op \notin {"close", "complete_project"}
        PROVE  RunInv' /\ OverKept
    BY <1>1, SameTyped, Ends DEF Return
  <1>2. CASE Create(s)
    <2>1. slot[s].op = "start" /\ Return(s) /\ UNCHANGED <<settle, member>>
      BY <1>2 DEF Create, Is
    <2>2. PICK r \in Runs : /\ run' = [run EXCEPT ![r] = slot[s].read]
                            /\ conductor' = [conductor EXCEPT ![r] = "working"]
      BY <1>2 DEF Create
    <2>3. PICK y : y = slot[s].read
      OBVIOUS
    <2>4. run' = [run EXCEPT ![r] = y] /\ y \in RunRow /\ Covered(y.copy)
      BY <1>0, <2>2, <2>3
    <2>5. /\ run' \in [Runs -> RunRow] /\ \A q \in Runs : Covered(run'[q].copy)
          /\ conductor' \in [Runs -> {"none", "working", "complete"}]
      BY <2>2, <2>4, SameTyped
    <2> QED BY <1>1, <2>1, <2>5
  <1>3. ASSUME UNCHANGED <<conductor, settle, member>>, Return(s),
               slot[s].op \notin {"close", "complete_project"}, slot[s].r \in Runs,
               NEW columns, Update(slot[s].r, columns),
               "status" \in DOMAIN columns => columns["status"] \in Active \cup Ended,
               "order" \in DOMAIN columns => columns["order"] \in Seq(Projects),
               "index" \in DOMAIN columns => columns["index"] \in Nat,
               "conducted" \in DOMAIN columns => columns["conducted"] = FALSE,
               "copy" \in DOMAIN columns => columns["copy"] \in Copies /\ Covered(columns["copy"])
        PROVE  RunInv' /\ OverKept
    <2>1. run' \in [Runs -> RunRow] /\ \A q \in Runs : Covered(run'[q].copy)
      BY <1>3, Writes
    <2> QED BY <1>1, <1>3, <2>1, SameTyped
  <1>11. ASSUME UNCHANGED <<run, conductor, settle, member>>, Return(s),
                slot[s].op \notin {"close", "complete_project"}
         PROVE  RunInv' /\ OverKept
    BY <1>1, <1>11, SameTyped
  <1>4. ASSUME NEW p \in Projects, NEW copy \in Copies, Covered(copy)
        PROVE  /\ [copy EXCEPT ![p] = "pending"] \in Copies
               /\ Covered([copy EXCEPT ![p] = "pending"])
    <2>1. PICK y : y = [copy EXCEPT ![p] = "pending"]
      OBVIOUS
    <2>2. y \in Copies /\ \A q \in Projects : y[q] \in Terminal => copy[q] \in Terminal
      BY <2>1 DEF Copies, Terminal
    <2> QED BY <1>4, <2>1, <2>2 DEF Covered
  <1>5. CASE MarkStalled(s)
    <2>1. slot[s].op = "stall" /\ Return(s) /\ slot[s].r \in Runs
      BY <1>0, <1>5 DEF MarkStalled, Is, Sound
    <2>2. /\ UNCHANGED <<conductor, settle, member>>
          /\ Update(slot[s].r, [status |-> "stalled"]) \/ UNCHANGED run
      BY <1>5 DEF MarkStalled
    <2> QED BY <1>3, <1>11, <2>1, <2>2 DEF Active
  <1>6. CASE Release(s)
    <2>1. slot[s].op = "release" /\ Return(s) /\ slot[s].r \in Runs
      BY <1>0, <1>6 DEF Release, Is, Sound
    <2>2. /\ UNCHANGED <<conductor, settle, member>>
          /\ Update(slot[s].r, [status |-> "terminated"]) \/ UNCHANGED run
      BY <1>6 DEF Release
    <2> QED BY <1>3, <1>11, <2>1, <2>2 DEF Ended
  <1>7. CASE EndMembership(s)
    <2>1. slot[s].op = "delete" /\ Return(s) /\ slot[s].r \in Runs
      BY <1>0, <1>7 DEF EndMembership, Is, Sound
    <2>2. /\ UNCHANGED <<conductor, settle, member>>
          /\ Update(slot[s].r, [status |-> "cancelled"]) \/ UNCHANGED run
      BY <1>7 DEF EndMembership
    <2> QED BY <1>3, <1>11, <2>1, <2>2 DEF Ended
  <1>8. CASE Dissolve(s)
    <2>1. slot[s].op = "deactivate" /\ Return(s) /\ slot[s].r \in Runs
      BY <1>0, <1>8 DEF Dissolve, Is, Sound
    <2>2. /\ UNCHANGED <<conductor, settle, member>>
          /\ Update(slot[s].r, [status |-> "cancelled", conducted |-> FALSE]) \/ UNCHANGED run
      BY <1>8 DEF Dissolve
    <2> QED BY <1>3, <1>11, <2>1, <2>2 DEF Ended
  <1>9. CASE ResumeChain(s)
    <2>1. slot[s].op = "resume" /\ Return(s) /\ slot[s].r \in Runs /\ slot[s].p \in Projects
      BY <1>0, <1>9 DEF ResumeChain, Is, Sound, ProjectOps
    <2>2. PICK y : y = [slot[s].read.copy EXCEPT ![slot[s].p] = "pending"]
      OBVIOUS
    <2>3. y \in Copies /\ Covered(y)
      BY <1>0, <1>4, <2>1, <2>2 DEF RunRow
    <2>4. /\ UNCHANGED <<conductor, settle, member>>
          /\ Update(slot[s].r, [status |-> "running", copy |-> y]) \/ UNCHANGED run
      BY <1>9, <2>2 DEF ResumeChain
    <2> QED BY <1>3, <1>11, <2>1, <2>3, <2>4 DEF Active
  <1>10. CASE DropMember(s)
    <2>1. /\ slot[s].op \in {"remove", "delete"} /\ Return(s) /\ slot[s].r \in Runs
          /\ slot[s].p \in Projects /\ UNCHANGED <<conductor, settle, member>>
      BY <1>0, <1>10 DEF DropMember, Sound, ProjectOps
    <2>2. PICK x : x = slot[s].read
      OBVIOUS
    <2>3. PICK p : p = slot[s].p
      OBVIOUS
    <2>4. PICK left : left = Without(x.order, p)
      OBVIOUS
    <2>5. PICK y : y = [x.copy EXCEPT ![p] = "pending"]
      OBVIOUS
    <2>6. PICK i : i = Reindexed(x, p)
      OBVIOUS
    <2>7. left \in Seq(Projects) /\ x.order \in Seq(Projects) /\ x.index \in Nat
      BY <1>0, <2>2, <2>4, WithoutIsSeq DEF RunRow
    <2>8. y \in Copies /\ Covered(y)
      BY <1>0, <1>4, <2>1, <2>2, <2>3, <2>5 DEF RunRow
    <2>9. i \in Nat
      <3>1. InFlight(x) \in ToSet(left) => Position(left, InFlight(x)) \in Nat
        <4>1. SUFFICES ASSUME NEW q \in ToSet(left) PROVE Position(left, q) \in Nat
          OBVIOUS
        <4>2. PICK j \in DOMAIN left : left[j] = q
          BY DEF ToSet
        <4>3. (CHOOSE k \in DOMAIN left : left[k] = q) \in DOMAIN left
          BY <4>2
        <4> QED BY <2>7, <4>3 DEF Position
      <3>2. (IF left = <<>> THEN 0 ELSE Len(left) - 1) \in Nat
        BY <2>7
      <3> QED BY <2>4, <2>6, <2>7, <3>1, <3>2 DEF Reindexed
    <2>10. \/ Update(slot[s].r, [status |-> "cancelled"])
           \/ Update(slot[s].r, [order |-> left, copy |-> y])
           \/ Update(slot[s].r, [order |-> left, copy |-> y, index |-> i])
           \/ UNCHANGED run
      BY <1>10, <2>2, <2>3, <2>4, <2>5, <2>6 DEF DropMember, Columns
    <2>11. CASE UNCHANGED run \/ Update(slot[s].r, [status |-> "cancelled"])
      BY <1>3, <1>11, <2>1, <2>11 DEF Ended
    <2>12. CASE Update(slot[s].r, [order |-> left, copy |-> y])
      BY <1>3, <1>11, <2>1, <2>7, <2>8, <2>12
    <2>13. CASE Update(slot[s].r, [order |-> left, copy |-> y, index |-> i])
      BY <1>3, <1>11, <2>1, <2>7, <2>8, <2>9, <2>13
    <2> QED BY <2>10, <2>11, <2>12, <2>13
  <1> QED BY <1>2, <1>5, <1>6, <1>7, <1>8, <1>9, <1>10

(* A healed copy calls finished only what was finished, or what is.        *)
LEMMA HealedCovered ==
    ASSUME RunInv, NEW copy \in Copies, Covered(copy), NEW order
    PROVE  Healed(copy, order) \in Copies /\ Covered(Healed(copy, order))
  <1>1. PICK y : y = Healed(copy, order)
    OBVIOUS
  <1>2. \A p \in Projects : \/ y[p] = copy[p]
                            \/ y[p] \in Terminal /\ member[p].row # "live"
    BY <1>1 DEF Healed, Terminal
  <1>3. y = [p \in Projects |-> y[p]]
    BY <1>1 DEF Healed
  <1>4. y \in Copies
    BY <1>2, <1>3 DEF Copies
  <1>5. Covered(y)
    BY <1>2, SameTyped DEF Covered, Over
  <1> QED BY <1>1, <1>4, <1>5

(* The conductor's complete_job and the settlement's decision.             *)
LEMMA Conducts ==
    ASSUME RunInv, NEW s \in Slots,
           \/ GuardHeal(s) \/ TeardownFind(s) \/ TeardownHeal(s) \/ CheckSettlement(s) \/ Purge(s)
    PROVE  RunInv' /\ OverKept
  <1>0. /\ Sound(slot[s]) /\ slot[s] \in Request /\ slot[s].read \in RunRow
        /\ Covered(slot[s].read.copy) /\ slot[s].read.copy \in Copies
    BY SameTyped DEF Request, RunRow
  <1>1. /\ slot[s].op \in TeardownOps /\ slot[s].r \in Runs /\ slot[s].phase # "idle"
        /\ UNCHANGED <<settle, member>>
    <2>1. slot[s].op \in TeardownOps /\ slot[s].phase # "idle" /\ UNCHANGED <<settle, member>>
      BY DEF GuardHeal, Is, TeardownFind, TeardownHeal, CheckSettlement, Purge, Teardown, TeardownOps
    <2> QED BY <1>0, <2>1 DEF Sound
  <1>2. PICK healed : healed = Healed(slot[s].read.copy, slot[s].read.order)
    OBVIOUS
  <1>3. healed \in Copies /\ Covered(healed)
    BY <1>0, <1>2, HealedCovered
  <1>4. ASSUME Persist(s, healed)
        PROVE  run' \in [Runs -> RunRow] /\ \A q \in Runs : Covered(run'[q].copy)
    <2>1. CASE Update(slot[s].r, [copy |-> healed])
      BY <1>1, <1>3, <2>1, Writes
    <2>2. CASE UNCHANGED run
      BY <2>2, SameTyped
    <2> QED BY <1>4, <2>1, <2>2 DEF Persist
  <1>5. Answer(s) => /\ Return(s)
                     /\ conductor' \in [Runs -> {"none", "working", "complete"}]
    BY SameTyped DEF Answer
  <1>6. ASSUME run' \in [Runs -> RunRow], \A q \in Runs : Covered(run'[q].copy),
               conductor' \in [Runs -> {"none", "working", "complete"}],
               \/ Return(s)
               \/ Goto(s, "find") \/ Goto(s, "settlement") \/ Goto(s, "purge")
               \/ Read(s, slot[s].r, "reheal")
        PROVE  RunInv' /\ OverKept
    <2>1. CASE Return(s)
      BY <1>1, <1>6, <2>1, SameTyped, Ends DEF Return, TeardownOps
    <2>2. ASSUME NEW phase \in {"find", "settlement", "purge"}, Goto(s, phase)
          PROVE  RunInv' /\ OverKept
      <3>1. PICK x \in Request : /\ slot' = [slot EXCEPT ![s] = x] /\ Sound(x) /\ x.read = slot[s].read
                                 /\ x.op = slot[s].op /\ x.p = slot[s].p
        BY <1>1, <2>2, Goes DEF Phases, TeardownOps
      <3> QED BY <1>0, <1>1, <1>6, <3>1, SameTyped, Moves
    <2>3. CASE Read(s, slot[s].r, "reheal")
      <3>1. PICK x \in Request : /\ slot' = [slot EXCEPT ![s] = x] /\ Sound(x) /\ x.read = run[slot[s].r]
                                 /\ x.op = slot[s].op /\ x.p = slot[s].p
        BY <1>1, <2>3, Reads DEF Phases, TeardownOps
      <3> QED BY <1>1, <1>6, <3>1, SameTyped, Moves
    <2> QED BY <1>6, <2>1, <2>2, <2>3
  <1>7. CASE GuardHeal(s)
    <2>1. Persist(s, healed) /\ UNCHANGED conductor /\ (Goto(s, "find") \/ Return(s))
      BY <1>2, <1>7 DEF GuardHeal
    <2> QED BY <1>4, <1>6, <2>1, SameTyped
  <1>8. CASE TeardownFind(s)
    BY <1>5, <1>6, <1>8, SameTyped DEF TeardownFind
  <1>9. CASE TeardownHeal(s)
    <2>1. /\ Persist(s, healed)
          /\ \/ Goto(s, "settlement") /\ UNCHANGED conductor
             \/ Answer(s)
      BY <1>2, <1>9 DEF TeardownHeal
    <2> QED BY <1>4, <1>5, <1>6, <2>1, SameTyped
  <1>10. CASE CheckSettlement(s)
    BY <1>5, <1>6, <1>10, SameTyped DEF CheckSettlement
  <1>11. CASE Purge(s)
    <2>1. PICK y : y = [Absent EXCEPT !.status = "purged"]
      OBVIOUS
    <2>2. y \in RunRow /\ y.copy = Absent.copy
      BY <2>1, AbsentRow DEF RunRow
    <2>3. Covered(y.copy)
      BY <2>2, SameTyped
    <2>4. /\ run' = [run EXCEPT ![slot[s].r] = y] /\ Return(s)
          /\ conductor' = [conductor EXCEPT ![slot[s].r] = "none"]
      BY <1>11, <2>1 DEF Purge
    <2>5. /\ run' \in [Runs -> RunRow] /\ \A q \in Runs : Covered(run'[q].copy)
          /\ conductor' \in [Runs -> {"none", "working", "complete"}]
      BY <2>2, <2>3, <2>4, SameTyped
    <2> QED BY <1>6, <2>4, <2>5
  <1> QED BY <1>7, <1>8, <1>9, <1>10, <1>11

(* A step that writes a project keeps what that project has ended.         *)
LEMMA MemberWrites ==
    ASSUME RunInv, NEW p \in Projects, NEW m \in Members, member' = [member EXCEPT ![p] = m],
           m.ended = member[p].ended, m.row \in {"live", member[p].row}
    PROVE  /\ member' \in [Projects -> Members]
           /\ \A q \in Projects : (member[q].ended => member'[q].ended)
                                  /\ (member'[q].row # "live" => member'[q].ended)
  BY SameTyped

(* Projects launch, close out, end and come back.                          *)
LEMMA ProjectWrites ==
    ASSUME RunInv, "rollback" \notin Faults,
           \/ \E s \in Slots : StampLaunch(s) \/ CommitCloseout(s)
           \/ \E p \in Projects : Archive(p) \/ Reopen(p) \/ AskSettlement(p)
           \/ \E r \in Runs : Cancel(r)
    PROVE  RunInv' /\ OverKept
  <1>0. \A s \in Slots : Sound(slot[s])
    BY SameTyped
  <1>1. ASSUME NEW s \in Slots, StampLaunch(s) PROVE RunInv' /\ OverKept
    <2>1. slot[s].op = "launch" /\ slot[s].p \in Projects /\ Return(s)
          /\ UNCHANGED <<run, conductor, settle>>
      BY <1>0, <1>1 DEF StampLaunch, Is, Sound, ProjectOps
    <2>2. PICK m : m = [member[slot[s].p] EXCEPT !.launched = TRUE]
      OBVIOUS
    <2>3. member' = [member EXCEPT ![slot[s].p] = m]
      BY <1>1, <2>2, SameTyped DEF StampLaunch
    <2>4. m \in Members /\ m.ended = member[slot[s].p].ended /\ m.row = member[slot[s].p].row
      BY <2>1, <2>2, SameTyped, ZenonT(90) DEF Members
    <2>5. /\ member' \in [Projects -> Members]
          /\ \A q \in Projects : (member[q].ended => member'[q].ended)
                                 /\ (member'[q].row # "live" => member'[q].ended)
      BY <2>1, <2>3, <2>4, MemberWrites
    <2> QED BY <2>1, <2>5, SameTyped, Ends DEF Return
  <1>2. ASSUME NEW s \in Slots, CommitCloseout(s) PROVE RunInv' /\ OverKept
    <2>1. /\ slot[s].op \in {"close", "complete_project"} /\ slot[s].p \in Projects /\ Return(s)
          /\ UNCHANGED <<run, conductor, settle>>
      BY <1>0, <1>2 DEF CommitCloseout, Sound, ProjectOps
    <2>2. PICK row \in {member[slot[s].p].row, "completed"} : Finish(slot[s].p, row, TRUE)
      BY <1>2 DEF CommitCloseout
    <2>3. row \in {"live"} \cup Finished
      BY <2>1, SameTyped DEF Members, Finished
    <2>4. /\ member' \in [Projects -> Members] /\ member'[slot[s].p].ended
          /\ \A q \in Projects \ {slot[s].p} : member'[q] = member[q]
      BY <2>1, <2>2, <2>3, Finishes DEF RunInv
    <2>5. \A q \in Projects : (member[q].ended => member'[q].ended)
                              /\ (member'[q].row # "live" => member'[q].ended)
      BY <2>4, SameTyped
    <2> QED BY <2>1, <2>4, <2>5, SameTyped, Ends DEF Return
  <1>3. ASSUME NEW p \in Projects, Archive(p) PROVE RunInv' /\ OverKept
    <2>1. Finish(p, "terminated", FALSE) /\ UNCHANGED <<run, conductor, settle, slot>>
      BY <1>3 DEF Archive
    <2>2. /\ member' \in [Projects -> Members] /\ member'[p].ended
          /\ \A q \in Projects \ {p} : member'[q] = member[q]
      BY <2>1, Finishes DEF RunInv, Finished
    <2>3. \A q \in Projects : (member[q].ended => member'[q].ended)
                              /\ (member'[q].row # "live" => member'[q].ended)
      BY <2>2, SameTyped
    <2> QED BY <2>1, <2>2, <2>3, SameTyped, Ends
  <1>4. ASSUME NEW p \in Projects, Reopen(p) PROVE RunInv' /\ OverKept
    <2>2. PICK m : m = [member[p] EXCEPT !.row = "live"]
      OBVIOUS
    <2>3. member' = [member EXCEPT ![p] = m] /\ UNCHANGED <<run, conductor, settle, slot>>
      BY <1>4, <2>2, SameTyped DEF Reopen
    <2>4. m \in Members /\ m.ended = member[p].ended /\ m.row = "live"
      BY <2>2, SameTyped DEF Members
    <2>5. /\ member' \in [Projects -> Members]
          /\ \A q \in Projects : (member[q].ended => member'[q].ended)
                                 /\ (member'[q].row # "live" => member'[q].ended)
      BY <2>3, <2>4, MemberWrites
    <2> QED BY <2>3, <2>5, SameTyped, Ends
  <1>5. ASSUME NEW p \in Projects, AskSettlement(p) PROVE RunInv' /\ OverKept
    <2>2. PICK m : m = [member[p] EXCEPT !.asked = TRUE]
      OBVIOUS
    <2>3. member' = [member EXCEPT ![p] = m] /\ UNCHANGED <<run, conductor, slot>>
      BY <1>5, <2>2, SameTyped DEF AskSettlement
    <2>4. m \in Members /\ m.ended = member[p].ended /\ m.row = member[p].row
      BY <2>2, SameTyped DEF Members
    <2>5. /\ member' \in [Projects -> Members]
          /\ \A q \in Projects : (member[q].ended => member'[q].ended)
                                 /\ (member'[q].row # "live" => member'[q].ended)
      BY <2>3, <2>4, MemberWrites
    <2>6. settle' \in [Runs -> SUBSET Projects]
      BY <1>5, SameTyped DEF AskSettlement, ActiveRuns
    <2> QED BY <2>3, <2>5, <2>6, SameTyped, Ends
  <1>6. ASSUME NEW r \in Runs, Cancel(r) PROVE RunInv' /\ OverKept
    <2>1. Update(r, [status |-> "cancelled"]) /\ UNCHANGED <<conductor, settle, member, slot>>
      BY <1>6 DEF Cancel
    <2>2. run' \in [Runs -> RunRow] /\ \A q \in Runs : Covered(run'[q].copy)
      BY <2>1, Writes DEF Ended
    <2>3. \A q \in Projects : (member[q].ended => member'[q].ended)
                              /\ (member'[q].row # "live" => member'[q].ended)
      BY <2>1, SameTyped
    <2> QED BY <2>1, <2>2, <2>3, SameTyped, Ends
  <1> QED BY <1>1, <1>2, <1>3, <1>4, <1>5, <1>6

LEMMA MarkKeeps ==
    ASSUME RunInv, NEW s \in Slots, Mark(s) PROVE RunInv' /\ OverKept
  <1>0. /\ Sound(slot[s]) /\ slot[s] \in Request /\ slot[s].read \in RunRow
        /\ Covered(slot[s].read.copy) /\ slot[s].read.copy \in Copies
    BY SameTyped DEF Request, RunRow
  <1>1. /\ slot[s].op \in {"close", "complete_project"} /\ slot[s].phase = "mark"
        /\ slot[s].p \in Projects /\ slot[s].r \in Runs /\ UNCHANGED <<conductor, settle>>
    BY <1>0 DEF Mark, Sound, ProjectOps
  <1>2. CASE Goto(s, "commit") /\ UNCHANGED <<run, member>>
    <2>1. PICK x \in Request : /\ slot' = [slot EXCEPT ![s] = x] /\ Sound(x) /\ x.read = slot[s].read
                               /\ x.op = slot[s].op /\ x.p = slot[s].p
      BY <1>1, <1>2, Goes DEF Phases, Rowless
    <2> QED BY <1>1, <1>2, <2>1, SlotSteps DEF Same
  <1>3. CASE slot' = [slot EXCEPT ![s].r = NoRun, ![s].phase = "commit"] /\ UNCHANGED <<run, member>>
    <2>1. PICK x : x = [slot[s] EXCEPT !.r = NoRun, !.phase = "commit"]
      OBVIOUS
    <2>2. slot' = [slot EXCEPT ![s] = x]
      BY <1>3, <2>1, SameTyped
    <2>3. /\ x \in Request /\ x.read = slot[s].read /\ x.op = slot[s].op /\ x.p = slot[s].p
          /\ x.phase = "commit"
      BY <1>0, <2>1 DEF Request, Phases
    <2>4. Sound(x)
      BY <1>0, <1>1, <2>3 DEF Sound, Idle, TeardownOps
    <2> QED BY <1>1, <1>3, <2>2, <2>3, <2>4, SlotSteps DEF Same
  <1>4. ASSUME Update(slot[s].r, [copy |-> [slot[s].read.copy EXCEPT ![slot[s].p] = "completed"]]),
               IF slot[s].op = "close" THEN Finish(slot[s].p, member[slot[s].p].row, TRUE)
                                       ELSE UNCHANGED member,
               Goto(s, "commit")
        PROVE  RunInv' /\ OverKept
    <2>1. PICK y : y = [slot[s].read.copy EXCEPT ![slot[s].p] = "completed"]
      OBVIOUS
    <2>2. Over(slot[s].p)
      BY <1>1 DEF Over, Closing
    <2>3. y \in Copies /\ Covered(y)
      BY <1>0, <1>1, <2>1, <2>2 DEF Copies, Covered, Terminal
    <2>4. run' \in [Runs -> RunRow] /\ \A q \in Runs : Covered(run'[q].copy)
      BY <1>1, <1>4, <2>1, <2>3, Writes
    <2>5. /\ member' \in [Projects -> Members]
          /\ \A q \in Projects : (member[q].ended => member'[q].ended)
                                 /\ (member'[q].row # "live" => member'[q].ended)
      <3>1. CASE Finish(slot[s].p, member[slot[s].p].row, TRUE)
        <4>1. member[slot[s].p].row \in {"live"} \cup Finished
          BY <1>1, SameTyped DEF Members
        <4>2. /\ member' \in [Projects -> Members] /\ member'[slot[s].p].ended
              /\ \A q \in Projects \ {slot[s].p} : member'[q] = member[q]
          BY <1>1, <3>1, <4>1, Finishes DEF RunInv
        <4> QED BY <4>2, SameTyped
      <3>2. CASE UNCHANGED member
        BY <3>2, SameTyped
      <3> QED BY <1>4, <3>1, <3>2
    <2>6. PICK x \in Request : /\ slot' = [slot EXCEPT ![s] = x] /\ Sound(x) /\ x.read = slot[s].read
                               /\ x.op = slot[s].op /\ x.p = slot[s].p
      BY <1>1, <1>4, Goes DEF Phases, Rowless
    <2>7. Shape'
      BY <1>1, <2>4, <2>5, <2>6, SameTyped DEF Shape
    <2>8. slot'[s] = x /\ \A t \in Slots \ {s} : slot'[t] = slot[t]
      BY <2>6, SameTyped
    <2>9. \A t \in Slots : /\ slot'[t].op = slot[t].op /\ slot'[t].p = slot[t].p
                           /\ Sound(slot'[t]) /\ Covered(slot'[t].read.copy)
      BY <1>0, <2>6, <2>8, SameTyped
    <2> QED BY <2>4, <2>5, <2>7, <2>9, Keeps
  <1> QED BY <1>2, <1>3, <1>4 DEF Mark

LEMMA ResetKeeps ==
    ASSUME RunInv, NEW s \in Slots, ResetMember(s) PROVE RunInv' /\ OverKept
  <1>0. Sound(slot[s]) /\ slot[s] \in Request /\ slot[s].read \in RunRow
        /\ Covered(slot[s].read.copy)
    BY SameTyped DEF Request
  <1>1. /\ slot[s].op = "deactivate" /\ slot[s].phase = "reset" /\ slot[s].read.order # <<>>
        /\ slot[s].read.order \in Seq(Projects) /\ UNCHANGED <<run, conductor>>
    BY <1>0 DEF ResetMember, Is, RunRow
  <1>2. PICK q : q = Head(slot[s].read.order)
    OBVIOUS
  <1>3. q \in Projects /\ Tail(slot[s].read.order) \in Seq(Projects)
    BY <1>1, <1>2
  <1>4. PICK row : row = IF member[q].row = "deleted" THEN member[q].row ELSE "live"
    OBVIOUS
  <1>5. PICK m : m = [member[q] EXCEPT !.row = row, !.launched = FALSE, !.asked = FALSE]
    OBVIOUS
  <1>6. member' = [member EXCEPT ![q] = m]
    <2>1. member' = [member EXCEPT ![q].row = IF member[q].row = "deleted" THEN member[q].row
                                                                          ELSE "live",
                                   ![q].launched = FALSE, ![q].asked = FALSE]
      BY <1>2 DEF ResetMember
    <2> QED BY <1>3, <1>4, <1>5, <2>1, SameTyped DEF Members
  <1>7. m \in Members /\ m.ended = member[q].ended /\ m.row \in {"live", member[q].row}
    BY <1>3, <1>4, <1>5, SameTyped DEF Members
  <1>8. /\ member' \in [Projects -> Members]
        /\ \A p \in Projects : (member[p].ended => member'[p].ended)
                               /\ (member'[p].row # "live" => member'[p].ended)
    BY <1>3, <1>6, <1>7, MemberWrites
  <1>9. settle' \in [Runs -> SUBSET Projects]
    BY SameTyped DEF ResetMember
  <1>10. PICK y : y = [slot[s].read EXCEPT !.order = Tail(slot[s].read.order)]
    OBVIOUS
  <1>11. y \in RunRow /\ y.copy = slot[s].read.copy
    BY <1>0, <1>3, <1>10 DEF RunRow
  <1>12. PICK x : x = [slot[s] EXCEPT !.read = y]
    OBVIOUS
  <1>13. /\ x \in Request /\ x.op = slot[s].op /\ x.phase = slot[s].phase /\ x.p = slot[s].p
         /\ x.r = slot[s].r /\ x.read = y
    BY <1>0, <1>11, <1>12 DEF Request
  <1>14. slot' = [slot EXCEPT ![s] = x]
    BY <1>10, <1>12, SameTyped DEF ResetMember
  <1>15. Sound(x) /\ Covered(x.read.copy)
    BY <1>0, <1>1, <1>11, <1>13 DEF Sound, Idle
  <1>16. slot'[s] = x /\ \A t \in Slots \ {s} : slot'[t] = slot[t]
    BY <1>14, SameTyped
  <1>17. \A t \in Slots : /\ slot'[t].op = slot[t].op /\ slot'[t].p = slot[t].p
                          /\ Sound(slot'[t]) /\ Covered(slot'[t].read.copy)
    BY <1>13, <1>15, <1>16, SameTyped
  <1>18. Shape'
    BY <1>1, <1>8, <1>9, <1>13, <1>14, SameTyped DEF Shape
  <1> QED BY <1>1, <1>8, <1>17, <1>18, SameTyped, Keeps

LEMMA DeleteKeeps ==
    ASSUME RunInv, NEW s \in Slots, NEW p \in Projects, DeleteProject(s, p)
    PROVE  RunInv' /\ OverKept
  <1>1. /\ Finish(p, "deleted", FALSE) /\ Begin(s, "delete", p, NoRun, "find") /\ "delete" \in Ops
        /\ UNCHANGED <<run, conductor, settle>>
    BY DEF DeleteProject, Begin
  <1>2. /\ member' \in [Projects -> Members] /\ member'[p].ended
        /\ \A q \in Projects \ {p} : member'[q] = member[q]
    BY <1>1, Finishes DEF RunInv, Finished
  <1>3. \A q \in Projects : (member[q].ended => member'[q].ended)
                            /\ (member'[q].row # "live" => member'[q].ended)
    BY <1>2, SameTyped
  <1>4. PICK x \in Request : /\ slot' = [slot EXCEPT ![s] = x] /\ Sound(x) /\ x.read = Absent
                             /\ slot[s] = Idle
    BY <1>1, Begins DEF Begin, Phases, Rowless, TeardownOps
  <1>5. slot'[s] = x /\ \A t \in Slots \ {s} : slot'[t] = slot[t]
    BY <1>4, SameTyped
  <1>6. \A t \in Slots : /\ Sound(slot'[t]) /\ Covered(slot'[t].read.copy)
                         /\ slot[t].op \in {"close", "complete_project"} =>
                              slot'[t].op = slot[t].op /\ slot'[t].p = slot[t].p
    BY <1>4, <1>5, SameTyped, AbsentRow
  <1>7. Shape'
    BY <1>1, <1>2, <1>4, SameTyped DEF Shape
  <1> QED BY <1>1, <1>3, <1>6, <1>7, SameTyped, Keeps

-----------------------------------------------------------------------------
LEMMA RunInvStarts ==
    ASSUME Init PROVE RunInv
  <1>1. Shape
    BY AbsentRow DEF Init, Shape, NewMember, Members
  <1>2. Truth
    BY AbsentRow DEF Init, Truth, NewMember, Covered
  <1> QED BY <1>1, <1>2 DEF RunInv

LEMMA RunInvStep ==
    ASSUME SequenceRunAssumption, "rollback" \notin Faults, RunInv, [Next]_vars
    PROVE  RunInv' /\ OverKept
  <1>1. CASE UNCHANGED vars
    <2>1. \A s \in Slots : slot'[s] = slot[s]
      BY <1>1 DEF vars
    <2> QED BY <1>1, SameTyped, Ends DEF vars
  <1>2. ASSUME NEW s \in Slots, Proceed(s) PROVE RunInv' /\ OverKept
    BY <1>2, Lookups, Advances, RunWrites, Conducts, ProjectWrites, MarkKeeps, ResetKeeps
    DEF Proceed
  <1>3. ASSUME NEW s \in Slots, NEW p \in Projects, DeleteProject(s, p) PROVE RunInv' /\ OverKept
    BY <1>3, DeleteKeeps
  <1>4. ASSUME NEW p \in Projects, Archive(p) \/ Reopen(p) \/ AskSettlement(p)
        PROVE  RunInv' /\ OverKept
    BY <1>4, ProjectWrites
  <1>5. ASSUME NEW r \in Runs, Cancel(r) PROVE RunInv' /\ OverKept
    BY <1>5, ProjectWrites
  <1>6. ASSUME NEW s \in Slots,
               \/ \E p \in Projects : \/ StagingEnd(s, p) \/ GoSilent(s, p)
                                      \/ \E op \in Ops : CloseMember(s, op, p)
                                      \/ \E r \in Runs : RemoveMember(s, r, p)
               \/ \E r \in Runs :
                    CompleteJob(s, r) \/ Decide(s, r) \/ ReleaseGracefully(s, r) \/ OpenPage(s, r)
                    \/ DeactivateChain(s, r)
               \/ \E chain \in Chains : Start(s, chain)
        PROVE  RunInv' /\ OverKept
    BY <1>6, RequestsBegin
  <1> QED BY <1>1, <1>2, <1>3, <1>4, <1>5, <1>6, Zenon DEF Next

(* Whatever stale map is written back over a run's copy, and in whatever    *)
(* order requests interleave, an active run takes a member for finished     *)
(* only when the project has finished or its closeout is under way, as long *)
(* as a closeout that marked the copy commits.                              *)
THEOREM TruthfulCopyHolds ==
    ASSUME SequenceRunAssumption, "rollback" \notin Faults PROVE Spec => []TruthfulCopy
  <1>1. Init => RunInv
    BY RunInvStarts
  <1>2. RunInv /\ [Next]_vars => RunInv'
    BY RunInvStep
  <1>3. RunInv => TruthfulCopy
    <2> SUFFICES ASSUME RunInv, NEW r \in Runs, NEW p \in ToSet(run[r].order),
                        run[r].copy[p] \in Terminal
                 PROVE  member[p].ended \/ Closing(p)
      BY DEF TruthfulCopy
    <2>1. p \in Projects
      BY SameTyped DEF RunRow, ToSet
    <2> QED BY <2>1, SameTyped DEF Covered, Over
  <1> QED BY <1>1, <1>2, <1>3, PTL DEF Spec

-----------------------------------------------------------------------------
(* The rows of the runs: nothing but the removal of a member writes an      *)
(* order, and a purged run stays purged.                                    *)
OrdersStand ==
    \A r \in Runs : run[r].status # "none" =>
        \/ run'[r].status = "purged"
        \/ /\ run[r].status # "purged" /\ run'[r].status \notin {"none", "purged"}
           /\ run'[r].order = run[r].order

Dropped == \E s \in Slots : DropMember(s)

LEMMA ColumnsStand ==
    ASSUME RunInv, NEW r \in Runs, Exists(r), NEW columns, Update(r, columns),
           "status" \in DOMAIN columns => columns["status"] \in Active \cup Ended,
           "order" \in DOMAIN columns => columns["order"] = run[r].order,
           "index" \in DOMAIN columns => columns["index"] \in Nat,
           "conducted" \in DOMAIN columns => columns["conducted"] = FALSE,
           "copy" \in DOMAIN columns => columns["copy"] \in Copies
    PROVE  OrdersStand
  <1>1. /\ \A q \in Runs \ {r} : run'[q] = run[q]
        /\ run'[r].status = IF "status" \in DOMAIN columns THEN columns["status"] ELSE run[r].status
        /\ run'[r].order = run[r].order
    <2>1. "order" \in DOMAIN columns => columns["order"] \in Seq(Projects)
      BY SameTyped DEF RunRow
    <2> QED BY <2>1, SameTyped, Updated
  <1>2. run'[r].status \notin {"none", "purged"} /\ run[r].status # "purged"
    BY <1>1 DEF Exists, Active, Ended
  <1> QED BY <1>1, <1>2 DEF OrdersStand

LEMMA OrdersStandStep ==
    ASSUME SequenceRunAssumption, RunInv, [Next]_vars, ~Dropped PROVE OrdersStand
  <1>1. ASSUME NEW s \in Slots, Proceed(s), run' # run PROVE OrdersStand
    <2>0. /\ Sound(slot[s]) /\ slot[s] \in Request /\ slot[s].read \in RunRow
          /\ slot[s].read.copy \in Copies
      BY SameTyped DEF Request, RunRow
    <2>1. CASE Create(s)
      <3>1. PICK r \in Runs : run[r].status = "none" /\ run' = [run EXCEPT ![r] = slot[s].read]
        BY <2>1 DEF Create
      <3>2. \A q \in Runs : run[q].status # "none" => run'[q] = run[q]
        BY <3>1, SameTyped
      <3> QED BY <3>2 DEF OrdersStand
    <2>2. CASE AdvanceIndex(s)
      <3>1. Exists(slot[s].r) /\ Update(slot[s].r, [index |-> Forward(s)]) /\ slot[s].r \in Runs
        BY <1>1, <2>0, <2>2 DEF AdvanceIndex, Is, Sound
      <3>2. /\ \A q \in Runs \ {slot[s].r} : run'[q] = run[q]
            /\ run'[slot[s].r].status = run[slot[s].r].status
            /\ run'[slot[s].r].order = run[slot[s].r].order
        BY <3>1, SameTyped DEF Update, RunRow
      <3> QED BY <3>1, <3>2 DEF OrdersStand, Exists
    <2>3. CASE AdvanceWrite(s)
      <3>1. PICK y : y = [slot[s].read.copy EXCEPT ![slot[s].p] = "implementing"]
        OBVIOUS
      <3>2. y \in Copies
        BY <2>0, <3>1 DEF Copies
      <3>3. /\ Exists(slot[s].r) /\ slot[s].r \in Runs
            /\ \/ Update(slot[s].r, [status |-> "running", copy |-> y, index |-> 0])
               \/ Update(slot[s].r, [status |-> "running", copy |-> y])
        BY <1>1, <2>0, <2>3, <3>1 DEF AdvanceWrite, Is, Sound
      <3>4. CASE Update(slot[s].r, [status |-> "running", copy |-> y, index |-> 0])
        BY <3>2, <3>3, <3>4, ColumnsStand DEF Active
      <3>5. CASE Update(slot[s].r, [status |-> "running", copy |-> y])
        BY <3>2, <3>3, <3>5, ColumnsStand DEF Active
      <3> QED BY <3>3, <3>4, <3>5
    <2>4. CASE MarkStalled(s)
      <3>1. Exists(slot[s].r) /\ slot[s].r \in Runs /\ Update(slot[s].r, [status |-> "stalled"])
        BY <1>1, <2>0, <2>4 DEF MarkStalled, Is, Sound
      <3> QED BY <3>1, ColumnsStand DEF Active
    <2>5. CASE Mark(s)
      <3>1. PICK y : y = [slot[s].read.copy EXCEPT ![slot[s].p] = "completed"]
        OBVIOUS
      <3>2. y \in Copies
        BY <2>0, <3>1 DEF Copies, Terminal
      <3>3. Exists(slot[s].r) /\ slot[s].r \in Runs /\ Update(slot[s].r, [copy |-> y])
        BY <1>1, <2>0, <2>5, <3>1 DEF Mark, Sound
      <3> QED BY <3>2, <3>3, ColumnsStand
    <2>6. CASE GuardHeal(s) \/ TeardownHeal(s)
      <3>1. PICK y : y = Healed(slot[s].read.copy, slot[s].read.order)
        OBVIOUS
      <3>2. y \in Copies
        BY <2>0, <3>1, HealedCovered, SameTyped
      <3>3. Exists(slot[s].r) /\ slot[s].r \in Runs /\ Update(slot[s].r, [copy |-> y])
        BY <1>1, <2>0, <2>6, <3>1
        DEF GuardHeal, TeardownHeal, Persist, Is, Teardown, Sound, TeardownOps
      <3> QED BY <3>2, <3>3, ColumnsStand
    <2>7. CASE Purge(s)
      <3>1. slot[s].r \in Runs
        BY <2>0, <2>7 DEF Purge, Teardown, Sound, TeardownOps
      <3>2. PICK y : y = [Absent EXCEPT !.status = "purged"]
        OBVIOUS
      <3>3. run' = [run EXCEPT ![slot[s].r] = y] /\ y.status = "purged"
        BY <2>7, <3>2 DEF Purge, Absent, NewRun
      <3>4. run'[slot[s].r].status = "purged" /\ \A q \in Runs \ {slot[s].r} : run'[q] = run[q]
        BY <3>1, <3>3, SameTyped
      <3>5. \A q \in Runs : run[q].status \in Active \cup Ended \cup {"none", "purged"}
        BY SameTyped DEF RunRow
      <3> QED BY <3>4, <3>5 DEF OrdersStand
    <2>8. CASE Release(s)
      <3>1. Exists(slot[s].r) /\ slot[s].r \in Runs /\ Update(slot[s].r, [status |-> "terminated"])
        BY <1>1, <2>0, <2>8 DEF Release, Is, Sound
      <3> QED BY <3>1, ColumnsStand DEF Ended
    <2>9. CASE ResumeChain(s)
      <3>1. PICK y : y = [slot[s].read.copy EXCEPT ![slot[s].p] = "pending"]
        OBVIOUS
      <3>2. y \in Copies
        BY <2>0, <3>1 DEF Copies
      <3>3. /\ Exists(slot[s].r) /\ slot[s].r \in Runs
            /\ Update(slot[s].r, [status |-> "running", copy |-> y])
        BY <1>1, <2>0, <2>9, <3>1 DEF ResumeChain, Is, Sound
      <3> QED BY <3>2, <3>3, ColumnsStand DEF Active
    <2>10. CASE Dissolve(s)
      <3>1. /\ Exists(slot[s].r) /\ slot[s].r \in Runs
            /\ Update(slot[s].r, [status |-> "cancelled", conducted |-> FALSE])
        BY <1>1, <2>0, <2>10 DEF Dissolve, Is, Sound
      <3> QED BY <3>1, ColumnsStand DEF Ended
    <2>11. CASE EndMembership(s)
      <3>1. Exists(slot[s].r) /\ slot[s].r \in Runs /\ Update(slot[s].r, [status |-> "cancelled"])
        BY <1>1, <2>0, <2>11 DEF EndMembership, Is, Sound
      <3> QED BY <3>1, ColumnsStand DEF Ended
    <2>12. \/ AdvanceRead(s) \/ StampLaunch(s) \/ MarkRead(s) \/ CommitCloseout(s) \/ GuardRead(s)
           \/ TeardownFind(s) \/ CheckSettlement(s) \/ ResetMember(s) \/ LoadRun(s)
           \/ FindMembership(s)
           => UNCHANGED run
      BY DEF AdvanceRead, StampLaunch, MarkRead, CommitCloseout, GuardRead, TeardownFind,
             CheckSettlement, ResetMember, LoadRun, FindMembership
    <2>13. ~DropMember(s)
      BY DEF Dropped
    <2> QED BY <1>1, <2>1, <2>2, <2>3, <2>4, <2>5, <2>6, <2>7, <2>8, <2>9, <2>10, <2>11, <2>12, <2>13
            DEF Proceed
  <1>2. ASSUME NEW r \in Runs, Cancel(r) PROVE OrdersStand
    <2>1. Exists(r) /\ Update(r, [status |-> "cancelled"])
      <3>1. r # NoRun \/ r = NoRun
        OBVIOUS
      <3> QED BY <1>2 DEF Cancel, Exists, Active, SequenceRunAssumption
    <2> QED BY <2>1, ColumnsStand DEF Ended
  <1>3. UNCHANGED run => OrdersStand
    <2>1. \A r \in Runs : run[r].status \in Active \cup Ended \cup {"none", "purged"}
      BY SameTyped DEF RunRow
    <2> QED BY <2>1 DEF OrdersStand
  <1>4. CASE UNCHANGED vars
    BY <1>3, <1>4 DEF vars
  <1>5. ASSUME NEW s \in Slots,
               \/ \E p \in Projects : \/ StagingEnd(s, p) \/ GoSilent(s, p) \/ DeleteProject(s, p)
                                      \/ \E op \in Ops : CloseMember(s, op, p)
                                      \/ \E r \in Runs : RemoveMember(s, r, p)
               \/ \E r \in Runs :
                    CompleteJob(s, r) \/ Decide(s, r) \/ ReleaseGracefully(s, r) \/ OpenPage(s, r)
                    \/ DeactivateChain(s, r)
               \/ \E chain \in Chains : Start(s, chain)
        PROVE  UNCHANGED run
    BY <1>5 DEF StagingEnd, GoSilent, DeleteProject, CloseMember, RemoveMember, CompleteJob, Decide,
                ReleaseGracefully, OpenPage, DeactivateChain, Start
  <1>6. ASSUME NEW p \in Projects, Archive(p) \/ Reopen(p) \/ AskSettlement(p) PROVE UNCHANGED run
    BY <1>6 DEF Archive, Reopen, AskSettlement
  <1> QED BY <1>1, <1>2, <1>3, <1>4, <1>5, <1>6, Zenon DEF Next

(* A teardown past its lookup of the run: until the run is purged it holds  *)
(* the run's order, and past its own healing every member of it is over.    *)
Late(x) == x.op \in TeardownOps /\ x.phase \in {"reheal", "settlement", "purge"}
TearsDown(x) ==
    Late(x) => \/ run[x.r].status = "purged"
               \/ /\ run[x.r].status # "none" /\ x.read.order = run[x.r].order
                  /\ x.phase # "reheal" => \A p \in ToSet(x.read.order) : Over(p)
PurgeInv == RunInv /\ \A s \in Slots : TearsDown(slot[s])

LEMMA SlotWrites ==
    ASSUME RunInv, NEW s \in Slots
    PROVE  /\ \A phase : Goto(s, phase) => /\ \A t \in Slots \ {s} : slot'[t] = slot[t]
                                           /\ slot'[s].op = slot[s].op /\ slot'[s].phase = phase
                                           /\ slot'[s].r = slot[s].r /\ slot'[s].read = slot[s].read
           /\ \A r, phase : Read(s, r, phase) => /\ \A t \in Slots \ {s} : slot'[t] = slot[t]
                                                 /\ slot'[s].op = slot[s].op /\ slot'[s].phase = phase
                                                 /\ slot'[s].r = r /\ slot'[s].read = run[r]
           /\ Return(s) => /\ \A t \in Slots \ {s} : slot'[t] = slot[t]
                           /\ slot'[s].op = "none"
           /\ \A op, p, r, phase : Begin(s, op, p, r, phase) =>
                 (\A t \in Slots \ {s} : slot'[t] = slot[t]) /\ slot'[s].phase = phase
  <1>1. slot \in [Slots -> Request] /\ slot[s] \in Request /\ Idle \in Request /\ Idle.op = "none"
    BY SameTyped, AbsentRow
  <1>2. ASSUME NEW phase, Goto(s, phase)
        PROVE  /\ \A t \in Slots \ {s} : slot'[t] = slot[t]
               /\ slot'[s].op = slot[s].op /\ slot'[s].phase = phase
               /\ slot'[s].r = slot[s].r /\ slot'[s].read = slot[s].read
    BY <1>1, <1>2 DEF Goto, Request
  <1>3. ASSUME NEW r, NEW phase, Read(s, r, phase)
        PROVE  /\ \A t \in Slots \ {s} : slot'[t] = slot[t]
               /\ slot'[s].op = slot[s].op /\ slot'[s].phase = phase
               /\ slot'[s].r = r /\ slot'[s].read = run[r]
    BY <1>1, <1>3 DEF Read, Request
  <1>4. Return(s) => (\A t \in Slots \ {s} : slot'[t] = slot[t]) /\ slot'[s].op = "none"
    BY <1>1 DEF Return
  <1>5. ASSUME NEW op, NEW p, NEW r, NEW phase, Begin(s, op, p, r, phase)
        PROVE  (\A t \in Slots \ {s} : slot'[t] = slot[t]) /\ slot'[s].phase = phase
    <2>1. PICK x : x = [Idle EXCEPT !.op = op, !.phase = phase, !.p = p, !.r = r]
      OBVIOUS
    <2>2. x.phase = phase /\ slot' = [slot EXCEPT ![s] = x]
      BY <1>5, <2>1 DEF Begin, Idle
    <2> QED BY <1>1, <2>2
  <1> QED BY <1>2, <1>3, <1>4, <1>5

Early(s) == \A t \in Slots : slot'[t] = slot[t] \/ ~Late(slot'[t])

LEMMA ProceedsEarly ==
    ASSUME RunInv, NEW s \in Slots, Proceed(s),
           ~TeardownFind(s), ~TeardownHeal(s), ~CheckSettlement(s)
    PROVE  Early(s)
  <1>0. slot \in [Slots -> Request] /\ slot[s] \in Request
    BY SameTyped
  <1>1. Return(s) => Early(s)
    BY SlotWrites DEF Early, Late, TeardownOps
  <1>2. ASSUME slot[s].op \notin TeardownOps,
               \/ \E phase : Goto(s, phase)
               \/ \E r, phase : Read(s, r, phase)
        PROVE  Early(s)
    BY <1>2, SlotWrites DEF Early, Late
  <1>3. ASSUME Goto(s, "find") \/ \E r : Read(s, r, "heal")
        PROVE  Early(s)
    BY <1>3, SlotWrites DEF Early, Late
  <1>4. ASSUME NEW x, slot' = [slot EXCEPT ![s] = x], x.op \notin TeardownOps
        PROVE  Early(s)
    BY <1>0, <1>4 DEF Early, Late
  <1>5. CASE \/ Create(s) \/ StampLaunch(s) \/ MarkStalled(s) \/ CommitCloseout(s)
             \/ Purge(s) \/ Release(s) \/ ResumeChain(s) \/ Dissolve(s) \/ DropMember(s)
             \/ EndMembership(s)
    BY <1>1, <1>5 DEF Create, StampLaunch, MarkStalled, CommitCloseout, Purge, Release, ResumeChain,
                      Dissolve, DropMember, EndMembership
  <1>6. CASE AdvanceRead(s) \/ AdvanceIndex(s) \/ AdvanceWrite(s)
    <2>1. slot[s].op \notin TeardownOps
      BY <1>6 DEF AdvanceRead, AdvanceIndex, AdvanceWrite, Is, TeardownOps
    <2>2. (\E phase : Goto(s, phase)) \/ (\E r, phase : Read(s, r, phase))
      BY <1>6 DEF AdvanceRead, AdvanceIndex, AdvanceWrite
    <2> QED BY <1>2, <2>1, <2>2
  <1>7. CASE MarkRead(s) \/ LoadRun(s)
    <2>1. slot[s].op \notin TeardownOps
      BY <1>7 DEF MarkRead, LoadRun, TeardownOps
    <2>2. Return(s) \/ (\E phase : Goto(s, phase)) \/ (\E r, phase : Read(s, r, phase))
      BY <1>7 DEF MarkRead, LoadRun
    <2> QED BY <1>1, <1>2, <2>1, <2>2
  <1>8. CASE Mark(s)
    <2>1. slot[s].op \notin TeardownOps
      BY <1>8 DEF Mark, TeardownOps
    <2>2. PICK x : x = [slot[s] EXCEPT !.r = NoRun, !.phase = "commit"]
      OBVIOUS
    <2>3. x.op = slot[s].op
      BY <1>0, <2>2 DEF Request
    <2>4. CASE slot' = [slot EXCEPT ![s].r = NoRun, ![s].phase = "commit"]
      <3>1. slot' = [slot EXCEPT ![s] = x]
        BY <1>0, <2>2, <2>4
      <3> QED BY <1>4, <2>1, <2>3, <3>1
    <2>5. CASE Goto(s, "commit")
      BY <1>2, <2>1, <2>5
    <2> QED BY <1>8, <2>4, <2>5 DEF Mark
  <1>9. CASE GuardRead(s) \/ GuardHeal(s)
    BY <1>1, <1>3, <1>9 DEF GuardRead, GuardHeal
  <1>10. CASE ResetMember(s)
    <2>1. slot[s].op \notin TeardownOps
      BY <1>10 DEF ResetMember, Is, TeardownOps
    <2>2. PICK y : y = [slot[s].read EXCEPT !.order = Tail(slot[s].read.order)]
      OBVIOUS
    <2>3. PICK x : x = [slot[s] EXCEPT !.read = y]
      OBVIOUS
    <2>4. slot' = [slot EXCEPT ![s] = x] /\ x.op = slot[s].op
      BY <1>0, <1>10, <2>2, <2>3 DEF ResetMember, Request
    <2> QED BY <1>4, <2>1, <2>4
  <1>11. CASE FindMembership(s)
    <2>1. slot[s].op \notin TeardownOps
      BY <1>11 DEF FindMembership, Is, TeardownOps
    <2>2. CASE Return(s)
      BY <1>1, <2>2
    <2>3. ASSUME NEW r, NEW phase, slot' = [slot EXCEPT ![s].r = r, ![s].phase = phase]
          PROVE  Early(s)
      <3>1. PICK x : x = [slot[s] EXCEPT !.r = r, !.phase = phase]
        OBVIOUS
      <3>2. slot' = [slot EXCEPT ![s] = x] /\ x.op = slot[s].op
        BY <1>0, <2>3, <3>1 DEF Request
      <3> QED BY <1>4, <2>1, <3>2
    <2> QED BY <1>11, <2>2, <2>3 DEF FindMembership
  <1> QED BY <1>5, <1>6, <1>7, <1>8, <1>9, <1>10, <1>11 DEF Proceed

LEMMA BeginsEarly ==
    ASSUME RunInv, NEW s \in Slots,
           \/ \E p \in Projects : \/ StagingEnd(s, p) \/ GoSilent(s, p) \/ DeleteProject(s, p)
                                  \/ \E op \in Ops : CloseMember(s, op, p)
                                  \/ \E r \in Runs : RemoveMember(s, r, p)
           \/ \E r \in Runs :
                CompleteJob(s, r) \/ Decide(s, r) \/ ReleaseGracefully(s, r) \/ OpenPage(s, r)
                \/ DeactivateChain(s, r)
           \/ \E chain \in Chains : Start(s, chain)
    PROVE  Early(s)
  <1>0. slot \in [Slots -> Request]
    BY SameTyped
  <1>1. ASSUME NEW op, NEW p, NEW r, NEW phase, Begin(s, op, p, r, phase),
               phase \notin {"reheal", "settlement", "purge"}
        PROVE  Early(s)
    BY <1>1, SlotWrites DEF Early, Late
  <1>2. ASSUME NEW x, slot' = [slot EXCEPT ![s] = x],
               x.phase \notin {"reheal", "settlement", "purge"}
        PROVE  Early(s)
    BY <1>0, <1>2 DEF Early, Late
  <1>3. ASSUME NEW p \in Projects,
               \/ StagingEnd(s, p) \/ GoSilent(s, p) \/ DeleteProject(s, p)
               \/ \E op \in Ops : CloseMember(s, op, p)
               \/ \E r \in Runs : RemoveMember(s, r, p)
        PROVE  Early(s)
    <2>1. \E op, r : \/ Begin(s, op, p, r, "read") \/ Begin(s, op, p, r, "write")
                     \/ Begin(s, op, p, r, "find") \/ Begin(s, op, p, r, "load")
      BY <1>3, Zenon DEF StagingEnd, GoSilent, DeleteProject, CloseMember, RemoveMember
    <2> QED BY <1>1, <2>1
  <1>4. ASSUME NEW r \in Runs, CompleteJob(s, r) \/ Decide(s, r) \/ ReleaseGracefully(s, r)
        PROVE  Early(s)
    <2>1. \E op, p : \/ Begin(s, op, p, r, "guard") \/ Begin(s, op, p, r, "find")
                     \/ Begin(s, op, p, r, "write")
      BY <1>4, Zenon DEF CompleteJob, Decide, ReleaseGracefully
    <2> QED BY <1>1, <2>1
  <1>5. ASSUME NEW r \in Runs, OpenPage(s, r) PROVE Early(s)
    <2>0. PICK y : y = run[r]
      OBVIOUS
    <2>1. PICK q : q = InFlight(run[r])
      OBVIOUS
    <2>2. PICK x : x = [op |-> "resume", phase |-> "write", p |-> q, r |-> r, read |-> y]
      OBVIOUS
    <2>3. slot' = [slot EXCEPT ![s] = x] /\ x.phase = "write"
      BY <1>5, <2>0, <2>1, <2>2 DEF OpenPage
    <2> QED BY <1>2, <2>3
  <1>6. ASSUME NEW r \in Runs, DeactivateChain(s, r) PROVE Early(s)
    <2>0. PICK y : y = run[r]
      OBVIOUS
    <2>2. PICK x : x = [Idle EXCEPT !.op = "deactivate", !.phase = "reset", !.r = r, !.read = y]
      OBVIOUS
    <2>3. slot' = [slot EXCEPT ![s] = x] /\ x.phase = "reset"
      BY <1>6, <2>0, <2>2 DEF DeactivateChain, Idle
    <2> QED BY <1>2, <2>3
  <1>7. ASSUME NEW chain \in Chains, Start(s, chain) PROVE Early(s)
    <2>0. PICK y : y = NewRun(chain)
      OBVIOUS
    <2>2. PICK x : x = [Idle EXCEPT !.op = "start", !.phase = "create", !.read = y]
      OBVIOUS
    <2>3. slot' = [slot EXCEPT ![s] = x] /\ x.phase = "create"
      BY <1>7, <2>0, <2>2 DEF Start, Idle
    <2> QED BY <1>2, <2>3
  <1> QED BY <1>3, <1>4, <1>5, <1>6, <1>7

(* A run is purged by a teardown of it and by nothing else.                *)
LEMMA PurgedBy ==
    ASSUME RunInv, [Next]_vars, NEW r \in Runs, run[r].status # "purged", run'[r].status = "purged"
    PROVE  \E s \in Slots : Purge(s) /\ slot[s].r = r
  <1>1. SUFFICES ASSUME ~ \E s \in Slots : Purge(s) /\ slot[s].r = r PROVE FALSE
    OBVIOUS
  <1>2. run' # run
    OBVIOUS
  <1>3. ASSUME NEW q, NEW columns, Update(q, columns),
               "status" \in DOMAIN columns => columns["status"] # "purged"
        PROVE  FALSE
    <2>1. DOMAIN run[r] = {"status", "order", "index", "conducted", "copy"}
      BY SameTyped DEF RunRow
    <2>2. r = q => run'[r] = [c \in DOMAIN run[r] |-> IF c \in DOMAIN columns THEN columns[c] ELSE run[r][c]]
      BY <1>3, SameTyped DEF Update
    <2>3. r # q => run'[r] = run[r]
      BY <1>3, SameTyped DEF Update
    <2> QED BY <1>3, <2>1, <2>2, <2>3
  <1>4. ASSUME NEW s \in Slots, Proceed(s) PROVE FALSE
    <2>1. CASE Create(s)
      <3>1. Sound(slot[s]) /\ slot[s].phase = "create"
        BY <2>1, SameTyped DEF Create, Is
      <3>2. PICK q \in Runs : run' = [run EXCEPT ![q] = slot[s].read]
        BY <2>1 DEF Create
      <3>3. run'[r] = run[r] \/ run'[r] = slot[s].read
        BY <3>2, SameTyped
      <3> QED BY <3>1, <3>3 DEF Sound
    <2>2. CASE AdvanceIndex(s)
      BY <1>2, <1>3, <2>2 DEF AdvanceIndex
    <2>3. CASE AdvanceWrite(s)
      <3>1. PICK y : y = [slot[s].read.copy EXCEPT ![slot[s].p] = "implementing"]
        OBVIOUS
      <3>2. \/ Update(slot[s].r, [status |-> "running", copy |-> y, index |-> 0])
            \/ Update(slot[s].r, [status |-> "running", copy |-> y])
        BY <1>2, <2>3, <3>1 DEF AdvanceWrite
      <3>3. CASE Update(slot[s].r, [status |-> "running", copy |-> y, index |-> 0])
        BY <1>3, <3>3
      <3>4. CASE Update(slot[s].r, [status |-> "running", copy |-> y])
        BY <1>3, <3>4
      <3> QED BY <3>2, <3>3, <3>4
    <2>4. CASE MarkStalled(s)
      <3>1. Update(slot[s].r, [status |-> "stalled"])
        BY <1>2, <2>4 DEF MarkStalled
      <3> QED BY <1>3, <3>1
    <2>5. CASE Mark(s)
      <3>1. PICK y : y = [slot[s].read.copy EXCEPT ![slot[s].p] = "completed"]
        OBVIOUS
      <3>2. Update(slot[s].r, [copy |-> y])
        BY <1>2, <2>5, <3>1 DEF Mark
      <3> QED BY <1>3, <3>2
    <2>6. CASE GuardHeal(s) \/ TeardownHeal(s)
      <3>1. PICK y : y = Healed(slot[s].read.copy, slot[s].read.order)
        OBVIOUS
      <3>2. Update(slot[s].r, [copy |-> y])
        BY <1>2, <2>6, <3>1 DEF GuardHeal, TeardownHeal, Persist
      <3> QED BY <1>3, <3>2
    <2>7. CASE Purge(s)
      <3>1. slot[s].r # r
        BY <1>1, <2>7
      <3>2. run'[r] = run[r]
        BY <2>7, <3>1, SameTyped DEF Purge
      <3> QED BY <3>2
    <2>8. CASE Release(s)
      <3>1. Update(slot[s].r, [status |-> "terminated"])
        BY <1>2, <2>8 DEF Release
      <3> QED BY <1>3, <3>1
    <2>9. CASE ResumeChain(s)
      <3>1. PICK y : y = [slot[s].read.copy EXCEPT ![slot[s].p] = "pending"]
        OBVIOUS
      <3>2. Update(slot[s].r, [status |-> "running", copy |-> y])
        BY <1>2, <2>9, <3>1 DEF ResumeChain
      <3> QED BY <1>3, <3>2
    <2>10. CASE Dissolve(s)
      <3>1. Update(slot[s].r, [status |-> "cancelled", conducted |-> FALSE])
        BY <1>2, <2>10 DEF Dissolve
      <3> QED BY <1>3, <3>1
    <2>11. CASE EndMembership(s)
      <3>1. Update(slot[s].r, [status |-> "cancelled"])
        BY <1>2, <2>11 DEF EndMembership
      <3> QED BY <1>3, <3>1
    <2>12. CASE DropMember(s)
      <3>1. PICK left : left = Without(slot[s].read.order, slot[s].p)
        OBVIOUS
      <3>2. PICK y : y = [slot[s].read.copy EXCEPT ![slot[s].p] = "pending"]
        OBVIOUS
      <3>3. PICK i : i = Reindexed(slot[s].read, slot[s].p)
        OBVIOUS
      <3>4. \/ Update(slot[s].r, [status |-> "cancelled"])
            \/ Update(slot[s].r, [order |-> left, copy |-> y])
            \/ Update(slot[s].r, [order |-> left, copy |-> y, index |-> i])
        BY <1>2, <2>12, <3>1, <3>2, <3>3 DEF DropMember, Columns
      <3>5. CASE Update(slot[s].r, [status |-> "cancelled"])
        BY <1>3, <3>5
      <3>6. CASE Update(slot[s].r, [order |-> left, copy |-> y])
        BY <1>3, <3>6
      <3>7. CASE Update(slot[s].r, [order |-> left, copy |-> y, index |-> i])
        BY <1>3, <3>7
      <3> QED BY <3>4, <3>5, <3>6, <3>7
    <2>13. \/ AdvanceRead(s) \/ StampLaunch(s) \/ MarkRead(s) \/ CommitCloseout(s) \/ GuardRead(s)
           \/ TeardownFind(s) \/ CheckSettlement(s) \/ ResetMember(s) \/ LoadRun(s)
           \/ FindMembership(s)
           => UNCHANGED run
      BY DEF AdvanceRead, StampLaunch, MarkRead, CommitCloseout, GuardRead, TeardownFind,
             CheckSettlement, ResetMember, LoadRun, FindMembership
    <2> QED BY <1>2, <1>4, <2>1, <2>2, <2>3, <2>4, <2>5, <2>6, <2>7, <2>8, <2>9, <2>10, <2>11, <2>12, <2>13
            DEF Proceed
  <1>5. ASSUME NEW q \in Runs, Cancel(q) PROVE FALSE
    <2>1. Update(q, [status |-> "cancelled"])
      BY <1>5 DEF Cancel
    <2> QED BY <1>3, <2>1
  <1>6. ASSUME NEW s \in Slots,
               \/ \E p \in Projects : \/ StagingEnd(s, p) \/ GoSilent(s, p) \/ DeleteProject(s, p)
                                      \/ \E op \in Ops : CloseMember(s, op, p)
                                      \/ \E q \in Runs : RemoveMember(s, q, p)
               \/ \E q \in Runs :
                    CompleteJob(s, q) \/ Decide(s, q) \/ ReleaseGracefully(s, q) \/ OpenPage(s, q)
                    \/ DeactivateChain(s, q)
               \/ \E chain \in Chains : Start(s, chain)
        PROVE  UNCHANGED run
    BY <1>6 DEF StagingEnd, GoSilent, DeleteProject, CloseMember, RemoveMember, CompleteJob, Decide,
                ReleaseGracefully, OpenPage, DeactivateChain, Start
  <1>7. ASSUME NEW p \in Projects, Archive(p) \/ Reopen(p) \/ AskSettlement(p) PROVE UNCHANGED run
    BY <1>7 DEF Archive, Reopen, AskSettlement
  <1>8. UNCHANGED vars => UNCHANGED run
    BY DEF vars
  <1> QED BY <1>2, <1>4, <1>5, <1>6, <1>7, <1>8, Zenon DEF Next

MembersKept == {"remove", "delete"} \cap Ops = {}
OneRequest == \A s, t \in Slots : s = t

LEMMA PurgeInvStep ==
    ASSUME SequenceRunAssumption, "rollback" \notin Faults, MembersKept \/ OneRequest,
           PurgeInv, [Next]_vars
    PROVE  PurgeInv'
  <1>0. RunInv /\ RunInv' /\ OverKept /\ \A s \in Slots : TearsDown(slot[s]) /\ Sound(slot[s])
    BY RunInvStep, SameTyped DEF PurgeInv
  <1>1. ASSUME Dropped PROVE \A t \in Slots : TearsDown(slot[t])'
    <2>1. PICK s \in Slots : DropMember(s)
      BY <1>1 DEF Dropped
    <2>2. slot[s].op \in {"remove", "delete"} /\ slot[s].op \in Ops
      BY <1>0, <2>1, SameTyped DEF DropMember, Request
    <2>3. \A t \in Slots : t = s
      BY <2>2 DEF MembersKept, OneRequest
    <2>4. slot'[s].op = "none"
      BY <1>0, <2>1, SlotWrites DEF DropMember
    <2> QED BY <2>3, <2>4 DEF TearsDown, Late, TeardownOps
  <1>2. ASSUME ~Dropped, NEW t \in Slots PROVE TearsDown(slot[t])'
    <2>1. OrdersStand
      BY <1>0, <1>2, OrdersStandStep
    <2>2. Late(slot[t]) => slot[t].r \in Runs
      BY <1>0 DEF Late, Sound
    <2>3. CASE slot'[t] = slot[t]
      <3>1. SUFFICES ASSUME Late(slot[t])
                     PROVE  \/ run'[slot[t].r].status = "purged"
                            \/ /\ run'[slot[t].r].status # "none"
                               /\ slot[t].read.order = run'[slot[t].r].order
                               /\ slot[t].phase # "reheal" =>
                                    \A p \in ToSet(slot[t].read.order) : Over(p)'
        BY <2>3 DEF TearsDown, Late
      <3>2. \A p \in ToSet(slot[t].read.order) : p \in Projects
        BY <1>0, SameTyped DEF Request, RunRow, ToSet
      <3> QED BY <1>0, <2>1, <2>2, <3>1, <3>2 DEF TearsDown, OrdersStand, OverKept
    <2>4. CASE ~Late(slot'[t])
      BY <2>4 DEF TearsDown, Late
    <2>5. CASE TeardownFind(t)
      <3>0. slot[t].r \in Runs
        BY <1>0, <2>5 DEF TeardownFind, Teardown, Sound, TeardownOps
      <3>1. CASE Read(t, slot[t].r, "reheal") /\ IsConducted(slot[t].r) /\ UNCHANGED run
        <4>1. slot'[t].phase = "reheal" /\ slot'[t].read = run[slot[t].r] /\ slot'[t].r = slot[t].r
          BY <1>0, <3>1, SlotWrites
        <4>2. run'[slot[t].r] = run[slot[t].r] /\ run[slot[t].r].status # "none"
          BY <3>1 DEF IsConducted, Active
        <4> QED BY <4>1, <4>2 DEF TearsDown, Late
      <3>2. CASE Return(t)
        BY <1>0, <3>2, SlotWrites DEF TearsDown, Late, TeardownOps
      <3> QED BY <2>5, <3>1, <3>2 DEF TeardownFind, Answer
    <2>6. CASE TeardownHeal(t)
      <3>0. /\ slot[t].r \in Runs /\ Late(slot[t]) /\ slot[t].read \in RunRow
            /\ slot[t].read.copy \in Copies /\ Covered(slot[t].read.copy)
        BY <1>0, <2>6, SameTyped
        DEF TeardownHeal, Teardown, Sound, Late, TeardownOps, Request, RunRow
      <3>1. PICK y : y = Healed(slot[t].read.copy, slot[t].read.order)
        OBVIOUS
      <3>2. CASE Goto(t, "settlement") /\ Remaining(y, slot[t].read.order) = {}
        <4>1. slot'[t].read = slot[t].read /\ slot'[t].r = slot[t].r
          BY <1>0, <3>2, SlotWrites
        <4>2. \A p \in ToSet(slot[t].read.order) : p \in Projects /\ Over(p)
          <5>1. \A p \in ToSet(slot[t].read.order) : p \in Projects
            BY <3>0 DEF RunRow, ToSet
          <5> QED BY <1>0, <3>0, <3>1, <3>2, <5>1, HealedCovered DEF Remaining, Covered
        <4>3. \/ run[slot[t].r].status = "purged"
              \/ run[slot[t].r].status # "none" /\ slot[t].read.order = run[slot[t].r].order
          BY <1>0, <3>0 DEF TearsDown
        <4>4. \/ run'[slot[t].r].status = "purged"
              \/ run'[slot[t].r].status # "none" /\ slot[t].read.order = run'[slot[t].r].order
          BY <2>1, <3>0, <4>3 DEF OrdersStand
        <4> QED BY <1>0, <4>1, <4>2, <4>4 DEF TearsDown, OverKept
      <3>3. CASE Return(t)
        BY <1>0, <3>3, SlotWrites DEF TearsDown, Late, TeardownOps
      <3> QED BY <2>6, <3>1, <3>2, <3>3 DEF TeardownHeal, Answer
    <2>7. CASE CheckSettlement(t)
      <3>0. slot[t].r \in Runs /\ Late(slot[t]) /\ slot[t].phase = "settlement"
            /\ slot[t].read \in RunRow /\ UNCHANGED run
        BY <1>0, <2>7, SameTyped
        DEF CheckSettlement, Teardown, Sound, Late, TeardownOps, Request
      <3>1. CASE Goto(t, "purge")
        <4>1. slot'[t].read = slot[t].read /\ slot'[t].r = slot[t].r
          BY <1>0, <3>1, SlotWrites
        <4>2. \A p \in ToSet(slot[t].read.order) : p \in Projects
          BY <3>0 DEF RunRow, ToSet
        <4> QED BY <1>0, <3>0, <4>1, <4>2 DEF TearsDown, OverKept
      <3>2. CASE Return(t)
        BY <1>0, <3>2, SlotWrites DEF TearsDown, Late, TeardownOps
      <3> QED BY <2>7, <3>1, <3>2 DEF CheckSettlement, Answer
    <2>8. \/ slot'[t] = slot[t] \/ ~Late(slot'[t])
          \/ TeardownFind(t) \/ TeardownHeal(t) \/ CheckSettlement(t)
      <3>1. CASE UNCHANGED slot
        BY <3>1
      <3>2. ASSUME NEW s \in Slots, Proceed(s), TeardownFind(s) \/ TeardownHeal(s) \/ CheckSettlement(s)
            PROVE  t # s => slot'[t] = slot[t]
        <4>1. Return(s) \/ (\E phase : Goto(s, phase)) \/ (\E r, phase : Read(s, r, phase))
          BY <3>2 DEF TeardownFind, TeardownHeal, CheckSettlement, Answer
        <4> QED BY <1>0, <4>1, SlotWrites
      <3>3. ASSUME NEW s \in Slots, Early(s) PROVE slot'[t] = slot[t] \/ ~Late(slot'[t])
        BY <3>3 DEF Early
      <3>4. ASSUME NEW s \in Slots, Proceed(s), ~TeardownFind(s), ~TeardownHeal(s), ~CheckSettlement(s)
            PROVE  Early(s)
        BY <1>0, <3>4, ProceedsEarly
      <3>5. ASSUME NEW s \in Slots,
               \/ \E p \in Projects : \/ StagingEnd(s, p) \/ GoSilent(s, p) \/ DeleteProject(s, p)
                                      \/ \E op \in Ops : CloseMember(s, op, p)
                                      \/ \E r \in Runs : RemoveMember(s, r, p)
               \/ \E r \in Runs :
                    CompleteJob(s, r) \/ Decide(s, r) \/ ReleaseGracefully(s, r) \/ OpenPage(s, r)
                    \/ DeactivateChain(s, r)
               \/ \E chain \in Chains : Start(s, chain)
            PROVE  Early(s)
        BY <1>0, <3>5, BeginsEarly
      <3>6. ASSUME NEW p \in Projects, Archive(p) \/ Reopen(p) \/ AskSettlement(p)
            PROVE  UNCHANGED slot
        BY <3>6 DEF Archive, Reopen, AskSettlement
      <3>7. ASSUME NEW r \in Runs, Cancel(r) PROVE UNCHANGED slot
        BY <3>7 DEF Cancel
      <3>8. UNCHANGED vars => UNCHANGED slot
        BY DEF vars
      <3> QED BY <3>1, <3>2, <3>3, <3>4, <3>5, <3>6, <3>7, <3>8, Zenon DEF Next
    <2> QED BY <2>3, <2>4, <2>5, <2>6, <2>7, <2>8
  <1> QED BY <1>0, <1>1, <1>2 DEF PurgeInv

(* A run is deleted only when each of its members has finished or is being  *)
(* closed out, while nothing takes members out of runs, or when requests    *)
(* are served one at a time.                                                *)
THEOREM PurgedFinishedHolds ==
    ASSUME SequenceRunAssumption, "rollback" \notin Faults, MembersKept \/ OneRequest
    PROVE  Spec => PurgedFinished
  <1>1. Init => PurgeInv
    BY RunInvStarts, AbsentRow DEF PurgeInv, TearsDown, Late, TeardownOps, Init
  <1>2. PurgeInv /\ [Next]_vars => PurgeInv'
    BY PurgeInvStep
  <1>3. PurgeInv /\ [Next]_vars =>
          [\A r \in Runs : Purged(r) =>
             \A p \in ToSet(run[r].order) : member[p].ended \/ Closing(p)]_vars
    <2> SUFFICES ASSUME PurgeInv, [Next]_vars, NEW r \in Runs, Purged(r), NEW p \in ToSet(run[r].order)
                 PROVE  Over(p)
      BY DEF Over
    <2>1. PICK s \in Slots : Purge(s) /\ slot[s].r = r
      BY PurgedBy DEF PurgeInv, Purged
    <2> QED BY <2>1 DEF PurgeInv, TearsDown, Purge, Teardown, Late, TeardownOps, Purged
  <1> QED BY <1>1, <1>2, <1>3, PTL DEF Spec, PurgedFinished

-----------------------------------------------------------------------------
(* The index passes a finished member.                                     *)

Distinct(order) == \A i, j \in DOMAIN order : order[i] = order[j] => i = j

(* Without a member an order names the others, each once.                   *)
LEMMA LeftDistinct ==
    ASSUME NEW order \in Seq(Projects), NEW p, NEW left, left = Without(order, p)
    PROVE  /\ left \in Seq(Projects)
           /\ ToSet(left) \subseteq ToSet(order) \ {p}
           /\ Distinct(order) => Distinct(left)
  <1>0. LeftOf(left, order, p, Len(order)) /\ Len(order) \in Nat /\ DOMAIN order = 1..Len(order)
    BY WithoutOrdered
  <1>1. left \in Seq(Projects) /\ DOMAIN left = 1..Len(left)
    BY <1>0 DEF LeftOf
  <1>2. ToSet(left) \subseteq ToSet(order) \ {p}
    BY <1>0, <1>1 DEF LeftOf, ToSet
  <1>3. ASSUME Distinct(order), NEW i \in 1..Len(left), NEW j \in 1..Len(left), i < j, left[i] = left[j]
        PROVE  FALSE
    <2>1. PICK k \in 1..Len(order), l \in 1..Len(order) : k < l /\ left[i] = order[k] /\ left[j] = order[l]
      BY <1>0, <1>3 DEF LeftOf
    <2>2. k = l
      BY <1>0, <1>3, <2>1, Zenon DEF Distinct
    <2> QED BY <1>0, <2>1, <2>2
  <1>4. ASSUME Distinct(order), NEW i \in 1..Len(left), NEW j \in 1..Len(left), left[i] = left[j]
        PROVE  i = j
    BY <1>1, <1>3, <1>4
  <1> QED BY <1>1, <1>2, <1>4 DEF Distinct

(* The member that is next stands no further than before.                  *)
LEMMA NoFurther ==
    ASSUME NEW x \in RunRow, NEW p, Distinct(x.order) PROVE Reindexed(x, p) <= x.index
  <1>l. PICK left : left = Without(x.order, p)
    OBVIOUS
  <1> DEFINE last == IF left = <<>> THEN 0 ELSE Len(left) - 1
  <1>0. x.order \in Seq(Projects) /\ x.index \in Nat /\ Len(x.order) \in Nat /\ DOMAIN x.order = 1..Len(x.order)
    BY DEF RunRow
  <1>1. LeftOf(left, x.order, p, Len(x.order)) /\ left \in Seq(Projects) /\ DOMAIN left = 1..Len(left)
    <2>1. LeftOf(left, x.order, p, Len(x.order))
      BY <1>0, <1>l, WithoutOrdered
    <2> QED BY <2>1 DEF LeftOf
  <1>2. Reindexed(x, p) = IF InFlight(x) \in ToSet(left) THEN Position(left, InFlight(x))
                          ELSE IF x.index < last THEN x.index ELSE last
    BY <1>l DEF Reindexed
  <1>3. last \in Nat
    BY <1>1
  <1> HIDE DEF last
  <1>4. ASSUME InFlight(x) \in ToSet(left) PROVE Position(left, InFlight(x)) <= x.index
    <2>1. PICK i : i = CHOOSE j \in DOMAIN left : left[j] = InFlight(x)
      OBVIOUS
    <2>2. i \in 1..Len(left) /\ left[i] = InFlight(x) /\ Position(left, InFlight(x)) = i - 1
      BY <1>1, <1>4, <2>1 DEF ToSet, Position
    <2>3. PICK k \in 1..Len(x.order) : i <= k /\ left[i] = x.order[k]
      BY <1>1, <2>2 DEF LeftOf
    <2>4. x.order[k] \in Projects
      BY <1>0, <2>3
    <2>5. CASE x.index < Len(x.order)
      <3>1. x.index + 1 \in 1..Len(x.order) /\ x.order[k] = x.order[x.index + 1]
        BY <1>0, <2>2, <2>3, <2>5 DEF InFlight
      <3>2. k = x.index + 1
        BY <1>0, <3>1 DEF Distinct
      <3> QED BY <1>0, <2>2, <2>3, <3>2
    <2>6. CASE ~(x.index < Len(x.order))
      BY <1>0, <1>1, <2>2, <2>3, <2>6
    <2> QED BY <2>5, <2>6
  <1> QED BY <1>0, <1>2, <1>3, <1>4

LEMMA ReindexedNat == ASSUME NEW x \in RunRow, NEW p PROVE Reindexed(x, p) \in Nat
  <1>1. PICK left : left = Without(x.order, p)
    OBVIOUS
  <1>2. left \in Seq(Projects) /\ x.index \in Nat /\ (left # <<>> => Len(left) - 1 \in Nat)
    BY <1>1, WithoutOrdered DEF RunRow, LeftOf
  <1>3. ASSUME NEW q \in ToSet(left) PROVE Position(left, q) \in Nat
    <2>1. (CHOOSE k \in DOMAIN left : left[k] = q) \in DOMAIN left
      BY DEF ToSet
    <2> QED BY <1>2, <2>1 DEF Position
  <1> QED BY <1>1, <1>2, <1>3 DEF Reindexed

CloseOps == {"close", "complete_project"}
DropOps == {"remove", "delete"}
Live(r) == run[r].status \in Active
Marked(x) == \A p \in ToSet(x.order) : member[p].closed => x.copy[p] \in Terminal

(* What a request in flight knows of the rows, when it is the only one.     *)
Current(x) ==
    /\ x.phase = "create" =>
          /\ Distinct(x.read.order) /\ x.read.index = 0
          /\ \A p \in ToSet(x.read.order) :
                ~member[p].launched /\ \A r \in Runs : Live(r) => p \notin ToSet(run[r].order)
    /\ x.op = "launch" => ~member[x.p].closed
    /\ x.phase \in {"index", "mark", "heal", "reheal"} => x.read = run[x.r] /\ Live(x.r)
    /\ x.op = "launch" /\ x.phase = "write" =>
          x.read.copy = run[x.r].copy /\ x.read.order = run[x.r].order /\ Live(x.r)
    /\ x.op \in DropOps /\ x.phase = "write" => x.read = run[x.r]
    /\ x.op = "stall" => Live(x.r)
    /\ x.op \in CloseOps => member[x.p].launched
    /\ x.op \in CloseOps /\ x.phase = "mark" => x.p \in ToSet(run[x.r].order)
    /\ x.op \in CloseOps /\ x.phase = "commit" =>
          \A r \in Runs : Live(r) /\ x.p \in ToSet(run[r].order) => run[r].copy[x.p] \in Terminal

(* A closed member of an active run is marked in it, and a project is a     *)
(* member of one active run.                                                *)
Rows ==
    /\ \A r \in Runs : Distinct(run[r].order) /\ (Live(r) => Marked(run[r]))
    /\ \A q, r \in Runs : \A p \in ToSet(run[q].order) :
          Live(q) /\ Live(r) /\ p \in ToSet(run[r].order) => q = r
    /\ \A p \in Projects : member[p].closed => member[p].launched

PassInv == RunInv /\ Rows /\ \A s \in Slots : Current(slot[s])

NoRegress ==
    /\ OneRequest /\ ~Interleaved
    /\ {"mark", "rollback"} \cap Faults = {} /\ {"resume", "deactivate"} \cap Ops = {}
    /\ \A chain \in Chains : Distinct(chain)

Passes ==
    \A r \in Runs : run'[r].index > run[r].index =>
        run[r].copy[run[r].order[run'[r].index]] \in Terminal

(* A request that moves without writing a row.                              *)
LEMMA RequestMoves ==
    ASSUME PassInv, OneRequest, RunInv', UNCHANGED <<run, member>>,
           \A s \in Slots : Current(slot[s])'
    PROVE  PassInv' /\ Passes
  <1>1. Rows'
    BY DEF PassInv, Rows, Live, Marked
  <1>2. \A r \in Runs : run'[r].index = run[r].index /\ run[r].index \in Nat
    BY SameTyped DEF PassInv, RunRow
  <1> QED BY <1>1, <1>2 DEF PassInv, Passes

(* And one that writes a run, whose members it keeps or leaves alone.       *)
LEMMA RunMoves ==
    ASSUME PassInv, OneRequest, RunInv', member' = member, NEW r \in Runs,
           \A q \in Runs \ {r} : run'[q] = run[q],
           Distinct(run'[r].order),
           Live(r)' => /\ Live(r) /\ ToSet(run'[r].order) \subseteq ToSet(run[r].order)
                       /\ \A p \in ToSet(run'[r].order) : member[p].closed => run'[r].copy[p] \in Terminal,
           run'[r].index > run[r].index => run[r].copy[run[r].order[run'[r].index]] \in Terminal,
           \A s \in Slots : Current(slot[s])'
    PROVE  PassInv' /\ Passes
  <1>1. (\A q \in Runs : Distinct(run[q].order) /\ (Live(q) => Marked(run[q])))'
    BY DEF PassInv, Rows, Live, Marked
  <1>2. (\A q, t \in Runs : \A p \in ToSet(run[q].order) :
          Live(q) /\ Live(t) /\ p \in ToSet(run[t].order) => q = t)'
    BY DEF PassInv, Rows, Live
  <1>3. Rows'
    BY <1>1, <1>2 DEF PassInv, Rows
  <1>4. \A q \in Runs : run[q].index \in Nat
    BY SameTyped DEF PassInv, RunRow
  <1>5. Passes
    BY <1>4 DEF Passes
  <1> QED BY <1>3, <1>5 DEF PassInv

(* What a request that goes on, reads, ends or begins holds afterwards.     *)
LEMMA SlotTells ==
    ASSUME RunInv, NEW s \in Slots
    PROVE  /\ \A phase : Goto(s, phase) => /\ slot'[s].op = slot[s].op /\ slot'[s].phase = phase
                                           /\ slot'[s].r = slot[s].r /\ slot'[s].p = slot[s].p
                                           /\ slot'[s].read = slot[s].read
           /\ \A r, phase : Read(s, r, phase) => /\ slot'[s].op = slot[s].op /\ slot'[s].phase = phase
                                                 /\ slot'[s].r = r /\ slot'[s].p = slot[s].p
                                                 /\ slot'[s].read = run[r]
           /\ Return(s) => slot'[s].op = "none" /\ slot'[s].phase = "idle"
           /\ \A op, p, r, phase : Begin(s, op, p, r, phase) =>
                 slot'[s].op = op /\ slot'[s].phase = phase /\ slot'[s].p = p /\ slot'[s].r = r
  <1>1. slot \in [Slots -> Request] /\ slot[s] \in Request
    BY SameTyped
  <1>2. ASSUME NEW phase, Goto(s, phase)
        PROVE  /\ slot'[s].op = slot[s].op /\ slot'[s].phase = phase /\ slot'[s].r = slot[s].r
               /\ slot'[s].p = slot[s].p /\ slot'[s].read = slot[s].read
    BY <1>1, <1>2 DEF Goto, Request
  <1>3. ASSUME NEW r, NEW phase, Read(s, r, phase)
        PROVE  /\ slot'[s].op = slot[s].op /\ slot'[s].phase = phase /\ slot'[s].r = r
               /\ slot'[s].p = slot[s].p /\ slot'[s].read = run[r]
    BY <1>1, <1>3 DEF Read, Request
  <1>4. Return(s) => slot'[s].op = "none" /\ slot'[s].phase = "idle"
    BY <1>1 DEF Return, Idle
  <1>5. ASSUME NEW op, NEW p, NEW r, NEW phase, Begin(s, op, p, r, phase)
        PROVE  slot'[s].op = op /\ slot'[s].phase = phase /\ slot'[s].p = p /\ slot'[s].r = r
    <2>1. PICK x : x = [Idle EXCEPT !.op = op, !.phase = phase, !.p = p, !.r = r]
      OBVIOUS
    <2>2. /\ x.op = op /\ x.phase = phase /\ x.p = p /\ x.r = r
          /\ slot' = [slot EXCEPT ![s] = x]
      BY <1>5, <2>1 DEF Begin, Idle
    <2> QED BY <1>1, <2>2
  <1> QED BY <1>2, <1>3, <1>4, <1>5

LEMMA PassBegins ==
    ASSUME PassInv, NoRegress, RunInv', NEW s \in Slots,
           \/ \E p \in Projects : \/ StagingEnd(s, p) \/ GoSilent(s, p)
                                  \/ \E op \in Ops : CloseMember(s, op, p)
                                  \/ \E r \in Runs : RemoveMember(s, r, p)
           \/ \E r \in Runs : CompleteJob(s, r) \/ Decide(s, r) \/ ReleaseGracefully(s, r)
           \/ \E chain \in Chains : Start(s, chain)
    PROVE  PassInv' /\ Passes
  <1>0. RunInv /\ Rows /\ OneRequest /\ \A t \in Slots : t = s
    BY DEF PassInv, NoRegress, OneRequest
  <1>1. ASSUME UNCHANGED <<run, member>>, Current(slot[s])' PROVE PassInv' /\ Passes
    BY <1>0, <1>1, RequestMoves
  <1>2. ASSUME NEW p \in Projects, StagingEnd(s, p) PROVE PassInv' /\ Passes
    <2>1. /\ slot'[s].op = "launch" /\ slot'[s].phase = "read" /\ slot'[s].p = p
          /\ UNCHANGED <<run, member>> /\ ~member[p].launched
      BY <1>0, <1>2, SlotTells DEF StagingEnd
    <2>2. Current(slot[s])'
      BY <1>0, <2>1 DEF Current, CloseOps, DropOps, Rows
    <2> QED BY <1>1, <2>1, <2>2
  <1>3. ASSUME NEW p \in Projects, GoSilent(s, p) PROVE PassInv' /\ Passes
    <2>1. PICK r \in ActiveRuns(p) : Begin(s, "stall", p, r, "write")
      BY <1>3 DEF GoSilent
    <2>2. /\ slot'[s].op = "stall" /\ slot'[s].phase = "write" /\ slot'[s].r = r
          /\ UNCHANGED <<run, member>> /\ Live(r)
      BY <1>0, <1>3, <2>1, SlotTells DEF GoSilent, ActiveRuns, Live
    <2>3. Current(slot[s])'
      BY <2>2 DEF Current, CloseOps, DropOps, Live
    <2> QED BY <1>1, <2>2, <2>3
  <1>4. ASSUME NEW p \in Projects, NEW op \in Ops, CloseMember(s, op, p) PROVE PassInv' /\ Passes
    <2>1. /\ slot'[s].op \in CloseOps /\ slot'[s].phase = "find" /\ slot'[s].p = p
          /\ UNCHANGED <<run, member>> /\ member[p].launched
      BY <1>0, <1>4, SlotTells DEF CloseMember, CloseOps
    <2>2. Current(slot[s])'
      BY <2>1 DEF Current, CloseOps, DropOps
    <2> QED BY <1>1, <2>1, <2>2
  <1>5. ASSUME NEW op, NEW p, NEW r, NEW phase, Begin(s, op, p, r, phase), UNCHANGED <<run, member>>,
               \/ op = "remove" /\ phase = "load"
               \/ op = "complete" /\ phase = "guard"
               \/ op = "decide" /\ phase = "find"
               \/ op = "release" /\ phase = "write"
        PROVE  PassInv' /\ Passes
    <2>1. slot'[s].op = op /\ slot'[s].phase = phase
      BY <1>0, <1>5, SlotTells
    <2>2. Current(slot[s])'
      BY <1>5, <2>1 DEF Current, CloseOps, DropOps
    <2> QED BY <1>1, <1>5, <2>2
  <1>6. ASSUME NEW p \in Projects, NEW r \in Runs, RemoveMember(s, r, p) PROVE PassInv' /\ Passes
    BY <1>5, <1>6 DEF RemoveMember
  <1>7. ASSUME NEW r \in Runs, CompleteJob(s, r) \/ Decide(s, r) \/ ReleaseGracefully(s, r)
        PROVE  PassInv' /\ Passes
    BY <1>5, <1>7 DEF CompleteJob, Decide, ReleaseGracefully
  <1>8. ASSUME NEW chain \in Chains, Start(s, chain) PROVE PassInv' /\ Passes
    <2>0. PICK y : y = NewRun(chain)
      OBVIOUS
    <2>1. PICK x : x = [Idle EXCEPT !.op = "start", !.phase = "create", !.read = y]
      OBVIOUS
    <2>2. slot' = [slot EXCEPT ![s] = x] /\ UNCHANGED <<run, member>>
      BY <1>8, <2>0, <2>1 DEF Start
    <2>3. x.op = "start" /\ x.phase = "create" /\ x.read = y /\ y.order = chain /\ y.index = 0
      BY <2>0, <2>1 DEF Idle, NewRun
    <2>4. slot'[s] = x
      BY <1>0, <2>2, SameTyped
    <2>5. Distinct(chain)
      BY DEF NoRegress
    <2>6. \A p \in ToSet(chain) : ~member[p].launched /\ \A r \in Runs : Live(r) => p \notin ToSet(run[r].order)
      BY <1>8 DEF Start, ActiveRuns, Live
    <2>7. Current(slot[s])'
      BY <2>2, <2>3, <2>4, <2>5, <2>6 DEF Current, CloseOps, DropOps, Live
    <2> QED BY <1>1, <2>2, <2>7
  <1> QED BY <1>2, <1>3, <1>4, <1>6, <1>7, <1>8

LEMMA PassLookups ==
    ASSUME PassInv, NoRegress, RunInv', NEW s \in Slots,
           \/ AdvanceRead(s) \/ MarkRead(s) \/ GuardRead(s) \/ LoadRun(s) \/ FindMembership(s)
           \/ TeardownFind(s) \/ CheckSettlement(s)
    PROVE  PassInv' /\ Passes
  <1>0. RunInv /\ Rows /\ Current(slot[s]) /\ OneRequest /\ (\A t \in Slots : t = s)
    BY DEF PassInv, NoRegress, OneRequest
  <1>1. ASSUME UNCHANGED <<run, member>>, Current(slot[s])' PROVE PassInv' /\ Passes
    BY <1>0, <1>1, RequestMoves
  <1>2. ASSUME UNCHANGED <<run, member>>, Return(s) PROVE PassInv' /\ Passes
    <2>1. Current(slot[s])'
      BY <1>0, <1>2, SlotTells DEF Current, CloseOps, DropOps
    <2> QED BY <1>1, <1>2, <2>1
  <1>3. CASE AdvanceRead(s)
    <2>0. slot[s].op = "launch" /\ ~member[slot[s].p].closed /\ UNCHANGED <<run, member>>
      BY <1>0, <1>3 DEF AdvanceRead, Is, Current
    <2>1. CASE Goto(s, "stamp")
      <3>1. Current(slot[s])'
        BY <1>0, <2>0, <2>1, SlotTells DEF Current, CloseOps, DropOps
      <3> QED BY <1>1, <2>0, <3>1
    <2>2. ASSUME NEW r \in ActiveRuns(slot[s].p), Read(s, r, "index") PROVE PassInv' /\ Passes
      <3>1. Live(r)
        BY DEF ActiveRuns, Live
      <3>2. Current(slot[s])'
        BY <1>0, <2>0, <2>2, <3>1, SlotTells DEF Current, CloseOps, DropOps, Live
      <3> QED BY <1>1, <2>0, <3>2
    <2> QED BY <1>3, <2>1, <2>2 DEF AdvanceRead
  <1>4. CASE MarkRead(s)
    <2>0. slot[s].op \in CloseOps /\ member[slot[s].p].launched /\ UNCHANGED <<run, member>>
      BY <1>0, <1>4 DEF MarkRead, CloseOps, Current
    <2>1. CASE ActiveRuns(slot[s].p) = {} /\ Goto(s, "commit")
      <3>1. \A r \in Runs : ~(Live(r) /\ slot[s].p \in ToSet(run[r].order))
        BY <2>1 DEF ActiveRuns, Live
      <3>2. Current(slot[s])'
        BY <1>0, <2>0, <2>1, <3>1, SlotTells DEF Current, CloseOps, DropOps, Live
      <3> QED BY <1>1, <2>0, <3>2
    <2>2. ASSUME NEW r \in ActiveRuns(slot[s].p), Read(s, r, "mark") PROVE PassInv' /\ Passes
      <3>1. Live(r) /\ slot[s].p \in ToSet(run[r].order)
        BY DEF ActiveRuns, Live
      <3>2. Current(slot[s])'
        BY <1>0, <2>0, <2>2, <3>1, SlotTells DEF Current, CloseOps, DropOps, Live
      <3> QED BY <1>1, <2>0, <3>2
    <2> QED BY <1>4, <2>1, <2>2 DEF MarkRead
  <1>5. CASE GuardRead(s)
    <2>0. slot[s].op = "complete" /\ UNCHANGED <<run, member>>
      BY <1>5 DEF GuardRead, Is
    <2>1. CASE Goto(s, "find")
      <3>1. Current(slot[s])'
        BY <1>0, <2>0, <2>1, SlotTells DEF Current, CloseOps, DropOps
      <3> QED BY <1>1, <2>0, <3>1
    <2>2. CASE IsConducted(slot[s].r) /\ Read(s, slot[s].r, "heal")
      <3>1. Current(slot[s])'
        BY <1>0, <2>0, <2>2, SlotTells DEF Current, CloseOps, DropOps, Live, IsConducted
      <3> QED BY <1>1, <2>0, <3>1
    <2> QED BY <1>5, <2>1, <2>2 DEF GuardRead
  <1>6. CASE LoadRun(s)
    <2>0. slot[s].op \in DropOps /\ UNCHANGED <<run, member>>
      BY <1>6 DEF LoadRun, DropOps
    <2>1. CASE Goto(s, "cancel")
      <3>1. Current(slot[s])'
        BY <1>0, <2>0, <2>1, SlotTells DEF Current, CloseOps, DropOps
      <3> QED BY <1>1, <2>0, <3>1
    <2>2. CASE Read(s, slot[s].r, "write")
      <3>1. Current(slot[s])'
        BY <1>0, <2>0, <2>2, SlotTells DEF Current, CloseOps, DropOps
      <3> QED BY <1>1, <2>0, <3>1
    <2> QED BY <1>2, <1>6, <2>0, <2>1, <2>2 DEF LoadRun
  <1>7. CASE FindMembership(s)
    <2>0. slot[s].op = "delete" /\ UNCHANGED <<run, member>>
      BY <1>7 DEF FindMembership, Is
    <2>1. ASSUME NEW r, NEW phase \in {"cancel", "load"},
                 slot' = [slot EXCEPT ![s].r = r, ![s].phase = phase]
          PROVE  PassInv' /\ Passes
      <3>1. slot'[s].op = "delete" /\ slot'[s].phase = phase
        BY <1>0, <2>0, <2>1, SameTyped DEF Request
      <3>2. Current(slot[s])'
        BY <2>0, <3>1 DEF Current, CloseOps, DropOps
      <3> QED BY <1>1, <2>0, <3>2
    <2> QED BY <1>2, <1>7, <2>0, <2>1 DEF FindMembership
  <1>8. CASE TeardownFind(s)
    <2>0. slot[s].op \in {"complete", "decide"} /\ UNCHANGED <<run, member>>
      BY <1>8 DEF TeardownFind, Teardown
    <2>1. CASE IsConducted(slot[s].r) /\ Read(s, slot[s].r, "reheal")
      <3>1. Current(slot[s])'
        BY <1>0, <2>0, <2>1, SlotTells DEF Current, CloseOps, DropOps, Live, IsConducted
      <3> QED BY <1>1, <2>0, <3>1
    <2> QED BY <1>2, <1>8, <2>0, <2>1 DEF TeardownFind, Answer
  <1>9. CASE CheckSettlement(s)
    <2>0. slot[s].op \in {"complete", "decide"} /\ UNCHANGED <<run, member>>
      BY <1>9 DEF CheckSettlement, Teardown
    <2>1. CASE Goto(s, "purge")
      <3>1. Current(slot[s])'
        BY <1>0, <2>0, <2>1, SlotTells DEF Current, CloseOps, DropOps
      <3> QED BY <1>1, <2>0, <3>1
    <2> QED BY <1>2, <1>9, <2>0, <2>1 DEF CheckSettlement, Answer
  <1> QED BY <1>3, <1>4, <1>5, <1>6, <1>7, <1>8, <1>9

(* The index an update of a run writes.                                     *)
LEMMA IndexUpdated ==
    ASSUME RunInv, NEW r \in Runs, NEW columns, Update(r, columns)
    PROVE  run'[r].index = IF "index" \in DOMAIN columns THEN columns["index"] ELSE run[r].index
  <1>1. run' = [run EXCEPT ![r] = [c \in DOMAIN run[r] |-> IF c \in DOMAIN columns THEN columns[c] ELSE run[r][c]]]
    BY DEF Update
  <1>2. run \in [Runs -> RunRow] /\ "index" \in DOMAIN run[r]
    BY SameTyped DEF RunRow
  <1> QED BY <1>1, <1>2

LEMMA PassAdvances ==
    ASSUME SequenceRunAssumption, PassInv, NoRegress, RunInv', NEW s \in Slots,
           AdvanceIndex(s) \/ AdvanceWrite(s)
    PROVE  PassInv' /\ Passes
  <1>0. RunInv /\ Rows /\ Current(slot[s]) /\ OneRequest /\ (\A t \in Slots : t = s)
    BY DEF PassInv, NoRegress, OneRequest
  <1>1. /\ slot[s].op = "launch" /\ slot[s].phase \in {"index", "write"} /\ slot[s].r \in Runs
        /\ slot[s].p \in Projects /\ slot[s].p \in ToSet(slot[s].read.order)
        /\ ~member[slot[s].p].closed /\ member' = member /\ Live(slot[s].r)
        /\ slot[s].read.copy = run[slot[s].r].copy /\ slot[s].read.order = run[slot[s].r].order
    BY <1>0, SameTyped DEF AdvanceIndex, AdvanceWrite, Is, Sound, ProjectOps, Current
  <1>r. PICK r \in Runs : r = slot[s].r
    BY <1>1
  <1>2. /\ run[r] \in RunRow /\ run[r].order \in Seq(Projects) /\ run[r].index \in Nat
        /\ run[r].copy \in Copies /\ DOMAIN run[r].order = 1..Len(run[r].order)
        /\ run \in [Runs -> RunRow] /\ Distinct(run[r].order) /\ Marked(run[r]) /\ Exists(r)
    <2>1. run[r] \in RunRow /\ run \in [Runs -> RunRow]
      BY <1>0, SameTyped
    <2>2. Exists(r)
      BY <1>1, <1>r DEF Exists, Live, Active, SequenceRunAssumption
    <2> QED BY <1>0, <1>1, <1>r, <2>1, <2>2 DEF RunRow, Rows
  <1>3. CASE AdvanceIndex(s)
    <2>0. slot[s].phase = "index" /\ slot[s].read = run[r]
      BY <1>0, <1>3, <1>r DEF AdvanceIndex, Is, Current
    <2>1. PICK f : f = Forward(s)
      OBVIOUS
    <2>2. f \in Nat /\ f >= run[r].index /\ (f > run[r].index => f < Len(run[r].order))
      <3>1. PICK i : i = CHOOSE j \in DOMAIN run[r].order : run[r].order[j] = slot[s].p
        OBVIOUS
      <3>2. i \in 1..Len(run[r].order)
        BY <1>1, <1>2, <1>r, <3>1 DEF ToSet
      <3>3. Position(run[r].order, slot[s].p) = i - 1
        BY <3>1 DEF Position
      <3>4. f = IF run[r].index > i - 1 THEN run[r].index ELSE i - 1
        BY <2>0, <2>1, <3>3 DEF Forward
      <3> QED BY <1>2, <3>2, <3>4
    <2>3. CASE UNCHANGED run
      <3>1. (\E phase \in {"write", "stamp"} : Goto(s, phase)) /\ UNCHANGED <<run, member>>
        BY <1>1, <1>3, <2>3 DEF AdvanceIndex
      <3>2. Current(slot[s])'
        BY <1>0, <1>1, <2>0, <3>1, SlotTells DEF Current, CloseOps, DropOps, Live
      <3> QED BY <1>0, <3>1, <3>2, RequestMoves
    <2>4. CASE f > 0 /\ LeftBehindClosed(s) /\ Update(r, [index |-> f]) /\ Goto(s, "write")
      <3>1. /\ \A q \in Runs \ {r} : run'[q] = run[q]
            /\ run'[r].status = run[r].status /\ run'[r].order = run[r].order
            /\ run'[r].copy = run[r].copy
        <4>1. PICK c : c = [index |-> f]
          OBVIOUS
        <4>2. DOMAIN c = {"index"} /\ c["index"] = f
          BY <4>1
        <4> QED BY <1>2, <2>2, <2>4, <4>1, <4>2, Updated
      <3>2. run'[r].index = f
        BY <1>0, <2>4, IndexUpdated
      <3>3. f > run[r].index => run[r].copy[run[r].order[f]] \in Terminal
        <4>1. SUFFICES ASSUME f > run[r].index PROVE run[r].copy[run[r].order[f]] \in Terminal
          OBVIOUS
        <4>2. f \in 1..Len(run[r].order) /\ run[r].order[f] \in ToSet(run[r].order)
          BY <1>2, <2>2, <2>4, <4>1 DEF ToSet
        <4>3. member[run[r].order[f]].closed
          BY <2>0, <2>1, <2>4 DEF LeftBehindClosed
        <4> QED BY <1>2, <4>2, <4>3 DEF Marked
      <3>4. Current(slot[s])'
        BY <1>0, <1>1, <1>r, <2>0, <2>4, <3>1, SlotTells DEF Current, CloseOps, DropOps, Live
      <3>5. Live(r)
        BY <1>1, <1>r
      <3> QED BY <1>0, <1>1, <1>2, <3>1, <3>2, <3>3, <3>4, <3>5, RunMoves DEF Marked
    <2> QED BY <1>3, <1>2, <1>r, <2>1, <2>3, <2>4 DEF AdvanceIndex
  <1>4. CASE AdvanceWrite(s)
    <2>0. slot[s].phase = "write" /\ Goto(s, "stamp")
      BY <1>4 DEF AdvanceWrite, Is
    <2>1. PICK y : y = [slot[s].read.copy EXCEPT ![slot[s].p] = "implementing"]
      OBVIOUS
    <2>2. y \in Copies /\ \A p \in ToSet(run[r].order) : member[p].closed => y[p] \in Terminal
      BY <1>1, <1>2, <1>r, <2>1 DEF Copies, Marked
    <2>3. /\ \A q \in Runs \ {r} : run'[q] = run[q]
          /\ run'[r].order = run[r].order
          /\ run'[r].index \in {run[r].index, 0}
          /\ run'[r].copy \in {run[r].copy, y}
      <3>1. \/ Update(r, [status |-> "running", copy |-> y, index |-> 0])
            \/ Update(r, [status |-> "running", copy |-> y])
            \/ UNCHANGED run
        BY <1>4, <1>r, <2>1 DEF AdvanceWrite
      <3>2. CASE UNCHANGED run
        BY <3>2
      <3>3. CASE Update(r, [status |-> "running", copy |-> y, index |-> 0])
        <4>1. /\ \A q \in Runs \ {r} : run'[q] = run[q]
              /\ run'[r].order = run[r].order /\ run'[r].copy = y
          <5>1. PICK c : c = [status |-> "running", copy |-> y, index |-> 0]
            OBVIOUS
          <5>2. /\ DOMAIN c = {"status", "copy", "index"}
                /\ c["status"] = "running" /\ c["copy"] = y /\ c["index"] = 0
            BY <5>1
          <5> QED BY <1>2, <2>2, <3>3, <5>1, <5>2, Updated DEF Active
        <4>2. run'[r].index = 0
          BY <1>0, <3>3, IndexUpdated
        <4> QED BY <4>1, <4>2
      <3>4. CASE Update(r, [status |-> "running", copy |-> y])
        <4>1. /\ \A q \in Runs \ {r} : run'[q] = run[q]
              /\ run'[r].order = run[r].order /\ run'[r].copy = y
          <5>1. PICK c : c = [status |-> "running", copy |-> y]
            OBVIOUS
          <5>2. DOMAIN c = {"status", "copy"} /\ c["status"] = "running" /\ c["copy"] = y
            BY <5>1
          <5> QED BY <1>2, <2>2, <3>4, <5>1, <5>2, Updated DEF Active
        <4>2. run'[r].index = run[r].index
          BY <1>0, <3>4, IndexUpdated
        <4> QED BY <4>1, <4>2
      <3> QED BY <3>1, <3>2, <3>3, <3>4
    <2>4. Current(slot[s])'
      BY <1>0, <1>1, <2>0, SlotTells DEF Current, CloseOps, DropOps
    <2>5. Live(r) /\ ~(run'[r].index > run[r].index)
      BY <1>1, <1>2, <1>r, <2>3
    <2>6. \A p \in ToSet(run[r].order) : member[p].closed => run'[r].copy[p] \in Terminal
      BY <1>2, <2>2, <2>3 DEF Marked
    <2> QED BY <1>0, <1>1, <1>2, <2>3, <2>4, <2>5, <2>6, RunMoves
  <1> QED BY <1>3, <1>4

(* A run that ends, by whatever call.                                       *)
LEMMA PassEnds ==
    ASSUME PassInv, OneRequest, RunInv', member' = member, NEW r \in Runs, NEW status \in Ended,
           Update(r, [status |-> status]), \A s \in Slots : Current(slot[s])'
    PROVE  PassInv' /\ Passes
  <1>0. RunInv /\ run \in [Runs -> RunRow]
    BY SameTyped DEF PassInv
  <1>1. PICK c : c = [status |-> status]
    OBVIOUS
  <1>2. DOMAIN c = {"status"} /\ c["status"] = status /\ Update(r, c)
    BY <1>1
  <1>3. /\ \A q \in Runs \ {r} : run'[q] = run[q]
        /\ run'[r].status = status /\ run'[r].order = run[r].order
    BY <1>0, <1>2, Updated
  <1>4. run'[r].index = run[r].index /\ run[r].index \in Nat
    BY <1>0, <1>2, IndexUpdated DEF RunRow
  <1>5. ~Live(r)'
    BY <1>3 DEF Live, Active, Ended
  <1>6. ~(run'[r].index > run[r].index) /\ Distinct(run'[r].order)
    BY <1>3, <1>4 DEF PassInv, Rows
  <1> QED BY <1>3, <1>5, <1>6, RunMoves

LEMMA PassStatus ==
    ASSUME SequenceRunAssumption, PassInv, NoRegress, RunInv', NEW s \in Slots,
           MarkStalled(s) \/ Release(s) \/ EndMembership(s)
    PROVE  PassInv' /\ Passes
  <1>0. RunInv /\ Rows /\ Current(slot[s]) /\ OneRequest /\ (\A t \in Slots : t = s)
    BY DEF PassInv, NoRegress, OneRequest
  <1>1. Return(s) /\ member' = member
    BY DEF MarkStalled, Release, EndMembership
  <1>2. \A t \in Slots : Current(slot[t])'
    BY <1>0, <1>1, SlotTells DEF Current, CloseOps, DropOps
  <1>r. slot[s].r \in Runs
    BY <1>0, SameTyped DEF MarkStalled, Release, EndMembership, Is, Sound
  <1>3. CASE UNCHANGED run
    BY <1>0, <1>1, <1>2, <1>3, RequestMoves
  <1>4. ASSUME NEW status \in Ended, Update(slot[s].r, [status |-> status]) PROVE PassInv' /\ Passes
    BY <1>0, <1>1, <1>2, <1>4, <1>r, PassEnds
  <1>5. CASE Release(s) \/ EndMembership(s)
    BY <1>3, <1>4, <1>5 DEF Release, EndMembership, Ended
  <1>6. CASE MarkStalled(s) /\ Update(slot[s].r, [status |-> "stalled"])
    <2>r. PICK r \in Runs : r = slot[s].r
      BY <1>r
    <2>0. Live(r)
      BY <1>0, <1>6, <2>r DEF MarkStalled, Is, Current
    <2>1. PICK c : c = [status |-> "stalled"]
      OBVIOUS
    <2>2. DOMAIN c = {"status"} /\ c["status"] = "stalled" /\ Update(r, c)
      BY <1>6, <2>1, <2>r
    <2>3. /\ \A q \in Runs \ {r} : run'[q] = run[q]
          /\ run'[r].order = run[r].order /\ run'[r].copy = run[r].copy
      BY <1>0, <2>2, SameTyped, Updated DEF Active
    <2>4. run'[r].index = run[r].index /\ run[r].index \in Nat
      BY <1>0, <2>2, SameTyped, IndexUpdated DEF RunRow
    <2>5. ~(run'[r].index > run[r].index) /\ Distinct(run[r].order) /\ Marked(run[r])
      BY <1>0, <2>0, <2>4 DEF Rows
    <2> QED BY <1>0, <1>1, <1>2, <2>0, <2>3, <2>5, RunMoves DEF Marked
  <1> QED BY <1>3, <1>5, <1>6 DEF MarkStalled

LEMMA PassCancels ==
    ASSUME PassInv, NoRegress, RunInv', NEW r \in Runs, Cancel(r)
    PROVE  PassInv' /\ Passes
  <1>1. OneRequest /\ RunInv /\ member' = member /\ Update(r, [status |-> "cancelled"])
    BY DEF PassInv, NoRegress, Cancel
  <1>2. \A t \in Slots : slot[t].phase = "idle" /\ slot'[t] = slot[t]
    BY DEF NoRegress, Cancel, Served, Quiet
  <1>3. \A t \in Slots : slot'[t].phase = "idle" /\ slot'[t].op = "none"
    BY <1>1, <1>2, SameTyped, AbsentRow DEF Sound
  <1>4. \A t \in Slots : Current(slot[t])'
    BY <1>3 DEF Current, CloseOps, DropOps
  <1> QED BY <1>1, <1>4, PassEnds DEF Ended

(* A new run: its projects have closed nothing and are in no active run.    *)
LEMMA PassCreates ==
    ASSUME PassInv, NoRegress, RunInv', NEW s \in Slots, Create(s)
    PROVE  PassInv' /\ Passes
  <1>0. RunInv /\ Rows /\ Current(slot[s]) /\ OneRequest /\ (\A t \in Slots : t = s)
    BY DEF PassInv, NoRegress, OneRequest
  <1>1. PICK r \in Runs : run[r].status = "none" /\ run' = [run EXCEPT ![r] = slot[s].read]
    BY DEF Create
  <1>2. slot[s].phase = "create" /\ Return(s) /\ member' = member
    BY DEF Create, Is
  <1>x. PICK x : x = slot[s].read
    OBVIOUS
  <1>3. /\ x \in RunRow /\ run \in [Runs -> RunRow] /\ Distinct(x.order) /\ ~Live(r)
        /\ \A p \in ToSet(x.order) :
              p \in Projects /\ ~member[p].closed /\ \A q \in Runs : Live(q) => p \notin ToSet(run[q].order)
    <2>1. x \in RunRow /\ run \in [Runs -> RunRow]
      BY <1>0, <1>x, SameTyped DEF Request
    <2>2. \A p \in ToSet(x.order) : p \in Projects
      BY <2>1 DEF RunRow, ToSet
    <2>3. /\ Distinct(x.order)
          /\ \A p \in ToSet(x.order) :
                ~member[p].launched /\ \A q \in Runs : Live(q) => p \notin ToSet(run[q].order)
      BY <1>0, <1>2, <1>x DEF Current
    <2>4. ~Live(r)
      BY <1>1 DEF Live, Active
    <2> QED BY <1>0, <2>1, <2>2, <2>3, <2>4 DEF Rows
  <1>4. run'[r] = x /\ \A q \in Runs \ {r} : run'[q] = run[q]
    BY <1>1, <1>3, <1>x
  <1>5. (\A q \in Runs : Distinct(run[q].order) /\ (Live(q) => Marked(run[q])))'
    BY <1>0, <1>2, <1>3, <1>4 DEF Rows, Live, Marked
  <1>6. (\A q, t \in Runs : \A p \in ToSet(run[q].order) :
          Live(q) /\ Live(t) /\ p \in ToSet(run[t].order) => q = t)'
    BY <1>0, <1>3, <1>4 DEF Rows, Live
  <1>7. \A t \in Slots : Current(slot[t])'
    BY <1>0, <1>2, SlotTells DEF Current, CloseOps, DropOps
  <1>8. Passes
    <2>1. slot[s].read.index = 0
      BY <1>0, <1>2 DEF Current
    <2> QED BY <2>1, <1>3, <1>4, <1>x DEF Passes, RunRow
  <1> QED BY <1>0, <1>2, <1>5, <1>6, <1>7, <1>8 DEF PassInv, Rows

LEMMA PassPurges ==
    ASSUME PassInv, NoRegress, RunInv', NEW s \in Slots, Purge(s)
    PROVE  PassInv' /\ Passes
  <1>0. RunInv /\ OneRequest /\ (\A t \in Slots : t = s) /\ run \in [Runs -> RunRow]
    BY SameTyped DEF PassInv, NoRegress, OneRequest
  <1>1. /\ Return(s) /\ member' = member /\ slot[s].r \in Runs
    BY <1>0, SameTyped DEF Purge, Teardown, Sound, TeardownOps
  <1>r. PICK r \in Runs : r = slot[s].r
    BY <1>1
  <1>2. PICK x : x = [Absent EXCEPT !.status = "purged"]
    OBVIOUS
  <1>3. x.status = "purged" /\ x.index = 0 /\ x.order = <<>> /\ run' = [run EXCEPT ![r] = x]
    BY <1>2, <1>r DEF Absent, NewRun, Purge
  <1>4. \A t \in Slots : Current(slot[t])'
    BY <1>0, <1>1, SlotTells DEF Current, CloseOps, DropOps
  <1>5. ~Live(r)' /\ ~(run'[r].index > run[r].index) /\ Distinct(run'[r].order)
    BY <1>0, <1>1, <1>3 DEF Live, Active, RunRow, Distinct
  <1>6. \A q \in Runs \ {r} : run'[q] = run[q]
    BY <1>0, <1>3
  <1> QED BY <1>0, <1>1, <1>4, <1>5, <1>6, RunMoves

LEMMA PassHeals ==
    ASSUME PassInv, NoRegress, RunInv', NEW s \in Slots, GuardHeal(s) \/ TeardownHeal(s)
    PROVE  PassInv' /\ Passes
  <1>0. RunInv /\ Rows /\ Current(slot[s]) /\ OneRequest /\ (\A t \in Slots : t = s)
    BY DEF PassInv, NoRegress, OneRequest
  <1>1. /\ slot[s].op \in TeardownOps /\ slot[s].phase \in {"heal", "reheal"}
        /\ slot[s].r \in Runs /\ member' = member
    BY <1>0, SameTyped DEF GuardHeal, TeardownHeal, Is, Teardown, Sound, TeardownOps
  <1>r. PICK r \in Runs : r = slot[s].r
    BY <1>1
  <1>2. slot[s].read = run[r] /\ Live(r) /\ run \in [Runs -> RunRow]
    BY <1>0, <1>1, <1>r, SameTyped DEF Current
  <1>3. PICK y : y = Healed(run[r].copy, run[r].order)
    OBVIOUS
  <1>4. y \in Copies /\ \A p \in ToSet(run[r].order) : member[p].closed => y[p] \in Terminal
    <2>1. run[r].copy \in Copies /\ Covered(run[r].copy) /\ run[r].order \in Seq(Projects)
      BY <1>0, <1>2, SameTyped DEF RunRow
    <2>2. y \in Copies
      BY <1>0, <1>3, <2>1, HealedCovered
    <2>3. ASSUME NEW p \in ToSet(run[r].order), member[p].closed PROVE y[p] \in Terminal
      <3>1. p \in Projects
        BY <2>1 DEF ToSet
      <3>2. run[r].copy[p] \in Terminal
        BY <1>0, <1>2, <2>3 DEF Rows, Marked
      <3> QED BY <1>3, <3>1, <3>2 DEF Healed
    <2> QED BY <2>2, <2>3
  <1>5. Current(slot[s])'
    <2>1. Return(s) \/ (\E phase \in {"find", "settlement"} : Goto(s, phase))
      BY DEF GuardHeal, TeardownHeal, Answer
    <2>2. slot[s].op \notin {"launch", "stall"} \cup CloseOps \cup DropOps
      BY <1>1 DEF TeardownOps, CloseOps, DropOps
    <2> QED BY <1>0, <2>1, <2>2, SlotTells DEF Current, CloseOps, DropOps
  <1>6. CASE UNCHANGED run
    BY <1>0, <1>1, <1>5, <1>6, RequestMoves
  <1>7. CASE Update(r, [copy |-> y])
    <2>1. PICK c : c = [copy |-> y]
      OBVIOUS
    <2>2. DOMAIN c = {"copy"} /\ c["copy"] = y /\ Update(r, c)
      BY <1>7, <2>1
    <2>3. /\ \A q \in Runs \ {r} : run'[q] = run[q]
          /\ run'[r].order = run[r].order /\ run'[r].copy = y
      BY <1>2, <1>4, <2>2, Updated
    <2>4. run'[r].index = run[r].index /\ run[r].index \in Nat
      BY <1>0, <1>2, <2>2, IndexUpdated DEF RunRow
    <2>5. ~(run'[r].index > run[r].index) /\ Distinct(run[r].order)
      BY <1>0, <2>4 DEF Rows
    <2> QED BY <1>0, <1>1, <1>2, <1>4, <1>5, <2>3, <2>5, RunMoves
  <1> QED BY <1>2, <1>3, <1>6, <1>7, <1>r DEF GuardHeal, TeardownHeal, Persist

LEMMA PassDrops ==
    ASSUME PassInv, NoRegress, RunInv', NEW s \in Slots, DropMember(s)
    PROVE  PassInv' /\ Passes
  <1>0. RunInv /\ Rows /\ Current(slot[s]) /\ OneRequest /\ (\A t \in Slots : t = s)
    BY DEF PassInv, NoRegress, OneRequest
  <1>1. /\ slot[s].op \in DropOps /\ slot[s].phase = "write" /\ Return(s) /\ member' = member
        /\ slot[s].r \in Runs /\ slot[s].p \in Projects
    BY <1>0, SameTyped DEF DropMember, DropOps, Sound, ProjectOps
  <1>2. \A t \in Slots : Current(slot[t])'
    BY <1>0, <1>1, SlotTells DEF Current, CloseOps, DropOps
  <1>r. PICK r \in Runs : r = slot[s].r
    BY <1>1
  <1>p. PICK p \in Projects : p = slot[s].p
    BY <1>1
  <1>3. slot[s].read = run[r] /\ run \in [Runs -> RunRow] /\ run[r] \in RunRow
    BY <1>0, <1>1, <1>r, SameTyped DEF Current
  <1>4. PICK left : left = Without(run[r].order, p)
    OBVIOUS
  <1>5. PICK y : y = [run[r].copy EXCEPT ![p] = "pending"]
    OBVIOUS
  <1>6. PICK i : i = Reindexed(run[r], p)
    OBVIOUS
  <1>7. \/ Update(r, [status |-> "cancelled"])
        \/ Update(r, [order |-> left, copy |-> y])
        \/ Update(r, [order |-> left, copy |-> y, index |-> i])
        \/ UNCHANGED run
    BY <1>3, <1>4, <1>5, <1>6, <1>r, <1>p DEF DropMember, Columns
  <1>8. CASE UNCHANGED run
    BY <1>0, <1>1, <1>2, <1>8, RequestMoves
  <1>9. CASE Update(r, [status |-> "cancelled"])
    BY <1>0, <1>1, <1>2, <1>9, PassEnds DEF Ended
  <1>10. /\ left \in Seq(Projects) /\ ToSet(left) \subseteq ToSet(run[r].order) \ {p}
         /\ Distinct(run[r].order) => Distinct(left)
         /\ y \in Copies /\ run[r].index \in Nat /\ run[r].copy \in Copies
    BY <1>3, <1>4, <1>5, LeftDistinct DEF RunRow, Copies
  <1>11. \A q \in ToSet(left) : q \in Projects /\ y[q] = run[r].copy[q]
    <2>1. \A q \in ToSet(left) : q \in Projects
      BY <1>10 DEF ToSet
    <2> QED BY <1>5, <1>10, <2>1 DEF Copies
  <1>12. Distinct(left) /\ (Live(r) => \A q \in ToSet(left) : member[q].closed => y[q] \in Terminal)
    BY <1>0, <1>10, <1>11 DEF Rows, Marked
  <1>13. ASSUME NEW c, Update(r, c), DOMAIN c \in {{"order", "copy"}, {"order", "copy", "index"}},
                c["order"] = left, c["copy"] = y,
                "index" \in DOMAIN c => c["index"] \in Nat /\ c["index"] <= run[r].index
         PROVE  PassInv' /\ Passes
    <2>1. /\ \A q \in Runs \ {r} : run'[q] = run[q]
          /\ run'[r].status = run[r].status /\ run'[r].order = left /\ run'[r].copy = y
      BY <1>3, <1>10, <1>13, Updated
    <2>2. ~(run'[r].index > run[r].index)
      BY <1>0, <1>10, <1>13, IndexUpdated
    <2>3. Live(r)' => Live(r)
      BY <2>1 DEF Live
    <2> QED BY <1>0, <1>1, <1>2, <1>10, <1>12, <2>1, <2>2, <2>3, RunMoves
  <1>14. CASE Update(r, [order |-> left, copy |-> y])
    <2>1. PICK c : c = [order |-> left, copy |-> y]
      OBVIOUS
    <2>2. DOMAIN c = {"order", "copy"} /\ c["order"] = left /\ c["copy"] = y /\ Update(r, c)
      BY <1>14, <2>1
    <2> QED BY <1>13, <2>2
  <1>15. CASE Update(r, [order |-> left, copy |-> y, index |-> i])
    <2>1. PICK c : c = [order |-> left, copy |-> y, index |-> i]
      OBVIOUS
    <2>2. /\ DOMAIN c = {"order", "copy", "index"} /\ c["order"] = left /\ c["copy"] = y
          /\ c["index"] = i /\ Update(r, c)
      BY <1>15, <2>1
    <2>3. i <= run[r].index
      BY <1>0, <1>3, <1>6, NoFurther DEF Rows
    <2>4. i \in Nat
      BY <1>3, <1>6, ReindexedNat
    <2> QED BY <1>13, <2>2, <2>3, <2>4
  <1> QED BY <1>7, <1>8, <1>9, <1>14, <1>15

(* A project's row is written: it closes only when its runs know of it.     *)
LEMMA MemberMoves ==
    ASSUME PassInv, RunInv', run' = run,
           \A p \in Projects : member'[p].closed =>
              /\ member'[p].launched
              /\ \/ member[p].closed
                 \/ \A r \in Runs : Live(r) /\ p \in ToSet(run[r].order) => run[r].copy[p] \in Terminal,
           \A s \in Slots : Current(slot[s])'
    PROVE  PassInv' /\ Passes
  <1>1. \A r \in Runs : \A p \in ToSet(run[r].order) : p \in Projects
    BY SameTyped DEF PassInv, RunRow, ToSet
  <1>2. (\A q \in Runs : Distinct(run[q].order) /\ (Live(q) => Marked(run[q])))'
    BY <1>1 DEF PassInv, Rows, Live, Marked
  <1>3. Rows'
    BY <1>2 DEF PassInv, Rows, Live
  <1>4. \A r \in Runs : run'[r].index = run[r].index /\ run[r].index \in Nat
    BY SameTyped DEF PassInv, RunRow
  <1> QED BY <1>3, <1>4 DEF PassInv, Passes

LEMMA Finishing ==
    ASSUME RunInv, NEW q \in Projects, NEW row, NEW closed \in BOOLEAN, Finish(q, row, closed)
    PROVE  /\ \A p \in Projects : member'[p].launched = member[p].launched
           /\ \A p \in Projects \ {q} : member'[p].closed = member[p].closed
           /\ member'[q].closed <=> member[q].closed \/ closed
  <1>1. member \in [Projects -> Members]
    BY SameTyped
  <1>2. PICK b \in BOOLEAN : b <=> (member[q].closed \/ closed)
    OBVIOUS
  <1>3. b = (member[q].closed \/ closed)
    BY <1>1, <1>2 DEF Members
  <1> DEFINE m == [member[q] EXCEPT !.row = row, !.closed = b, !.ended = TRUE]
  <1>4. member' = [member EXCEPT ![q] = m]
    BY <1>1, <1>3, Zenon DEF Finish
  <1>5. m.closed = b /\ m.launched = member[q].launched
    BY <1>1 DEF Members
  <1> HIDE DEF m
  <1> QED BY <1>1, <1>2, <1>4, <1>5

LEMMA PassCommits ==
    ASSUME PassInv, NoRegress, RunInv', NEW s \in Slots, CommitCloseout(s)
    PROVE  PassInv' /\ Passes
  <1>0. RunInv /\ Rows /\ Current(slot[s]) /\ OneRequest /\ (\A t \in Slots : t = s)
    BY DEF PassInv, NoRegress, OneRequest
  <1>1. /\ slot[s].op \in CloseOps /\ slot[s].phase = "commit" /\ Return(s) /\ run' = run
        /\ slot[s].p \in Projects
    BY <1>0, SameTyped DEF CommitCloseout, CloseOps, Sound, ProjectOps
  <1>2. \A t \in Slots : Current(slot[t])'
    BY <1>0, <1>1, SlotTells DEF Current, CloseOps, DropOps
  <1>3. /\ member[slot[s].p].launched
        /\ \A r \in Runs : Live(r) /\ slot[s].p \in ToSet(run[r].order) => run[r].copy[slot[s].p] \in Terminal
    BY <1>0, <1>1 DEF Current
  <1>4. PICK row : Finish(slot[s].p, row, TRUE)
    BY DEF CommitCloseout, NoRegress
  <1>5. \A p \in Projects : member'[p].closed =>
          member'[p].launched /\ (member[p].closed \/ p = slot[s].p)
    BY <1>0, <1>1, <1>3, <1>4, Finishing DEF Rows
  <1> QED BY <1>0, <1>1, <1>2, <1>3, <1>5, MemberMoves

LEMMA PassStamps ==
    ASSUME PassInv, NoRegress, RunInv', NEW s \in Slots, StampLaunch(s)
    PROVE  PassInv' /\ Passes
  <1>0. RunInv /\ Rows /\ OneRequest /\ (\A t \in Slots : t = s) /\ member \in [Projects -> Members]
    BY SameTyped DEF PassInv, NoRegress, OneRequest
  <1>1. Return(s) /\ run' = run /\ slot[s].p \in Projects
    BY <1>0, SameTyped DEF StampLaunch, Is, Sound, ProjectOps
  <1>2. \A t \in Slots : Current(slot[t])'
    BY <1>0, <1>1, SlotTells DEF Current, CloseOps, DropOps
  <1>3. PICK m : m = [member[slot[s].p] EXCEPT !.launched = TRUE]
    OBVIOUS
  <1>4. m.launched = TRUE /\ m.closed = member[slot[s].p].closed
    BY <1>0, <1>1, <1>3 DEF Members
  <1>5. member' = [member EXCEPT ![slot[s].p] = m]
    BY <1>0, <1>3 DEF StampLaunch, NoRegress
  <1>6. \A p \in Projects : member'[p].closed => member'[p].launched /\ member[p].closed
    BY <1>0, <1>1, <1>4, <1>5 DEF Rows
  <1> QED BY <1>1, <1>2, <1>6, MemberMoves

LEMMA PassDeletes ==
    ASSUME PassInv, NoRegress, RunInv', NEW s \in Slots, NEW p \in Projects, DeleteProject(s, p)
    PROVE  PassInv' /\ Passes
  <1>0. RunInv /\ Rows /\ OneRequest /\ (\A t \in Slots : t = s)
    BY DEF PassInv, NoRegress, OneRequest
  <1>b. Begin(s, "delete", p, NoRun, "find") /\ run' = run /\ Finish(p, "deleted", FALSE)
    BY Zenon DEF DeleteProject
  <1>c. slot'[s].op = "delete" /\ slot'[s].phase = "find"
    BY <1>0, <1>b, SlotTells
  <1>1. slot'[s].op = "delete" /\ slot'[s].phase = "find" /\ run' = run /\ Finish(p, "deleted", FALSE)
    BY <1>b, <1>c, Zenon
  <1>2. \A t \in Slots : Current(slot[t])'
    BY <1>0, <1>1 DEF Current, CloseOps, DropOps
  <1>3. \A q \in Projects : member'[q].closed => member'[q].launched /\ member[q].closed
    BY <1>0, <1>1, Finishing DEF Rows
  <1> QED BY <1>1, <1>2, <1>3, MemberMoves

LEMMA PassElsewhere ==
    ASSUME PassInv, NoRegress, RunInv', NEW p \in Projects, Archive(p) \/ Reopen(p) \/ AskSettlement(p)
    PROVE  PassInv' /\ Passes
  <1>0. RunInv /\ Rows /\ member \in [Projects -> Members] /\ run' = run
    BY SameTyped DEF PassInv, Archive, Reopen, AskSettlement
  <1>1. \A t \in Slots : slot[t].phase = "idle" /\ slot'[t] = slot[t]
    BY DEF NoRegress, Archive, Reopen, AskSettlement, Served, Quiet
  <1>2. \A t \in Slots : slot'[t].phase = "idle" /\ slot'[t].op = "none"
    BY <1>0, <1>1, SameTyped, AbsentRow DEF Sound
  <1>3. \A t \in Slots : Current(slot[t])'
    BY <1>2 DEF Current, CloseOps, DropOps
  <1>4. \A q \in Projects : member'[q].closed = member[q].closed /\ member'[q].launched = member[q].launched
    <2>1. CASE Archive(p)
      <3>1. Finish(p, "terminated", FALSE)
        BY <2>1 DEF Archive
      <3>2. member'[p].closed <=> member[p].closed
        BY <1>0, <3>1, Finishing
      <3>3. member'[p].closed \in BOOLEAN /\ member[p].closed \in BOOLEAN
        BY <1>0 DEF Members, RunInv, Shape
      <3> QED BY <1>0, <3>1, <3>2, <3>3, Finishing
    <2>2. CASE Reopen(p)
      <3>1. PICK m : m = [member[p] EXCEPT !.row = "live"]
        OBVIOUS
      <3>2. m.closed = member[p].closed /\ m.launched = member[p].launched /\ member' = [member EXCEPT ![p] = m]
        BY <1>0, <2>2, <3>1 DEF Reopen, Members
      <3> QED BY <1>0, <3>2
    <2>3. CASE AskSettlement(p)
      <3>1. PICK m : m = [member[p] EXCEPT !.asked = TRUE]
        OBVIOUS
      <3>2. m.closed = member[p].closed /\ m.launched = member[p].launched /\ member' = [member EXCEPT ![p] = m]
        BY <1>0, <2>3, <3>1 DEF AskSettlement, Members
      <3> QED BY <1>0, <3>2
    <2> QED BY <2>1, <2>2, <2>3
  <1> QED BY <1>0, <1>3, <1>4, MemberMoves DEF Rows

(* The closeout marks its run, and stamps the project in the transaction    *)
(* that marks it or after it.                                               *)
LEMMA PassMarks ==
    ASSUME SequenceRunAssumption, PassInv, NoRegress, RunInv', NEW s \in Slots, Mark(s)
    PROVE  PassInv' /\ Passes
  <1>0. RunInv /\ Rows /\ Current(slot[s]) /\ OneRequest /\ (\A t \in Slots : t = s)
    BY DEF PassInv, NoRegress, OneRequest
  <1>1. /\ slot[s].op \in CloseOps /\ slot[s].phase = "mark"
        /\ slot[s].p \in Projects /\ slot[s].r \in Runs
    BY <1>0, SameTyped DEF Mark, Sound, ProjectOps, CloseOps
  <1>r. PICK r \in Runs : r = slot[s].r
    BY <1>1
  <1>p. PICK p \in Projects : p = slot[s].p
    BY <1>1
  <1>2. /\ slot[s].read = run[r] /\ Live(r) /\ p \in ToSet(run[r].order) /\ member[p].launched
        /\ \A q \in Runs : Live(q) /\ p \in ToSet(run[q].order) => q = r
    <2>1. slot[s].read = run[r] /\ Live(r) /\ p \in ToSet(run[r].order) /\ member[p].launched
      BY <1>0, <1>1, <1>r, <1>p DEF Current
    <2> QED BY <1>0, <2>1 DEF Rows
  <1>3. Exists(r) /\ run \in [Runs -> RunRow] /\ run[r].copy \in Copies /\ run[r].index \in Nat
    <2>1. run \in [Runs -> RunRow]
      BY <1>0, SameTyped
    <2> QED BY <1>2, <2>1 DEF Exists, Live, Active, SequenceRunAssumption, RunRow
  <1>4. CASE run[r].copy[p] = "completed" /\ Goto(s, "commit") /\ UNCHANGED <<run, member>>
    <2>1. \A q \in Runs : Live(q) /\ p \in ToSet(run[q].order) => run[q].copy[p] \in Terminal
      BY <1>2, <1>4 DEF Terminal
    <2>2. Current(slot[s])'
      BY <1>0, <1>1, <1>2, <1>p, <1>4, <2>1, SlotTells DEF Current, CloseOps, DropOps, Live
    <2> QED BY <1>0, <1>4, <2>2, RequestMoves
  <1>5. PICK y : y = [run[r].copy EXCEPT ![p] = "completed"]
    OBVIOUS
  <1>6. y \in Copies /\ y[p] \in Terminal /\ \A q \in Projects \ {p} : y[q] = run[r].copy[q]
    BY <1>3, <1>5 DEF Copies, Terminal
  <1>7. ASSUME Update(r, [copy |-> y]), Goto(s, "commit"),
               Finish(p, member[p].row, TRUE) \/ member' = member
        PROVE  PassInv' /\ Passes
    <2>1. PICK c : c = [copy |-> y]
      OBVIOUS
    <2>2. DOMAIN c = {"copy"} /\ c["copy"] = y /\ Update(r, c)
      BY <1>7, <2>1
    <2>3. /\ \A q \in Runs \ {r} : run'[q] = run[q]
          /\ run'[r].status = run[r].status /\ run'[r].order = run[r].order /\ run'[r].copy = y
      BY <1>3, <1>6, <2>2, Updated
    <2>4. run'[r].index = run[r].index
      BY <1>0, <2>2, IndexUpdated
    <2>5. /\ \A q \in Projects : member'[q].launched = member[q].launched
          /\ \A q \in Projects \ {p} : member'[q].closed = member[q].closed
      BY <1>0, <1>7, Finishing
    <2>6. \A q \in Runs : \A x \in ToSet(run[q].order) : x \in Projects
      BY <1>3 DEF RunRow, ToSet
    <2>7. ASSUME NEW q \in Runs
          PROVE  /\ Live(q)' = Live(q) /\ run'[q].order = run[q].order /\ run'[q].index = run[q].index
                 /\ q # r => run'[q] = run[q]
      BY <2>3, <2>4 DEF Live
    <2>8. ASSUME NEW q \in Runs, Live(q), NEW x \in ToSet(run[q].order), member'[x].closed
          PROVE  run'[q].copy[x] \in Terminal
      <3>1. CASE x = p
        BY <1>2, <1>6, <2>3, <2>8, <3>1
      <3>2. CASE x # p
        <4>1. run[q].copy[x] \in Terminal
          BY <1>0, <2>5, <2>6, <2>8, <3>2 DEF Rows, Marked
        <4> QED BY <1>6, <2>3, <2>6, <3>2, <4>1
      <3> QED BY <3>1, <3>2
    <2>9. (\A q \in Runs : Distinct(run[q].order) /\ (Live(q) => Marked(run[q])))'
      BY <1>0, <2>7, <2>8 DEF Rows, Marked
    <2>10. (\A q, t \in Runs : \A x \in ToSet(run[q].order) :
              Live(q) /\ Live(t) /\ x \in ToSet(run[t].order) => q = t)'
      BY <1>0, <2>7 DEF Rows
    <2>11. (\A x \in Projects : member[x].closed => member[x].launched)'
      BY <1>0, <1>2, <2>5 DEF Rows
    <2>12. slot'[s].op = slot[s].op /\ slot'[s].phase = "commit" /\ slot'[s].p = p
      BY <1>0, <1>7, <1>p, SlotTells
    <2>13. \A q \in Runs : Live(q)' /\ p \in ToSet(run'[q].order) => run'[q].copy[p] \in Terminal
      BY <1>2, <1>6, <2>3, <2>7
    <2>14. Current(slot[s])'
      BY <1>1, <1>2, <2>5, <2>12, <2>13 DEF Current, CloseOps, DropOps
    <2>15. Passes
      BY <1>3, <2>7 DEF Passes, RunRow
    <2> QED BY <1>0, <2>9, <2>10, <2>11, <2>14, <2>15 DEF PassInv, Rows
  <1>8. ASSUME slot[s].op = "close", Finish(slot[s].p, member[slot[s].p].row, TRUE)
        PROVE  Finish(p, member[p].row, TRUE)
    BY <1>8, <1>p, Zenon
  <1> QED BY <1>1, <1>2, <1>3, <1>4, <1>5, <1>7, <1>8, <1>r, <1>p DEF Mark, NoRegress

LEMMA PassStep ==
    ASSUME SequenceRunAssumption, NoRegress, PassInv, [Next]_vars
    PROVE  PassInv' /\ (Passes \/ UNCHANGED vars)
  <1>0. RunInv /\ "rollback" \notin Faults /\ OneRequest /\ \A s \in Slots : slot[s] \in Request
    BY SameTyped DEF PassInv, NoRegress
  <1>1. RunInv'
    BY <1>0, RunInvStep
  <1>2. CASE UNCHANGED vars
    <2>1. UNCHANGED <<run, member>> /\ \A s \in Slots : slot'[s] = slot[s]
      BY <1>2 DEF vars
    <2>2. \A s \in Slots : Current(slot[s])'
      BY <2>1 DEF PassInv, Current, Live
    <2> QED BY <1>0, <1>1, <2>1, <2>2, RequestMoves
  <1>3. ASSUME NEW s \in Slots, Proceed(s) PROVE PassInv' /\ Passes
    <2>1. slot[s].op \notin {"resume", "deactivate"}
      BY <1>0 DEF NoRegress, Request
    <2>2. ~ResumeChain(s) /\ ~ResetMember(s) /\ ~Dissolve(s)
      BY <2>1 DEF ResumeChain, ResetMember, Dissolve, Is
    <2> QED BY <1>1, <1>3, <2>2, PassLookups, PassCreates, PassAdvances, PassStamps, PassStatus,
               PassMarks, PassCommits, PassHeals, PassPurges, PassDrops DEF Proceed
  <1>4. ASSUME NEW s \in Slots,
               \/ \E p \in Projects : \/ StagingEnd(s, p) \/ GoSilent(s, p)
                                      \/ \E op \in Ops : CloseMember(s, op, p)
                                      \/ \E r \in Runs : RemoveMember(s, r, p)
               \/ \E r \in Runs : CompleteJob(s, r) \/ Decide(s, r) \/ ReleaseGracefully(s, r)
               \/ \E chain \in Chains : Start(s, chain)
        PROVE  PassInv' /\ Passes
    BY <1>1, <1>4, PassBegins
  <1>5. ASSUME NEW s \in Slots, NEW r \in Runs, OpenPage(s, r) \/ DeactivateChain(s, r) PROVE FALSE
    BY <1>5 DEF NoRegress, OpenPage, DeactivateChain
  <1>6. ASSUME NEW s \in Slots, NEW p \in Projects, DeleteProject(s, p) PROVE PassInv' /\ Passes
    BY <1>1, <1>6, PassDeletes
  <1>7. ASSUME NEW p \in Projects, Archive(p) \/ Reopen(p) \/ AskSettlement(p) PROVE PassInv' /\ Passes
    BY <1>1, <1>7, PassElsewhere
  <1>8. ASSUME NEW r \in Runs, Cancel(r) PROVE PassInv' /\ Passes
    BY <1>1, <1>8, PassCancels
  <1> QED BY <1>2, <1>3, <1>4, <1>5, <1>6, <1>7, <1>8, Zenon DEF Next

(* The index of a run moves past a member only when the run knows it to     *)
(* have finished: when requests are served one at a time, nothing fails     *)
(* between the mark and the closeout, no chain names a project twice, and   *)
(* nothing takes a mark back (a resumed page, a deactivation).              *)
THEOREM PassedFinishedHolds ==
    ASSUME SequenceRunAssumption, NoRegress PROVE Spec => PassedFinished
  <1>1. Init => PassInv
    <2> SUFFICES ASSUME Init PROVE PassInv
      OBVIOUS
    <2>1. RunInv
      BY RunInvStarts
    <2>2. \A r \in Runs : run[r].status = "none" /\ run[r].order = <<>>
      <3>1. PICK x : x = Absent
        OBVIOUS
      <3>2. x.status = "none" /\ x.order = <<>>
        BY <3>1 DEF Absent, NewRun
      <3> QED BY <3>1, <3>2 DEF Init
    <2>3. \A r \in Runs : Distinct(run[r].order) /\ ~Live(r)
      BY <2>2 DEF Distinct, Live, Active
    <2>4. \A p \in Projects : ~member[p].closed
      BY DEF Init, NewMember
    <2>5. \A s \in Slots : slot[s].op = "none" /\ slot[s].phase = "idle"
      <3>1. slot = [s \in Slots |-> Idle]
        BY DEF Init
      <3>2. \A s \in Slots : slot[s] = Idle
        BY <3>1
      <3>3. Idle.op = "none" /\ Idle.phase = "idle"
        BY DEF Idle
      <3> QED BY <3>2, <3>3
    <2>6. \A s \in Slots : Current(slot[s])
      BY <2>5 DEF Current, CloseOps, DropOps
    <2> QED BY <2>1, <2>3, <2>4, <2>6 DEF PassInv, Rows
  <1>2. PassInv /\ [Next]_vars => PassInv'
    BY PassStep
  <1>3. PassInv /\ [Next]_vars =>
          [\A r \in Runs : run'[r].index > run[r].index =>
             run[r].copy[run[r].order[run'[r].index]] \in Terminal]_vars
    BY PassStep DEF Passes
  <1> QED BY <1>1, <1>2, <1>3, PTL DEF Spec, PassedFinished
-----------------------------------------------------------------------------
(* The contract of the chains, served one request at a time: the invariant  *)
(* says what the only request in flight knows of its run, that two active   *)
(* runs share no project, and that a deleted member is on its way out.      *)

(* The request in flight takes the project out of the run.                  *)
Deleting(x, p, r) == x.op = "delete" /\ x.p = p /\ (x.phase = "find" \/ x.r = r)
DeletedLeave ==
    \A r \in Runs : Live(r) =>
        \A p \in ToSet(run[r].order) :
            member[p].row = "deleted" => \E s \in Slots : Deleting(slot[s], p, r)
Apart ==
    \A q, r \in Runs : Live(q) /\ Live(r) /\ q # r =>
        \A p \in ToSet(run[q].order) : p \notin ToSet(run[r].order)

(* What the request in flight knows of its run, when it is the only one.    *)
Knows(x) ==
    /\ x.phase = "create" =>
          /\ x.read.order # <<>>
          /\ \A p \in ToSet(x.read.order) : /\ member[p].row # "deleted"
                                            /\ \A r \in Runs : Live(r) => p \notin ToSet(run[r].order)
    /\ x.phase \in {"index", "mark", "heal", "reheal", "settlement", "purge", "cancel", "reset"} => Live(x.r)
    /\ x.op \in {"launch", "stall", "release", "delete"} /\ x.phase \in {"load", "write"} => Live(x.r)
    /\ x.op = "resume" => run[x.r].status = "stalled"
    /\ x.op \in DropOps /\ x.phase = "write" =>
          /\ x.read = run[x.r] /\ run[x.r].status \in (Active \cup Ended) \ {"running", "stalled"}
    /\ x.op \in CloseOps => member[x.p].row # "deleted"

ChainInv == PurgeInv /\ Apart /\ DeletedLeave /\ \A s \in Slots : Knows(slot[s])

Serially == OneRequest /\ ~Interleaved /\ "rollback" \notin Faults

(* What a step of the rows is under the mapping.                            *)
StageKept(r) == StageOf(run'[r].status) = StageOf(run[r].status)
OrderKept(r) == ToSet(run'[r].order) = ToSet(run[r].order)
RunsKept == \A r \in Runs : StageKept(r) /\ OrderKept(r)
OverGrows(P) == \A p \in Projects : Over(p)' <=> Over(p) \/ p \in P
GoneGrows(P) == \A p \in Projects : member'[p].row = "deleted" <=> member[p].row = "deleted" \/ p \in P

LEMMA Mapped ==
    /\ (\A r \in Runs : StageKept(r)) =>
          [r \in Runs |-> StageOf(run[r].status)]' = [r \in Runs |-> StageOf(run[r].status)]
    /\ (\A r \in Runs : OrderKept(r)) =>
          [r \in Runs |-> ToSet(run[r].order)]' = [r \in Runs |-> ToSet(run[r].order)]
    /\ \A P \in SUBSET Projects : OverGrows(P) =>
          {p \in Projects : member[p].ended \/ Closing(p)}'
             = {p \in Projects : member[p].ended \/ Closing(p)} \cup P
    /\ \A P \in SUBSET Projects : GoneGrows(P) =>
          {p \in Projects : member[p].row = "deleted"}'
             = {p \in Projects : member[p].row = "deleted"} \cup P
  <1>1. ASSUME \A r \in Runs : StageKept(r)
        PROVE  [r \in Runs |-> StageOf(run[r].status)]' = [r \in Runs |-> StageOf(run[r].status)]
    BY <1>1 DEF StageKept
  <1>2. ASSUME \A r \in Runs : OrderKept(r)
        PROVE  [r \in Runs |-> ToSet(run[r].order)]' = [r \in Runs |-> ToSet(run[r].order)]
    BY <1>2 DEF OrderKept
  <1>3. ASSUME NEW P \in SUBSET Projects, OverGrows(P)
        PROVE  {p \in Projects : member[p].ended \/ Closing(p)}'
                 = {p \in Projects : member[p].ended \/ Closing(p)} \cup P
    <2>1. \A p \in Projects : (member[p].ended \/ Closing(p))' <=> (member[p].ended \/ Closing(p)) \/ p \in P
      BY <1>3 DEF OverGrows, Over
    <2> QED BY <2>1
  <1>4. ASSUME NEW P \in SUBSET Projects, GoneGrows(P)
        PROVE  {p \in Projects : member[p].row = "deleted"}'
                 = {p \in Projects : member[p].row = "deleted"} \cup P
    BY <1>4 DEF GoneGrows
  <1> QED BY <1>1, <1>2, <1>3, <1>4

LEMMA Stutters ==
    ASSUME RunsKept, OverGrows({}), GoneGrows({}) PROVE UNCHANGED Contract!vars
  <1>1. {} \in SUBSET Projects
    OBVIOUS
  <1>2. /\ [r \in Runs |-> StageOf(run[r].status)]' = [r \in Runs |-> StageOf(run[r].status)]
        /\ [r \in Runs |-> ToSet(run[r].order)]' = [r \in Runs |-> ToSet(run[r].order)]
        /\ {p \in Projects : member[p].ended \/ Closing(p)}'
             = {p \in Projects : member[p].ended \/ Closing(p)}
        /\ {p \in Projects : member[p].row = "deleted"}'
             = {p \in Projects : member[p].row = "deleted"}
    BY <1>1, Mapped DEF RunsKept
  <1> QED BY <1>2 DEF Contract!vars

LEMMA FinishesOne ==
    ASSUME RunsKept, NEW p \in Projects, OverGrows({p}), GoneGrows({}) \/ GoneGrows({p})
    PROVE  Contract!Next
  <1>1. {} \in SUBSET Projects /\ {p} \in SUBSET Projects
    OBVIOUS
  <1>2. /\ [r \in Runs |-> StageOf(run[r].status)]' = [r \in Runs |-> StageOf(run[r].status)]
        /\ [r \in Runs |-> ToSet(run[r].order)]' = [r \in Runs |-> ToSet(run[r].order)]
        /\ {q \in Projects : member[q].ended \/ Closing(q)}'
             = {q \in Projects : member[q].ended \/ Closing(q)} \cup {p}
        /\ \/ {q \in Projects : member[q].row = "deleted"}'
                = {q \in Projects : member[q].row = "deleted"}
           \/ {q \in Projects : member[q].row = "deleted"}'
                = {q \in Projects : member[q].row = "deleted"} \cup {p}
    BY <1>1, Mapped DEF RunsKept
  <1>3. Contract!Finish(p) \/ Contract!Delete(p)
    BY <1>2 DEF Contract!Finish, Contract!Delete
  <1> QED BY <1>3 DEF Contract!Next

LEMMA SetsOne ==
    ASSUME NEW r \in Runs, \A q \in Runs \ {r} : StageKept(q), \A q \in Runs : OrderKept(q),
           OverGrows({}), GoneGrows({})
    PROVE  /\ StageOf(run[r].status) = "open" /\ StageOf(run'[r].status) = "underway" => Contract!Next
           /\ StageOf(run[r].status) \in {"open", "underway"} /\ StageOf(run'[r].status) = "ended"
                 => Contract!Next
  <1>1. {} \in SUBSET Projects
    OBVIOUS
  <1>2. /\ [q \in Runs |-> ToSet(run[q].order)]' = [q \in Runs |-> ToSet(run[q].order)]
        /\ {p \in Projects : member[p].ended \/ Closing(p)}'
             = {p \in Projects : member[p].ended \/ Closing(p)}
        /\ {p \in Projects : member[p].row = "deleted"}'
             = {p \in Projects : member[p].row = "deleted"}
    BY <1>1, Mapped
  <1>3. [q \in Runs |-> StageOf(run[q].status)]'
          = [[q \in Runs |-> StageOf(run[q].status)] EXCEPT ![r] = StageOf(run'[r].status)]
    BY DEF StageKept
  <1>4. [q \in Runs |-> StageOf(run[q].status)][r] = StageOf(run[r].status)
    OBVIOUS
  <1>5. CASE StageOf(run[r].status) = "open" /\ StageOf(run'[r].status) = "underway"
    <2>1. Contract!GetUnderWay(r)
      BY <1>2, <1>3, <1>4, <1>5 DEF Contract!Set, Contract!GetUnderWay
    <2> QED BY <2>1 DEF Contract!Next
  <1>6. CASE StageOf(run[r].status) \in {"open", "underway"} /\ StageOf(run'[r].status) = "ended"
    <2>1. Contract!End(r)
      BY <1>2, <1>3, <1>4, <1>6 DEF Contract!Set, Contract!End
    <2> QED BY <2>1 DEF Contract!Next
  <1> QED BY <1>5, <1>6

LEMMA LeavesOne ==
    ASSUME NEW r \in Runs, NEW p \in Projects, StageOf(run[r].status) # "underway",
           ToSet(run'[r].order) = ToSet(run[r].order) \ {p},
           \A q \in Runs \ {r} : OrderKept(q), \A q \in Runs : StageKept(q), OverGrows({}), GoneGrows({})
    PROVE  Contract!Next
  <1>1. {} \in SUBSET Projects
    OBVIOUS
  <1>2. /\ [q \in Runs |-> StageOf(run[q].status)]' = [q \in Runs |-> StageOf(run[q].status)]
        /\ {q \in Projects : member[q].ended \/ Closing(q)}'
             = {q \in Projects : member[q].ended \/ Closing(q)}
        /\ {q \in Projects : member[q].row = "deleted"}'
             = {q \in Projects : member[q].row = "deleted"}
    BY <1>1, Mapped
  <1>3. [q \in Runs |-> ToSet(run[q].order)]'
          = [[q \in Runs |-> ToSet(run[q].order)] EXCEPT ![r] = @ \ {p}]
    BY DEF OrderKept
  <1>4. [q \in Runs |-> StageOf(run[q].status)][r] # "underway"
    OBVIOUS
  <1>5. Contract!Leave(r, p)
    BY <1>2, <1>3, <1>4 DEF Contract!Leave
  <1> QED BY <1>5 DEF Contract!Next

LEMMA EnrolsAll ==
    ASSUME NEW r \in Runs, NEW chain \in SUBSET Projects, chain # {},
           StageOf(run[r].status) = "none", StageOf(run'[r].status) = "open", ToSet(run'[r].order) = chain,
           \A p \in chain : member[p].row # "deleted" /\ \A q \in Runs : Live(q) => p \notin ToSet(run[q].order),
           \A q \in Runs \ {r} : StageKept(q) /\ OrderKept(q), OverGrows({}), GoneGrows({}),
           \A q \in Runs : StageOf(run[q].status) \in {"open", "underway"} => Live(q)
    PROVE  Contract!Next
  <1>1. {} \in SUBSET Projects
    OBVIOUS
  <1>2. /\ {p \in Projects : member[p].ended \/ Closing(p)}'
             = {p \in Projects : member[p].ended \/ Closing(p)}
        /\ {p \in Projects : member[p].row = "deleted"}'
             = {p \in Projects : member[p].row = "deleted"}
    BY <1>1, Mapped
  <1>3. /\ [q \in Runs |-> ToSet(run[q].order)]'
             = [[q \in Runs |-> ToSet(run[q].order)] EXCEPT ![r] = chain]
        /\ [q \in Runs |-> StageOf(run[q].status)]'
             = [[q \in Runs |-> StageOf(run[q].status)] EXCEPT ![r] = "open"]
    BY DEF OrderKept, StageKept
  <1>4. chain \cap {p \in Projects : member[p].row = "deleted"} = {}
    OBVIOUS
  <1>5. \A q \in Runs : [x \in Runs |-> StageOf(run[x].status)][q] \in {"open", "underway"} =>
            chain \cap [x \in Runs |-> ToSet(run[x].order)][q] = {}
    OBVIOUS
  <1>6. [q \in Runs |-> StageOf(run[q].status)][r] = "none"
    OBVIOUS
  <1>7. Contract!Enrol(r, chain)
    BY <1>2, <1>3, <1>4, <1>5, <1>6 DEF Contract!Enrol, Contract!Held
  <1> QED BY <1>7 DEF Contract!Next

LEMMA PurgesOne ==
    ASSUME NEW r \in Runs, StageOf(run[r].status) \in {"open", "underway"}, StageOf(run'[r].status) = "purged",
           \A p \in ToSet(run[r].order) : p \in Projects /\ Over(p), ToSet(run'[r].order) = {},
           \A q \in Runs \ {r} : StageKept(q) /\ OrderKept(q), OverGrows({}), GoneGrows({})
    PROVE  Contract!Next
  <1>1. {} \in SUBSET Projects
    OBVIOUS
  <1>2. /\ {p \in Projects : member[p].ended \/ Closing(p)}'
             = {p \in Projects : member[p].ended \/ Closing(p)}
        /\ {p \in Projects : member[p].row = "deleted"}'
             = {p \in Projects : member[p].row = "deleted"}
    BY <1>1, Mapped
  <1>3. /\ [q \in Runs |-> ToSet(run[q].order)]'
             = [[q \in Runs |-> ToSet(run[q].order)] EXCEPT ![r] = {}]
        /\ [q \in Runs |-> StageOf(run[q].status)]'
             = [[q \in Runs |-> StageOf(run[q].status)] EXCEPT ![r] = "purged"]
    BY DEF OrderKept, StageKept
  <1>4. [q \in Runs |-> ToSet(run[q].order)][r] \subseteq {p \in Projects : member[p].ended \/ Closing(p)}
    BY DEF Over
  <1>5. [q \in Runs |-> StageOf(run[q].status)][r] \in {"open", "underway"}
    OBVIOUS
  <1>6. Contract!Purge(r)
    BY <1>2, <1>3, <1>4, <1>5 DEF Contract!Purge, Contract!Held
  <1> QED BY <1>6 DEF Contract!Next

-----------------------------------------------------------------------------
(* What keeps the invariant.                                                *)

LEMMA StagesLive ==
    ASSUME RunInv, NEW r \in Runs
    PROVE  /\ StageOf(run[r].status) \in {"open", "underway"} <=> Live(r)
           /\ run[r].status \in {"none", "purged"} => StageOf(run[r].status) = run[r].status
           /\ \A p \in ToSet(run[r].order) : p \in Projects
  <1>1. run[r] \in RunRow
    BY SameTyped
  <1>2. run[r].status \in Active \cup Ended \cup {"none", "purged"} /\ run[r].order \in Seq(Projects)
    BY <1>1 DEF RunRow
  <1>3. \A p \in ToSet(run[r].order) : p \in Projects
    BY <1>2 DEF ToSet
  <1> QED BY <1>2, <1>3 DEF StageOf, Live, Active, Ended

LEMMA ChainKept ==
    ASSUME ChainInv, PurgeInv', GoneGrows({}),
           \A r \in Runs : Live(r)' => Live(r) /\ ToSet(run'[r].order) \subseteq ToSet(run[r].order),
           \A r \in Runs : \A p \in ToSet(run'[r].order) :
              Live(r)' /\ (\E s \in Slots : Deleting(slot[s], p, r)) => \E s \in Slots : Deleting(slot'[s], p, r),
           \A s \in Slots : Knows(slot[s])'
    PROVE  ChainInv'
  <1>1. Apart'
    BY DEF ChainInv, Apart
  <1>2. RunInv' /\ RunInv
    BY DEF ChainInv, PurgeInv
  <1>3. ASSUME NEW r \in Runs, Live(r)', NEW p \in ToSet(run'[r].order), member'[p].row = "deleted"
        PROVE  \E s \in Slots : Deleting(slot'[s], p, r)
    <2>1. p \in ToSet(run[r].order) /\ Live(r)
      BY <1>3
    <2>2. p \in Projects
      BY <1>2, <2>1, StagesLive
    <2>3. member[p].row = "deleted"
      BY <1>3, <2>2 DEF GoneGrows
    <2> QED BY <1>3, <2>1, <2>3 DEF ChainInv, DeletedLeave
  <1>4. DeletedLeave'
    BY <1>3 DEF DeletedLeave, Deleting
  <1> QED BY <1>1, <1>4 DEF ChainInv

(* No other project is over or being closed out than before.                *)
LEMMA OverSame ==
    ASSUME RunInv, OverKept, OneRequest, NEW s \in Slots,
           \A p \in Projects : member'[p].ended => Over(p),
           slot'[s].op \in CloseOps => slot[s].op \in CloseOps /\ slot'[s].p = slot[s].p
    PROVE  OverGrows({})
  <1>1. ASSUME NEW p \in Projects, Over(p)' PROVE Over(p)
    <2>1. member'[p].ended \/ \E t \in Slots : slot'[t].p = p /\ slot'[t].op \in CloseOps
      BY <1>1 DEF Over, Closing, CloseOps
    <2>2. member'[p].ended \/ (slot'[s].p = p /\ slot'[s].op \in CloseOps)
      BY <2>1 DEF OneRequest
    <2> QED BY <2>2 DEF Over, Closing, CloseOps
  <1> QED BY <1>1 DEF OverGrows, OverKept

(* A request that moves without a word about the runs.                      *)
LEMMA Moved ==
    ASSUME ChainInv, PurgeInv', OverKept, OneRequest, NEW s \in Slots,
           \A r \in Runs : StageKept(r) /\ run'[r].order = run[r].order,
           GoneGrows({}), \A p \in Projects : member'[p].ended => Over(p),
           slot'[s].op \in CloseOps => slot[s].op \in CloseOps /\ slot'[s].p = slot[s].p,
           \A r \in Runs : \A p \in ToSet(run[r].order) :
              Live(r) /\ Deleting(slot[s], p, r) => Deleting(slot'[s], p, r),
           Knows(slot[s])'
    PROVE  ChainInv' /\ UNCHANGED Contract!vars
  <1>0. RunInv /\ RunInv' /\ \A t \in Slots : t = s
    BY DEF ChainInv, PurgeInv, OneRequest
  <1>1. RunsKept
    BY DEF RunsKept, OrderKept
  <1>2. \A r \in Runs : Live(r)' <=> Live(r)
    <2> TAKE r \in Runs
    <2>1. run[r].status \in Active \cup Ended \cup {"none", "purged"}
          /\ run'[r].status \in Active \cup Ended \cup {"none", "purged"}
      BY <1>0 DEF RunInv, Shape, RunRow
    <2> QED BY <2>1 DEF StageKept, StageOf, Live, Active, Ended
  <1>3. ChainInv'
    BY <1>0, <1>2, ChainKept
  <1>4. OverGrows({})
    BY <1>0, OverSame
  <1> QED BY <1>1, <1>3, <1>4, Stutters

(* A request that moves and writes no row.                                  *)
LEMMA MovedAlone ==
    ASSUME ChainInv, PurgeInv', OverKept, OneRequest, NEW s \in Slots, UNCHANGED <<run, member>>,
           slot'[s].op \in CloseOps => slot[s].op \in CloseOps /\ slot'[s].p = slot[s].p,
           \A r \in Runs : \A p \in ToSet(run[r].order) :
              Live(r) /\ Deleting(slot[s], p, r) => Deleting(slot'[s], p, r),
           Knows(slot[s])'
    PROVE  ChainInv' /\ UNCHANGED Contract!vars
  <1>1. /\ \A r \in Runs : StageKept(r) /\ run'[r].order = run[r].order
        /\ GoneGrows({}) /\ \A p \in Projects : member'[p].ended => Over(p)
    BY DEF StageKept, GoneGrows, Over
  <1> QED BY <1>1, Moved

LEMMA ChainBegins ==
    ASSUME SequenceRunAssumption, ChainInv, PurgeInv', OverKept, Serially, NEW s \in Slots,
           \/ \E p \in Projects : \/ StagingEnd(s, p) \/ GoSilent(s, p)
                                  \/ \E r \in Runs : RemoveMember(s, r, p)
           \/ \E r \in Runs : CompleteJob(s, r) \/ Decide(s, r) \/ ReleaseGracefully(s, r)
                              \/ OpenPage(s, r) \/ DeactivateChain(s, r)
           \/ \E chain \in Chains : Start(s, chain)
    PROVE  ChainInv' /\ UNCHANGED Contract!vars
  <1>0. RunInv /\ OneRequest
    BY DEF ChainInv, PurgeInv, Serially
  <1>1. UNCHANGED <<run, member>>
    BY DEF StagingEnd, GoSilent, RemoveMember, CompleteJob, Decide, ReleaseGracefully, OpenPage,
           DeactivateChain, Start
  <1>2. slot[s].phase = "idle"
    BY DEF StagingEnd, GoSilent, RemoveMember, CompleteJob, Decide, ReleaseGracefully, OpenPage,
           DeactivateChain, Start, Begin
  <1>3. slot[s].op = "none"
    BY <1>0, <1>2, SameTyped, AbsentRow DEF Sound
  <1>4. \A r, p : ~Deleting(slot[s], p, r)
    BY <1>3 DEF Deleting
  <1>5. ASSUME slot'[s].op \notin CloseOps, Knows(slot[s])' PROVE ChainInv' /\ UNCHANGED Contract!vars
    BY <1>0, <1>1, <1>4, <1>5, MovedAlone
  <1>6. ASSUME NEW op, NEW p, NEW r, NEW phase, Begin(s, op, p, r, phase),
               \/ op = "launch" /\ phase = "read"
               \/ op \in {"stall", "release"} /\ phase = "write" /\ Live(r)
               \/ op = "remove" /\ phase = "load"
               \/ op = "complete" /\ phase = "guard"
               \/ op = "decide" /\ phase = "find"
        PROVE  ChainInv' /\ UNCHANGED Contract!vars
    <2>1. slot'[s].op = op /\ slot'[s].phase = phase /\ slot'[s].r = r
      BY <1>0, <1>6, SlotTells
    <2>2. op \notin CloseOps
      BY <1>6 DEF CloseOps
    <2>3. Knows(slot[s])'
      BY <1>1, <1>6, <2>1 DEF Knows, CloseOps, DropOps, Live
    <2> QED BY <1>5, <2>1, <2>2, <2>3
  <1>7. ASSUME NEW p \in Projects, StagingEnd(s, p) \/ (\E r \in Runs : RemoveMember(s, r, p))
        PROVE  ChainInv' /\ UNCHANGED Contract!vars
    BY <1>6, <1>7 DEF StagingEnd, RemoveMember
  <1>8. ASSUME NEW p \in Projects, GoSilent(s, p) PROVE ChainInv' /\ UNCHANGED Contract!vars
    BY <1>6, <1>8 DEF GoSilent, ActiveRuns, Live
  <1>9. ASSUME NEW r \in Runs, CompleteJob(s, r) \/ Decide(s, r) \/ ReleaseGracefully(s, r)
        PROVE  ChainInv' /\ UNCHANGED Contract!vars
    BY <1>6, <1>9 DEF CompleteJob, Decide, ReleaseGracefully, Live
  <1>10. ASSUME NEW r \in Runs, OpenPage(s, r) PROVE ChainInv' /\ UNCHANGED Contract!vars
    <2>1. PICK x : x = [op |-> "resume", phase |-> "write", p |-> InFlight(run[r]), r |-> r, read |-> run[r]]
      OBVIOUS
    <2>2. x.op = "resume" /\ x.phase = "write" /\ x.r = r /\ slot'[s] = x
      BY <1>0, <1>10, <2>1, SameTyped DEF OpenPage
    <2>3. run[r].status = "stalled"
      BY <1>10 DEF OpenPage
    <2>4. Knows(slot[s])'
      BY <1>1, <2>2, <2>3 DEF Knows, CloseOps, DropOps
    <2> QED BY <1>5, <2>2, <2>4 DEF CloseOps
  <1>11. ASSUME NEW r \in Runs, DeactivateChain(s, r) PROVE ChainInv' /\ UNCHANGED Contract!vars
    <2>0. PICK y : y = run[r]
      OBVIOUS
    <2>1. PICK x : x = [Idle EXCEPT !.op = "deactivate", !.phase = "reset", !.r = r, !.read = y]
      OBVIOUS
    <2>2. x.op = "deactivate" /\ x.phase = "reset" /\ x.r = r
      BY <2>1 DEF Idle
    <2>3. slot' = [slot EXCEPT ![s] = x] /\ Live(r)
      BY <1>11, <2>0, <2>1 DEF DeactivateChain, Live
    <2>4. slot'[s] = x
      BY <1>0, <2>3, SameTyped
    <2>5. Knows(slot[s])'
      BY <1>1, <2>2, <2>3, <2>4 DEF Knows, CloseOps, DropOps, Live
    <2> QED BY <1>5, <2>2, <2>4, <2>5 DEF CloseOps
  <1>12. ASSUME NEW chain \in Chains, Start(s, chain) PROVE ChainInv' /\ UNCHANGED Contract!vars
    <2>0. PICK y : y = NewRun(chain)
      OBVIOUS
    <2>1. PICK x : x = [Idle EXCEPT !.op = "start", !.phase = "create", !.read = y]
      OBVIOUS
    <2>2. slot' = [slot EXCEPT ![s] = x]
      BY <1>12, <2>0, <2>1 DEF Start
    <2>3. x.op = "start" /\ x.phase = "create" /\ x.read = y /\ y.order = chain
      BY <2>0, <2>1 DEF Idle, NewRun
    <2>4. slot'[s] = x
      BY <1>0, <2>2, SameTyped
    <2>5. chain # <<>>
      BY DEF SequenceRunAssumption
    <2>6. \A p \in ToSet(chain) : /\ member[p].row # "deleted"
                                  /\ \A r \in Runs : Live(r) => p \notin ToSet(run[r].order)
      BY <1>12 DEF Start, ActiveRuns, Live
    <2>7. Knows(slot[s])'
      BY <1>1, <2>3, <2>4, <2>5, <2>6 DEF Knows, CloseOps, DropOps, Live
    <2> QED BY <1>5, <2>3, <2>4, <2>7 DEF CloseOps
  <1> QED BY <1>7, <1>8, <1>9, <1>10, <1>11, <1>12

(* A closeout and a deletion begin: one project more is over.               *)
LEMMA ChainCloses ==
    ASSUME ChainInv, PurgeInv', OverKept, Serially, NEW s \in Slots, NEW p \in Projects,
           DeleteProject(s, p) \/ \E op \in Ops : CloseMember(s, op, p)
    PROVE  ChainInv' /\ Contract!Next
  <1>0. RunInv /\ OneRequest /\ (\A t \in Slots : t = s) /\ run' = run /\ RunInv'
    BY DEF ChainInv, PurgeInv, Serially, OneRequest, DeleteProject, CloseMember
  <1>1. slot[s].phase = "idle"
    BY DEF DeleteProject, CloseMember, Begin
  <1>2. slot[s].op = "none"
    BY <1>0, <1>1, SameTyped, AbsentRow DEF Sound
  <1>3. \A q \in Projects : Over(q) => member[q].ended
    BY <1>0, <1>2 DEF Over, Closing
  <1>4. RunsKept
    BY <1>0 DEF RunsKept, StageKept, OrderKept
  <1>5. \A r \in Runs : \A q \in ToSet(run[r].order) : Live(r) => q \in Projects /\ member[q].row # "deleted"
    <2>1. \A r \in Runs : \A q \in ToSet(run[r].order) : q \in Projects
      BY <1>0, StagesLive
    <2>2. \A t \in Slots : \A q, r : ~Deleting(slot[t], q, r)
      BY <1>0, <1>2 DEF Deleting
    <2> QED BY <2>1, <2>2 DEF ChainInv, DeletedLeave
  <1>6. Apart'
    BY <1>0 DEF ChainInv, Apart, Live
  <1>7. ASSUME NEW op \in Ops, CloseMember(s, op, p) PROVE ChainInv' /\ Contract!Next
    <2>1. /\ slot'[s].op = op /\ slot'[s].phase = "find" /\ slot'[s].p = p
          /\ op \in CloseOps /\ member' = member /\ member[p].row = "live"
      BY <1>0, <1>7, SlotTells DEF CloseMember, CloseOps
    <2>2. Knows(slot[s])'
      BY <2>1 DEF Knows, CloseOps, DropOps
    <2>3. DeletedLeave'
      BY <1>0, <1>5, <2>1 DEF DeletedLeave, Live
    <2>4. GoneGrows({})
      BY <2>1 DEF GoneGrows
    <2>5. OverGrows({p})
      <3>1. \A q \in Projects : Over(q)' <=> member[q].ended \/ q = p
        BY <1>0, <2>1 DEF Over, Closing, CloseOps
      <3> QED BY <1>3, <3>1 DEF OverGrows, Over
    <2>6. ChainInv'
      BY <1>0, <1>6, <2>2, <2>3 DEF ChainInv
    <2> QED BY <1>4, <2>4, <2>5, <2>6, FinishesOne
  <1>8. ASSUME DeleteProject(s, p) PROVE ChainInv' /\ Contract!Next
    <2>0. Begin(s, "delete", p, NoRun, "find") /\ Finish(p, "deleted", FALSE)
      BY <1>8 DEF DeleteProject
    <2>1. slot'[s].op = "delete" /\ slot'[s].phase = "find" /\ slot'[s].p = p
      BY <1>0, <2>0, SlotTells
    <2>2. Knows(slot[s])'
      BY <2>1 DEF Knows, CloseOps, DropOps
    <2>3. /\ member'[p].ended /\ member'[p].row = "deleted"
          /\ \A q \in Projects \ {p} : member'[q] = member[q]
      <3>1. /\ member'[p].ended /\ \A q \in Projects \ {p} : member'[q] = member[q]
        BY <1>0, <2>0, Finishes DEF RunInv, Finished
      <3>2. member'[p].row = "deleted"
        BY <1>0, <2>0, SameTyped DEF Finish, Members
      <3> QED BY <3>1, <3>2
    <2>4. DeletedLeave'
      BY <1>0, <1>5, <2>1, <2>3 DEF DeletedLeave, Live, Deleting
    <2>5. GoneGrows({p})
      BY <2>3 DEF GoneGrows
    <2>6. OverGrows({p})
      <3>1. \A q \in Projects : Over(q)' <=> member'[q].ended
        BY <1>0, <2>1 DEF Over, Closing
      <3> QED BY <1>3, <2>3, <3>1 DEF OverGrows, Over
    <2>7. ChainInv'
      BY <1>0, <1>6, <2>2, <2>4 DEF ChainInv
    <2> QED BY <1>4, <2>5, <2>6, <2>7, FinishesOne
  <1> QED BY <1>7, <1>8

(* Lookups: a request that goes on with a live run has read it just now.    *)
LEMMA ChainLookups ==
    ASSUME SequenceRunAssumption, ChainInv, PurgeInv', OverKept, Serially, NEW s \in Slots,
           \/ AdvanceRead(s) \/ MarkRead(s) \/ GuardRead(s) \/ LoadRun(s) \/ FindMembership(s)
           \/ TeardownFind(s) \/ CheckSettlement(s)
    PROVE  ChainInv' /\ UNCHANGED Contract!vars
  <1>0. RunInv /\ OneRequest /\ Sound(slot[s]) /\ Knows(slot[s])
    BY SameTyped DEF ChainInv, PurgeInv, Serially
  <1>1. UNCHANGED <<run, member>>
    BY DEF AdvanceRead, MarkRead, GuardRead, LoadRun, FindMembership, TeardownFind, CheckSettlement
  <1>2. ASSUME slot[s].op # "delete", slot'[s].op \in {slot[s].op, "none"},
               slot'[s].op \in CloseOps => slot'[s].p = slot[s].p, Knows(slot[s])'
        PROVE  ChainInv' /\ UNCHANGED Contract!vars
    <2>1. \A r, p : ~Deleting(slot[s], p, r)
      BY <1>2 DEF Deleting
    <2>2. slot'[s].op \in CloseOps => slot[s].op \in CloseOps /\ slot'[s].p = slot[s].p
      BY <1>2 DEF CloseOps
    <2> QED BY <1>0, <1>1, <1>2, <2>1, <2>2, MovedAlone
  <1>3. ASSUME slot[s].op # "delete", Return(s) PROVE ChainInv' /\ UNCHANGED Contract!vars
    <2>1. slot'[s].op = "none" /\ slot'[s].phase = "idle"
      BY <1>0, <1>3, SlotTells
    <2>2. Knows(slot[s])'
      BY <2>1 DEF Knows, CloseOps, DropOps
    <2> QED BY <1>2, <1>3, <2>1, <2>2 DEF CloseOps
  <1>4. ASSUME slot[s].op \notin DropOps, NEW phase \in {"stamp", "commit", "find"}, Goto(s, phase)
        PROVE  ChainInv' /\ UNCHANGED Contract!vars
    <2>1. slot'[s].op = slot[s].op /\ slot'[s].phase = phase /\ slot'[s].p = slot[s].p /\ slot'[s].r = slot[s].r
      BY <1>0, <1>4, SlotTells
    <2>2. Knows(slot[s])'
      BY <1>0, <1>1, <1>4, <2>1 DEF Knows, DropOps
    <2> QED BY <1>2, <1>4, <2>1, <2>2 DEF DropOps
  <1>5. ASSUME slot[s].op \notin DropOps, slot[s].op # "resume", NEW r \in Runs, Live(r),
               NEW phase \in {"index", "mark", "heal", "reheal"}, Read(s, r, phase)
        PROVE  ChainInv' /\ UNCHANGED Contract!vars
    <2>1. slot'[s].op = slot[s].op /\ slot'[s].phase = phase /\ slot'[s].p = slot[s].p /\ slot'[s].r = r
      BY <1>0, <1>5, SlotTells
    <2>2. Knows(slot[s])'
      BY <1>0, <1>1, <1>5, <2>1 DEF Knows, DropOps, Live
    <2> QED BY <1>2, <1>5, <2>1, <2>2 DEF DropOps
  <1>6. CASE AdvanceRead(s)
    <2>1. slot[s].op = "launch"
      BY <1>6 DEF AdvanceRead, Is
    <2> QED BY <1>4, <1>5, <1>6, <2>1 DEF AdvanceRead, ActiveRuns, Live, DropOps
  <1>7. CASE MarkRead(s)
    BY <1>4, <1>5, <1>7 DEF MarkRead, ActiveRuns, Live, DropOps
  <1>8. CASE GuardRead(s)
    <2>1. slot[s].op = "complete" /\ slot[s].r \in Runs
      BY <1>0, <1>8 DEF GuardRead, Is, Sound
    <2> QED BY <1>4, <1>5, <1>8, <2>1 DEF GuardRead, IsConducted, Live, DropOps
  <1>9. CASE TeardownFind(s)
    <2>1. slot[s].op \in TeardownOps /\ slot[s].r \in Runs
      BY <1>0, <1>9 DEF TeardownFind, Teardown, Sound, TeardownOps
    <2> QED BY <1>3, <1>5, <1>9, <2>1 DEF TeardownFind, Answer, IsConducted, Live, DropOps, TeardownOps
  <1>10. CASE CheckSettlement(s)
    <2>1. slot[s].op \in TeardownOps /\ slot[s].phase = "settlement"
      BY <1>10 DEF CheckSettlement, Teardown, TeardownOps
    <2>2. CASE Goto(s, "purge")
      <3>1. slot'[s].op = slot[s].op /\ slot'[s].phase = "purge" /\ slot'[s].r = slot[s].r
        BY <1>0, <2>2, SlotTells
      <3>2. Knows(slot[s])'
        BY <1>0, <1>1, <2>1, <3>1 DEF Knows, DropOps, CloseOps, TeardownOps, Live
      <3> QED BY <1>2, <2>1, <3>1, <3>2 DEF TeardownOps, CloseOps
    <2> QED BY <1>3, <1>10, <2>1, <2>2 DEF CheckSettlement, Answer, TeardownOps
  <1>11. CASE LoadRun(s)
    <2>1. slot[s].op \in DropOps /\ slot[s].phase = "load" /\ slot[s].r \in Runs
      BY <1>0, <1>11 DEF LoadRun, DropOps, Sound
    <2>2. slot[s].op = "delete" => Live(slot[s].r) /\ Exists(slot[s].r)
      BY <1>0, <2>1 DEF Knows, Exists, Live, Active, SequenceRunAssumption
    <2>3. ASSUME slot'[s].op = slot[s].op, slot'[s].p = slot[s].p, slot'[s].r = slot[s].r, Knows(slot[s])'
          PROVE  ChainInv' /\ UNCHANGED Contract!vars
      <3>1. \A r, p : Deleting(slot[s], p, r) => Deleting(slot'[s], p, r)
        BY <2>1, <2>3 DEF Deleting
      <3>2. slot'[s].op \notin CloseOps
        BY <2>1, <2>3 DEF DropOps, CloseOps
      <3> QED BY <1>0, <1>1, <2>3, <3>1, <3>2, MovedAlone
    <2>4. CASE slot[s].op = "delete" /\ Goto(s, "cancel")
      <3>1. slot'[s].op = slot[s].op /\ slot'[s].phase = "cancel" /\ slot'[s].p = slot[s].p /\ slot'[s].r = slot[s].r
        BY <1>0, <2>4, SlotTells
      <3>2. Knows(slot[s])'
        BY <1>1, <2>2, <2>4, <3>1 DEF Knows, DropOps, CloseOps, Live
      <3> QED BY <2>3, <3>1, <3>2
    <2>5. CASE Read(s, slot[s].r, "write") /\ Exists(slot[s].r) /\ ~Ultralocked(slot[s].r)
      <3>1. /\ slot'[s].op = slot[s].op /\ slot'[s].phase = "write" /\ slot'[s].p = slot[s].p
            /\ slot'[s].r = slot[s].r /\ slot'[s].read = run[slot[s].r]
        BY <1>0, <2>5, SlotTells
      <3>2. run[slot[s].r].status \in (Active \cup Ended) \ {"running", "stalled"}
        <4>1. run[slot[s].r] \in RunRow
          BY <1>0, <2>1, SameTyped
        <4> QED BY <2>5, <4>1 DEF RunRow, Exists, Ultralocked
      <3>3. Knows(slot[s])'
        BY <1>1, <2>1, <2>2, <3>1, <3>2 DEF Knows, DropOps, CloseOps, Live
      <3> QED BY <2>3, <3>1, <3>3
    <2>6. CASE Return(s) /\ (slot[s].op = "delete" => slot[s].p \notin ToSet(run[slot[s].r].order))
      <3>1. slot'[s].op = "none" /\ slot'[s].phase = "idle"
        BY <1>0, <2>6, SlotTells
      <3>2. Knows(slot[s])'
        BY <3>1 DEF Knows, CloseOps, DropOps
      <3>3. \A r \in Runs : \A p \in ToSet(run[r].order) : ~Deleting(slot[s], p, r)
        BY <2>1, <2>6 DEF Deleting
      <3> QED BY <1>0, <1>1, <3>1, <3>2, <3>3, MovedAlone DEF CloseOps
    <2> QED BY <1>11, <2>2, <2>4, <2>5, <2>6 DEF LoadRun
  <1>12. CASE FindMembership(s)
    <2>1. slot[s].op = "delete" /\ slot[s].phase = "find"
      BY <1>12 DEF FindMembership, Is
    <2>2. CASE ActiveRuns(slot[s].p) = {} /\ Return(s)
      <3>1. slot'[s].op = "none" /\ slot'[s].phase = "idle"
        BY <1>0, <2>2, SlotTells
      <3>2. Knows(slot[s])'
        BY <3>1 DEF Knows, CloseOps, DropOps
      <3>3. \A r \in Runs : \A p \in ToSet(run[r].order) : ~(Live(r) /\ Deleting(slot[s], p, r))
        BY <2>1, <2>2 DEF Deleting, ActiveRuns, Live
      <3> QED BY <1>0, <1>1, <3>1, <3>2, <3>3, MovedAlone DEF CloseOps
    <2>3. ASSUME NEW r \in ActiveRuns(slot[s].p), NEW phase \in {"cancel", "load"},
                 slot' = [slot EXCEPT ![s].r = r, ![s].phase = phase]
          PROVE  ChainInv' /\ UNCHANGED Contract!vars
      <3>1. slot'[s].op = "delete" /\ slot'[s].phase = phase /\ slot'[s].p = slot[s].p /\ slot'[s].r = r
        BY <1>0, <2>1, <2>3, SameTyped DEF Request
      <3>2. Live(r) /\ r \in Runs /\ slot[s].p \in ToSet(run[r].order)
        BY DEF ActiveRuns, Live
      <3>3. Knows(slot[s])'
        BY <1>1, <3>1, <3>2 DEF Knows, CloseOps, DropOps, Live
      <3>4. \A q \in Runs : \A p \in ToSet(run[q].order) :
               Live(q) /\ Deleting(slot[s], p, q) => Deleting(slot'[s], p, q)
        <4>1. \A q \in Runs : Live(q) /\ slot[s].p \in ToSet(run[q].order) => q = r
          BY <3>2 DEF ChainInv, Apart
        <4> QED BY <3>1, <4>1 DEF Deleting
      <3> QED BY <1>0, <1>1, <3>1, <3>3, <3>4, MovedAlone DEF CloseOps
    <2> QED BY <1>12, <2>2, <2>3 DEF FindMembership
  <1> QED BY <1>6, <1>7, <1>8, <1>9, <1>10, <1>11, <1>12

-----------------------------------------------------------------------------
(* Writes of a run.                                                         *)

(* A status that is written over a live run, with its order left alone.     *)
LEMMA StatusWritten ==
    ASSUME ChainInv, PurgeInv', NEW r \in Runs, Live(r),
           \A q \in Runs \ {r} : run'[q] = run[q],
           run'[r].status \in {"running", "stalled"} \cup Ended, run'[r].order = run[r].order,
           OverGrows({}), GoneGrows({}),
           \A q \in Runs : \A p \in ToSet(run[q].order) :
              Live(q)' /\ (\E s \in Slots : Deleting(slot[s], p, q)) => \E s \in Slots : Deleting(slot'[s], p, q),
           \A s \in Slots : Knows(slot[s])'
    PROVE  ChainInv' /\ [Contract!Next]_(Contract!vars)
  <1>0. RunInv
    BY DEF ChainInv, PurgeInv
  <1>1. ChainInv'
    <2>1. \A q \in Runs : Live(q)' => Live(q) /\ ToSet(run'[q].order) \subseteq ToSet(run[q].order)
      BY DEF Live
    <2>2. \A q \in Runs : run'[q].order = run[q].order
      OBVIOUS
    <2> QED BY <2>1, <2>2, ChainKept
  <1>2. /\ \A q \in Runs \ {r} : StageKept(q)
        /\ \A q \in Runs : OrderKept(q)
    BY DEF StageKept, OrderKept
  <1>3. StageOf(run[r].status) \in {"open", "underway"}
    BY <1>0, StagesLive
  <1>4. CASE run'[r].status \in Ended
    <2>1. StageOf(run'[r].status) = "ended"
      BY <1>4 DEF StageOf, Ended
    <2>2. Contract!Next
      BY <1>2, <1>3, <2>1, SetsOne
    <2> QED BY <1>1, <2>2
  <1>5. CASE run'[r].status \in {"running", "stalled"}
    <2>1. StageOf(run'[r].status) = "underway"
      BY <1>5 DEF StageOf, Ended
    <2>2. CASE StageOf(run[r].status) = "underway"
      <3>1. RunsKept
        BY <1>2, <2>1, <2>2 DEF RunsKept, StageKept
      <3> QED BY <1>1, <3>1, Stutters
    <2>3. CASE StageOf(run[r].status) = "open"
      <3>1. Contract!Next
        BY <1>2, <2>1, <2>3, SetsOne
      <3> QED BY <1>1, <3>1
    <2> QED BY <1>3, <2>2, <2>3
  <1> QED BY <1>4, <1>5

(* A request that ends knows nothing any more.                              *)
LEMMA Forgets ==
    ASSUME RunInv, NEW s \in Slots, Return(s)
    PROVE  slot'[s].op = "none" /\ Knows(slot[s])'
  <1>1. slot'[s].op = "none" /\ slot'[s].phase = "idle"
    BY SlotTells
  <1> QED BY <1>1 DEF Knows, CloseOps, DropOps

LEMMA ChainStatuses ==
    ASSUME SequenceRunAssumption, ChainInv, PurgeInv', OverKept, Serially, NEW s \in Slots,
           \/ MarkStalled(s) \/ Release(s) \/ EndMembership(s) \/ Dissolve(s) \/ ResumeChain(s)
    PROVE  ChainInv' /\ [Contract!Next]_(Contract!vars)
  <1>0. RunInv /\ OneRequest /\ Sound(slot[s]) /\ Knows(slot[s]) /\ \A t \in Slots : t = s
    BY SameTyped DEF ChainInv, PurgeInv, Serially, OneRequest
  <1>1. Return(s) /\ member' = member
    BY DEF MarkStalled, Release, EndMembership, Dissolve, ResumeChain
  <1>2. slot'[s].op = "none" /\ Knows(slot[s])'
    BY <1>0, <1>1, Forgets
  <1>r. PICK r \in Runs : r = slot[s].r
    BY <1>0 DEF MarkStalled, Release, EndMembership, Dissolve, ResumeChain, Is, Sound
  <1>3. Live(r) /\ Exists(r)
    <2>1. Live(r)
      BY <1>0, <1>r DEF MarkStalled, Release, EndMembership, Dissolve, ResumeChain, Is, Knows, Live, Active
    <2> QED BY <2>1 DEF Live, Exists, Active, SequenceRunAssumption
  <1>4. OverGrows({}) /\ GoneGrows({})
    <2>1. OverGrows({})
      BY <1>0, <1>1, <1>2, OverSame DEF Over, CloseOps
    <2> QED BY <1>1, <2>1 DEF GoneGrows
  <1>5. slot[s].op = "delete" => slot[s].phase = "cancel" /\ EndMembership(s)
    BY DEF MarkStalled, Release, EndMembership, Dissolve, ResumeChain, Is
  <1>6. ASSUME NEW c, Update(r, c), DOMAIN c \subseteq {"status", "copy", "conducted"}, "status" \in DOMAIN c,
               c["status"] \in {"running", "stalled"} \cup Ended,
               "conducted" \in DOMAIN c => c["conducted"] = FALSE,
               "copy" \in DOMAIN c => c["copy"] \in Copies,
               slot[s].op = "delete" => c["status"] \in Ended
        PROVE  ChainInv' /\ [Contract!Next]_(Contract!vars)
    <2>0. /\ "order" \notin DOMAIN c /\ "index" \notin DOMAIN c
          /\ c["status"] \in Active \cup Ended /\ run \in [Runs -> RunRow]
      BY <1>0, <1>6, SameTyped DEF Active
    <2>1. /\ \A q \in Runs \ {r} : run'[q] = run[q]
          /\ run'[r].status = c["status"] /\ run'[r].order = run[r].order
      BY <1>6, <2>0, Updated
    <2>2. \A q \in Runs : \A p \in ToSet(run[q].order) : ~(Live(q)' /\ Deleting(slot[s], p, q))
      <3> SUFFICES ASSUME NEW q \in Runs, NEW p, Live(q)', Deleting(slot[s], p, q) PROVE FALSE
        OBVIOUS
      <3>1. q = r /\ c["status"] \in Ended
        BY <1>5, <1>6, <1>r DEF Deleting
      <3> QED BY <2>1, <3>1 DEF Live, Active, Ended
    <2> QED BY <1>0, <1>2, <1>3, <1>4, <1>6, <2>1, <2>2, StatusWritten
  <1>7. ASSUME NEW c, Update(r, c), DOMAIN c = {"status"}, c["status"] \in {"stalled"} \cup Ended,
               slot[s].op = "delete" => c["status"] \in Ended
        PROVE  ChainInv' /\ [Contract!Next]_(Contract!vars)
    BY <1>6, <1>7
  <1>8. CASE MarkStalled(s)
    <2>1. PICK c : c = [status |-> "stalled"]
      OBVIOUS
    <2>2. DOMAIN c = {"status"} /\ c["status"] = "stalled" /\ Update(r, c)
      BY <1>3, <1>8, <1>r, <2>1 DEF MarkStalled
    <2> QED BY <1>7, <1>8, <2>2 DEF MarkStalled, Is
  <1>9. CASE Release(s)
    <2>1. PICK c : c = [status |-> "terminated"]
      OBVIOUS
    <2>2. DOMAIN c = {"status"} /\ c["status"] = "terminated" /\ Update(r, c)
      BY <1>3, <1>9, <1>r, <2>1 DEF Release
    <2> QED BY <1>7, <2>2 DEF Ended
  <1>10. CASE EndMembership(s)
    <2>1. PICK c : c = [status |-> "cancelled"]
      OBVIOUS
    <2>2. DOMAIN c = {"status"} /\ c["status"] = "cancelled" /\ Update(r, c)
      BY <1>3, <1>10, <1>r, <2>1 DEF EndMembership
    <2> QED BY <1>7, <2>2 DEF Ended
  <1>11. CASE Dissolve(s)
    <2>1. PICK c : c = [status |-> "cancelled", conducted |-> FALSE]
      OBVIOUS
    <2>2. /\ DOMAIN c = {"status", "conducted"} /\ c["status"] = "cancelled" /\ c["conducted"] = FALSE
          /\ Update(r, c)
      BY <1>3, <1>11, <1>r, <2>1 DEF Dissolve
    <2> QED BY <1>6, <2>2 DEF Ended
  <1>12. CASE ResumeChain(s)
    <2>0. PICK y : y = [slot[s].read.copy EXCEPT ![slot[s].p] = "pending"]
      OBVIOUS
    <2>1. PICK c : c = [status |-> "running", copy |-> y]
      OBVIOUS
    <2>2. /\ DOMAIN c = {"status", "copy"} /\ c["status"] = "running" /\ c["copy"] = y
          /\ Update(r, c)
      BY <1>3, <1>12, <1>r, <2>0, <2>1 DEF ResumeChain
    <2>3. y \in Copies
      BY <1>0, <2>0, SameTyped DEF Request, RunRow, Copies
    <2> QED BY <1>6, <1>12, <2>2, <2>3 DEF ResumeChain, Is
  <1> QED BY <1>8, <1>9, <1>10, <1>11, <1>12

(* The status and the order of a run that is written.                       *)
LEMMA Written ==
    ASSUME run \in [Runs -> RunRow], NEW r \in Runs, NEW c, Update(r, c)
    PROVE  /\ \A q \in Runs \ {r} : run'[q] = run[q]
           /\ run'[r].status = IF "status" \in DOMAIN c THEN c["status"] ELSE run[r].status
           /\ run'[r].order = IF "order" \in DOMAIN c THEN c["order"] ELSE run[r].order
  <1> DEFINE x == [d \in DOMAIN run[r] |-> IF d \in DOMAIN c THEN c[d] ELSE run[r][d]]
  <1>1. run' = [run EXCEPT ![r] = x]
    BY DEF Update
  <1>2. DOMAIN run[r] = {"status", "order", "index", "conducted", "copy"}
    BY DEF RunRow
  <1>3. /\ x.status = IF "status" \in DOMAIN c THEN c["status"] ELSE run[r].status
        /\ x.order = IF "order" \in DOMAIN c THEN c["order"] ELSE run[r].order
    BY <1>2
  <1> HIDE DEF x
  <1> QED BY <1>1, <1>3

(* A run written with its status and its order left alone.                  *)
LEMMA Rewritten ==
    ASSUME ChainInv, PurgeInv', OverKept, OneRequest, NEW s \in Slots, NEW r \in Runs,
           NEW c, Update(r, c), "status" \notin DOMAIN c, "order" \notin DOMAIN c,
           GoneGrows({}), \A p \in Projects : member'[p].ended => Over(p), slot[s].op # "delete",
           slot'[s].op \in CloseOps => slot[s].op \in CloseOps /\ slot'[s].p = slot[s].p,
           (\A q \in Runs : Live(q)' <=> Live(q)) => Knows(slot[s])'
    PROVE  ChainInv' /\ UNCHANGED Contract!vars
  <1>1. \A q \in Runs : run'[q].status = run[q].status /\ run'[q].order = run[q].order
    BY SameTyped, Written DEF ChainInv, PurgeInv
  <1>2. \A q \in Runs : StageKept(q) /\ (Live(q)' <=> Live(q))
    BY <1>1 DEF StageKept, Live
  <1>3. \A q, p : ~Deleting(slot[s], p, q)
    BY DEF Deleting
  <1> QED BY <1>1, <1>2, <1>3, Moved

(* The advance of a run: its index, then its status.                        *)
LEMMA ChainAdvances ==
    ASSUME SequenceRunAssumption, ChainInv, PurgeInv', OverKept, Serially, NEW s \in Slots,
           AdvanceIndex(s) \/ AdvanceWrite(s)
    PROVE  ChainInv' /\ [Contract!Next]_(Contract!vars)
  <1>0. RunInv /\ OneRequest /\ Sound(slot[s]) /\ Knows(slot[s]) /\ \A t \in Slots : t = s
    BY SameTyped DEF ChainInv, PurgeInv, Serially, OneRequest
  <1>1. slot[s].op = "launch" /\ slot[s].phase \in {"index", "write"} /\ member' = member
    BY DEF AdvanceIndex, AdvanceWrite, Is
  <1>r. PICK r \in Runs : r = slot[s].r
    BY <1>0, <1>1 DEF Sound
  <1>2. Live(r) /\ Exists(r)
    BY <1>0, <1>1, <1>r DEF Knows, Live, Exists, Active, SequenceRunAssumption
  <1>3. PICK phase \in {"write", "stamp"} : Goto(s, phase)
    BY DEF AdvanceIndex, AdvanceWrite
  <1>4. slot'[s].op = "launch" /\ slot'[s].phase = phase /\ slot'[s].r = r
    BY <1>0, <1>1, <1>3, <1>r, SlotTells
  <1>5. (\A q \in Runs : Live(q)' <=> Live(q)) => Knows(slot[s])'
    BY <1>2, <1>4 DEF Knows, CloseOps, DropOps, Live
  <1>6. /\ GoneGrows({}) /\ \A p \in Projects : member'[p].ended => Over(p)
        /\ slot[s].op # "delete" /\ slot'[s].op \notin CloseOps
    BY <1>1, <1>4 DEF GoneGrows, Over, CloseOps
  <1>7. CASE UNCHANGED run
    <2>1. Knows(slot[s])'
      BY <1>5, <1>7 DEF Live
    <2>2. \A q, p : ~Deleting(slot[s], p, q)
      BY <1>6 DEF Deleting
    <2> QED BY <1>0, <1>1, <1>6, <1>7, <2>1, <2>2, MovedAlone
  <1>8. ASSUME NEW i, Update(r, [index |-> i]) PROVE ChainInv' /\ UNCHANGED Contract!vars
    <2>1. PICK c : c = [index |-> i]
      OBVIOUS
    <2>2. "status" \notin DOMAIN c /\ "order" \notin DOMAIN c /\ Update(r, c)
      BY <1>8, <2>1
    <2> QED BY <1>0, <1>5, <1>6, <2>2, Rewritten
  <1>9. ASSUME NEW c, Update(r, c), DOMAIN c \subseteq {"status", "copy", "index"}, "status" \in DOMAIN c,
               c["status"] = "running", phase = "stamp"
        PROVE  ChainInv' /\ [Contract!Next]_(Contract!vars)
    <2>0. "order" \notin DOMAIN c /\ run \in [Runs -> RunRow]
      BY <1>0, <1>9, SameTyped
    <2>1. /\ \A q \in Runs \ {r} : run'[q] = run[q]
          /\ run'[r].status = "running" /\ run'[r].order = run[r].order
      BY <1>9, <2>0, Written
    <2>2. OverGrows({})
      BY <1>0, <1>6, OverSame
    <2>3. \A t \in Slots : \A p, q : ~Deleting(slot[t], p, q)
      BY <1>0, <1>6 DEF Deleting
    <2>4. Knows(slot[s])'
      BY <1>4, <1>9 DEF Knows, CloseOps, DropOps
    <2> QED BY <1>0, <1>2, <1>6, <2>1, <2>2, <2>3, <2>4, StatusWritten
  <1>10. CASE AdvanceIndex(s)
    BY <1>7, <1>8, <1>10, <1>r DEF AdvanceIndex
  <1>11. CASE AdvanceWrite(s)
    <2>1. phase = "stamp"
      <3>1. Goto(s, "stamp")
        BY <1>11 DEF AdvanceWrite
      <3> QED BY <1>0, <1>4, <3>1, SlotTells
    <2>2. PICK y : y = [slot[s].read.copy EXCEPT ![slot[s].p] = "implementing"]
      OBVIOUS
    <2>3. \/ Update(r, [status |-> "running", copy |-> y, index |-> 0])
          \/ Update(r, [status |-> "running", copy |-> y])
          \/ UNCHANGED run
      BY <1>11, <1>r, <2>2 DEF AdvanceWrite
    <2>4. CASE Update(r, [status |-> "running", copy |-> y, index |-> 0])
      <3>1. PICK c : c = [status |-> "running", copy |-> y, index |-> 0]
        OBVIOUS
      <3>2. DOMAIN c = {"status", "copy", "index"} /\ c["status"] = "running" /\ Update(r, c)
        BY <2>4, <3>1
      <3> QED BY <1>9, <2>1, <3>2
    <2>5. CASE Update(r, [status |-> "running", copy |-> y])
      <3>1. PICK c : c = [status |-> "running", copy |-> y]
        OBVIOUS
      <3>2. DOMAIN c = {"status", "copy"} /\ c["status"] = "running" /\ Update(r, c)
        BY <2>5, <3>1
      <3> QED BY <1>9, <2>1, <3>2
    <2> QED BY <1>7, <2>3, <2>4, <2>5
  <1> QED BY <1>10, <1>11

(* The heals of the copy.                                                   *)
LEMMA ChainHeals ==
    ASSUME ChainInv, PurgeInv', OverKept, Serially, NEW s \in Slots, GuardHeal(s) \/ TeardownHeal(s)
    PROVE  ChainInv' /\ UNCHANGED Contract!vars
  <1>0. RunInv /\ OneRequest /\ Sound(slot[s]) /\ Knows(slot[s])
    BY SameTyped DEF ChainInv, PurgeInv, Serially
  <1>1. slot[s].op \in TeardownOps /\ slot[s].phase \in {"heal", "reheal"} /\ member' = member
    BY DEF GuardHeal, TeardownHeal, Is, Teardown, TeardownOps
  <1>r. PICK r \in Runs : r = slot[s].r
    BY <1>0, <1>1 DEF Sound
  <1>2. Live(r)
    BY <1>0, <1>1, <1>r DEF Knows, Live
  <1>3. Return(s) \/ \E phase \in {"find", "settlement"} : Goto(s, phase)
    BY DEF GuardHeal, TeardownHeal, Answer
  <1>4. \/ slot'[s].op = "none" /\ slot'[s].phase = "idle"
        \/ slot'[s].op = slot[s].op /\ slot'[s].phase \in {"find", "settlement"} /\ slot'[s].r = r
    BY <1>0, <1>3, <1>r, SlotTells
  <1>5. (\A q \in Runs : Live(q)' <=> Live(q)) => Knows(slot[s])'
    BY <1>1, <1>2, <1>4 DEF Knows, CloseOps, DropOps, TeardownOps, Live
  <1>6. /\ GoneGrows({}) /\ \A p \in Projects : member'[p].ended => Over(p)
        /\ slot[s].op # "delete" /\ slot'[s].op \notin CloseOps
    BY <1>1, <1>4 DEF GoneGrows, Over, CloseOps, TeardownOps
  <1>7. CASE UNCHANGED run
    <2>1. Knows(slot[s])'
      BY <1>5, <1>7 DEF Live
    <2>2. \A q, p : ~Deleting(slot[s], p, q)
      BY <1>6 DEF Deleting
    <2> QED BY <1>0, <1>1, <1>6, <1>7, <2>1, <2>2, MovedAlone
  <1>8. ASSUME NEW y, Update(r, [copy |-> y]) PROVE ChainInv' /\ UNCHANGED Contract!vars
    <2>1. PICK c : c = [copy |-> y]
      OBVIOUS
    <2>2. "status" \notin DOMAIN c /\ "order" \notin DOMAIN c /\ Update(r, c)
      BY <1>8, <2>1
    <2> QED BY <1>0, <1>5, <1>6, <2>2, Rewritten
  <1> QED BY <1>7, <1>8, <1>r DEF GuardHeal, TeardownHeal, Persist

-----------------------------------------------------------------------------
(* Writes of a project.                                                     *)

(* Finishing a project that is closing already, or is not deleted by it.    *)
LEMMA FinishTells ==
    ASSUME RunInv, NEW p \in Projects, NEW row, NEW closed, Finish(p, row, closed)
    PROVE  /\ member'[p].row = row /\ member'[p].ended
           /\ \A q \in Projects \ {p} : member'[q] = member[q]
  <1>1. member \in [Projects -> Members]
    BY SameTyped
  <1>2. PICK b : b = (member[p].closed \/ closed)
    OBVIOUS
  <1> DEFINE m == [member[p] EXCEPT !.row = row, !.closed = b, !.ended = TRUE]
  <1>3. member' = [member EXCEPT ![p] = m]
    BY <1>1, <1>2, Zenon DEF Finish
  <1>4. m.row = row /\ m.ended = TRUE
    BY <1>1 DEF Members
  <1> HIDE DEF m
  <1> QED BY <1>1, <1>3, <1>4

(* The closeout of a member ends a project that was closing.                *)
LEMMA ClosingEnds ==
    ASSUME RunInv, NEW p \in Projects, Over(p), member[p].row # "deleted",
           \/ UNCHANGED member
           \/ \E row : row # "deleted" /\ Finish(p, row, TRUE)
    PROVE  /\ GoneGrows({}) /\ member'[p].row # "deleted"
           /\ \A q \in Projects : member'[q].ended => Over(q)
  <1>1. CASE UNCHANGED member
    BY <1>1 DEF GoneGrows, Over
  <1>2. ASSUME NEW row, row # "deleted", Finish(p, row, TRUE)
        PROVE  /\ GoneGrows({}) /\ member'[p].row # "deleted"
               /\ \A q \in Projects : member'[q].ended => Over(q)
    BY <1>2, FinishTells DEF GoneGrows, Over
  <1> QED BY <1>1, <1>2

LEMMA ChainMarks ==
    ASSUME SequenceRunAssumption, ChainInv, PurgeInv', OverKept, Serially, NEW s \in Slots, Mark(s)
    PROVE  ChainInv' /\ UNCHANGED Contract!vars
  <1>0. RunInv /\ OneRequest /\ Sound(slot[s]) /\ Knows(slot[s])
    BY SameTyped DEF ChainInv, PurgeInv, Serially
  <1>1. slot[s].op \in CloseOps /\ slot[s].phase = "mark"
    BY DEF Mark, CloseOps
  <1>r. PICK r \in Runs : r = slot[s].r
    BY <1>0, <1>1 DEF Sound
  <1>p. PICK p \in Projects : p = slot[s].p
    BY <1>0, <1>1 DEF Sound, ProjectOps, CloseOps
  <1>2. Exists(r)
    BY <1>0, <1>1, <1>r DEF Knows, Live, Exists, Active, SequenceRunAssumption
  <1>3. Over(p) /\ member[p].row # "deleted"
    BY <1>0, <1>1, <1>p DEF Knows, Over, Closing, CloseOps
  <1>4. Goto(s, "commit")
    BY <1>2, <1>r DEF Mark
  <1>5. slot'[s].op = slot[s].op /\ slot'[s].phase = "commit" /\ slot'[s].p = p
    BY <1>0, <1>4, <1>p, SlotTells
  <1>6. UNCHANGED member \/ Finish(p, member[p].row, TRUE)
    <2>1. ASSUME slot[s].op = "close", Finish(slot[s].p, member[slot[s].p].row, TRUE)
          PROVE  Finish(p, member[p].row, TRUE)
      BY <2>1, <1>p, Zenon
    <2> QED BY <2>1 DEF Mark
  <1>7. /\ GoneGrows({}) /\ member'[p].row # "deleted"
        /\ \A q \in Projects : member'[q].ended => Over(q)
    BY <1>0, <1>3, <1>6, ClosingEnds
  <1>8. Knows(slot[s])'
    BY <1>1, <1>5, <1>7 DEF Knows, CloseOps, DropOps
  <1>9. slot[s].op # "delete" /\ \A q, x : ~Deleting(slot[s], x, q)
    BY <1>1 DEF Deleting, CloseOps
  <1>10. CASE UNCHANGED run
    <2>1. \A q \in Runs : StageKept(q) /\ run'[q].order = run[q].order
      BY <1>10 DEF StageKept
    <2> QED BY <1>0, <1>1, <1>5, <1>7, <1>8, <1>9, <1>p, <2>1, Moved
  <1>11. ASSUME NEW y, Update(r, [copy |-> y]) PROVE ChainInv' /\ UNCHANGED Contract!vars
    <2>1. PICK c : c = [copy |-> y]
      OBVIOUS
    <2>2. "status" \notin DOMAIN c /\ "order" \notin DOMAIN c /\ Update(r, c)
      BY <1>11, <2>1
    <2> QED BY <1>0, <1>1, <1>5, <1>7, <1>8, <1>9, <1>p, <2>2, Rewritten
  <1> QED BY <1>10, <1>11, <1>r DEF Mark

LEMMA ChainCommits ==
    ASSUME ChainInv, PurgeInv', OverKept, Serially, NEW s \in Slots, CommitCloseout(s)
    PROVE  ChainInv' /\ UNCHANGED Contract!vars
  <1>0. RunInv /\ OneRequest /\ Sound(slot[s]) /\ Knows(slot[s])
    BY SameTyped DEF ChainInv, PurgeInv, Serially
  <1>1. slot[s].op \in CloseOps /\ Return(s) /\ run' = run
    BY DEF CommitCloseout, CloseOps
  <1>p. PICK p \in Projects : p = slot[s].p
    BY <1>0, <1>1 DEF Sound, ProjectOps, CloseOps
  <1>2. Over(p) /\ member[p].row # "deleted"
    BY <1>0, <1>1, <1>p DEF Knows, Over, Closing, CloseOps
  <1>3. PICK row : row # "deleted" /\ Finish(p, row, TRUE)
    <2>1. PICK row : /\ row = IF slot[s].op = "close" /\ slot[s].r = NoRun
                                THEN member[slot[s].p].row ELSE "completed"
                     /\ Finish(slot[s].p, row, TRUE)
      BY DEF CommitCloseout, Serially
    <2>2. row # "deleted"
      BY <1>2, <1>p, <2>1
    <2> QED BY <1>p, <2>1, <2>2, Zenon
  <1>4. GoneGrows({}) /\ \A q \in Projects : member'[q].ended => Over(q)
    BY <1>0, <1>2, <1>3, ClosingEnds
  <1>5. slot'[s].op = "none" /\ Knows(slot[s])'
    BY <1>0, <1>1, Forgets
  <1>6. \A q, x : ~Deleting(slot[s], x, q)
    BY <1>1 DEF Deleting, CloseOps
  <1>7. \A q \in Runs : StageKept(q) /\ run'[q].order = run[q].order
    BY <1>1 DEF StageKept
  <1> QED BY <1>0, <1>4, <1>5, <1>6, <1>7, Moved DEF CloseOps

LEMMA ChainStamps ==
    ASSUME ChainInv, PurgeInv', OverKept, Serially, NEW s \in Slots, StampLaunch(s)
    PROVE  ChainInv' /\ UNCHANGED Contract!vars
  <1>0. RunInv /\ OneRequest /\ Sound(slot[s]) /\ member \in [Projects -> Members]
    BY SameTyped DEF ChainInv, PurgeInv, Serially
  <1>1. Return(s) /\ run' = run /\ slot[s].p \in Projects /\ slot[s].op = "launch"
    BY <1>0 DEF StampLaunch, Is, Sound, ProjectOps
  <1>2. slot'[s].op = "none" /\ Knows(slot[s])'
    BY <1>0, <1>1, Forgets
  <1>3. PICK m : m = [member[slot[s].p] EXCEPT !.launched = TRUE]
    OBVIOUS
  <1>4. m.row = member[slot[s].p].row /\ m.ended = member[slot[s].p].ended
    BY <1>0, <1>1, <1>3 DEF Members
  <1>5. member' = [member EXCEPT ![slot[s].p] = m]
    BY <1>0, <1>3 DEF StampLaunch, Serially
  <1>6. GoneGrows({}) /\ \A q \in Projects : member'[q].ended => Over(q)
    BY <1>0, <1>1, <1>4, <1>5 DEF GoneGrows, Over
  <1>7. \A q, x : ~Deleting(slot[s], x, q)
    BY <1>1 DEF Deleting
  <1>8. \A q \in Runs : StageKept(q) /\ run'[q].order = run[q].order
    BY <1>1 DEF StageKept
  <1> QED BY <1>0, <1>2, <1>6, <1>7, <1>8, Moved DEF CloseOps

LEMMA ChainResets ==
    ASSUME ChainInv, PurgeInv', OverKept, Serially, NEW s \in Slots, ResetMember(s)
    PROVE  ChainInv' /\ UNCHANGED Contract!vars
  <1>0. RunInv /\ OneRequest /\ Sound(slot[s]) /\ Knows(slot[s]) /\ slot \in [Slots -> Request]
        /\ member \in [Projects -> Members]
    BY SameTyped DEF ChainInv, PurgeInv, Serially
  <1>1. slot[s].op = "deactivate" /\ slot[s].phase = "reset" /\ run' = run
    BY DEF ResetMember, Is
  <1>r. PICK r \in Runs : r = slot[s].r
    BY <1>0, <1>1 DEF Sound
  <1>2. PICK y : y = [slot[s].read EXCEPT !.order = Tail(@)]
    OBVIOUS
  <1>3. PICK x : x = [slot[s] EXCEPT !.read = y]
    OBVIOUS
  <1>4. slot' = [slot EXCEPT ![s] = x]
    BY <1>2, <1>3 DEF ResetMember
  <1>5. slot'[s].op = "deactivate" /\ slot'[s].phase = "reset" /\ slot'[s].r = r
    BY <1>0, <1>1, <1>3, <1>4, <1>r DEF Request
  <1>6. Knows(slot[s])'
    BY <1>0, <1>1, <1>5, <1>r DEF Knows, CloseOps, DropOps, Live
  <1>p. PICK p \in Projects : p = Head(slot[s].read.order)
    <2>1. slot[s].read.order \in Seq(Projects) /\ slot[s].read.order # <<>>
      BY <1>0 DEF ResetMember, Request, RunRow
    <2> QED BY <2>1
  <1>7. PICK row : row = IF member[p].row = "deleted" THEN member[p].row ELSE "live"
    OBVIOUS
  <1>8. PICK m : m = [member[p] EXCEPT !.row = row, !.launched = FALSE, !.asked = FALSE]
    OBVIOUS
  <1>9. member' = [member EXCEPT ![p] = m]
    BY <1>0, <1>7, <1>8, <1>p DEF ResetMember, Members
  <1>10. m.row = row /\ m.ended = member[p].ended
    BY <1>0, <1>8 DEF Members
  <1>11. GoneGrows({}) /\ \A q \in Projects : member'[q].ended => Over(q)
    BY <1>0, <1>7, <1>9, <1>10 DEF GoneGrows, Over
  <1>12. \A q, z : ~Deleting(slot[s], z, q)
    BY <1>1 DEF Deleting
  <1>13. \A q \in Runs : StageKept(q) /\ run'[q].order = run[q].order
    BY <1>1 DEF StageKept
  <1> QED BY <1>0, <1>5, <1>6, <1>11, <1>12, <1>13, Moved DEF CloseOps

(* Served on its own, a call finds no request in flight.                    *)
LEMMA NoneInFlight ==
    ASSUME RunInv, Quiet, slot' = slot
    PROVE  /\ \A s \in Slots : slot[s].op = "none" /\ Knows(slot[s])'
           /\ \A s \in Slots : \A p, r : ~Deleting(slot[s], p, r)
           /\ \A p \in Projects : /\ Over(p) => member[p].ended
                                  /\ Over(p)' <=> member'[p].ended
  <1>1. \A s \in Slots : slot[s].phase = "idle" /\ slot[s].op = "none"
    BY SameTyped, AbsentRow DEF Quiet, Sound
  <1>2. \A s \in Slots : slot'[s].phase = "idle" /\ slot'[s].op = "none"
    BY <1>1
  <1> QED BY <1>1, <1>2 DEF Knows, CloseOps, DropOps, Deleting, Over, Closing

LEMMA ChainElsewhere ==
    ASSUME ChainInv, PurgeInv', OverKept, Serially, NEW p \in Projects,
           Archive(p) \/ Reopen(p) \/ AskSettlement(p)
    PROVE  ChainInv' /\ [Contract!Next]_(Contract!vars)
  <1>0. /\ RunInv /\ run' = run /\ slot' = slot /\ Quiet /\ member \in [Projects -> Members]
    BY SameTyped DEF ChainInv, PurgeInv, Serially, Archive, Reopen, AskSettlement, Served
  <1>1. /\ \A s \in Slots : slot[s].op = "none" /\ Knows(slot[s])'
        /\ \A s \in Slots : \A x, r : ~Deleting(slot[s], x, r)
        /\ \A x \in Projects : /\ Over(x) => member[x].ended
                               /\ Over(x)' <=> member'[x].ended
    BY <1>0, NoneInFlight
  <1>2. RunsKept /\ \A r \in Runs : Live(r)' <=> Live(r)
    BY <1>0 DEF RunsKept, StageKept, OrderKept, Live
  <1>3. CASE Archive(p)
    <2>1. Finish(p, "terminated", FALSE) /\ member[p].row = "live"
      BY <1>3 DEF Archive
    <2>2. /\ member'[p].row = "terminated" /\ member'[p].ended
          /\ \A q \in Projects \ {p} : member'[q] = member[q]
      BY <1>0, <2>1, FinishTells
    <2>3. GoneGrows({})
      BY <2>1, <2>2 DEF GoneGrows
    <2>4. OverGrows({p})
      BY <1>1, <2>2 DEF OverGrows, Over
    <2>5. ChainInv'
      BY <1>0, <1>1, <1>2, <2>3, ChainKept
    <2> QED BY <1>2, <2>3, <2>4, <2>5, FinishesOne
  <1>4. ASSUME NEW m, member' = [member EXCEPT ![p] = m], m.ended = member[p].ended,
               m.row = "deleted" <=> member[p].row = "deleted"
        PROVE  ChainInv' /\ UNCHANGED Contract!vars
    <2>1. GoneGrows({})
      BY <1>0, <1>4 DEF GoneGrows
    <2>2. OverGrows({})
      BY <1>0, <1>1, <1>4 DEF OverGrows, Over
    <2>3. ChainInv'
      BY <1>0, <1>1, <1>2, <2>1, ChainKept
    <2> QED BY <1>2, <2>1, <2>2, <2>3, Stutters
  <1>5. CASE Reopen(p)
    <2>1. PICK m : m = [member[p] EXCEPT !.row = "live"]
      OBVIOUS
    <2>2. /\ m.ended = member[p].ended /\ m.row = "live" /\ member[p].row = "completed"
          /\ member' = [member EXCEPT ![p] = m]
      BY <1>0, <1>5, <2>1 DEF Reopen, Members
    <2> QED BY <1>4, <2>2
  <1>6. CASE AskSettlement(p)
    <2>1. PICK m : m = [member[p] EXCEPT !.asked = TRUE]
      OBVIOUS
    <2>2. m.ended = member[p].ended /\ m.row = member[p].row /\ member' = [member EXCEPT ![p] = m]
      BY <1>0, <1>6, <2>1 DEF AskSettlement, Members
    <2> QED BY <1>4, <2>2
  <1> QED BY <1>3, <1>5, <1>6

LEMMA ChainCancels ==
    ASSUME ChainInv, PurgeInv', OverKept, Serially, NEW r \in Runs, Cancel(r)
    PROVE  ChainInv' /\ [Contract!Next]_(Contract!vars)
  <1>0. RunInv /\ member' = member /\ slot' = slot /\ Quiet /\ Live(r) /\ run \in [Runs -> RunRow]
    BY SameTyped DEF ChainInv, PurgeInv, Serially, Cancel, Served, Live
  <1>1. /\ \A s \in Slots : slot[s].op = "none" /\ Knows(slot[s])'
        /\ \A s \in Slots : \A p, q : ~Deleting(slot[s], p, q)
        /\ \A p \in Projects : Over(p)' <=> Over(p)
    BY <1>0, NoneInFlight DEF Over
  <1>2. GoneGrows({}) /\ OverGrows({})
    BY <1>0, <1>1 DEF GoneGrows, OverGrows
  <1>3. PICK c : c = [status |-> "cancelled"]
    OBVIOUS
  <1>4. DOMAIN c = {"status"} /\ c["status"] = "cancelled" /\ Update(r, c)
    BY <1>3 DEF Cancel
  <1>5. /\ \A q \in Runs \ {r} : run'[q] = run[q]
        /\ run'[r].status = "cancelled" /\ run'[r].order = run[r].order
    BY <1>0, <1>4, Written
  <1>6. run'[r].status \in {"running", "stalled"} \cup Ended
    BY <1>5 DEF Ended
  <1> QED BY <1>0, <1>1, <1>2, <1>5, <1>6, StatusWritten

-----------------------------------------------------------------------------
(* A new run, and one that is deleted.                                      *)

LEMMA ChainCreates ==
    ASSUME ChainInv, PurgeInv', OverKept, Serially, NEW s \in Slots, Create(s)
    PROVE  ChainInv' /\ Contract!Next
  <1>0. RunInv /\ OneRequest /\ Sound(slot[s]) /\ Knows(slot[s]) /\ (\A t \in Slots : t = s)
        /\ run \in [Runs -> RunRow] /\ slot[s] \in Request
    BY SameTyped DEF ChainInv, PurgeInv, Serially, OneRequest
  <1>1. /\ slot[s].op = "start" /\ slot[s].phase = "create" /\ Return(s) /\ member' = member
    BY DEF Create, Is
  <1>2. PICK r \in Runs : run[r].status = "none" /\ run' = [run EXCEPT ![r] = slot[s].read]
    BY DEF Create
  <1>x. PICK x : x = slot[s].read
    OBVIOUS
  <1>3. /\ x \in RunRow /\ x.status = "pending" /\ x.order # <<>>
        /\ \A p \in ToSet(x.order) : /\ member[p].row # "deleted"
                                     /\ \A q \in Runs : Live(q) => p \notin ToSet(run[q].order)
    <2>1. x \in RunRow /\ x.status = "pending"
      BY <1>0, <1>1, <1>x DEF Request, Sound
    <2> QED BY <1>0, <1>1, <1>x, <2>1 DEF Knows
  <1>4. run'[r] = x /\ \A q \in Runs \ {r} : run'[q] = run[q]
    BY <1>0, <1>2, <1>x
  <1>5. PICK chain : chain = ToSet(x.order)
    OBVIOUS
  <1>6. chain \in SUBSET Projects /\ chain # {}
    <2>1. x.order \in Seq(Projects) /\ x.order # <<>>
      BY <1>3 DEF RunRow
    <2>2. PICK w : w = x.order
      OBVIOUS
    <2>3. 1 \in DOMAIN w /\ \A i \in DOMAIN w : w[i] \in Projects
      BY <2>1, <2>2
    <2>4. chain = {w[i] : i \in DOMAIN w}
      BY <1>5, <2>2 DEF ToSet
    <2> QED BY <2>3, <2>4
  <1>7. slot'[s].op = "none" /\ Knows(slot[s])'
    BY <1>0, <1>1, Forgets
  <1>8. ~Live(r) /\ \A t \in Slots : \A p, q : ~Deleting(slot[t], p, q)
    BY <1>0, <1>1, <1>2 DEF Live, Active, Deleting
  <1>9. Apart'
    <2> SUFFICES ASSUME NEW q \in Runs, NEW t \in Runs, Live(q)', Live(t)', q # t,
                        NEW p \in ToSet(run'[q].order), p \in ToSet(run'[t].order)
                 PROVE  FALSE
      BY DEF Apart
    <2>1. CASE q = r
      <3>1. run'[t] = run[t] /\ Live(t) /\ run'[q] = x
        BY <1>4, <2>1 DEF Live
      <3> QED BY <1>3, <3>1
    <2>2. CASE t = r
      <3>1. run'[q] = run[q] /\ Live(q) /\ run'[t] = x
        BY <1>4, <2>2 DEF Live
      <3> QED BY <1>3, <3>1
    <2>3. CASE q # r /\ t # r
      <3>1. run'[q] = run[q] /\ Live(q) /\ run'[t] = run[t] /\ Live(t)
        BY <1>4, <2>3 DEF Live
      <3> QED BY <3>1 DEF ChainInv, Apart
    <2> QED BY <2>1, <2>2, <2>3
  <1>10. DeletedLeave'
    <2> SUFFICES ASSUME NEW q \in Runs, Live(q)', NEW p \in ToSet(run'[q].order),
                        member'[p].row = "deleted"
                 PROVE  FALSE
      BY DEF DeletedLeave
    <2>1. CASE q = r
      BY <1>1, <1>3, <1>4, <2>1
    <2>2. CASE q # r
      <3>1. run'[q] = run[q] /\ Live(q)
        BY <1>4, <2>2 DEF Live
      <3> QED BY <1>1, <1>8, <3>1 DEF ChainInv, DeletedLeave
    <2> QED BY <2>1, <2>2
  <1>11. ChainInv'
    BY <1>0, <1>7, <1>9, <1>10 DEF ChainInv
  <1>12. GoneGrows({}) /\ OverGrows({})
    <2>1. \A p \in Projects : member'[p].ended => Over(p)
      BY <1>1 DEF Over
    <2>2. OverGrows({})
      BY <1>0, <1>7, <2>1, OverSame DEF CloseOps
    <2> QED BY <1>1, <2>2 DEF GoneGrows
  <1>13. StageOf(run[r].status) = "none" /\ StageOf(run'[r].status) = "open"
    <2>1. run'[r].status = "pending"
      BY <1>3, <1>4
    <2> QED BY <1>2, <2>1 DEF StageOf, Ended
  <1>14. \A q \in Runs \ {r} : StageKept(q) /\ OrderKept(q)
    BY <1>4 DEF StageKept, OrderKept
  <1>15. \A q \in Runs : StageOf(run[q].status) \in {"open", "underway"} => Live(q)
    BY <1>0, StagesLive
  <1>16. Contract!Next
    BY <1>3, <1>4, <1>5, <1>6, <1>12, <1>13, <1>14, <1>15, EnrolsAll
  <1> QED BY <1>11, <1>16

LEMMA ChainPurges ==
    ASSUME ChainInv, PurgeInv', OverKept, Serially, NEW s \in Slots, Purge(s)
    PROVE  ChainInv' /\ Contract!Next
  <1>0. RunInv /\ OneRequest /\ Sound(slot[s]) /\ Knows(slot[s]) /\ (\A t \in Slots : t = s)
        /\ run \in [Runs -> RunRow] /\ TearsDown(slot[s])
    BY SameTyped DEF ChainInv, PurgeInv, Serially, OneRequest
  <1>1. /\ slot[s].op \in TeardownOps /\ slot[s].phase = "purge" /\ Return(s) /\ member' = member
    BY DEF Purge, Teardown, TeardownOps
  <1>r. PICK r \in Runs : r = slot[s].r
    BY <1>0, <1>1 DEF Sound
  <1>2. Live(r) /\ \A p \in ToSet(run[r].order) : p \in Projects /\ Over(p)
    <2>1. Live(r)
      BY <1>0, <1>1, <1>r DEF Knows, Live
    <2>2. \A p \in ToSet(run[r].order) : Over(p)
      BY <1>0, <1>1, <1>r, <2>1 DEF TearsDown, Late, Live, Active
    <2> QED BY <1>0, <2>1, <2>2, StagesLive
  <1>3. PICK x : x = [Absent EXCEPT !.status = "purged"]
    OBVIOUS
  <1>4. x.status = "purged" /\ x.order = <<>> /\ run' = [run EXCEPT ![r] = x]
    BY <1>3, <1>r DEF Absent, NewRun, Purge
  <1>5. run'[r] = x /\ \A q \in Runs \ {r} : run'[q] = run[q]
    BY <1>0, <1>4
  <1>6. ToSet(run'[r].order) = {} /\ StageOf(run'[r].status) = "purged" /\ ~Live(r)'
    BY <1>4, <1>5 DEF ToSet, StageOf, Ended, Live, Active
  <1>7. slot'[s].op = "none" /\ Knows(slot[s])'
    BY <1>0, <1>1, Forgets
  <1>8. \A t \in Slots : \A p, q : ~Deleting(slot[t], p, q)
    BY <1>0, <1>1 DEF Deleting, TeardownOps
  <1>9. GoneGrows({}) /\ OverGrows({})
    <2>1. \A p \in Projects : member'[p].ended => Over(p)
      BY <1>1 DEF Over
    <2>2. OverGrows({})
      BY <1>0, <1>7, <2>1, OverSame DEF CloseOps
    <2> QED BY <1>1, <2>2 DEF GoneGrows
  <1>10. \A q \in Runs : Live(q)' => Live(q) /\ ToSet(run'[q].order) \subseteq ToSet(run[q].order)
    <2> SUFFICES ASSUME NEW q \in Runs, Live(q)'
                 PROVE  Live(q) /\ ToSet(run'[q].order) \subseteq ToSet(run[q].order)
      OBVIOUS
    <2>1. q # r
      BY <1>6
    <2>2. run'[q] = run[q]
      BY <1>5, <2>1
    <2> QED BY <2>2 DEF Live
  <1>11. ChainInv'
    BY <1>0, <1>7, <1>8, <1>9, <1>10, ChainKept
  <1>12. StageOf(run[r].status) \in {"open", "underway"}
    BY <1>0, <1>2, StagesLive
  <1>13. \A q \in Runs \ {r} : StageKept(q) /\ OrderKept(q)
    BY <1>5 DEF StageKept, OrderKept
  <1>14. Contract!Next
    BY <1>2, <1>6, <1>9, <1>12, <1>13, PurgesOne
  <1> QED BY <1>11, <1>14

-----------------------------------------------------------------------------
(* Leaving a run.                                                           *)

(* And nothing else is taken out of it.                                     *)
LEMMA WithoutKeeps ==
    ASSUME NEW order \in Seq(Projects), NEW p
    PROVE  \A k \in 1..Len(order) : order[k] # p => \E i \in DOMAIN Without(order, p) :
                                                      Without(order, p)[i] = order[k]
  <1>0. Len(order) \in Nat
    OBVIOUS
  <1> DEFINE g == CHOOSE g : Upto(g, order, p, Len(order))
  <1>1. Upto(g, order, p, Len(order))
    BY <1>0, WithoutExists
  <1>2. Without(order, p) = g[Len(order)]
    BY Zenon DEF Without, Upto
  <1> HIDE DEF g
  <1> DEFINE Has(m) == /\ g[m] \in Seq(Projects)
                       /\ \A k \in 1..m : order[k] # p => \E i \in 1..Len(g[m]) : g[m][i] = order[k]
             T == {m \in 0..Len(order) : ~Has(m)}
  <1>3. T = {}
    <2>1. SUFFICES ASSUME T # {} PROVE FALSE
      OBVIOUS
    <2>2. T \in SUBSET Nat
      BY <1>0
    <2> HIDE DEF T
    <2>3. PICK m \in T : \A k \in T : m <= k
      BY <2>1, <2>2, LeastExists
    <2>4. m \in 0..Len(order) /\ ~Has(m)
      BY <2>3 DEF T
    <2>5. CASE m = 0
      <3>1. g[m] = <<>>
        BY <1>0, <1>1, <2>5 DEF Upto
      <3>2. <<>> \in Seq(Projects) /\ 1..0 = {}
        OBVIOUS
      <3> QED BY <2>4, <2>5, <3>1, <3>2
    <2>6. CASE m # 0
      <3>1. m - 1 \in 0..Len(order) /\ m - 1 \notin T
        BY <1>0, <2>3, <2>4, <2>6
      <3>2. Has(m - 1)
        BY <3>1 DEF T
      <3>3. g[m] = IF order[m] = p THEN g[m - 1] ELSE Append(g[m - 1], order[m])
        BY <1>1, <2>4, <2>6 DEF Upto
      <3>4. order[m] \in Projects /\ m \in Nat /\ m - 1 \in Nat
        BY <1>0, <2>4, <2>6
      <3>5. PICK h : h = g[m - 1]
        OBVIOUS
      <3>6. /\ h \in Seq(Projects)
            /\ \A k \in 1..(m - 1) : order[k] # p => \E i \in 1..Len(h) : h[i] = order[k]
        BY <3>2, <3>5
      <3>7. CASE order[m] = p
        <4>1. \A k \in 1..m : order[k] # p => k \in 1..(m - 1)
          BY <3>4, <3>7
        <4>2. g[m] = h
          BY <3>3, <3>5, <3>7
        <4> QED BY <2>4, <3>6, <4>1, <4>2
      <3>8. CASE order[m] # p
        <4>0. PICK f : f = Append(h, order[m])
          OBVIOUS
        <4>1. /\ f \in Seq(Projects) /\ Len(f) = Len(h) + 1 /\ f[Len(h) + 1] = order[m]
              /\ (\A i \in 1..Len(h) : f[i] = h[i]) /\ Len(h) \in Nat
          BY <3>4, <3>6, <4>0
        <4>2. ASSUME NEW k \in 1..m, order[k] # p PROVE \E i \in 1..Len(f) : f[i] = order[k]
          <5>1. CASE k = m
            <6>1. Len(h) + 1 \in 1..Len(f)
              BY <4>1
            <6> QED BY <4>1, <5>1, <6>1
          <5>2. CASE k # m
            <6>1. k \in 1..(m - 1)
              BY <3>4, <5>2
            <6>2. PICK i \in 1..Len(h) : h[i] = order[k]
              BY <3>6, <4>2, <6>1
            <6>3. i \in 1..Len(f)
              BY <4>1, <6>2
            <6> QED BY <4>1, <6>2, <6>3
          <5> QED BY <5>1, <5>2
        <4>3. g[m] = f
          BY <3>3, <3>5, <3>8, <4>0
        <4> QED BY <2>4, <4>1, <4>2, <4>3
      <3> QED BY <3>7, <3>8
    <2> QED BY <2>5, <2>6
  <1>4. Has(Len(order))
    BY <1>0, <1>3
  <1> QED BY <1>2, <1>4

LEMMA WithoutSet ==
    ASSUME NEW order \in Seq(Projects), NEW p
    PROVE  ToSet(Without(order, p)) = ToSet(order) \ {p}
  <1>1. PICK left : left = Without(order, p)
    OBVIOUS
  <1>2. LeftOf(left, order, p, Len(order))
    BY <1>1, WithoutOrdered
  <1>3. \A k \in 1..Len(order) : order[k] # p => \E i \in DOMAIN left : left[i] = order[k]
    BY <1>1, WithoutKeeps
  <1>4. left \in Seq(Projects) /\ DOMAIN left = 1..Len(left) /\ DOMAIN order = 1..Len(order)
    BY <1>2 DEF LeftOf
  <1>5. \A i \in DOMAIN left : \E k \in DOMAIN order : left[i] = order[k] /\ order[k] # p
    BY <1>2, <1>4 DEF LeftOf
  <1>6. /\ ToSet(left) = {left[i] : i \in DOMAIN left}
        /\ ToSet(order) = {order[i] : i \in DOMAIN order}
    BY DEF ToSet
  <1> QED BY <1>1, <1>3, <1>4, <1>5, <1>6

LEMMA ChainDrops ==
    ASSUME SequenceRunAssumption, ChainInv, PurgeInv', OverKept, Serially, NEW s \in Slots, DropMember(s)
    PROVE  ChainInv' /\ [Contract!Next]_(Contract!vars)
  <1>0. RunInv /\ OneRequest /\ Sound(slot[s]) /\ Knows(slot[s]) /\ (\A t \in Slots : t = s)
        /\ run \in [Runs -> RunRow]
    BY SameTyped DEF ChainInv, PurgeInv, Serially, OneRequest
  <1>1. slot[s].op \in DropOps /\ slot[s].phase = "write" /\ Return(s) /\ member' = member
    BY DEF DropMember, DropOps
  <1>r. PICK r \in Runs : r = slot[s].r
    BY <1>0, <1>1 DEF Sound
  <1>p. PICK p \in Projects : p = slot[s].p
    BY <1>0, <1>1 DEF Sound, ProjectOps, DropOps
  <1>2. slot[s].read = run[r] /\ run[r].status \in (Active \cup Ended) \ {"running", "stalled"}
    BY <1>0, <1>1, <1>r DEF Knows
  <1>3. Exists(r)
    BY <1>2 DEF Exists, Active, Ended, SequenceRunAssumption
  <1>4. slot'[s].op = "none" /\ Knows(slot[s])'
    BY <1>0, <1>1, Forgets
  <1>5. GoneGrows({}) /\ OverGrows({})
    <2>1. \A q \in Projects : member'[q].ended => Over(q)
      BY <1>1 DEF Over
    <2>2. OverGrows({})
      BY <1>0, <1>4, <2>1, OverSame DEF CloseOps
    <2> QED BY <1>1, <2>2 DEF GoneGrows
  <1>6. \A t \in Slots : \A x, q : Deleting(slot[t], x, q) => x = p /\ q = r
    BY <1>0, <1>1, <1>r, <1>p DEF Deleting
  <1>7. PICK left : left = Without(run[r].order, p)
    OBVIOUS
  <1>8. ToSet(left) = ToSet(run[r].order) \ {p}
    BY <1>0, <1>7, WithoutSet DEF RunRow
  <1>9. PICK y, i : y = [run[r].copy EXCEPT ![p] = "pending"] /\ i = Reindexed(run[r], p)
    OBVIOUS
  <1>10. \/ Update(r, [status |-> "cancelled"])
         \/ Update(r, [order |-> left, copy |-> y])
         \/ Update(r, [order |-> left, copy |-> y, index |-> i])
    BY <1>2, <1>3, <1>7, <1>9, <1>r, <1>p DEF DropMember, Columns
  <1>11. CASE Update(r, [status |-> "cancelled"])
    <2>1. PICK c : c = [status |-> "cancelled"]
      OBVIOUS
    <2>2. DOMAIN c = {"status"} /\ c["status"] = "cancelled" /\ Update(r, c)
      BY <1>11, <2>1
    <2>3. /\ \A q \in Runs \ {r} : run'[q] = run[q]
          /\ run'[r].status = "cancelled" /\ run'[r].order = run[r].order
      BY <1>0, <2>2, Written
    <2>4. ~Live(r)' /\ run'[r].status \in Ended
      BY <2>3 DEF Live, Active, Ended
    <2>5. CASE Live(r)
      BY <1>0, <1>4, <1>5, <1>6, <2>3, <2>4, <2>5, StatusWritten
    <2>6. CASE ~Live(r)
      <3>1. run[r].status \in Ended
        BY <1>2, <2>6 DEF Live
      <3>2. RunsKept
        BY <2>3, <2>4, <3>1 DEF RunsKept, StageKept, OrderKept, StageOf, Ended
      <3>3. \A q \in Runs : Live(q)' => Live(q) /\ ToSet(run'[q].order) \subseteq ToSet(run[q].order)
        BY <2>3, <2>4 DEF Live
      <3>4. ChainInv'
        BY <1>0, <1>4, <1>5, <1>6, <2>4, <3>3, ChainKept
      <3> QED BY <1>5, <3>2, <3>4, Stutters
    <2> QED BY <2>5, <2>6
  <1>12. ASSUME NEW c, Update(r, c), "status" \notin DOMAIN c, "order" \in DOMAIN c, c["order"] = left
         PROVE  ChainInv' /\ [Contract!Next]_(Contract!vars)
    <2>1. /\ \A q \in Runs \ {r} : run'[q] = run[q]
          /\ run'[r].status = run[r].status /\ run'[r].order = left
      BY <1>0, <1>12, Written
    <2>2. /\ \A q \in Runs : StageKept(q)
          /\ \A q \in Runs \ {r} : OrderKept(q)
      BY <2>1 DEF StageKept, OrderKept
    <2>3. StageOf(run[r].status) # "underway"
      BY <1>2 DEF StageOf, Active, Ended
    <2>4. Contract!Next
      BY <1>5, <1>8, <2>1, <2>2, <2>3, LeavesOne
    <2>5. \A q \in Runs : Live(q)' => Live(q) /\ ToSet(run'[q].order) \subseteq ToSet(run[q].order)
      BY <1>8, <2>1 DEF Live
    <2>6. \A q \in Runs : \A x \in ToSet(run'[q].order), t \in Slots : ~Deleting(slot[t], x, q)
      BY <1>6, <1>8, <2>1
    <2>7. ChainInv'
      BY <1>0, <1>4, <1>5, <2>5, <2>6, ChainKept
    <2> QED BY <2>4, <2>7
  <1>13. CASE Update(r, [order |-> left, copy |-> y])
    <2>1. PICK c : c = [order |-> left, copy |-> y]
      OBVIOUS
    <2>2. "status" \notin DOMAIN c /\ "order" \in DOMAIN c /\ c["order"] = left /\ Update(r, c)
      BY <1>13, <2>1
    <2> QED BY <1>12, <2>2
  <1>14. CASE Update(r, [order |-> left, copy |-> y, index |-> i])
    <2>1. PICK c : c = [order |-> left, copy |-> y, index |-> i]
      OBVIOUS
    <2>2. "status" \notin DOMAIN c /\ "order" \in DOMAIN c /\ c["order"] = left /\ Update(r, c)
      BY <1>14, <2>1
    <2> QED BY <1>12, <2>2
  <1> QED BY <1>10, <1>11, <1>13, <1>14

-----------------------------------------------------------------------------
LEMMA ChainStep ==
    ASSUME SequenceRunAssumption, Serially, ChainInv, [Next]_vars
    PROVE  ChainInv' /\ [Contract!Next]_(Contract!vars)
  <1>0. PurgeInv' /\ OverKept /\ RunInv
    BY PurgeInvStep, RunInvStep DEF ChainInv, PurgeInv, Serially
  <1>1. CASE UNCHANGED vars
    <2>1. run' = run /\ member' = member /\ slot' = slot
      BY <1>1 DEF vars
    <2>2. RunsKept /\ GoneGrows({}) /\ OverGrows({})
      BY <2>1 DEF RunsKept, StageKept, OrderKept, GoneGrows, OverGrows, Over, Closing
    <2>3. \A s \in Slots : Knows(slot[s])'
      BY <2>1 DEF ChainInv, Knows, Live
    <2>4. \A r \in Runs : Live(r)' <=> Live(r)
      BY <2>1 DEF Live
    <2>5. ChainInv'
      BY <1>0, <2>1, <2>2, <2>3, <2>4, ChainKept
    <2> QED BY <2>2, <2>5, Stutters
  <1>2. ASSUME NEW s \in Slots, Proceed(s) PROVE ChainInv' /\ [Contract!Next]_(Contract!vars)
    BY <1>0, <1>2, ChainLookups, ChainStatuses, ChainAdvances, ChainHeals, ChainMarks, ChainCommits,
       ChainStamps, ChainResets, ChainCreates, ChainPurges, ChainDrops DEF Proceed
  <1>3. ASSUME NEW s \in Slots,
               \/ \E p \in Projects : \/ StagingEnd(s, p) \/ GoSilent(s, p)
                                      \/ \E r \in Runs : RemoveMember(s, r, p)
               \/ \E r \in Runs : CompleteJob(s, r) \/ Decide(s, r) \/ ReleaseGracefully(s, r)
                                  \/ OpenPage(s, r) \/ DeactivateChain(s, r)
               \/ \E chain \in Chains : Start(s, chain)
        PROVE  ChainInv' /\ [Contract!Next]_(Contract!vars)
    BY <1>0, <1>3, ChainBegins
  <1>4. ASSUME NEW s \in Slots, NEW p \in Projects,
               DeleteProject(s, p) \/ \E op \in Ops : CloseMember(s, op, p)
        PROVE  ChainInv' /\ [Contract!Next]_(Contract!vars)
    BY <1>0, <1>4, ChainCloses
  <1>5. ASSUME NEW p \in Projects, Archive(p) \/ Reopen(p) \/ AskSettlement(p)
        PROVE  ChainInv' /\ [Contract!Next]_(Contract!vars)
    BY <1>0, <1>5, ChainElsewhere
  <1>6. ASSUME NEW r \in Runs, Cancel(r) PROVE ChainInv' /\ [Contract!Next]_(Contract!vars)
    BY <1>0, <1>6, ChainCancels
  <1> QED BY <1>1, <1>2, <1>3, <1>4, <1>5, <1>6, Zenon DEF Next

LEMMA ChainStarts ==
    ASSUME Init PROVE ChainInv /\ Contract!Init
  <1>1. PurgeInv
    BY RunInvStarts, AbsentRow DEF PurgeInv, TearsDown, Late, TeardownOps, Init
  <1>2. \A r \in Runs : run[r].status = "none" /\ run[r].order = <<>>
    <2>1. PICK x : x = Absent
      OBVIOUS
    <2>2. x.status = "none" /\ x.order = <<>>
      BY <2>1 DEF Absent, NewRun
    <2> QED BY <2>1, <2>2 DEF Init
  <1>3. \A r \in Runs : ~Live(r) /\ StageOf(run[r].status) = "none" /\ ToSet(run[r].order) = {}
    BY <1>2 DEF Live, Active, Ended, StageOf, ToSet
  <1>4. \A s \in Slots : slot[s].op = "none" /\ slot[s].phase = "idle"
    <2>1. slot = [s \in Slots |-> Idle]
      BY DEF Init
    <2>2. \A s \in Slots : slot[s] = Idle
      BY <2>1
    <2>3. Idle.op = "none" /\ Idle.phase = "idle"
      BY DEF Idle
    <2> QED BY <2>2, <2>3
  <1>5. \A s \in Slots : Knows(slot[s])
    BY <1>4 DEF Knows, CloseOps, DropOps
  <1>6. ChainInv
    BY <1>1, <1>3, <1>5 DEF ChainInv, Apart, DeletedLeave
  <1>7. \A p \in Projects : ~member[p].ended /\ ~Closing(p) /\ member[p].row # "deleted"
    <2>1. \A p \in Projects : member[p].ended = FALSE /\ member[p].row = "live"
      BY DEF Init, NewMember
    <2> QED BY <1>4, <2>1 DEF Closing
  <1>8. Contract!Init
    <2>1. [r \in Runs |-> StageOf(run[r].status)] = [r \in Runs |-> "none"]
      BY <1>3
    <2>2. [r \in Runs |-> ToSet(run[r].order)] = [r \in Runs |-> {}]
      BY <1>3
    <2>3. /\ {p \in Projects : member[p].ended \/ Closing(p)} = {}
          /\ {p \in Projects : member[p].row = "deleted"} = {}
      BY <1>7
    <2> QED BY <2>1, <2>2, <2>3 DEF Contract!Init
  <1> QED BY <1>6, <1>8

(* Served one request at a time, with closeouts that commit, the runs, their  *)
(* copies, conductors and teardowns implement ChainContract: nobody joins a   *)
(* chain, nobody leaves one under way, a run that ended is not taken up       *)
(* again, a deleted project is enrolled no more, and a run is deleted only    *)
(* with all its members over.                                                 *)
THEOREM HonoursChain ==
    ASSUME SequenceRunAssumption, Serially PROVE Spec => ChainHonoured
  <1>1. Init => ChainInv /\ Contract!Init
    BY ChainStarts
  <1>2. ChainInv /\ [Next]_vars => ChainInv' /\ [Contract!Next]_(Contract!vars)
    BY ChainStep
  <1> QED BY <1>1, <1>2, PTL DEF Spec, ChainHonoured, Contract!Spec

(* Served one request at a time, no project is a member of two active runs:   *)
(* start_chain_run refuses one that is enrolled, and nothing makes a run that *)
(* ended active again.                                                        *)
THEOREM OneRunPerProjectHolds ==
    ASSUME SequenceRunAssumption, Serially PROVE Spec => []OneRunPerProject
  <1>1. Init => ChainInv
    BY ChainStarts
  <1>2. ChainInv /\ [Next]_vars => ChainInv'
    BY ChainStep
  <1>3. ChainInv => OneRunPerProject
    <2> SUFFICES ASSUME ChainInv, NEW p \in Projects PROVE Cardinality(ActiveRuns(p)) <= 1
      BY DEF OneRunPerProject
    <2>1. \A q, r \in ActiveRuns(p) : q = r
      BY DEF ChainInv, Apart, ActiveRuns, Live
    <2>2. CASE ActiveRuns(p) = {}
      BY <2>2, FS_EmptySet
    <2>3. CASE ActiveRuns(p) # {}
      <3>1. PICK r : ActiveRuns(p) = {r}
        BY <2>1, <2>3
      <3> QED BY <3>1, FS_Singleton
    <2> QED BY <2>2, <2>3
  <1> QED BY <1>1, <1>2, <1>3, PTL DEF Spec

(* Served one request at a time, a project whose deletion has returned is a   *)
(* member of no active run: the deletion takes it out of its run, or ends the *)
(* run when that is under way or would be left with one project.              *)
THEOREM DeletedOutHolds ==
    ASSUME SequenceRunAssumption, Serially PROVE Spec => []DeletedOut
  <1>1. Init => ChainInv
    BY ChainStarts
  <1>2. ChainInv /\ [Next]_vars => ChainInv'
    BY ChainStep
  <1>3. ChainInv => DeletedOut
    <2> SUFFICES ASSUME ChainInv, Quiet, NEW p \in Projects, member[p].row = "deleted"
                 PROVE  ActiveRuns(p) = {}
      BY DEF DeletedOut
    <2>1. \A s \in Slots : slot[s].op = "none"
      BY SameTyped, AbsentRow DEF ChainInv, PurgeInv, Quiet, Sound
    <2>2. \A s \in Slots : \A r : ~Deleting(slot[s], p, r)
      BY <2>1 DEF Deleting
    <2> QED BY <2>2 DEF ChainInv, DeletedLeave, ActiveRuns, Live
  <1> QED BY <1>1, <1>2, <1>3, PTL DEF Spec

(* What a step of the contract does to one run.                               *)
LEMMA ContractStep ==
    ASSUME NEW r \in Runs, [Contract!Next]_(Contract!vars)
    PROVE  /\ StageOf(run[r].status) \in {"ended", "purged"} =>
                StageOf(run'[r].status) \in {"ended", "purged"}
           /\ StageOf(run[r].status) # "none" => ToSet(run'[r].order) \subseteq ToSet(run[r].order)
  <1> DEFINE stage == [q \in Runs |-> StageOf(run[q].status)]
             members == [q \in Runs |-> ToSet(run[q].order)]
  <1>1. /\ stage[r] = StageOf(run[r].status) /\ stage'[r] = StageOf(run'[r].status)
        /\ members[r] = ToSet(run[r].order) /\ members'[r] = ToSet(run'[r].order)
    OBVIOUS
  <1>d. DOMAIN stage = Runs /\ DOMAIN members = Runs
    OBVIOUS
  <1>2. CASE UNCHANGED Contract!vars
    <2>1. stage' = stage /\ members' = members
      BY <1>2, Zenon DEF Contract!vars
    <2> QED BY <1>1, <2>1
  <1>3. ASSUME NEW q \in Runs, NEW chain, Contract!Enrol(q, chain)
        PROVE  stage[q] = "none" /\ stage' = [stage EXCEPT ![q] = "open"]
               /\ members' = [members EXCEPT ![q] = chain]
    BY <1>3, Zenon DEF Contract!Enrol
  <1>4. ASSUME NEW q \in Runs, NEW p, Contract!Leave(q, p)
        PROVE  stage' = stage /\ members' = [members EXCEPT ![q] = members[q] \ {p}]
    BY <1>4, Zenon DEF Contract!Leave
  <1>5. ASSUME NEW q \in Runs, NEW from \in SUBSET {"open", "underway"}, NEW to, Contract!Set(q, from, to)
        PROVE  stage[q] \in {"open", "underway"} /\ stage' = [stage EXCEPT ![q] = to] /\ members' = members
    BY <1>5, Zenon DEF Contract!Set
  <1>6. ASSUME NEW q \in Runs, Contract!Purge(q)
        PROVE  stage[q] \in {"open", "underway"} /\ stage' = [stage EXCEPT ![q] = "purged"]
               /\ members' = [members EXCEPT ![q] = {}]
    BY <1>6, Zenon DEF Contract!Purge, Contract!Held
  <1>7. ASSUME NEW p, Contract!Finish(p) \/ Contract!Delete(p) PROVE stage' = stage /\ members' = members
    BY <1>7, Zenon DEF Contract!Finish, Contract!Delete
  <1> HIDE DEF stage, members
  <1>8. ASSUME NEW q \in Runs, Contract!GetUnderWay(q)
        PROVE  stage[q] \in {"open", "underway"} /\ stage' = [stage EXCEPT ![q] = "underway"]
               /\ members' = members
    BY <1>5, <1>8, {"open"} \in SUBSET {"open", "underway"} DEF Contract!GetUnderWay
  <1>9. ASSUME NEW q \in Runs, Contract!End(q)
        PROVE  stage[q] \in {"open", "underway"} /\ stage' = [stage EXCEPT ![q] = "ended"]
               /\ members' = members
    BY <1>5, <1>9, {"open", "underway"} \in SUBSET {"open", "underway"} DEF Contract!End
  <1>10. CASE Contract!Next
    <2>1. ASSUME NEW q \in Runs, NEW chain, Contract!Enrol(q, chain)
          PROVE  /\ stage[r] \in {"ended", "purged"} => stage'[r] \in {"ended", "purged"}
                 /\ stage[r] # "none" => members'[r] \subseteq members[r]
      BY <1>3, <1>d, <2>1
    <2>2. ASSUME NEW q \in Runs, NEW p, Contract!Leave(q, p)
          PROVE  /\ stage[r] \in {"ended", "purged"} => stage'[r] \in {"ended", "purged"}
                 /\ stage[r] # "none" => members'[r] \subseteq members[r]
      BY <1>4, <1>d, <2>2
    <2>3. ASSUME NEW q \in Runs, Contract!GetUnderWay(q) \/ Contract!End(q) \/ Contract!Purge(q)
          PROVE  /\ stage[r] \in {"ended", "purged"} => stage'[r] \in {"ended", "purged"}
                 /\ stage[r] # "none" => members'[r] \subseteq members[r]
      BY <1>6, <1>8, <1>9, <1>d, <2>3
    <2>4. ASSUME NEW p, Contract!Finish(p) \/ Contract!Delete(p)
          PROVE  /\ stage[r] \in {"ended", "purged"} => stage'[r] \in {"ended", "purged"}
                 /\ stage[r] # "none" => members'[r] \subseteq members[r]
      BY <1>7, <2>4
    <2> QED BY <1>1, <1>10, <2>1, <2>2, <2>3, <2>4 DEF Contract!Next
  <1> QED BY <1>2, <1>10

(* Served one request at a time, a run that has ended is never active again.  *)
THEOREM EndedStaysHolds ==
    ASSUME SequenceRunAssumption, Serially PROVE Spec => EndedStays
  <1>1. Init => ChainInv
    BY ChainStarts
  <1>2. ChainInv /\ [Next]_vars => ChainInv'
    BY ChainStep
  <1>3. ChainInv /\ [Next]_vars =>
          [\A r \in Runs : run[r].status \in Ended \cup {"purged"} => run'[r].status \notin Active]_vars
    <2> SUFFICES ASSUME ChainInv, [Next]_vars, NEW r \in Runs, run[r].status \in Ended \cup {"purged"}
                 PROVE  run'[r].status \notin Active
      OBVIOUS
    <2>1. StageOf(run[r].status) \in {"ended", "purged"}
      BY DEF StageOf, Ended
    <2>2. StageOf(run'[r].status) \in {"ended", "purged"}
      BY <2>1, ChainStep, ContractStep
    <2> QED BY <2>2 DEF StageOf, Active, Ended
  <1> QED BY <1>1, <1>2, <1>3, PTL DEF Spec, EndedStays

(* Served one request at a time, a member that was taken out of a run does    *)
(* not come back into it.                                                     *)
THEOREM RemovedStaysHolds ==
    ASSUME SequenceRunAssumption, Serially PROVE Spec => RemovedStays
  <1>1. Init => ChainInv
    BY ChainStarts
  <1>2. ChainInv /\ [Next]_vars => ChainInv'
    BY ChainStep
  <1>3. ChainInv /\ [Next]_vars =>
          [\A r \in Runs : Exists(r) => ToSet(run'[r].order) \subseteq ToSet(run[r].order)]_vars
    <2> SUFFICES ASSUME ChainInv, [Next]_vars, NEW r \in Runs, Exists(r)
                 PROVE  ToSet(run'[r].order) \subseteq ToSet(run[r].order)
      OBVIOUS
    <2>1. StageOf(run[r].status) # "none"
      BY DEF StageOf, Exists, Ended
    <2> QED BY <2>1, ChainStep, ContractStep
  <1> QED BY <1>1, <1>2, <1>3, PTL DEF Spec, RemovedStays

-----------------------------------------------------------------------------
(* The teardown that found no settlement pending.                           *)

SettleShrinks == \A r \in Runs : settle'[r] \subseteq settle[r]

LEMMA SettleStep ==
    ASSUME RunInv, [Next]_vars
    PROVE  SettleShrinks \/ \E p \in Projects : AskSettlement(p)
  <1>0. settle \in [Runs -> SUBSET Projects]
    BY SameTyped
  <1>1. UNCHANGED settle => SettleShrinks
    BY DEF SettleShrinks
  <1>2. ASSUME NEW s \in Slots, Proceed(s), ~ResetMember(s) PROVE UNCHANGED settle
    <2>1. CASE \/ Create(s) \/ AdvanceRead(s) \/ AdvanceIndex(s) \/ AdvanceWrite(s) \/ StampLaunch(s)
               \/ MarkStalled(s) \/ MarkRead(s) \/ Mark(s) \/ CommitCloseout(s)
      BY <2>1, Zenon DEF Create, AdvanceRead, AdvanceIndex, AdvanceWrite, StampLaunch, MarkStalled, MarkRead,
                  Mark, CommitCloseout
    <2>2. CASE \/ GuardRead(s) \/ GuardHeal(s) \/ TeardownFind(s) \/ TeardownHeal(s)
               \/ CheckSettlement(s) \/ Purge(s)
      BY <2>2, Zenon DEF GuardRead, GuardHeal, TeardownFind, TeardownHeal, CheckSettlement, Purge
    <2>3. CASE \/ Release(s) \/ ResumeChain(s) \/ Dissolve(s) \/ LoadRun(s) \/ DropMember(s)
               \/ FindMembership(s) \/ EndMembership(s)
      BY <2>3, Zenon DEF Release, ResumeChain, Dissolve, LoadRun, DropMember, FindMembership, EndMembership
    <2> QED BY <1>2, <2>1, <2>2, <2>3 DEF Proceed
  <1>3. ASSUME NEW s \in Slots, ResetMember(s) PROVE SettleShrinks
    <2>1. PICK p : settle' = [r \in Runs |-> settle[r] \ {p}]
      BY <1>3 DEF ResetMember
    <2> QED BY <2>1 DEF SettleShrinks
  <1>4. ASSUME NEW s \in Slots,
               \/ \E p \in Projects : \/ StagingEnd(s, p) \/ GoSilent(s, p) \/ DeleteProject(s, p)
                                      \/ \E op \in Ops : CloseMember(s, op, p)
                                      \/ \E r \in Runs : RemoveMember(s, r, p)
               \/ \E r \in Runs : CompleteJob(s, r) \/ ReleaseGracefully(s, r) \/ OpenPage(s, r)
                                  \/ DeactivateChain(s, r)
               \/ \E chain \in Chains : Start(s, chain)
        PROVE  UNCHANGED settle
    BY <1>4, Zenon DEF StagingEnd, GoSilent, DeleteProject, CloseMember, RemoveMember, CompleteJob,
                       ReleaseGracefully, OpenPage, DeactivateChain, Start
  <1>5. ASSUME NEW s \in Slots, NEW q \in Runs, Decide(s, q) PROVE SettleShrinks
    <2>1. PICK p : settle' = [settle EXCEPT ![q] = @ \ {p}]
      BY <1>5 DEF Decide
    <2> QED BY <1>0, <2>1 DEF SettleShrinks
  <1>6. ASSUME NEW p \in Projects, Archive(p) \/ Reopen(p) PROVE UNCHANGED settle
    BY <1>6 DEF Archive, Reopen
  <1>7. ASSUME NEW r \in Runs, Cancel(r) PROVE UNCHANGED settle
    BY <1>7 DEF Cancel
  <1>8. UNCHANGED vars => UNCHANGED settle
    BY DEF vars
  <1> QED BY <1>1, <1>2, <1>3, <1>4, <1>5, <1>6, <1>7, <1>8, Zenon DEF Next

FoundNone(x) == x.op \in TeardownOps /\ x.phase = "purge" => settle[x.r] = {}
SettledInv == RunInv /\ \A s \in Slots : FoundNone(slot[s])

LEMMA SettledStep ==
    ASSUME SequenceRunAssumption, OneRequest, ~Interleaved, "rollback" \notin Faults, SettledInv, [Next]_vars
    PROVE  SettledInv'
  <1>0. RunInv /\ RunInv'
    BY RunInvStep DEF SettledInv
  <1> SUFFICES ASSUME NEW t \in Slots, slot'[t].op \in TeardownOps, slot'[t].phase = "purge"
               PROVE  settle'[slot'[t].r] = {}
    BY <1>0 DEF SettledInv, FoundNone
  <1>1. slot'[t].r \in Runs
    BY <1>0 DEF RunInv, Truth, Sound
  <1>2. CASE slot'[t] = slot[t]
    <2>1. settle[slot[t].r] = {}
      BY <1>2 DEF SettledInv, FoundNone
    <2>2. ASSUME NEW p \in Projects, AskSettlement(p) PROVE FALSE
      BY <1>2, <2>2, <1>0, SameTyped DEF AskSettlement, Served, Quiet
    <2> QED BY <1>0, <1>1, <1>2, <2>1, <2>2, SettleStep DEF SettleShrinks
  <1>3. ASSUME NEW s \in Slots, TeardownFind(s) \/ TeardownHeal(s) PROVE FALSE
    <2>1. Return(s) \/ (\E phase \in {"settlement"} : Goto(s, phase)) \/ (\E r : Read(s, r, "reheal"))
      BY <1>3 DEF TeardownFind, TeardownHeal, Answer
    <2>2. slot'[s].op = "none" \/ slot'[s].phase \in {"settlement", "reheal"}
      BY <1>0, <2>1, SlotTells
    <2> QED BY <2>2 DEF OneRequest, TeardownOps
  <1>4. ASSUME NEW s \in Slots, CheckSettlement(s) PROVE settle'[slot'[t].r] = {}
    <2>1. s = t /\ settle' = settle
      BY <1>4 DEF OneRequest, CheckSettlement
    <2>2. CASE Return(s)
      BY <1>0, <2>1, <2>2, SlotTells DEF TeardownOps
    <2>3. CASE Goto(s, "purge") /\ settle[slot[s].r] = {}
      <3>1. slot'[s].r = slot[s].r
        BY <1>0, <2>3, SlotTells
      <3> QED BY <2>1, <2>3, <3>1
    <2> QED BY <1>4, <2>2, <2>3 DEF CheckSettlement, Answer, SettlementPending
  <1>5. \/ slot'[t] = slot[t] \/ ~Late(slot'[t])
        \/ \E s \in Slots : TeardownFind(s) \/ TeardownHeal(s) \/ CheckSettlement(s)
    <2>1. ASSUME NEW s \in Slots, Early(s) PROVE slot'[t] = slot[t] \/ ~Late(slot'[t])
      BY <2>1 DEF Early
    <2>2. ASSUME NEW s \in Slots, Proceed(s), ~TeardownFind(s), ~TeardownHeal(s), ~CheckSettlement(s)
          PROVE  Early(s)
      BY <1>0, <2>2, ProceedsEarly
    <2>3. ASSUME NEW s \in Slots,
             \/ \E p \in Projects : \/ StagingEnd(s, p) \/ GoSilent(s, p) \/ DeleteProject(s, p)
                                    \/ \E op \in Ops : CloseMember(s, op, p)
                                    \/ \E r \in Runs : RemoveMember(s, r, p)
             \/ \E r \in Runs :
                  CompleteJob(s, r) \/ Decide(s, r) \/ ReleaseGracefully(s, r) \/ OpenPage(s, r)
                  \/ DeactivateChain(s, r)
             \/ \E chain \in Chains : Start(s, chain)
          PROVE  Early(s)
      BY <1>0, <2>3, BeginsEarly
    <2>4. ASSUME NEW p \in Projects, Archive(p) \/ Reopen(p) \/ AskSettlement(p)
          PROVE  UNCHANGED slot
      BY <2>4 DEF Archive, Reopen, AskSettlement
    <2>5. ASSUME NEW r \in Runs, Cancel(r) PROVE UNCHANGED slot
      BY <2>5 DEF Cancel
    <2>6. UNCHANGED vars => UNCHANGED slot
      BY DEF vars
    <2>7. UNCHANGED slot => slot'[t] = slot[t]
      OBVIOUS
    <2> QED BY <2>1, <2>2, <2>3, <2>4, <2>5, <2>6, <2>7, Zenon DEF Next
  <1>6. Late(slot'[t])
    BY DEF Late
  <1> QED BY <1>2, <1>3, <1>4, <1>5, <1>6

(* Served one request at a time, a run is deleted only with no settlement   *)
(* approval pending: between the teardown's check and its purge nobody      *)
(* else asks for one.                                                       *)
THEOREM PurgedSettledHolds ==
    ASSUME SequenceRunAssumption, OneRequest, ~Interleaved, "rollback" \notin Faults
    PROVE  Spec => PurgedSettled
  <1>1. Init => SettledInv
    BY RunInvStarts, AbsentRow DEF SettledInv, FoundNone, TeardownOps, Init
  <1>2. SettledInv /\ [Next]_vars => SettledInv'
    BY SettledStep
  <1>3. SettledInv /\ [Next]_vars => [\A r \in Runs : Purged(r) => settle[r] = {}]_vars
    <2> SUFFICES ASSUME SettledInv, [Next]_vars, NEW r \in Runs, Purged(r) PROVE settle[r] = {}
      OBVIOUS
    <2>1. PICK s \in Slots : Purge(s) /\ slot[s].r = r
      BY PurgedBy DEF SettledInv, Purged
    <2> QED BY <2>1 DEF SettledInv, FoundNone, Purge, Teardown, TeardownOps
  <1> QED BY <1>1, <1>2, <1>3, PTL DEF Spec, PurgedSettled
=============================================================================
