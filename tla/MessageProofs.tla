---------------------------- MODULE MessageProofs ----------------------------
(***************************************************************************)
(* Theorems about what is delivered late, twice or out of order, one       *)
(* section per module, each for any number of whatever its module counts,  *)
(* and about their composition in MCMessages.                              *)
(*                                                                         *)
(* HubThread.  As long as posts commit in the order they started, an       *)
(* agent's cursor never passes a post the agent was not shown.  A cursor   *)
(* stands on a post that is there (CursorReal), and a post that commits is *)
(* newer than every post that is there (InOrder); so a commit cannot fall  *)
(* behind a cursor, nor behind what an open read has returned (ReadersFit).*)
(* As long as one call at a time mints the bound thread and none is        *)
(* deleted, the user's decision meets the agent on the thread its mission  *)
(* named: the thread both resolved stays the bound one (MeetInv).          *)
(*                                                                         *)
(* TodoList: the rows that report_progress writes and complete_job gates   *)
(* on, for any lists and any number of open calls.                         *)
(*                                                                         *)
(* The dashboard.  LiveSocket: the server subscribes a working connection  *)
(* to what the pages pinned.  ProjectList: the list comes to rest on the   *)
(* answer to the last query.  StageFlags: the page's flags catch up with   *)
(* the project.  JobBoard: the agents shown at rest are the server's.  In  *)
(* each the invariant says what the frames, calls or events still on their *)
(* way will make of what is held now.                                      *)
(***************************************************************************)
EXTENDS MCMessages, Sequences, FiniteSetTheorems, WellFoundedInduction, TLAPS

(* What Max and Min of FiniteSetsExt return on a nonempty set of naturals  *)
(* below a bound: the newest post of a read, the oldest thread of a        *)
(* project, the highest number of a list.                                  *)
LEMMA LeastExists == ASSUME NEW T \in SUBSET Nat, T # {} PROVE \E x \in T : \A y \in T : x <= y
  <1> DEFINE R == OpToRel(<, Nat)
  <1>1. \E x \in T : \A y \in T : ~ (<<y, x>> \in R)
    BY WFMin, NatLessThanWellFounded, Zenon
  <1>2. PICK x \in T : \A y \in T : ~ (<<y, x>> \in R)
    BY <1>1
  <1>3. \A y \in T : y < x => <<y, x>> \in R
    BY DEF OpToRel
  <1>4. \A y \in T : ~ (y < x)
    BY <1>2, <1>3, Zenon
  <1> HIDE DEF R
  <1>5. \A y \in T : x \in Nat /\ y \in Nat
    OBVIOUS
  <1>6. \A y \in T : x <= y
    BY <1>4, <1>5, SMT
  <1> QED
    BY <1>6, Zenon

LEMMA MinOfNaturals ==
    ASSUME NEW S \in SUBSET Nat, S # {}
    PROVE  Min(S) \in S /\ \A x \in S : Min(S) <= x
  <1>1. \E x \in S : \A y \in S : x <= y
    BY LeastExists
  <1> QED
    BY <1>1, Zenon DEF Min

LEMMA MaxOfBounded ==
    ASSUME NEW top \in Nat, NEW S \in SUBSET (0 .. top), S # {}
    PROVE  Max(S) \in S /\ \A x \in S : x <= Max(S)
  <1> DEFINE T == {top - x : x \in S}
  <1>0. \A x \in S : top - x \in Nat
    OBVIOUS
  <1>1. T \in SUBSET Nat /\ T # {}
    BY <1>0, Zenon
  <1>2. PICK m \in T : \A y \in T : m <= y
    BY <1>1, LeastExists
  <1>3. PICK x \in S : m = top - x
    OBVIOUS
  <1>4. \A y \in S : x >= y
    <2> TAKE y \in S
    <2>1. top - y \in T
      OBVIOUS
    <2> HIDE DEF T
    <2> QED
      BY <1>2, <1>3, <2>1
  <1>5. Max(S) \in S /\ \A y \in S : Max(S) >= y
    BY <1>4, Zenon DEF Max
  <1> QED
    BY <1>5

-----------------------------------------------------------------------------
ResolversFit ==
    \A s \in Resolvers : resolver[s].phase # "idle" =>
        resolver[s].thread \in Threads /\ resolver[s].agent \in Agents
PostsFit ==
    /\ \A p \in Posts : post[p].phase \in {"begun", "posted"} => post[p].thread \in Threads
    /\ \A p \in Posts : post[p].phase = "none" => post[p].thread = 0
    /\ \A p, q \in Posts : q < p /\ post[p].phase # "none" => post[q].phase # "none"
InOrder == \A p, q \in Posts : q < p /\ post[p].phase = "posted" => post[q].phase # "begun"
CursorReal ==
    \A t \in Threads, a \in Agents : cursor[t][a] # 0 => cursor[t][a] \in Posted(t)
ReadFits(a, r) ==
    r.phase = "reading" =>
        /\ r.thread \in Threads /\ r.seen \subseteq Posted(r.thread)
        /\ FullDrain(r.kind) =>
             \A p \in Posted(r.thread), m \in r.seen : p <= m => p \in r.seen \/ a \in acked[p]
ReadersFit == \A a \in Agents, i \in Slots : ReadFits(a, reader[<<a, i>>])

HubShape == TypeOK /\ ResolversFit
ReadInv == PostsFit /\ InOrder /\ CursorReal /\ ReadersFit /\ NothingSkipped

(* The thread the lookup returns is one of the threads. *)
LEMMA BoundIsThread == HubShape => Bound \in Threads \cup {0}
  <1> USE HubAssumption
  <1> SUFFICES ASSUME HubShape, Bound # 0 PROVE Bound \in Threads
    OBVIOUS
  <1> DEFINE live == {t \in Threads : Live(t)}
             marked == {t \in live : thread[t].marker}
  <1>1. live \in SUBSET Nat /\ marked \in SUBSET Nat /\ live \subseteq Threads /\ marked \subseteq Threads
    BY DEF Threads
  <1>2. live # {} /\ Bound = IF marked # {} THEN Min(marked) ELSE Min(live)
    BY DEF Bound
  <1> HIDE DEF live, marked
  <1>3. CASE marked # {}
    BY <1>1, <1>2, <1>3, MinOfNaturals
  <1>4. CASE marked = {}
    BY <1>1, <1>2, <1>4, MinOfNaturals
  <1> QED
    BY <1>3, <1>4

LEMMA HubInit == Init => HubShape /\ ReadInv
  <1> USE HubAssumption
  <1> SUFFICES ASSUME Init PROVE HubShape /\ ReadInv
    OBVIOUS
  <1>1. TypeOK
    BY DEF Init, TypeOK, NoThread, NoPost, NoRead, NoCall, Threads, Posts, Calls
  <1>2. ResolversFit
    BY DEF Init, ResolversFit, NoCall
  <1>3. PostsFit /\ InOrder
    BY DEF Init, PostsFit, InOrder, NoPost
  <1>4. CursorReal /\ ReadersFit
    BY DEF Init, CursorReal, ReadersFit, ReadFits, NoRead, Calls
  <1>5. NothingSkipped
    BY DEF Init, NothingSkipped, Posted, NoPost
  <1> QED
    BY <1>1, <1>2, <1>3, <1>4, <1>5 DEF HubShape, ReadInv

-----------------------------------------------------------------------------
(* Steps that touch neither posts nor reads.                               *)

LEMMA ApartKept ==
    ASSUME ReadInv, UNCHANGED <<post, cursor, acked, reader>> PROVE ReadInv'
  <1>1. \A t : Posted(t)' = Posted(t)
    BY DEF Posted
  <1>2. PostsFit' /\ InOrder'
    BY DEF ReadInv, PostsFit, InOrder
  <1>3. CursorReal' /\ NothingSkipped'
    BY <1>1 DEF ReadInv, CursorReal, NothingSkipped
  <1>4. ReadersFit'
    BY <1>1 DEF ReadInv, ReadersFit, ReadFits
  <1> QED
    BY <1>2, <1>3, <1>4 DEF ReadInv

LEMMA ThreadsTyped ==
    ASSUME HubShape,
           \/ \E a \in Agents : CreateThread(a) \/ Poll(a) \/ \E t \in Threads : Join(a, t)
           \/ \E t \in Threads : Delete(t) \/ Restore(t)
    PROVE HubShape' /\ UNCHANGED <<post, cursor, acked, reader>>
  <1> USE HubAssumption
  <1>0. TypeOK /\ ResolversFit
    BY DEF HubShape
  <1>1. ASSUME NEW a \in Agents, CreateThread(a) PROVE HubShape' /\ UNCHANGED <<post, cursor, acked, reader>>
    <2>1. /\ tick \in Threads /\ tick' = tick + 1
          /\ thread' = [thread EXCEPT ![tick] = [NoThread EXCEPT !.state = "live"]]
          /\ joined' = [joined EXCEPT ![tick] = {a}]
          /\ UNCHANGED <<post, cursor, acked, reader, resolver, known, looping>>
      BY <1>1 DEF CreateThread
    <2>2. [NoThread EXCEPT !.state = "live"] \in
              [state : {"unused", "live", "deleted", "purged"}, marker : BOOLEAN, closed : BOOLEAN]
      <3>1. NoThread \in [state : {"unused", "live", "deleted", "purged"}, marker : BOOLEAN, closed : BOOLEAN]
        BY DEF NoThread
      <3> QED
        BY <3>1
    <2>3. TypeOK'
      BY <1>0, <2>1, <2>2, SMTT(90) DEF TypeOK, Threads
    <2> QED
      BY <1>0, <2>1, <2>3 DEF HubShape, ResolversFit
  <1>2. ASSUME NEW a \in Agents, Poll(a) PROVE HubShape' /\ UNCHANGED <<post, cursor, acked, reader>>
    <2>1. Directives(a) \in SUBSET Threads
      BY DEF Directives
    <2> QED
      BY <1>0, <1>2, <2>1 DEF Poll, HubShape, TypeOK, ResolversFit
  <1>3. ASSUME NEW a \in Agents, NEW t \in Threads, Join(a, t)
        PROVE HubShape' /\ UNCHANGED <<post, cursor, acked, reader>>
    BY <1>0, <1>3 DEF Join, HubShape, TypeOK, ResolversFit
  <1>4. ASSUME NEW t \in Threads, Delete(t) \/ Restore(t)
        PROVE HubShape' /\ UNCHANGED <<post, cursor, acked, reader>>
    <2>1. /\ thread' = [thread EXCEPT ![t].state = "deleted"] \/ thread' = [thread EXCEPT ![t].state = "live"]
          /\ UNCHANGED <<tick, post, joined, cursor, acked, reader, resolver, known, looping>>
      BY <1>4 DEF Delete, Restore
    <2> DEFINE Rows == [state : {"unused", "live", "deleted", "purged"}, marker : BOOLEAN, closed : BOOLEAN]
    <2>2. thread \in [Threads -> Rows]
      BY <1>0 DEF TypeOK
    <2>3. \A st \in {"live", "deleted"} : [thread[t] EXCEPT !.state = st] \in Rows
      BY <2>2
    <2> HIDE DEF Rows
    <2>4. thread' \in [Threads -> Rows]
      BY <2>1, <2>2, <2>3
    <2>5. thread' \in [Threads -> [state : {"unused", "live", "deleted", "purged"},
                                   marker : BOOLEAN, closed : BOOLEAN]]
      BY <2>4 DEF Rows
    <2> QED
      BY <1>0, <2>1, <2>5 DEF HubShape, TypeOK, ResolversFit
  <1>5. CASE \E a \in Agents : CreateThread(a) \/ Poll(a) \/ \E t \in Threads : Join(a, t)
    <2>1. PICK a \in Agents : CreateThread(a) \/ Poll(a) \/ \E t \in Threads : Join(a, t)
      BY <1>5
    <2> QED
      BY <1>1, <1>2, <1>3, <2>1
  <1>6. CASE \E t \in Threads : Delete(t) \/ Restore(t)
    BY <1>4, <1>6
  <1> QED
    BY <1>5, <1>6

LEMMA ResolversTyped ==
    ASSUME HubShape, NEW s \in Resolvers,
           \/ Mint(s) \/ Collide(s) \/ Learn(s)
           \/ \E a \in Agents, why \in {"mission", "decision"} : Resolve(s, a, why)
    PROVE HubShape' /\ UNCHANGED <<post, cursor, acked, reader>>
  <1> USE HubAssumption
  <1> DEFINE Calling == [phase : {"idle", "creating", "found"}, thread : 0..MaxThreads,
                         agent : Agents \cup {User}, why : {"mission", "decision"}]
  <1>0. TypeOK /\ ResolversFit /\ resolver \in [Resolvers -> Calling]
    BY DEF HubShape, TypeOK
  <1>no. NoCall \in Calling
    BY DEF NoCall
  <1>1. CASE Mint(s)
    <2>1. /\ resolver[s].phase = "creating"
          /\ thread' = [thread EXCEPT ![resolver[s].thread] = [NoThread EXCEPT !.state = "live", !.marker = TRUE]]
          /\ resolver' = [resolver EXCEPT ![s].phase = "found"]
          /\ UNCHANGED <<tick, post, joined, cursor, acked, reader, known, looping>>
      BY <1>1 DEF Mint
    <2>2. [NoThread EXCEPT !.state = "live", !.marker = TRUE] \in
              [state : {"unused", "live", "deleted", "purged"}, marker : BOOLEAN, closed : BOOLEAN]
      <3>1. NoThread \in [state : {"unused", "live", "deleted", "purged"}, marker : BOOLEAN, closed : BOOLEAN]
        BY DEF NoThread
      <3> QED
        BY <3>1
    <2>3. resolver' \in [Resolvers -> Calling] /\ ResolversFit'
      BY <1>0, <2>1 DEF ResolversFit
    <2>4. TypeOK'
      BY <1>0, <2>1, <2>2, <2>3 DEF TypeOK
    <2> QED
      BY <2>1, <2>3, <2>4 DEF HubShape
  <1>2. CASE Collide(s)
    <2>1. resolver' = [resolver EXCEPT ![s] = NoCall]
          /\ UNCHANGED <<thread, tick, post, joined, cursor, acked, reader, known, looping>>
      BY <1>2 DEF Collide
    <2>2. resolver' \in [Resolvers -> Calling] /\ ResolversFit'
      BY <1>0, <1>no, <2>1 DEF ResolversFit, NoCall
    <2> QED
      BY <1>0, <2>1, <2>2 DEF HubShape, TypeOK
  <1>3. CASE Learn(s)
    <2>1. /\ resolver[s].phase = "found"
          /\ known' = [known EXCEPT ![resolver[s].agent] = resolver[s].thread]
          /\ resolver' = [resolver EXCEPT ![s] = NoCall]
          /\ UNCHANGED <<thread, tick, post, joined, cursor, acked, reader, looping>>
      BY <1>3 DEF Learn
    <2>2. resolver' \in [Resolvers -> Calling] /\ ResolversFit'
      BY <1>0, <1>no, <2>1 DEF ResolversFit, NoCall
    <2>3. known' \in [Agents -> 0..MaxThreads]
      BY <1>0, <2>1 DEF TypeOK, ResolversFit
    <2> QED
      BY <1>0, <2>1, <2>2, <2>3 DEF HubShape, TypeOK
  <1>4. ASSUME NEW a \in Agents, NEW why \in {"mission", "decision"}, Resolve(s, a, why)
        PROVE HubShape' /\ UNCHANGED <<post, cursor, acked, reader>>
    <2> DEFINE c == [phase |-> IF Bound = 0 THEN "creating" ELSE "found",
                     thread |-> IF Bound = 0 THEN tick ELSE Bound, agent |-> a, why |-> why]
    <2>1. /\ resolver' = [resolver EXCEPT ![s] = c]
          /\ Bound = 0 => tick \in Threads
          /\ tick' = IF Bound = 0 THEN tick + 1 ELSE tick
          /\ UNCHANGED <<thread, post, joined, cursor, acked, reader, known, looping>>
      BY <1>4 DEF Resolve
    <2>2. c \in Calling /\ c.thread \in Threads /\ c.agent \in Agents
      <3>1. Bound \in Threads \cup {0}
        BY BoundIsThread
      <3> QED
        BY <2>1, <3>1 DEF Threads
    <2>3. tick' \in 1..(MaxThreads + 1)
      BY <1>0, <2>1 DEF TypeOK, Threads
    <2> HIDE DEF c
    <2>4. resolver' \in [Resolvers -> Calling] /\ ResolversFit'
      BY <1>0, <2>1, <2>2 DEF ResolversFit
    <2> QED
      BY <1>0, <2>1, <2>3, <2>4 DEF HubShape, TypeOK
  <1> QED
    BY <1>1, <1>2, <1>3, <1>4
-----------------------------------------------------------------------------
(* Posting.                                                                *)

Messages == [phase : {"none", "begun", "posted", "gone"}, thread : 0..MaxThreads,
             to : SUBSET Agents, enrols : SUBSET Agents, action : BOOLEAN,
             loop : BOOLEAN, status : {"keep", "resolved", "open"}, decision : BOOLEAN]

(* A transaction that starts: its post is the newest there is.             *)
LEMMA BeginKeeps ==
    ASSUME HubShape, ReadInv, NEW author, NEW t \in Threads, NEW decision \in BOOLEAN,
           NEW k \in [to : Agents \cup {Everyone}, action : BOOLEAN, loop : BOOLEAN,
                      status : {"keep", "resolved", "open"}],
           Begin(author, t, k, decision), UNCHANGED <<cursor, acked, reader>>
    PROVE  post' \in [Posts -> Messages] /\ ReadInv'
  <1> USE HubAssumption
  <1>0. TypeOK /\ post \in [Posts -> Messages]
    BY DEF HubShape, TypeOK, Messages
  <1>1. PICK p \in Posts :
          /\ post[p].phase = "none"
          /\ \A q \in 1..(p - 1) : post[q].phase # "none"
          /\ post' = [post EXCEPT ![p] =
               [phase |-> "begun", thread |-> t, action |-> k.action, loop |-> k.loop,
                status |-> k.status, decision |-> decision,
                to |-> IF k.to = Everyone THEN (joined[t] \cup Roster) \ {author} ELSE {k.to},
                enrols |-> IF k.to = Everyone THEN Roster ELSE {}]]
    BY DEF Begin
  <1> DEFINE m == [phase |-> "begun", thread |-> t, action |-> k.action, loop |-> k.loop,
                   status |-> k.status, decision |-> decision,
                   to |-> IF k.to = Everyone THEN (joined[t] \cup Roster) \ {author} ELSE {k.to},
                   enrols |-> IF k.to = Everyone THEN Roster ELSE {}]
  <1>2. m \in Messages /\ m.phase = "begun" /\ m.thread = t
    <2>1. joined[t] \subseteq Agents
      BY <1>0 DEF TypeOK
    <2>2. (IF k.to = Everyone THEN (joined[t] \cup Roster) \ {author} ELSE {k.to}) \in SUBSET Agents
      BY <2>1
    <2>3. t \in 0..MaxThreads
      BY DEF Threads
    <2> QED
      BY <2>2, <2>3 DEF Messages
  <1>3. post' = [post EXCEPT ![p] = m]
    BY <1>1
  <1> HIDE DEF m
  <1>4. post' \in [Posts -> Messages] /\ \A q \in Posts : post'[q] = IF q = p THEN m ELSE post[q]
    BY <1>0, <1>2, <1>3
  <1>5. \A u : Posted(u)' = Posted(u)
    BY <1>1, <1>2, <1>4 DEF Posted
  <1>6. PostsFit'
    <2>1. \A q \in Posts : q < p => post[q].phase # "none"
      BY <1>1 DEF Posts
    <2> QED
      BY <1>2, <1>4, <2>1 DEF PostsFit, ReadInv, Posts
  <1>7. InOrder'
    <2>1. \A q \in Posts : p < q => post[q].phase = "none"
      BY <1>1 DEF PostsFit, ReadInv
    <2> QED
      BY <1>2, <1>4, <2>1 DEF InOrder, ReadInv
  <1>8. CursorReal' /\ NothingSkipped'
    BY <1>5 DEF ReadInv, CursorReal, NothingSkipped
  <1>9. ReadersFit'
    BY <1>5 DEF ReadInv, ReadersFit, ReadFits
  <1> QED
    BY <1>4, <1>6, <1>7, <1>8, <1>9 DEF ReadInv

LEMMA BeginPostKeeps ==
    ASSUME HubShape, ReadInv, NEW author \in Authors, NEW t \in Threads, NEW k \in Kinds,
           BeginPost(author, t, k)
    PROVE  HubShape' /\ ReadInv'
  <1> USE HubAssumption
  <1>1. /\ Begin(author, t, k, FALSE)
        /\ UNCHANGED <<thread, tick, joined, cursor, acked, reader, resolver, known, looping>>
    BY DEF BeginPost
  <1>2. post' \in [Posts -> Messages] /\ ReadInv'
    BY <1>1, BeginKeeps
  <1> QED
    BY <1>1, <1>2 DEF HubShape, TypeOK, ResolversFit, Messages

LEMMA BeginDecisionKeeps ==
    ASSUME HubShape, ReadInv, NEW s \in Resolvers, BeginDecision(s)
    PROVE  HubShape' /\ ReadInv'
  <1> USE HubAssumption
  <1>0. TypeOK /\ ResolversFit /\ post \in [Posts -> Messages]
    BY DEF HubShape, TypeOK, Messages
  <1>1. /\ resolver[s].phase = "found" /\ resolver' = [resolver EXCEPT ![s] = NoCall]
        /\ IF Live(resolver[s].thread)
           THEN Begin(User, resolver[s].thread, Decision(resolver[s].agent), TRUE) ELSE UNCHANGED post
        /\ UNCHANGED <<thread, tick, joined, cursor, acked, reader, known, looping>>
    BY DEF BeginDecision
  <1>2. resolver[s].thread \in Threads /\ resolver[s].agent \in Agents
    BY <1>0, <1>1 DEF ResolversFit
  <1>3. post' \in [Posts -> Messages] /\ ReadInv'
    <2>1. CASE Live(resolver[s].thread)
      <3>1. Decision(resolver[s].agent) \in [to : Agents \cup {Everyone}, action : BOOLEAN, loop : BOOLEAN,
                                             status : {"keep", "resolved", "open"}]
        BY <1>2 DEF Decision
      <3> QED
        BY <1>1, <1>2, <2>1, <3>1, BeginKeeps
    <2>2. CASE ~Live(resolver[s].thread)
      BY <1>0, <1>1, <2>2, ApartKept
    <2> QED
      BY <2>1, <2>2
  <1>4. resolver' \in [Resolvers -> [phase : {"idle", "creating", "found"}, thread : 0..MaxThreads,
                                     agent : Agents \cup {User}, why : {"mission", "decision"}]]
        /\ ResolversFit'
    BY <1>0, <1>1 DEF TypeOK, ResolversFit, NoCall
  <1> QED
    BY <1>0, <1>1, <1>3, <1>4 DEF HubShape, TypeOK, Messages

LEMMA CommitKeeps ==
    ASSUME HubShape, ReadInv, Interleaved = FALSE, NEW p \in Posts, CommitPost(p)
    PROVE  HubShape' /\ ReadInv'
  <1> USE HubAssumption
  <1>0. TypeOK /\ ResolversFit /\ post \in [Posts -> Messages]
    BY DEF HubShape, TypeOK, Messages
  <1>1. /\ post[p].phase = "begun"
        /\ \A q \in 1..(p - 1) : post[q].phase # "begun"
        /\ post' = [post EXCEPT ![p].phase = "posted"]
        /\ joined' = [joined EXCEPT ![post[p].thread] = @ \cup post[p].enrols]
        /\ \/ thread' = thread
           \/ thread' = [thread EXCEPT ![post[p].thread].closed = post[p].status = "resolved"]
        /\ UNCHANGED <<tick, cursor, acked, reader, resolver, known, looping>>
    BY DEF CommitPost
  <1> DEFINE n == [post[p] EXCEPT !.phase = "posted"]
  <1>2. n \in Messages /\ n.phase = "posted" /\ n.thread = post[p].thread
    BY <1>0 DEF Messages
  <1>3. post' = [post EXCEPT ![p] = n]
    BY <1>1
  <1> HIDE DEF n
  <1>4. post' \in [Posts -> Messages] /\ \A q \in Posts : post'[q] = IF q = p THEN n ELSE post[q]
    BY <1>0, <1>2, <1>3
  <1>5. post[p].thread \in Threads
    BY <1>1 DEF ReadInv, PostsFit
  <1>6. \A u : Posted(u)' = IF u = post[p].thread THEN Posted(u) \cup {p} ELSE Posted(u)
    BY <1>1, <1>2, <1>4 DEF Posted
  <1>7. \A u : \A q \in Posted(u) : q \in Posts /\ q < p
    BY <1>1 DEF Posted, ReadInv, InOrder, Posts
  <1>8. PostsFit'
    <2>1. \A q \in Posts : post'[q].thread = post[q].thread
      BY <1>2, <1>4
    <2>2. \A q \in Posts : post'[q].phase = IF q = p THEN "posted" ELSE post[q].phase
      BY <1>2, <1>4
    <2>3. \A q \in Posts : post'[q].phase \in {"begun", "posted"} => post'[q].thread \in Threads
      BY <1>5, <2>1, <2>2 DEF ReadInv, PostsFit
    <2>4. \A q, o \in Posts : o < q /\ post'[q].phase # "none" => post'[o].phase # "none"
      BY <1>1, <2>2 DEF ReadInv, PostsFit
    <2>5. \A q \in Posts : post'[q].phase = "none" => post'[q].thread = 0
      BY <2>1, <2>2 DEF ReadInv, PostsFit
    <2> QED
      BY <2>3, <2>4, <2>5 DEF PostsFit
  <1>9. InOrder'
    <2>1. \A q \in Posts : post'[q].phase = IF q = p THEN "posted" ELSE post[q].phase
      BY <1>2, <1>4
    <2>2. \A q \in Posts : q < p => post[q].phase # "begun"
      BY <1>1 DEF Posts
    <2> QED
      BY <2>1, <2>2 DEF InOrder, ReadInv
  <1>10. CursorReal'
    BY <1>1, <1>6 DEF ReadInv, CursorReal
  <1>11. NothingSkipped'
    <2> SUFFICES ASSUME NEW u \in Threads, NEW a \in Agents, NEW q \in Posts,
                        q \in Posted(u)', q <= cursor[u][a]
                 PROVE  a \in acked[q]
      BY <1>1 DEF NothingSkipped
    <2>1. cursor[u][a] \in 0..MaxPosts
      BY <1>0 DEF TypeOK
    <2>2. cursor[u][a] \in Posted(u)
      BY <2>1 DEF Posts, ReadInv, CursorReal
    <2>3. q # p
      BY <1>7, <2>1, <2>2 DEF Posts
    <2>4. q \in Posted(u)
      BY <1>6, <2>3
    <2> QED
      BY <2>4 DEF ReadInv, NothingSkipped
  <1>12. ReadersFit'
    <2> SUFFICES ASSUME NEW a \in Agents, NEW i \in Slots PROVE ReadFits(a, reader[<<a, i>>])'
      BY DEF ReadersFit
    <2>1. ReadFits(a, reader[<<a, i>>]) /\ reader'[<<a, i>>] = reader[<<a, i>>] /\ acked' = acked
      BY <1>1 DEF ReadInv, ReadersFit
    <2>r. PICK r : r = reader[<<a, i>>]
      OBVIOUS
    <2>2. SUFFICES ASSUME r.phase = "reading"
                   PROVE  /\ r.thread \in Threads /\ r.seen \subseteq Posted(r.thread)'
                          /\ FullDrain(r.kind) =>
                               \A q \in Posted(r.thread)', m \in r.seen : q <= m => q \in r.seen \/ a \in acked[q]
      BY <2>1, <2>r DEF ReadFits
    <2>3. /\ r.thread \in Threads /\ r.seen \subseteq Posted(r.thread)
          /\ FullDrain(r.kind) =>
               \A q \in Posted(r.thread), m \in r.seen : q <= m => q \in r.seen \/ a \in acked[q]
      BY <2>1, <2>2, <2>r DEF ReadFits
    <2>4. r.seen \subseteq Posted(r.thread)'
      BY <1>6, <2>3
    <2>5. \A q \in Posted(r.thread)', m \in r.seen : q <= m => q \in Posted(r.thread)
      <3> TAKE q \in Posted(r.thread)', m \in r.seen
      <3>1. m \in Posts /\ m < p
        BY <1>7, <2>3
      <3>2. q = p \/ q \in Posted(r.thread)
        BY <1>6
      <3> QED
        BY <3>1, <3>2 DEF Posts
    <2> QED
      BY <2>3, <2>4, <2>5
  <1>13. joined' \in [Threads -> SUBSET Agents]
    <2>1. post[p].enrols \in SUBSET Agents
      BY <1>0 DEF Messages
    <2> QED
      BY <1>0, <1>1, <2>1 DEF TypeOK
  <1>14. thread' \in [Threads -> [state : {"unused", "live", "deleted", "purged"},
                                 marker : BOOLEAN, closed : BOOLEAN]]
    <2> DEFINE Rows == [state : {"unused", "live", "deleted", "purged"}, marker : BOOLEAN, closed : BOOLEAN]
               row == [thread[post[p].thread] EXCEPT !.closed = post[p].status = "resolved"]
    <2>1. thread \in [Threads -> Rows]
      BY <1>0 DEF TypeOK
    <2>2. row \in Rows
      BY <1>5, <2>1, ZenonT(90)
    <2>3. thread' = thread \/ thread' = [thread EXCEPT ![post[p].thread] = row]
      BY <1>1
    <2> HIDE DEF Rows, row
    <2>4. thread' \in [Threads -> Rows]
      BY <2>1, <2>2, <2>3
    <2> QED
      BY <2>4 DEF Rows
  <1>15. TypeOK'
    BY <1>0, <1>1, <1>4, <1>13, <1>14 DEF TypeOK, Messages
  <1>16. ResolversFit'
    BY <1>0, <1>1 DEF ResolversFit
  <1> QED
    BY <1>8, <1>9, <1>10, <1>11, <1>12, <1>15, <1>16 DEF HubShape, ReadInv

LEMMA AbortKeeps ==
    ASSUME HubShape, ReadInv, NEW p \in Posts, AbortPost(p)
    PROVE  HubShape' /\ ReadInv'
  <1> USE HubAssumption
  <1>0. TypeOK /\ ResolversFit /\ post \in [Posts -> Messages]
    BY DEF HubShape, TypeOK, Messages
  <1> DEFINE n == [NoPost EXCEPT !.phase = "gone"]
  <1>1. post[p].phase = "begun" /\ post' = [post EXCEPT ![p] = n]
        /\ UNCHANGED <<thread, tick, joined, cursor, acked, reader, resolver, known, looping>>
    BY DEF AbortPost
  <1>2. n \in Messages /\ n.phase = "gone"
    <2>1. NoPost \in Messages
      BY DEF NoPost, Messages
    <2> QED
      BY <2>1 DEF Messages
  <1> HIDE DEF n
  <1>3. post' \in [Posts -> Messages] /\ \A q \in Posts : post'[q] = IF q = p THEN n ELSE post[q]
    BY <1>0, <1>1, <1>2
  <1>4. \A u : Posted(u)' = Posted(u)
    BY <1>1, <1>2, <1>3 DEF Posted
  <1>5. PostsFit' /\ InOrder'
    BY <1>1, <1>2, <1>3 DEF PostsFit, InOrder, ReadInv
  <1>6. CursorReal' /\ NothingSkipped'
    BY <1>1, <1>4 DEF ReadInv, CursorReal, NothingSkipped
  <1>7. ReadersFit'
    BY <1>1, <1>4 DEF ReadInv, ReadersFit, ReadFits
  <1> QED
    BY <1>0, <1>1, <1>3, <1>5, <1>6, <1>7 DEF HubShape, ReadInv, TypeOK, ResolversFit, Messages

-----------------------------------------------------------------------------
(* Reading.                                                                *)

Reads == [phase : {"idle", "reading"}, thread : 0..MaxThreads, cursor : 0..MaxPosts,
          kind : {"unread", "full", "directed", "tail"}, seen : SUBSET Posts]

LEMMA BeginReadKeeps ==
    ASSUME HubShape, ReadInv, NEW a \in Agents, NEW i \in Slots, NEW t \in Threads,
           NEW kind \in ReadKinds, BeginRead(a, i, t, kind)
    PROVE  HubShape' /\ ReadInv'
  <1> USE HubAssumption
  <1>0. TypeOK /\ ResolversFit /\ reader \in [Calls -> Reads]
    BY DEF HubShape, TypeOK, Reads
  <1> DEFINE r == [phase |-> "reading", thread |-> t, kind |-> kind,
                   seen |-> Returned(a, t, kind), cursor |-> cursor[t][a]]
  <1>1. reader' = [reader EXCEPT ![<<a, i>>] = r]
        /\ UNCHANGED <<thread, tick, post, joined, cursor, acked, resolver, known, looping>>
    BY DEF BeginRead
  <1>2. Returned(a, t, kind) \subseteq Posted(t)
    <2>1. CASE kind = "unread"
      BY <2>1 DEF Returned
    <2>2. CASE kind = "full"
      BY <2>2 DEF Returned
    <2>3. CASE kind = "directed"
      BY <2>3 DEF Returned
    <2>4. CASE kind = "tail"
      <3>1. CASE Posted(t) = {}
        BY <2>4, <3>1 DEF Returned
      <3>2. CASE Posted(t) # {}
        <4>1. Posted(t) \in SUBSET (0..MaxPosts)
          BY DEF Posted, Posts
        <4>2. Max(Posted(t)) \in Posted(t)
          BY <3>2, <4>1, MaxOfBounded
        <4> QED
          BY <2>4, <3>2, <4>2 DEF Returned
      <3> QED
        BY <3>1, <3>2
    <2> QED
      BY <2>1, <2>2, <2>3, <2>4
  <1>3. FullDrain(kind) => \A q \in Posted(t) : q \in Returned(a, t, kind) \/ a \in acked[q]
    <2>1. CASE kind = "full"
      BY <2>1 DEF Returned
    <2>2. CASE kind = "unread"
      <3>1. \A q \in Posted(t) : q > cursor[t][a] => q \in Returned(a, t, kind)
        BY <2>2 DEF Returned
      <3>2. cursor[t][a] \in 0..MaxPosts
        BY <1>0 DEF TypeOK
      <3>3. \A q \in Posted(t) : q \in Posts
        BY DEF Posted
      <3>4. \A q \in Posted(t) : q <= cursor[t][a] => a \in acked[q]
        BY <3>3 DEF ReadInv, NothingSkipped
      <3> QED
        BY <3>1, <3>2, <3>3, <3>4 DEF Posts
    <2> QED
      BY <2>1, <2>2 DEF FullDrain
  <1>4. r \in Reads
    <2>1. Returned(a, t, kind) \in SUBSET Posts
      BY <1>2 DEF Posted
    <2>2. cursor[t][a] \in 0..MaxPosts
      BY <1>0 DEF TypeOK
    <2>3. t \in 0..MaxThreads
      BY DEF Threads
    <2> QED
      BY <2>1, <2>2, <2>3 DEF Reads
  <1>5. ReadFits(a, r)
    BY <1>2, <1>3 DEF ReadFits
  <1> HIDE DEF r
  <1>6. \A u : Posted(u)' = Posted(u)
    BY <1>1 DEF Posted
  <1>7. PostsFit' /\ InOrder' /\ CursorReal' /\ NothingSkipped'
    BY <1>1, <1>6 DEF ReadInv, PostsFit, InOrder, CursorReal, NothingSkipped
  <1>8. \A b \in Agents, j \in Slots :
           reader'[<<b, j>>] = IF b = a /\ j = i THEN r ELSE reader[<<b, j>>]
    BY <1>0, <1>1 DEF Calls
  <1>9. ReadersFit'
    <2> SUFFICES ASSUME NEW b \in Agents, NEW j \in Slots PROVE ReadFits(b, reader[<<b, j>>])'
      BY DEF ReadersFit
    <2>1. ReadFits(b, reader'[<<b, j>>])
      BY <1>5, <1>8 DEF ReadInv, ReadersFit
    <2> QED
      BY <1>1, <1>6, <2>1 DEF ReadFits
  <1>10. reader' \in [Calls -> Reads]
    BY <1>0, <1>1, <1>4 DEF Calls
  <1> QED
    BY <1>0, <1>1, <1>7, <1>9, <1>10 DEF HubShape, ReadInv, TypeOK, ResolversFit, Reads

LEMMA EndReadKeeps ==
    ASSUME HubShape, ReadInv, NEW a \in Agents, NEW i \in Slots, EndRead(a, i)
    PROVE  HubShape' /\ ReadInv'
  <1> USE HubAssumption
  <1>0. TypeOK /\ ResolversFit /\ reader \in [Calls -> Reads]
    BY DEF HubShape, TypeOK, Reads
  <1> DEFINE r == reader[<<a, i>>]
  <1>1. /\ r.phase = "reading"
        /\ acked' = [p \in Posts |-> IF p \in r.seen THEN acked[p] \cup {a} ELSE acked[p]]
        /\ \/ cursor' = cursor
           \/ /\ FullDrain(r.kind) /\ r.seen # {}
              /\ cursor' = [cursor EXCEPT ![r.thread][a] = Max(r.seen)]
        /\ reader' = [reader EXCEPT ![<<a, i>>] = NoRead]
        /\ UNCHANGED <<thread, tick, post, joined, resolver, known, looping>>
    BY DEF EndRead
  <1>2. /\ r.thread \in Threads /\ r.seen \subseteq Posted(r.thread)
        /\ FullDrain(r.kind) =>
             \A q \in Posted(r.thread), m \in r.seen : q <= m => q \in r.seen \/ a \in acked[q]
    BY <1>1 DEF ReadInv, ReadersFit, ReadFits
  <1> HIDE DEF r
  <1>3. \A u : Posted(u)' = Posted(u)
    BY <1>1 DEF Posted
  <1>4. \A q \in Posts : acked[q] \subseteq acked'[q] /\ acked'[q] \subseteq Agents /\ (q \in r.seen => a \in acked'[q])
    BY <1>0, <1>1 DEF TypeOK
  <1>5. r.seen # {} => /\ Max(r.seen) \in r.seen /\ Max(r.seen) \in 0..MaxPosts
    <2> SUFFICES ASSUME r.seen # {} PROVE /\ Max(r.seen) \in r.seen /\ Max(r.seen) \in 0..MaxPosts
      OBVIOUS
    <2>1. r.seen \in SUBSET (0..MaxPosts)
      BY <1>2 DEF Posted, Posts
    <2>2. Max(r.seen) \in r.seen
      BY <2>1, MaxOfBounded
    <2> QED
      BY <2>1, <2>2
  <1>6. /\ cursor' \in [Threads -> [Agents -> 0..MaxPosts]]
        /\ \A u \in Threads, b \in Agents :
             \/ cursor'[u][b] = cursor[u][b]
             \/ /\ u = r.thread /\ b = a /\ FullDrain(r.kind)
                /\ r.seen # {} /\ cursor'[u][b] = Max(r.seen)
    <2>0. cursor \in [Threads -> [Agents -> 0..MaxPosts]]
      BY <1>0 DEF TypeOK
    <2>1. CASE cursor' = cursor
      BY <2>0, <2>1
    <2>2. CASE FullDrain(r.kind) /\ r.seen # {} /\ cursor' = [cursor EXCEPT ![r.thread][a] = Max(r.seen)]
      BY <1>2, <1>5, <2>0, <2>2
    <2> QED
      BY <1>1, <2>1, <2>2
  <1>7. CursorReal'
    <2> SUFFICES ASSUME NEW u \in Threads, NEW b \in Agents, cursor'[u][b] # 0
                 PROVE  cursor'[u][b] \in Posted(u)
      BY <1>3 DEF CursorReal
    <2>1. CASE cursor'[u][b] = cursor[u][b]
      BY <2>1 DEF ReadInv, CursorReal
    <2>2. CASE u = r.thread /\ r.seen # {} /\ cursor'[u][b] = Max(r.seen)
      BY <1>2, <1>5, <2>2
    <2> QED
      BY <1>6, <2>1, <2>2
  <1>8. NothingSkipped'
    <2> SUFFICES ASSUME NEW u \in Threads, NEW b \in Agents, NEW q \in Posts,
                        q \in Posted(u), q <= cursor'[u][b]
                 PROVE  b \in acked'[q]
      BY <1>3 DEF NothingSkipped
    <2>1. CASE cursor'[u][b] = cursor[u][b]
      BY <1>4, <2>1 DEF ReadInv, NothingSkipped
    <2>2. CASE /\ u = r.thread /\ b = a /\ FullDrain(r.kind)
               /\ r.seen # {} /\ cursor'[u][b] = Max(r.seen)
      BY <1>2, <1>4, <1>5, <2>2
    <2> QED
      BY <1>6, <2>1, <2>2
  <1>9. PostsFit' /\ InOrder'
    BY <1>1 DEF ReadInv, PostsFit, InOrder
  <1>10. NoRead \in Reads /\ NoRead.phase = "idle"
    BY DEF NoRead, Reads
  <1>11. \A b \in Agents, j \in Slots :
           reader'[<<b, j>>] = IF b = a /\ j = i THEN NoRead ELSE reader[<<b, j>>]
    BY <1>0, <1>1 DEF Calls
  <1>12. ReadersFit'
    <2> SUFFICES ASSUME NEW b \in Agents, NEW j \in Slots PROVE ReadFits(b, reader[<<b, j>>])'
      BY DEF ReadersFit
    <2>1. CASE b = a /\ j = i
      BY <1>10, <1>11, <2>1 DEF ReadFits
    <2>2. CASE ~(b = a /\ j = i)
      <3>1. reader'[<<b, j>>] = reader[<<b, j>>] /\ ReadFits(b, reader[<<b, j>>])
        BY <1>11, <2>2 DEF ReadInv, ReadersFit
      <3>2. \A u : \A q \in Posted(u) : q \in Posts
        BY DEF Posted
      <3> QED
        BY <1>3, <1>4, <3>1, <3>2 DEF ReadFits
    <2> QED
      BY <2>1, <2>2
  <1>13. reader' \in [Calls -> Reads] /\ acked' \in [Posts -> SUBSET Agents]
    BY <1>0, <1>1, <1>4, <1>10 DEF Calls
  <1> QED
    BY <1>0, <1>1, <1>6, <1>7, <1>8, <1>9, <1>12, <1>13 DEF HubShape, ReadInv, TypeOK, ResolversFit, Reads

-----------------------------------------------------------------------------
(* The trash: a purge takes a thread's posts and cursors together, while   *)
(* nobody reads it.                                                        *)

LEMMA PurgeKeeps ==
    ASSUME HubShape, ReadInv, NEW t \in Threads, Purge(t)
    PROVE  HubShape' /\ ReadInv'
  <1> USE HubAssumption
  <1>0. TypeOK /\ ResolversFit /\ post \in [Posts -> Messages]
    BY DEF HubShape, TypeOK, Messages
  <1> DEFINE n == [NoPost EXCEPT !.phase = "gone"]
  <1>1. /\ \A c \in Calls : reader[c].thread # t
        /\ thread' = [thread EXCEPT ![t].state = "purged"]
        /\ post' = [p \in Posts |-> IF post[p].thread = t THEN n ELSE post[p]]
        /\ acked' = [p \in Posts |-> IF post[p].thread = t THEN {} ELSE acked[p]]
        /\ joined' = [joined EXCEPT ![t] = {}]
        /\ cursor' = [cursor EXCEPT ![t] = [a \in Agents |-> 0]]
        /\ UNCHANGED <<tick, reader, resolver, known, looping>>
    BY DEF Purge
  <1>2. n \in Messages /\ n.phase = "gone"
    <2>1. NoPost \in Messages
      BY DEF NoPost, Messages
    <2> QED
      BY <2>1 DEF Messages
  <1> HIDE DEF n
  <1>3. post' \in [Posts -> Messages]
        /\ \A q \in Posts : post'[q] = IF post[q].thread = t THEN n ELSE post[q]
    BY <1>0, <1>1, <1>2
  <1>4. \A u : Posted(u)' = IF u = t THEN {} ELSE Posted(u)
    BY <1>2, <1>3 DEF Posted
  <1>5. acked' \in [Posts -> SUBSET Agents] /\ \A u : \A q \in Posted(u) : u # t => acked'[q] = acked[q]
    BY <1>0, <1>1 DEF TypeOK, Posted
  <1>6. cursor' \in [Threads -> [Agents -> 0..MaxPosts]]
        /\ \A u \in Threads, a \in Agents : cursor'[u][a] = IF u = t THEN 0 ELSE cursor[u][a]
    BY <1>0, <1>1 DEF TypeOK
  <1>7. PostsFit' /\ InOrder'
    <2>1. \A q \in Posts : post[q].phase = "none" => post'[q] = post[q]
      BY <1>3 DEF PostsFit, ReadInv, Threads
    <2>2. \A q \in Posts : post'[q] = post[q] \/ post'[q].phase = "gone"
      BY <1>2, <1>3
    <2> QED
      BY <2>1, <2>2 DEF PostsFit, InOrder, ReadInv
  <1>8. CursorReal'
    BY <1>4, <1>6 DEF ReadInv, CursorReal
  <1>9. NothingSkipped'
    <2> SUFFICES ASSUME NEW u \in Threads, NEW a \in Agents, NEW q \in Posts,
                        q \in Posted(u)', q <= cursor'[u][a]
                 PROVE  a \in acked'[q]
      BY DEF NothingSkipped
    <2>1. u # t /\ q \in Posted(u)
      BY <1>4
    <2>2. q <= cursor[u][a]
      BY <1>6, <2>1
    <2>3. a \in acked[q]
      BY <2>1, <2>2 DEF ReadInv, NothingSkipped
    <2> QED
      BY <1>5, <2>1, <2>3
  <1>10. ReadersFit'
    <2> SUFFICES ASSUME NEW a \in Agents, NEW i \in Slots PROVE ReadFits(a, reader[<<a, i>>])'
      BY DEF ReadersFit
    <2>r. PICK r : r = reader[<<a, i>>]
      OBVIOUS
    <2>1. ReadFits(a, r) /\ reader'[<<a, i>>] = r /\ r.thread # t
      BY <1>1, <2>r DEF ReadInv, ReadersFit, Calls
    <2>2. SUFFICES ASSUME r.phase = "reading"
                   PROVE  /\ r.thread \in Threads /\ r.seen \subseteq Posted(r.thread)'
                          /\ FullDrain(r.kind) =>
                               \A q \in Posted(r.thread)', m \in r.seen : q <= m => q \in r.seen \/ a \in acked'[q]
      BY <2>1 DEF ReadFits
    <2>3. /\ r.thread \in Threads /\ r.seen \subseteq Posted(r.thread)
          /\ FullDrain(r.kind) =>
               \A q \in Posted(r.thread), m \in r.seen : q <= m => q \in r.seen \/ a \in acked[q]
      BY <2>1, <2>2 DEF ReadFits
    <2>4. Posted(r.thread)' = Posted(r.thread)
      BY <1>4, <2>1
    <2>5. \A q \in Posted(r.thread) : acked'[q] = acked[q]
      BY <1>5, <2>1
    <2> QED
      BY <2>3, <2>4, <2>5
  <1>11. thread' \in [Threads -> [state : {"unused", "live", "deleted", "purged"},
                                 marker : BOOLEAN, closed : BOOLEAN]]
    <2> DEFINE Rows == [state : {"unused", "live", "deleted", "purged"}, marker : BOOLEAN, closed : BOOLEAN]
               row == [thread[t] EXCEPT !.state = "purged"]
    <2>1. thread \in [Threads -> Rows]
      BY <1>0 DEF TypeOK
    <2>2. row \in Rows
      BY <2>1
    <2>3. thread' = [thread EXCEPT ![t] = row]
      BY <1>1
    <2> HIDE DEF Rows, row
    <2>4. thread' \in [Threads -> Rows]
      BY <2>1, <2>2, <2>3
    <2> QED
      BY <2>4 DEF Rows
  <1>12. joined' \in [Threads -> SUBSET Agents]
    BY <1>0, <1>1 DEF TypeOK
  <1> QED
    BY <1>0, <1>1, <1>3, <1>5, <1>6, <1>7, <1>8, <1>9, <1>10, <1>11, <1>12
    DEF HubShape, ReadInv, TypeOK, ResolversFit, Messages

-----------------------------------------------------------------------------
(* The invariant.                                                          *)

LEMMA HubStep ==
    ASSUME Interleaved = FALSE, HubShape, ReadInv, [Next]_vars PROVE HubShape' /\ ReadInv'
  <1> USE HubAssumption
  <1>1. CASE ReadStep
    <2>1. ASSUME NEW a \in Agents, NEW i \in Slots, EndRead(a, i) PROVE HubShape' /\ ReadInv'
      BY <2>1, EndReadKeeps
    <2>2. ASSUME NEW a \in Agents, NEW i \in Slots, NEW t \in Threads, NEW kind \in ReadKinds,
                 BeginRead(a, i, t, kind)
          PROVE  HubShape' /\ ReadInv'
      BY <2>2, BeginReadKeeps
    <2> QED
      BY <1>1, <2>1, <2>2 DEF ReadStep
  <1>2. CASE PostStep
    <2>1. ASSUME NEW author \in Authors, NEW t \in Threads, NEW k \in Kinds, BeginPost(author, t, k)
          PROVE  HubShape' /\ ReadInv'
      BY <2>1, BeginPostKeeps
    <2>2. ASSUME NEW p \in Posts, CommitPost(p) PROVE HubShape' /\ ReadInv'
      BY <2>2, CommitKeeps
    <2>3. ASSUME NEW p \in Posts, AbortPost(p) PROVE HubShape' /\ ReadInv'
      BY <2>3, AbortKeeps
    <2> QED
      BY <1>2, <2>1, <2>2, <2>3 DEF PostStep
  <1>3. CASE ThreadStep
    <2>1. ASSUME NEW s \in Resolvers, BeginDecision(s) PROVE HubShape' /\ ReadInv'
      BY <2>1, BeginDecisionKeeps
    <2>2. ASSUME NEW t \in Threads, Purge(t) PROVE HubShape' /\ ReadInv'
      BY <2>2, PurgeKeeps
    <2>3. ASSUME NEW s \in Resolvers,
                 \/ Mint(s) \/ Collide(s) \/ Learn(s)
                 \/ \E a \in Agents, why \in {"mission", "decision"} : Resolve(s, a, why)
          PROVE  HubShape' /\ ReadInv'
      BY <2>3, ResolversTyped, ApartKept
    <2>4. ASSUME \/ \E a \in Agents : CreateThread(a) \/ Poll(a) \/ \E t \in Threads : Join(a, t)
                 \/ \E t \in Threads : Delete(t) \/ Restore(t)
          PROVE  HubShape' /\ ReadInv'
      BY <2>4, ThreadsTyped, ApartKept
    <2>5. \/ \E s \in Resolvers : BeginDecision(s)
          \/ \E t \in Threads : Purge(t)
          \/ \E s \in Resolvers :
                 \/ Mint(s) \/ Collide(s) \/ Learn(s)
                 \/ \E a \in Agents, why \in {"mission", "decision"} : Resolve(s, a, why)
          \/ \E a \in Agents : CreateThread(a) \/ Poll(a) \/ \E t \in Threads : Join(a, t)
          \/ \E t \in Threads : Delete(t) \/ Restore(t)
      BY <1>3, Zenon DEF ThreadStep
    <2> QED
      BY <2>1, <2>2, <2>3, <2>4, <2>5
  <1>4. CASE UNCHANGED vars
    <2>1. UNCHANGED <<thread, tick, post, joined, cursor, acked, reader, resolver, known, looping>>
      BY <1>4 DEF vars
    <2>2. ReadInv'
      BY <2>1, ApartKept
    <2> QED
      BY <2>1, <2>2 DEF HubShape, TypeOK, ResolversFit
  <1> QED
    BY <1>1, <1>2, <1>3, <1>4 DEF Next

(* A participant's cursor never passes a post the participant was not      *)
(* shown, through any number of overlapping reads of every kind, posts     *)
(* that fail, and threads deleted, restored and purged: what unread_only   *)
(* leaves out was acknowledged.  It rests on posts committing in the order *)
(* they started, which nothing in comm_thread_service.py enforces.         *)
THEOREM NothingSkippedHolds ==
    ASSUME Interleaved = FALSE PROVE Spec => []NothingSkipped
  <1>1. Init => HubShape /\ ReadInv
    BY HubInit
  <1>2. HubShape /\ ReadInv /\ [Next]_vars => HubShape' /\ ReadInv'
    BY HubStep
  <1>3. ReadInv => NothingSkipped
    BY DEF ReadInv
  <1> QED
    BY <1>1, <1>2, <1>3, PTL DEF Spec

(* Under the same condition a cursor stands on a post of its own thread    *)
(* that is there, or on none: a purge leaves no cursor ahead of the posts. *)
THEOREM CursorRealHolds ==
    ASSUME Interleaved = FALSE PROVE Spec => []CursorReal
  <1>1. Init => HubShape /\ ReadInv
    BY HubInit
  <1>2. HubShape /\ ReadInv /\ [Next]_vars => HubShape' /\ ReadInv'
    BY HubStep
  <1>3. ReadInv => CursorReal
    BY DEF ReadInv
  <1> QED
    BY <1>1, <1>2, <1>3, PTL DEF Spec

-----------------------------------------------------------------------------
(* The bound thread: once there is one it stays the bound thread, because  *)
(* only one call at a time mints, and a marker thread goes before the      *)
(* organic ones, an older thread before a younger.                         *)

Open(p) == post[p].phase \in {"begun", "posted"}
MeetInv ==
    /\ \A t \in Threads : thread[t].state \in {"unused", "live"} /\ (Live(t) => t < tick)
    /\ \A s \in Resolvers : resolver[s].phase = "creating" => Bound = 0 /\ resolver[s].thread < tick
    /\ \A r, s \in Resolvers :
         resolver[r].phase = "creating" /\ resolver[s].phase = "creating" => r = s
    /\ \A s \in Resolvers : resolver[s].phase = "found" => resolver[s].thread = Bound
    /\ \A a \in Agents : known[a] # 0 => known[a] = Bound
    /\ \A p \in Posts : post[p].decision /\ Open(p) => post[p].thread = Bound

LEMMA BoundNone == ASSUME HubShape PROVE Bound = 0 <=> \A t \in Threads : ~Live(t)
  <1> USE HubAssumption
  <1> DEFINE live == {t \in Threads : Live(t)}
             marked == {t \in live : thread[t].marker}
  <1>1. live \in SUBSET Nat /\ marked \in SUBSET Nat /\ live \subseteq Threads /\ marked \subseteq Threads
    BY DEF Threads
  <1>2. Bound = IF live = {} THEN 0 ELSE IF marked # {} THEN Min(marked) ELSE Min(live)
    BY DEF Bound
  <1>3. live = {} <=> \A t \in Threads : ~Live(t)
    OBVIOUS
  <1> HIDE DEF live, marked
  <1>4. live # {} => Bound \in Threads
    <2>1. CASE marked # {}
      BY <1>1, <1>2, <2>1, MinOfNaturals
    <2>2. CASE marked = {}
      BY <1>1, <1>2, <2>2, MinOfNaturals
    <2> QED BY <2>1, <2>2
  <1>5. 0 \notin Threads
    BY DEF Threads
  <1> QED BY <1>2, <1>3, <1>4, <1>5

(* The bound thread depends on the states and the markers only.            *)
LEMMA BoundKept ==
    ASSUME \A t \in Threads : thread'[t].state = thread[t].state /\ thread'[t].marker = thread[t].marker
    PROVE  Bound' = Bound /\ \A t \in Threads : Live(t)' <=> Live(t)
  <1>1. \A t \in Threads : Live(t)' <=> Live(t)
    BY DEF Live
  <1>2. {t \in Threads : Live(t)}' = {t \in Threads : Live(t)}
    BY <1>1
  <1>3. {t \in {u \in Threads : Live(u)} : thread[t].marker}' = {t \in {u \in Threads : Live(u)} : thread[t].marker}
    BY <1>1
  <1> QED BY <1>1, <1>2, <1>3 DEF Bound

(* Steps that leave the threads, the calls and the missions alone.         *)
LEMMA MeetKept ==
    ASSUME MeetInv, UNCHANGED <<tick, resolver, known>>,
           \A t \in Threads : thread'[t].state = thread[t].state /\ thread'[t].marker = thread[t].marker,
           \A p \in Posts : post'[p].decision /\ Open(p)' =>
               post[p].decision /\ Open(p) /\ post'[p].thread = post[p].thread
    PROVE  MeetInv'
  <1>1. Bound' = Bound /\ \A t \in Threads : Live(t)' <=> Live(t)
    BY BoundKept
  <1> QED BY <1>1 DEF MeetInv

LEMMA MeetInit == Init => MeetInv
  <1> SUFFICES ASSUME Init PROVE MeetInv
    OBVIOUS
  <1>1. /\ \A t \in Threads : thread[t].state = "unused"
        /\ \A s \in Resolvers : resolver[s].phase = "idle"
        /\ \A a \in Agents : known[a] = 0
        /\ \A p \in Posts : post[p].phase = "none"
    BY DEF Init, NoThread, NoCall, NoPost
  <1> QED BY <1>1 DEF MeetInv, Live, Open

(* A younger thread without a marker does not become the bound one.        *)
LEMMA CreateMeets ==
    ASSUME Interleaved = FALSE, HubShape, ReadInv, MeetInv, NEW a \in Agents, CreateThread(a)
    PROVE  MeetInv'
  <1> USE HubAssumption
  <1>0. /\ thread \in [Threads -> [state : {"unused", "live", "deleted", "purged"},
                                    marker : BOOLEAN, closed : BOOLEAN]]
        /\ tick \in Nat
    BY DEF HubShape, TypeOK
  <1> DEFINE row == [NoThread EXCEPT !.state = "live"]
  <1>1. /\ \A s \in Resolvers : resolver[s].phase # "creating"
        /\ tick \in Threads /\ tick' = tick + 1
        /\ thread' = [thread EXCEPT ![tick] = row]
        /\ UNCHANGED <<post, resolver, known>>
    BY DEF CreateThread
  <1>2. row.state = "live" /\ row.marker = FALSE
    BY DEF NoThread
  <1> HIDE DEF row
  <1>3. thread'[tick] = row /\ \A t \in Threads \ {tick} : thread'[t] = thread[t]
    BY <1>0, <1>1
  <1>4. \A t \in Threads : thread'[t].state \in {"unused", "live"} /\ (Live(t)' => t < tick')
    BY <1>0, <1>1, <1>2, <1>3 DEF MeetInv, Live, Threads
  <1>5. Bound # 0 => Bound' = Bound
    <2> SUFFICES ASSUME Bound # 0 PROVE Bound' = Bound
      OBVIOUS
    <2> DEFINE live == {t \in Threads : Live(t)}
               marked == {t \in live : thread[t].marker}
    <2>1. /\ live' = live \cup {tick} /\ tick \notin live
          /\ marked' = marked
      BY <1>0, <1>1, <1>2, <1>3 DEF MeetInv, Live, Threads
    <2>2. live # {} /\ live \in SUBSET Nat /\ \A t \in live : t < tick
      BY BoundNone DEF Threads, MeetInv
    <2>3. Bound = IF live = {} THEN 0 ELSE IF marked # {} THEN Min(marked) ELSE Min(live)
      BY DEF Bound
    <2>4. Bound' = IF live' = {} THEN 0 ELSE IF marked' # {} THEN Min(marked') ELSE Min(live')
      BY DEF Bound
    <2> HIDE DEF live, marked
    <2>5. PICK x, y : x = live /\ y = live \cup {tick}
      OBVIOUS
    <2>6. Min(y) = Min(x)
      <3>1. x \in SUBSET Nat /\ x # {} /\ y = x \cup {tick} /\ \A t \in x : t < tick
        BY <2>2, <2>5
      <3>2. y \in SUBSET Nat /\ y # {}
        BY <1>0, <3>1
      <3>3. Min(x) \in x /\ (\A m \in x : Min(x) <= m) /\ Min(y) \in y /\ (\A m \in y : Min(y) <= m)
        BY <3>1, <3>2, MinOfNaturals
      <3>4. PICK m, n : m = Min(x) /\ n = Min(y)
        OBVIOUS
      <3>5. m \in Nat /\ n \in Nat /\ n <= m /\ (n \in x => m <= n) /\ (n = tick => n > m)
        BY <1>0, <3>1, <3>2, <3>3, <3>4
      <3>6. n \in x \/ n = tick
        BY <3>1, <3>3, <3>4
      <3> QED BY <3>4, <3>5, <3>6
    <2> QED BY <2>1, <2>2, <2>3, <2>4, <2>5, <2>6
  <1>6. Bound = 0 => /\ \A s \in Resolvers : resolver[s].phase # "found"
                     /\ \A b \in Agents : known[b] = 0
                     /\ \A p \in Posts : ~(post[p].decision /\ Open(p))
    BY DEF MeetInv, HubShape, ResolversFit, ReadInv, PostsFit, Open, Threads
  <1>7. \A p \in Posts : Open(p)' <=> Open(p)
    BY <1>1 DEF Open
  <1> QED BY <1>1, <1>4, <1>5, <1>6, <1>7 DEF MeetInv

(* The one that mints finds no thread still, so its thread is the bound one. *)
LEMMA MintMeets ==
    ASSUME HubShape, ReadInv, MeetInv, NEW s \in Resolvers, Mint(s)
    PROVE  MeetInv'
  <1> USE HubAssumption
  <1>0. /\ thread \in [Threads -> [state : {"unused", "live", "deleted", "purged"},
                                    marker : BOOLEAN, closed : BOOLEAN]]
        /\ tick \in Nat
        /\ resolver \in [Resolvers -> [phase : {"idle", "creating", "found"}, thread : 0..MaxThreads,
                                        agent : Agents \cup {User}, why : {"mission", "decision"}]]
    BY DEF HubShape, TypeOK
  <1> DEFINE row == [NoThread EXCEPT !.state = "live", !.marker = TRUE]
             c == [resolver[s] EXCEPT !.phase = "found"]
  <1>t. PICK u \in Threads : u = resolver[s].thread
    BY DEF Mint, HubShape, ResolversFit
  <1>1. /\ resolver[s].phase = "creating"
        /\ thread' = [thread EXCEPT ![u] = row]
        /\ resolver' = [resolver EXCEPT ![s] = c]
        /\ UNCHANGED <<tick, post, known>>
    BY <1>0, <1>t DEF Mint
  <1>2. row.state = "live" /\ row.marker = TRUE /\ c.phase = "found" /\ c.thread = u
    BY <1>0, <1>t DEF NoThread
  <1> HIDE DEF row, c
  <1>3. thread'[u] = row /\ \A t \in Threads \ {u} : thread'[t] = thread[t]
    BY <1>0, <1>1
  <1>4. Bound = 0 /\ \A t \in Threads : ~Live(t)
    BY <1>1, BoundNone DEF MeetInv
  <1>5. \A t \in Threads : Live(t)' <=> t = u
    BY <1>2, <1>3, <1>4 DEF Live
  <1>6. Bound' = u
    <2>1. {t \in Threads : Live(t)}' = {u} /\ {t \in {v \in Threads : Live(v)} : thread[t].marker}' = {u}
      BY <1>2, <1>3, <1>5
    <2>2. Bound' = Min({u})
      BY <2>1 DEF Bound
    <2>3. {u} \in SUBSET Nat /\ {u} # {}
      BY DEF Threads
    <2> QED BY <2>2, <2>3, MinOfNaturals
  <1>7. /\ \A r \in Resolvers : resolver[r].phase # "found"
        /\ \A b \in Agents : known[b] = 0
        /\ \A p \in Posts : ~(post[p].decision /\ Open(p))
    BY <1>4 DEF MeetInv, HubShape, ResolversFit, ReadInv, PostsFit, Open, Threads
  <1>8. resolver'[s] = c /\ \A r \in Resolvers \ {s} : resolver'[r] = resolver[r] /\ resolver[r].phase = "idle"
    BY <1>0, <1>1, <1>7 DEF MeetInv
  <1>9. \A t \in Threads : thread'[t].state \in {"unused", "live"} /\ (Live(t)' => t < tick')
    BY <1>1, <1>2, <1>3, <1>5, <1>t DEF MeetInv
  <1>10. \A p \in Posts : ~(post'[p].decision /\ Open(p)')
    BY <1>1, <1>7 DEF Open
  <1> QED BY <1>1, <1>2, <1>6, <1>7, <1>8, <1>9, <1>10 DEF MeetInv

(* A call that looks the thread up.                                        *)
LEMMA ResolveMeets ==
    ASSUME Interleaved = FALSE, HubShape, MeetInv, NEW s \in Resolvers, NEW a \in Agents,
           NEW why \in {"mission", "decision"}, Resolve(s, a, why)
    PROVE  MeetInv'
  <1> USE HubAssumption
  <1>0. /\ tick \in Nat
        /\ resolver \in [Resolvers -> [phase : {"idle", "creating", "found"}, thread : 0..MaxThreads,
                                        agent : Agents \cup {User}, why : {"mission", "decision"}]]
    BY DEF HubShape, TypeOK
  <1>c. PICK c : c = [phase |-> IF Bound = 0 THEN "creating" ELSE "found",
                      thread |-> IF Bound = 0 THEN tick ELSE Bound, agent |-> a, why |-> why]
    OBVIOUS
  <1>1. /\ resolver' = [resolver EXCEPT ![s] = c]
        /\ Bound = 0 => \A r \in Resolvers : resolver[r].phase # "creating"
        /\ tick' = IF Bound = 0 THEN tick + 1 ELSE tick
        /\ UNCHANGED <<thread, post, known>>
    BY <1>c DEF Resolve
  <1>2. /\ c.phase = "creating" => Bound = 0 /\ c.thread = tick /\ tick' = tick + 1
        /\ c.phase = "found" => c.thread = Bound /\ Bound # 0
    BY <1>1, <1>c
  <1>3. resolver'[s] = c /\ \A r \in Resolvers \ {s} : resolver'[r] = resolver[r]
    BY <1>0, <1>1
  <1>4. Bound' = Bound /\ (\A t \in Threads : Live(t)' <=> Live(t)) /\ \A p \in Posts : Open(p)' <=> Open(p)
    BY <1>1, BoundKept DEF Open
  <1>5. tick' >= tick /\ tick' \in Nat
    BY <1>0, <1>1
  <1>6. \A t \in Threads : thread'[t].state \in {"unused", "live"} /\ (Live(t)' => t < tick')
    BY <1>0, <1>1, <1>4, <1>5 DEF MeetInv, Threads
  <1>7. \A r \in Resolvers : resolver'[r].phase = "creating" => Bound = 0 /\ resolver'[r].thread < tick'
    <2> SUFFICES ASSUME NEW r \in Resolvers, resolver'[r].phase = "creating"
                 PROVE  Bound = 0 /\ resolver'[r].thread < tick'
      OBVIOUS
    <2>1. CASE r = s
      BY <1>0, <1>2, <1>3, <2>1
    <2>2. CASE r # s
      <3>1. resolver'[r] = resolver[r] /\ Bound = 0 /\ resolver[r].thread < tick
        BY <1>3, <2>2 DEF MeetInv
      <3>2. resolver[r].thread \in Nat
        BY <1>0
      <3> QED BY <1>0, <1>5, <3>1, <3>2
    <2> QED BY <2>1, <2>2
  <1>8. \A q, r \in Resolvers :
          resolver'[q].phase = "creating" /\ resolver'[r].phase = "creating" => q = r
    BY <1>1, <1>2, <1>3 DEF MeetInv
  <1>9. \A r \in Resolvers : resolver'[r].phase = "found" => resolver'[r].thread = Bound
    BY <1>2, <1>3 DEF MeetInv
  <1> QED BY <1>1, <1>4, <1>6, <1>7, <1>8, <1>9 DEF MeetInv

(* A call that ends, told or failed.                                       *)
LEMMA CallEnds ==
    ASSUME HubShape, MeetInv, NEW s \in Resolvers, resolver' = [resolver EXCEPT ![s] = NoCall],
           UNCHANGED <<thread, tick>>,
           \A a \in Agents : known'[a] \in {known[a], Bound},
           \A p \in Posts : post'[p].decision /\ Open(p)' => post'[p].thread = Bound
    PROVE  MeetInv'
  <1>1. /\ resolver \in [Resolvers -> [phase : {"idle", "creating", "found"}, thread : 0..MaxThreads,
                                        agent : Agents \cup {User}, why : {"mission", "decision"}]]
    BY DEF HubShape, TypeOK
  <1>2. NoCall.phase = "idle"
    BY DEF NoCall
  <1>3. \A r \in Resolvers : resolver'[r] = resolver[r] \/ resolver'[r].phase = "idle"
    BY <1>1, <1>2
  <1>4. Bound' = Bound /\ \A t \in Threads : Live(t)' <=> Live(t)
    BY BoundKept
  <1> QED BY <1>3, <1>4 DEF MeetInv

(* What a post that starts is made of.                                     *)
LEMMA BeginWrites ==
    ASSUME post \in [Posts -> Messages], NEW author, NEW t, NEW k, NEW decision,
           Begin(author, t, k, decision)
    PROVE  \A p \in Posts :
             post'[p] = post[p] \/ (post'[p].thread = t /\ post'[p].decision = decision)
  <1>m. PICK m : m = [phase |-> "begun", thread |-> t, action |-> k.action, loop |-> k.loop,
                      status |-> k.status, decision |-> decision,
                      to |-> IF k.to = Everyone THEN (joined[t] \cup Roster) \ {author} ELSE {k.to},
                      enrols |-> IF k.to = Everyone THEN Roster ELSE {}]
    OBVIOUS
  <1>1. m.thread = t /\ m.decision = decision
    BY <1>m
  <1>2. PICK q \in Posts : post' = [post EXCEPT ![q] = m]
    BY <1>m DEF Begin
  <1>3. \A p \in Posts : post'[p] = post[p] \/ post'[p] = m
    BY <1>2
  <1> QED BY <1>1, <1>3

LEMMA DecisionMeets ==
    ASSUME HubShape, MeetInv, NEW s \in Resolvers, BeginDecision(s) PROVE MeetInv'
  <1> USE HubAssumption
  <1>0. post \in [Posts -> Messages]
    BY DEF HubShape, TypeOK, Messages
  <1>1. /\ resolver[s].phase = "found" /\ resolver' = [resolver EXCEPT ![s] = NoCall]
        /\ UNCHANGED <<thread, tick, known>>
        /\ Begin(User, resolver[s].thread, Decision(resolver[s].agent), TRUE) \/ UNCHANGED post
    BY DEF BeginDecision
  <1>2. resolver[s].thread = Bound
    BY <1>1 DEF MeetInv
  <1>3. \A p \in Posts : post'[p] = post[p] \/ post'[p].thread = Bound
    <2>1. ASSUME Begin(User, resolver[s].thread, Decision(resolver[s].agent), TRUE)
          PROVE  \A p \in Posts : post'[p] = post[p] \/ post'[p].thread = resolver[s].thread
      BY <1>0, <2>1, BeginWrites, ZenonT(90)
    <2> QED BY <1>0, <1>1, <1>2, <2>1
  <1>4. \A p \in Posts : post'[p].decision /\ Open(p)' => post'[p].thread = Bound
    BY <1>3 DEF MeetInv, Open
  <1> QED BY <1>1, <1>4, CallEnds

(* The posts keep their thread until they go.                              *)
LEMMA PostsMeet ==
    ASSUME HubShape, MeetInv, PostStep PROVE MeetInv'
  <1> USE HubAssumption
  <1>0. /\ post \in [Posts -> Messages]
        /\ thread \in [Threads -> [state : {"unused", "live", "deleted", "purged"},
                                    marker : BOOLEAN, closed : BOOLEAN]]
    BY DEF HubShape, TypeOK, Messages
  <1>1. ASSUME NEW author \in Authors, NEW t \in Threads, NEW k \in Kinds, BeginPost(author, t, k)
        PROVE  MeetInv'
    <2>1. /\ Begin(author, t, k, FALSE) /\ UNCHANGED <<thread, tick, resolver, known>>
      BY <1>1 DEF BeginPost
    <2>2. \A p \in Posts : post'[p] = post[p] \/ post'[p].decision = FALSE
      BY <1>0, <2>1, BeginWrites, ZenonT(90)
    <2> QED BY <2>1, <2>2, MeetKept DEF Open
  <1>2. ASSUME NEW p \in Posts, CommitPost(p) PROVE MeetInv'
    <2>1. PICK m : m = [post[p] EXCEPT !.phase = "posted"]
      OBVIOUS
    <2>2. /\ post[p].phase = "begun" /\ post' = [post EXCEPT ![p] = m]
          /\ UNCHANGED <<tick, resolver, known>>
      BY <1>0, <1>2, <2>1 DEF CommitPost
    <2>3. m.thread = post[p].thread /\ m.decision = post[p].decision
      BY <1>0, <2>1 DEF Messages
    <2>4. \A t \in Threads : thread'[t].state = thread[t].state /\ thread'[t].marker = thread[t].marker
      <3>1. PICK u, x : u = post[p].thread /\ x = [thread[u] EXCEPT !.closed = post[p].status = "resolved"]
        OBVIOUS
      <3>2. thread' = thread \/ (Live(u) /\ thread' = [thread EXCEPT ![u] = x])
        BY <1>0, <1>2, <3>1 DEF CommitPost
      <3>3. u \in Threads => x.state = thread[u].state /\ x.marker = thread[u].marker
        BY <1>0, <3>1
      <3> QED BY <1>0, <3>2, <3>3
    <2>5. \A q \in Posts : post'[q] = post[q] \/ (q = p /\ post'[q] = m)
      BY <1>0, <2>2
    <2> QED BY <2>2, <2>3, <2>4, <2>5, MeetKept DEF Open
  <1>3. ASSUME NEW p \in Posts, AbortPost(p) PROVE MeetInv'
    <2>1. /\ post' = [post EXCEPT ![p] = [NoPost EXCEPT !.phase = "gone"]]
          /\ UNCHANGED <<thread, tick, resolver, known>>
      BY <1>3 DEF AbortPost
    <2>2. [NoPost EXCEPT !.phase = "gone"].phase = "gone"
      BY DEF NoPost
    <2>3. \A q \in Posts : post'[q] = post[q] \/ post'[q].phase = "gone"
      BY <1>0, <2>1, <2>2
    <2> QED BY <2>1, <2>3, MeetKept DEF Open
  <1> QED BY <1>1, <1>2, <1>3 DEF PostStep

LEMMA MeetStep ==
    ASSUME Interleaved = FALSE, HubShape, ReadInv, MeetInv, [Next]_vars,
           \A t \in Threads : ~Delete(t)
    PROVE  MeetInv'
  <1> USE HubAssumption
  <1>1. CASE ReadStep
    <2>1. UNCHANGED <<thread, tick, post, resolver, known>>
      BY <1>1 DEF ReadStep, EndRead, BeginRead
    <2> QED BY <2>1, MeetKept DEF Open
  <1>2. CASE PostStep
    BY <1>2, PostsMeet
  <1>3. ASSUME NEW s \in Resolvers, Learn(s) PROVE MeetInv'
    <2>1. /\ resolver[s].phase = "found" /\ resolver' = [resolver EXCEPT ![s] = NoCall]
          /\ known' = [known EXCEPT ![resolver[s].agent] = resolver[s].thread]
          /\ UNCHANGED <<thread, tick, post>>
      BY <1>3 DEF Learn
    <2>2. resolver[s].thread = Bound
      BY <2>1 DEF MeetInv
    <2>3. \A a \in Agents : known'[a] \in {known[a], Bound}
      BY <2>1, <2>2 DEF HubShape, TypeOK
    <2>4. \A p \in Posts : post'[p].decision /\ Open(p)' => post'[p].thread = Bound
      BY <2>1 DEF MeetInv, Open
    <2> QED BY <2>1, <2>3, <2>4, CallEnds
  <1>4. ASSUME NEW s \in Resolvers, Collide(s) PROVE MeetInv'
    <2>1. resolver' = [resolver EXCEPT ![s] = NoCall] /\ UNCHANGED <<thread, tick, post, known>>
      BY <1>4 DEF Collide
    <2>2. \A p \in Posts : post'[p].decision /\ Open(p)' => post'[p].thread = Bound
      BY <2>1 DEF MeetInv, Open
    <2> QED BY <2>1, <2>2, CallEnds
  <1>5. ASSUME NEW a \in Agents, Poll(a) \/ \E t \in Threads : Join(a, t) PROVE MeetInv'
    <2>1. UNCHANGED <<thread, tick, post, resolver, known>>
      BY <1>5 DEF Poll, Join
    <2> QED BY <2>1, MeetKept DEF Open
  <1>6. ASSUME NEW t \in Threads, Delete(t) \/ Restore(t) \/ Purge(t) PROVE MeetInv'
    BY <1>6 DEF Delete, Restore, Purge, MeetInv
  <1>7. CASE UNCHANGED vars
    <2>1. UNCHANGED <<thread, tick, post, resolver, known>>
      BY <1>7 DEF vars
    <2> QED BY <2>1, MeetKept DEF Open
  <1>8. CASE ThreadStep
    BY <1>3, <1>4, <1>5, <1>6, <1>8, MintMeets, ResolveMeets, DecisionMeets, CreateMeets DEF ThreadStep
  <1> QED BY <1>1, <1>2, <1>7, <1>8 DEF Next

(* The user's decision is posted on the thread the agent was told to read,  *)
(* whatever threads agents open by themselves.  It rests on one call at a   *)
(* time minting and on no thread being deleted: the look-up and the insert  *)
(* are not serialised, and a deleted thread loses its place to another.     *)
THEOREM DecisionOnKnownThreadHolds ==
    ASSUME Interleaved = FALSE, "delete" \notin Ops PROVE Spec => []DecisionOnKnownThread
  <1>1. Init => HubShape /\ ReadInv /\ MeetInv
    BY HubInit, MeetInit
  <1>2. HubShape /\ ReadInv /\ MeetInv /\ [Next]_vars => HubShape' /\ ReadInv' /\ MeetInv'
    BY HubStep, MeetStep DEF Delete
  <1>3. HubShape /\ MeetInv => DecisionOnKnownThread
    BY DEF MeetInv, DecisionOnKnownThread, Open, HubShape, TypeOK
  <1> QED BY <1>1, <1>2, <1>3, PTL DEF Spec
-----------------------------------------------------------------------------
(* The todo list of an agent.                                              *)
Row == Todo!Row
Listed == Replacements \cup Appends

(* g is what Numbered builds of the first m entries of a list.              *)
Kept(g, list, first, m) ==
    g = [n \in 0..m |->
          IF n = 0 THEN <<>>
          ELSE IF list[n].content = Blank THEN g[n - 1]
          ELSE Append(g[n - 1], Todo!RowOf(list[n], first, n))]

(* A least length without one would follow one with one.                    *)
LEMMA NumberedExists ==
    ASSUME NEW list, NEW first, NEW len \in Nat PROVE \E g : Kept(g, list, first, len)
  <1> DEFINE T == {m \in 0..len : ~ \E g : Kept(g, list, first, m)}
  <1>1. SUFFICES ASSUME T # {} PROVE FALSE
    OBVIOUS
  <1>2. T \in SUBSET Nat
    OBVIOUS
  <1> HIDE DEF T
  <1>3. PICK m \in T : \A k \in T : m <= k
    BY <1>1, <1>2, LeastExists
  <1>4. m \in 0..len /\ ~ \E g : Kept(g, list, first, m)
    BY <1>3 DEF T
  <1>5. CASE m = 0
    <2>1. Kept([n \in 0..0 |-> <<>>], list, first, m)
      BY <1>5 DEF Kept
    <2> QED BY <1>4, <2>1
  <1>6. CASE m # 0
    <2>1. m - 1 \in 0..len /\ m - 1 \notin T
      BY <1>3, <1>4, <1>6
    <2>2. PICK g : Kept(g, list, first, m - 1)
      BY <2>1 DEF T
    <2>r. PICK r : r = Todo!RowOf(list[m], first, m)
      OBVIOUS
    <2> DEFINE h == [n \in 0..m |-> IF n < m THEN g[n]
                      ELSE IF list[m].content = Blank THEN g[m - 1] ELSE Append(g[m - 1], r)]
    <2>3. \A n \in 0..m : h[n] = IF n = 0 THEN <<>>
                        ELSE IF list[n].content = Blank THEN h[n - 1]
                        ELSE Append(h[n - 1], Todo!RowOf(list[n], first, n))
      <3>0. m \in Nat
        BY <1>4
      <3>1. \A n \in 0..m : n < m => h[n] = g[n]
        OBVIOUS
      <3>2. h[m] = IF list[m].content = Blank THEN g[m - 1] ELSE Append(g[m - 1], r)
        BY <3>0
      <3>3. \A n \in 0..(m - 1) : g[n] = IF n = 0 THEN <<>>
                          ELSE IF list[n].content = Blank THEN g[n - 1]
                          ELSE Append(g[n - 1], Todo!RowOf(list[n], first, n))
        BY <2>2 DEF Kept
      <3> HIDE DEF h
      <3> TAKE n \in 0..m
      <3>4. CASE n = m
        <4>1. h[m - 1] = g[m - 1]
          BY <1>6, <3>0, <3>1
        <4> QED BY <1>6, <2>r, <3>2, <3>4, <4>1
      <3>5. CASE n # m
        <4>1. n < m /\ n \in 0..(m - 1) /\ (n # 0 => n - 1 \in 0..m /\ n - 1 < m)
          BY <3>0, <3>5
        <4>2. h[n] = g[n] /\ (n # 0 => h[n - 1] = g[n - 1])
          BY <3>1, <4>1
        <4> QED BY <3>3, <4>1, <4>2
      <3> QED BY <3>4, <3>5
    <2>4. Kept(h, list, first, m)
      <3>1. h = [n \in 0..m |-> h[n]]
        OBVIOUS
      <3> HIDE DEF h
      <3> QED BY <2>3, <3>1 DEF Kept
    <2> QED BY <1>4, <2>4
  <1> QED BY <1>5, <1>6

(* The rows of the first m entries of a list: one for each entry that has   *)
(* content and in the list's order, which is that of their numbers.         *)
RowsOf(s, list, first, m) ==
    /\ s \in Seq(Row)
    /\ \A i \in 1..Len(s) : \E n \in 1..m :
          list[n].content # Blank /\ s[i] = Todo!RowOf(list[n], first, n)
    /\ \A n \in 1..m : list[n].content # Blank =>
          \E i \in 1..Len(s) : s[i] = Todo!RowOf(list[n], first, n)
    /\ \A i, j \in 1..Len(s) : i < j => s[i].seq < s[j].seq

LEMMA EntryRow ==
    ASSUME Todo!TodoAssumption, NEW list \in Listed, NEW first \in Nat, NEW n \in 1..Len(list),
           list[n].content # Blank
    PROVE  /\ Todo!RowOf(list[n], first, n) \in Row
           /\ Todo!RowOf(list[n], first, n).seq = first + n - 1
           /\ Todo!RowOf(list[n], first, n).status = list[n].status
  <1>1. list \in Seq(Todo!Entries) /\ list[n] \in Todo!Entries
    BY DEF Todo!TodoAssumption, Listed
  <1>2. list[n].status \in Todo!Statuses /\ first + n - 1 \in Nat
    BY <1>1 DEF Todo!TodoAssumption
  <1> QED BY <1>1, <1>2 DEF Row, Todo!Row, Todo!RowOf

LEMMA NumberedRows ==
    ASSUME Todo!TodoAssumption, NEW list \in Listed, NEW first \in Nat
    PROVE  RowsOf(Todo!Numbered(list, first), list, first, Len(list))
  <1>0. Len(list) \in Nat
    BY DEF Todo!TodoAssumption, Listed
  <1> DEFINE g == CHOOSE g : Kept(g, list, first, Len(list))
  <1>1. Kept(g, list, first, Len(list))
    BY <1>0, NumberedExists
  <1>2. Todo!Numbered(list, first) = g[Len(list)]
    BY Zenon DEF Todo!Numbered, Kept
  <1> HIDE DEF g
  <1> DEFINE T == {m \in 0..Len(list) : ~RowsOf(g[m], list, first, m)}
  <1>3. T = {}
    <2>1. SUFFICES ASSUME T # {} PROVE FALSE
      OBVIOUS
    <2>2. T \in SUBSET Nat
      BY <1>0
    <2> HIDE DEF T
    <2>3. PICK m \in T : \A k \in T : m <= k
      BY <2>1, <2>2, LeastExists
    <2>4. m \in 0..Len(list) /\ ~RowsOf(g[m], list, first, m)
      BY <2>3 DEF T
    <2>5. CASE m = 0
      <3>1. g[m] = <<>>
        BY <1>0, <1>1, <2>5 DEF Kept
      <3>2. <<>> \in Seq(Row) /\ Len(<<>>) = 0 /\ 1..0 = {}
        OBVIOUS
      <3>3. RowsOf(<<>>, list, first, 0)
        BY <3>2 DEF RowsOf
      <3> QED BY <2>4, <2>5, <3>1, <3>3
    <2>6. CASE m # 0
      <3>1. m - 1 \in 0..Len(list) /\ m - 1 \notin T /\ m \in 1..Len(list)
        BY <1>0, <2>3, <2>4, <2>6
      <3>h. PICK h : h = g[m - 1]
        OBVIOUS
      <3>2. RowsOf(h, list, first, m - 1)
        BY <3>1, <3>h DEF T
      <3>3. g[m] = IF list[m].content = Blank THEN h ELSE Append(h, Todo!RowOf(list[m], first, m))
        BY <1>1, <2>4, <2>6, <3>h DEF Kept
      <3>4. \A n \in 1..m : n = m \/ n \in 1..(m - 1)
        BY <1>0, <3>1
      <3>5. 1..(m - 1) \subseteq 1..m /\ m \in 1..m /\ m \in Nat
        BY <1>0, <3>1
      <3>6. CASE list[m].content = Blank
        <4>1. RowsOf(h, list, first, m)
          BY <3>2, <3>4, <3>5, <3>6 DEF RowsOf
        <4> QED BY <2>4, <3>3, <3>6, <4>1
      <3>7. CASE list[m].content # Blank
        <4>r. PICK r : r = Todo!RowOf(list[m], first, m)
          OBVIOUS
        <4>1. r \in Row /\ r.seq = first + m - 1
          BY <3>1, <3>7, <4>r, EntryRow
        <4>f. PICK f : f = Append(h, r)
          OBVIOUS
        <4>2. /\ f \in Seq(Row) /\ Len(f) = Len(h) + 1 /\ f[Len(h) + 1] = r
              /\ Len(h) \in Nat /\ \A i \in 1..Len(h) : f[i] = h[i]
          BY <3>2, <4>1, <4>f DEF RowsOf
        <4>3. \A i \in 1..Len(f) : i = Len(h) + 1 \/ i \in 1..Len(h)
          BY <4>2
        <4>4. \A i \in 1..Len(f) : \E n \in 1..m :
                 list[n].content # Blank /\ f[i] = Todo!RowOf(list[n], first, n)
          BY <3>2, <3>5, <3>7, <4>r, <4>2, <4>3 DEF RowsOf
        <4>5. \A n \in 1..m : list[n].content # Blank =>
                 \E i \in 1..Len(f) : f[i] = Todo!RowOf(list[n], first, n)
          <5>1. 1..Len(h) \subseteq 1..Len(f) /\ Len(h) + 1 \in 1..Len(f)
            BY <4>2
          <5> QED BY <3>2, <3>4, <4>r, <4>2, <5>1 DEF RowsOf
        <4>6. \A i, j \in 1..Len(f) : i < j => f[i].seq < f[j].seq
          <5> SUFFICES ASSUME NEW i \in 1..Len(f), NEW j \in 1..Len(f), i < j PROVE f[i].seq < f[j].seq
            OBVIOUS
          <5>1. i \in 1..Len(h) /\ f[i] = h[i]
            BY <4>2
          <5>2. PICK n \in 1..(m - 1) : list[n].content # Blank /\ h[i] = Todo!RowOf(list[n], first, n)
            BY <3>2, <5>1 DEF RowsOf
          <5>3. n \in 1..Len(list)
            BY <1>0, <3>1
          <5>4. f[i].seq = first + n - 1
            BY <5>1, <5>2, <5>3, EntryRow
          <5>5. CASE j = Len(h) + 1
            BY <3>5, <4>1, <4>2, <5>4, <5>5
          <5>6. CASE j \in 1..Len(h)
            BY <3>2, <4>2, <5>1, <5>6 DEF RowsOf
          <5> QED BY <4>3, <5>5, <5>6
        <4>7. RowsOf(f, list, first, m)
          BY <4>2, <4>4, <4>5, <4>6, Zenon DEF RowsOf
        <4> QED BY <2>4, <3>3, <3>7, <4>r, <4>f, <4>7
      <3> QED BY <3>6, <3>7
    <2> QED BY <2>5, <2>6
  <1>4. RowsOf(g[Len(list)], list, first, Len(list))
    BY <1>0, <1>3
  <1> QED BY <1>2, <1>4

-----------------------------------------------------------------------------
Report == [phase : {"idle", "loaded", "passed", "stale"}, list : Listed \cup {<<>>},
         append : BOOLEAN, replace : BOOLEAN, ticks : SUBSET Nat]

ReportsFit ==
    /\ report \in [Reports -> Report]
    /\ \A t \in Reports : report[t].phase = "loaded" =>
          /\ report[t].list \in Listed
          /\ ~report[t].append => report[t].list \in Replacements
TodoShape == rows \in Seq(Row) /\ done \in BOOLEAN /\ ReportsFit

LEMMA IdleReport == Todo!Idle \in Report /\ Todo!Idle.phase = "idle"
  BY DEF Todo!Idle, Report

(* A call that ends, or whose completion can no longer succeed.             *)
LEMMA ReportEnds ==
    ASSUME ReportsFit, NEW t \in Reports,
           \A u \in Reports : \/ report'[u] \in {Todo!Idle, report[u]}
                             \/ report'[u] = [report[u] EXCEPT !.phase = "stale"],
           report' = [u \in Reports |-> report'[u]]
    PROVE  ReportsFit'
  <1>1. ASSUME NEW u \in Reports
        PROVE  /\ report'[u] \in Report
               /\ report'[u].phase = "loaded" =>
                     /\ report'[u].list \in Listed
                     /\ ~report'[u].append => report'[u].list \in Replacements
    <2>1. CASE report'[u] = Todo!Idle
      BY <2>1, IdleReport
    <2>2. CASE report'[u] = report[u]
      BY <2>2 DEF ReportsFit
    <2>3. CASE report'[u] = [report[u] EXCEPT !.phase = "stale"]
      BY <2>3 DEF ReportsFit, Report
    <2> QED BY <2>1, <2>2, <2>3
  <1> QED BY <1>1 DEF ReportsFit

(* The numbers of the rows have a bound, so there is a next one.            *)
LEMMA NextNumber == ASSUME rows \in Seq(Row) PROVE Todo!NextSequence \in Nat
  <1>0. PICK len \in Nat : len = Len(rows) /\ DOMAIN rows = 1..len
    OBVIOUS
  <1>1. \A i \in 1..len : rows[i].seq \in Nat
    <2> TAKE i \in 1..len
    <2>1. rows[i] \in Row
      BY <1>0
    <2> QED BY <2>1 DEF Row, Todo!Row
  <1> DEFINE T == {m \in 0..len : ~ \E top \in Nat : \A i \in 1..m : rows[i].seq <= top}
  <1>2. T = {}
    <2>1. SUFFICES ASSUME T # {} PROVE FALSE
      OBVIOUS
    <2>2. T \in SUBSET Nat
      OBVIOUS
    <2> HIDE DEF T
    <2>3. PICK m \in T : \A k \in T : m <= k
      BY <2>1, <2>2, LeastExists
    <2>4. m \in 0..len /\ ~ \E top \in Nat : \A i \in 1..m : rows[i].seq <= top
      BY <2>3 DEF T
    <2>5. m # 0
      BY <2>4
    <2>6. m - 1 \in 0..len /\ m - 1 \notin T
      BY <2>3, <2>4, <2>5
    <2>7. PICK top \in Nat : \A i \in 1..(m - 1) : rows[i].seq <= top
      BY <2>6 DEF T
    <2>8. PICK x \in Nat : x = rows[m].seq
      <3>1. m \in 1..len
        BY <2>4, <2>5
      <3> QED BY <1>1, <3>1
    <2>9. PICK t \in Nat : t >= top /\ t >= x
      <3>1. top + x \in Nat /\ top + x >= top /\ top + x >= x
        OBVIOUS
      <3> QED BY <3>1
    <2>10. \A i \in 1..m : rows[i].seq <= t
      <3> TAKE i \in 1..m
      <3>1. CASE i = m
        BY <2>8, <2>9, <3>1
      <3>2. CASE i # m
        <4>1. i \in 1..(m - 1) /\ i \in 1..len
          BY <2>4, <3>2
        <4>2. rows[i].seq \in Nat /\ rows[i].seq <= top
          BY <1>1, <2>7, <4>1
        <4> QED BY <2>9, <4>2
      <3> QED BY <3>1, <3>2
    <2> QED BY <2>4, <2>10
  <1>3. PICK top \in Nat : \A i \in 1..len : rows[i].seq <= top
    <2>1. len \in 0..len
      OBVIOUS
    <2> QED BY <1>2, <2>1, Zenon
  <1>4. PICK S : S = {rows[i].seq : i \in DOMAIN rows}
    OBVIOUS
  <1>5. CASE rows = <<>>
    BY <1>5 DEF Todo!NextSequence
  <1>6. CASE rows # <<>>
    <2>1. S \in SUBSET (0..top) /\ S # {}
      <3>1. len > 0 /\ 1 \in 1..len
        BY <1>0, <1>6
      <3> QED BY <1>0, <1>1, <1>3, <1>4, <3>1
    <2>2. PICK x : x = Max(S)
      OBVIOUS
    <2>3. x \in S
      BY <2>1, <2>2, MaxOfBounded
    <2>4. x \in Nat
      BY <2>1, <2>3
    <2>5. Todo!Max(S) = x
      BY <2>2, Zenon DEF Todo!Max, Max
    <2>6. Todo!NextSequence = IF Todo!Max(S) = 0 THEN 0 ELSE Todo!Max(S) + 1
      BY <1>4, <1>6, Zenon DEF Todo!NextSequence
    <2> QED BY <2>4, <2>5, <2>6
  <1> QED BY <1>5, <1>6

(* The rows that a completion ticks off keep their places.                  *)
LEMMA Ticked ==
    ASSUME rows \in Seq(Row), NEW t \in Reports, Todo!Complete(t)
    PROVE  /\ rows' \in Seq(Row) /\ Len(rows') = Len(rows)
           /\ \A i \in 1..Len(rows) :
                /\ rows'[i].seq = rows[i].seq /\ rows'[i].content = rows[i].content
                /\ rows'[i].status = IF i \in report[t].ticks THEN "completed" ELSE rows[i].status
  <1>1. PICK n \in Nat : n = Len(rows) /\ DOMAIN rows = 1..n
    OBVIOUS
  <1> DEFINE f(i) == IF i \in report[t].ticks THEN [rows[i] EXCEPT !.status = "completed"] ELSE rows[i]
  <1>2. rows' = [i \in 1..n |-> f(i)]
    BY <1>1 DEF Todo!Complete
  <1>3. \A i \in 1..n : rows[i] \in Row
    BY <1>1
  <1>4. \A i \in 1..n : /\ f(i) \in Row /\ f(i).seq = rows[i].seq /\ f(i).content = rows[i].content
                        /\ f(i).status = IF i \in report[t].ticks THEN "completed" ELSE rows[i].status
    BY <1>3 DEF Row, Todo!Row, Todo!Statuses
  <1> HIDE DEF f
  <1>5. rows' \in Seq(Row) /\ Len(rows') = n
    BY <1>2, <1>4
  <1> QED BY <1>1, <1>2, <1>4, <1>5

(* Whatever the lists hold, the rows keep their shape.                      *)
LEMMA ShapeStep == ASSUME Todo!TodoAssumption, TodoShape, [Todo!Next]_(Todo!vars) PROVE TodoShape'
  <1> USE DEF TodoShape
  <1>1. ASSUME NEW t \in Reports, NEW list \in Listed, NEW append \in BOOLEAN,
               NEW replace \in BOOLEAN, ~append => list \in Replacements, Todo!Load(t, list, append, replace)
        PROVE  TodoShape'
    <2>1. PICK x : x = [phase |-> "loaded", list |-> list, append |-> append,
                        replace |-> replace, ticks |-> {}]
      OBVIOUS
    <2>2. x \in Report /\ x.phase = "loaded" /\ x.list = list /\ x.append = append
      BY <2>1 DEF Report
    <2>3. report' = [report EXCEPT ![t] = x] /\ UNCHANGED <<rows, done>>
      BY <1>1, <2>1 DEF Todo!Load
    <2> QED BY <1>1, <2>2, <2>3 DEF ReportsFit
  <1>2. ASSUME NEW t \in Reports, Todo!Replace(t) PROVE TodoShape'
    <2>1. report[t].list \in Listed /\ ReportsFit
      BY <1>2 DEF Todo!Replace, ReportsFit
    <2>2. PICK s : s = Todo!Numbered(report[t].list, 0)
      OBVIOUS
    <2>3. s \in Seq(Row) /\ (rows' = rows \/ rows' = s) /\ done' = done
      BY <1>2, <2>1, <2>2, NumberedRows DEF Todo!Replace, RowsOf
    <2>4. report' = [u \in Reports |->
            IF u = t THEN Todo!Idle
            ELSE IF rows' # rows /\ report[u].ticks # {} THEN [report[u] EXCEPT !.phase = "stale"]
            ELSE report[u]]
      BY <1>2, Zenon DEF Todo!Replace
    <2>5. ReportsFit'
      BY <2>1, <2>4, ReportEnds
    <2> QED BY <2>3, <2>5
  <1>3. ASSUME NEW t \in Reports, Todo!AppendRows(t) PROVE TodoShape'
    <2>1. report[t].list \in Listed /\ ReportsFit
      BY <1>3 DEF Todo!AppendRows, ReportsFit
    <2>2. PICK s : s = Todo!Numbered(report[t].list, Todo!NextSequence)
      OBVIOUS
    <2>3. s \in Seq(Row)
      BY <2>1, <2>2, NextNumber, NumberedRows DEF RowsOf
    <2>4. rows' = rows \o s /\ done' = done /\ report' = [report EXCEPT ![t] = Todo!Idle]
      BY <1>3, <2>2 DEF Todo!AppendRows
    <2>5. ReportsFit'
      BY <2>1, <2>4, ReportEnds DEF ReportsFit
    <2> QED BY <2>3, <2>4, <2>5
  <1>4. ASSUME NEW t \in Reports, Todo!Gate(t) PROVE TodoShape'
    <2>1. PICK x : x = [Todo!Idle EXCEPT !.phase = "passed", !.ticks = Todo!OwnCloseout]
      OBVIOUS
    <2>2. Todo!OwnCloseout \in SUBSET Nat
      BY DEF Todo!OwnCloseout, Todo!Open
    <2>3. x \in Report /\ x.phase = "passed"
      BY <2>1, <2>2, IdleReport DEF Report
    <2>4. report' = [report EXCEPT ![t] = x] /\ UNCHANGED <<rows, done>>
      BY <1>4, <2>1 DEF Todo!Gate
    <2> QED BY <2>3, <2>4 DEF ReportsFit
  <1>5. ASSUME NEW t \in Reports, Todo!Complete(t) PROVE TodoShape'
    <2>1. report' = [report EXCEPT ![t] = Todo!Idle] /\ done' = TRUE
      BY <1>5 DEF Todo!Complete
    <2>2. ReportsFit'
      BY <2>1, ReportEnds DEF ReportsFit
    <2> QED BY <1>5, <2>1, <2>2, Ticked
  <1>6. ASSUME NEW t \in Reports, Todo!CompleteFails(t) PROVE TodoShape'
    <2>1. report' = [report EXCEPT ![t] = Todo!Idle] /\ UNCHANGED <<rows, done>>
      BY <1>6 DEF Todo!CompleteFails
    <2>2. ReportsFit'
      BY <2>1, ReportEnds DEF ReportsFit
    <2> QED BY <2>1, <2>2
  <1>7. CASE Todo!Reactivate
    BY <1>7 DEF Todo!Reactivate, ReportsFit
  <1>8. CASE UNCHANGED Todo!vars
    BY <1>8 DEF Todo!vars, ReportsFit
  <1>9. ASSUME NEW t \in Reports, NEW list \in Replacements, NEW replace \in BOOLEAN,
               Todo!Load(t, list, FALSE, replace) PROVE TodoShape'
    BY <1>1, <1>9 DEF Listed
  <1>10. ASSUME NEW t \in Reports, NEW list \in Appends, Todo!Load(t, list, TRUE, FALSE) PROVE TodoShape'
    BY <1>1, <1>10 DEF Listed
  <1> HIDE DEF TodoShape
  <1> QED BY <1>2, <1>3, <1>4, <1>5, <1>6, <1>7, <1>8, <1>9, <1>10 DEF Todo!Next

LEMMA ShapeStarts == Todo!Init => TodoShape
  <1>1. <<>> \in Seq(Row)
    OBVIOUS
  <1> QED BY <1>1, IdleReport DEF Todo!Init, TodoShape, ReportsFit

-----------------------------------------------------------------------------
(* Every list that has entries with content has one behind the first place. *)
Anchors ==
    \A l \in Listed : (\E n \in 1..Len(l) : l[n].content # Blank) =>
                      (\E n \in 1..Len(l) : n > 1 /\ l[n].content # Blank)

(* The rows ascend by their numbers, and the last one's number is not zero:  *)
(* a highest number of zero would be given out again.                       *)
Ascending(s) == \A i, j \in 1..Len(s) : i < j => s[i].seq < s[j].seq
Anchored(s) == s # <<>> => s[Len(s)].seq > 0
OrderInv == Ascending(rows) /\ Anchored(rows)

LEMMA FreshRows ==
    ASSUME Todo!TodoAssumption, Anchors, NEW list \in Listed, NEW first \in Nat, NEW s,
           s = Todo!Numbered(list, first)
    PROVE  s \in Seq(Row) /\ Ascending(s) /\ Anchored(s) /\ \A i \in 1..Len(s) : s[i].seq >= first
  <1>1. RowsOf(s, list, first, Len(list)) /\ Len(list) \in Nat
    BY NumberedRows DEF Todo!TodoAssumption, Listed
  <1>2. s \in Seq(Row) /\ Ascending(s) /\ Len(s) \in Nat
    BY <1>1 DEF RowsOf, Ascending
  <1>3. \A i \in 1..Len(s) : s[i].seq >= first
    <2> TAKE i \in 1..Len(s)
    <2>1. PICK n \in 1..Len(list) : list[n].content # Blank /\ s[i] = Todo!RowOf(list[n], first, n)
      BY <1>1 DEF RowsOf
    <2>2. s[i].seq = first + n - 1
      BY <2>1, EntryRow
    <2> QED BY <1>1, <2>2
  <1>4. ASSUME s # <<>> PROVE s[Len(s)].seq > 0
    <2>1. 1 \in 1..Len(s) /\ Len(s) \in 1..Len(s)
      BY <1>2, <1>4
    <2>2. PICK n \in 1..Len(list) : n > 1 /\ list[n].content # Blank
      BY <1>1, <2>1 DEF RowsOf, Anchors
    <2>3. PICK i \in 1..Len(s) : s[i] = Todo!RowOf(list[n], first, n)
      BY <1>1, <2>2 DEF RowsOf
    <2>4. s[i].seq = first + n - 1 /\ s[i].seq > 0
      <3>1. s[i].seq = first + n - 1
        BY <2>2, <2>3, EntryRow
      <3> QED BY <1>1, <2>2, <3>1
    <2>5. s[i] \in Row /\ s[Len(s)] \in Row
      BY <1>2, <2>1
    <2>6. i = Len(s) \/ s[i].seq < s[Len(s)].seq
      BY <1>2, <2>1 DEF Ascending
    <2> QED BY <2>4, <2>5, <2>6 DEF Row, Todo!Row
  <1> QED BY <1>2, <1>3, <1>4 DEF Anchored

(* The next number is above every row's.                                    *)
LEMMA NextAbove ==
    ASSUME TodoShape, OrderInv
    PROVE  /\ Todo!NextSequence \in Nat
           /\ \A i \in 1..Len(rows) : rows[i].seq < Todo!NextSequence
  <1>0. rows \in Seq(Row) /\ Len(rows) \in Nat /\ DOMAIN rows = 1..Len(rows)
    BY DEF TodoShape
  <1>1. CASE rows = <<>>
    BY <1>0, <1>1 DEF Todo!NextSequence
  <1>2. CASE rows # <<>>
    <2> DEFINE S == {rows[i].seq : i \in DOMAIN rows}
               top == rows[Len(rows)].seq
    <2>1. Len(rows) \in 1..Len(rows) /\ rows[Len(rows)] \in Row
      BY <1>0, <1>2
    <2>2. top \in Nat /\ top > 0
      BY <1>2, <2>1 DEF OrderInv, Anchored, Row, Todo!Row
    <2>3. \A i \in 1..Len(rows) : rows[i].seq \in Nat /\ rows[i].seq <= top
      <3> TAKE i \in 1..Len(rows)
      <3>0. rows[i] \in Row
        BY <1>0
      <3>1. rows[i].seq \in Nat
        BY <3>0 DEF Row, Todo!Row
      <3>2. ASSUME i # Len(rows) PROVE rows[i].seq < top
        <4>0. PICK n \in Nat : n = Len(rows)
          BY <1>0
        <4>1. i < Len(rows)
          BY <3>2, <4>0
        <4>2. \A j \in 1..Len(rows) : i < j => rows[i].seq < rows[j].seq
          BY DEF OrderInv, Ascending
        <4> QED BY <2>1, <4>1, <4>2
      <3> QED BY <2>2, <3>1, <3>2
    <2>4. S \in SUBSET (0..top) /\ top \in S
      BY <1>0, <2>1, <2>2, <2>3
    <2> HIDE DEF top
    <2> HIDE DEF S
    <2>5. PICK x : x = Max(S)
      OBVIOUS
    <2>6. x \in S /\ \A y \in S : y <= x
      BY <2>2, <2>4, <2>5, MaxOfBounded
    <2>7. x = top
      <3>1. x \in 0..top /\ top <= x
        BY <2>4, <2>6
      <3> QED BY <2>2, <3>1
    <2>8. Todo!Max(S) = top
      BY <2>5, <2>7, Zenon DEF Todo!Max, Max
    <2>9. Todo!NextSequence = IF Todo!Max(S) = 0 THEN 0 ELSE Todo!Max(S) + 1
      BY <1>2, Zenon DEF Todo!NextSequence, S
    <2>10. Todo!NextSequence = top + 1
      BY <2>2, <2>8, <2>9
    <2> QED BY <2>2, <2>3, <2>10
  <1> QED BY <1>1, <1>2

LEMMA Behind ==
    ASSUME NEW r \in Seq(Row), NEW s \in Seq(Row), Ascending(r), Ascending(s), Anchored(r), Anchored(s),
           NEW next \in Nat, \A i \in 1..Len(r) : r[i].seq < next, \A i \in 1..Len(s) : s[i].seq >= next
    PROVE  r \o s \in Seq(Row) /\ Ascending(r \o s) /\ Anchored(r \o s)
  <1>1. PICK m \in Nat, n \in Nat : m = Len(r) /\ n = Len(s)
    OBVIOUS
  <1>2. PICK f : f = r \o s
    OBVIOUS
  <1>3. /\ f \in Seq(Row) /\ Len(f) = m + n /\ \A i \in 1..m : f[i] = r[i]
        /\ \A i \in 1..(m + n) : i > m => f[i] = s[i - m]
    BY <1>1, <1>2
  <1>4. \A i \in 1..(m + n) : f[i].seq \in Nat
    <2> TAKE i \in 1..(m + n)
    <2>1. f[i] \in Row
      BY <1>3
    <2> QED BY <2>1 DEF Row, Todo!Row
  <1>5. ASSUME NEW i \in 1..(m + n), NEW j \in 1..(m + n), i < j PROVE f[i].seq < f[j].seq
    <2>1. CASE j <= m
      <3>1. i \in 1..m /\ j \in 1..m
        BY <1>5, <2>1
      <3> QED BY <1>1, <1>3, <1>5, <3>1 DEF Ascending
    <2>2. CASE i > m
      <3>1. PICK k \in 1..n, l \in 1..n : k = i - m /\ l = j - m /\ k < l
        BY <1>5, <2>2
      <3>2. s[k].seq < s[l].seq
        BY <1>1, <3>1 DEF Ascending
      <3>3. f[i] = s[k] /\ f[j] = s[l]
        BY <1>3, <1>5, <2>2, <3>1
      <3> QED BY <3>2, <3>3
    <2>3. CASE i <= m /\ j > m
      <3>1. i \in 1..m /\ j - m \in 1..n
        BY <2>3
      <3>2. r[i].seq < next /\ s[j - m].seq >= next
        BY <1>1, <3>1
      <3>3. f[i] = r[i] /\ f[j] = s[j - m]
        BY <1>3, <2>3, <3>1
      <3>4. PICK x \in Nat, y \in Nat : x = f[i].seq /\ y = f[j].seq
        BY <1>4
      <3>5. x < next /\ y >= next
        BY <3>2, <3>3, <3>4, Zenon
      <3>6. x < y
        BY <3>5
      <3> QED BY <3>4, <3>6, Zenon
    <2> QED BY <2>1, <2>2, <2>3
  <1>6. ASSUME f # <<>> PROVE f[m + n].seq > 0
    <2>1. CASE n = 0
      <3>1. m > 0 /\ m \in 1..m /\ r # <<>>
        BY <1>1, <1>3, <1>6, <2>1
      <3>2. r[m].seq > 0
        BY <1>1, <3>1 DEF Anchored
      <3> QED BY <1>3, <2>1, <3>1, <3>2
    <2>2. CASE n > 0
      <3>1. s # <<>> /\ m + n \in 1..(m + n) /\ m + n > m /\ (m + n) - m = n
        BY <1>1, <2>2
      <3>2. s[n].seq > 0
        BY <1>1, <3>1 DEF Anchored
      <3> QED BY <1>3, <3>1, <3>2
    <2> QED BY <2>1, <2>2
  <1> QED BY <1>1, <1>2, <1>3, <1>5, <1>6 DEF Ascending, Anchored

LEMMA OrderStep ==
    ASSUME Todo!TodoAssumption, Anchors, TodoShape, OrderInv, [Todo!Next]_(Todo!vars) PROVE OrderInv'
  <1>0. rows \in Seq(Row) /\ ReportsFit
    BY DEF TodoShape
  <1>1. CASE UNCHANGED rows
    BY <1>1 DEF OrderInv, Ascending, Anchored
  <1>2. ASSUME NEW t \in Reports, Todo!Replace(t) PROVE OrderInv'
    <2>1. report[t].list \in Listed
      BY <1>0, <1>2 DEF Todo!Replace, ReportsFit
    <2>2. PICK s : s = Todo!Numbered(report[t].list, 0)
      OBVIOUS
    <2>3. Ascending(s) /\ Anchored(s)
      BY <2>1, <2>2, FreshRows
    <2>4. rows' = rows \/ rows' = s
      BY <1>2, <2>2 DEF Todo!Replace
    <2> QED BY <2>3, <2>4 DEF OrderInv, Ascending, Anchored
  <1>3. ASSUME NEW t \in Reports, Todo!AppendRows(t) PROVE OrderInv'
    <2>1. report[t].list \in Listed
      BY <1>0, <1>3 DEF Todo!AppendRows, ReportsFit
    <2>2. PICK next \in Nat : next = Todo!NextSequence
      BY NextAbove
    <2>3. PICK s : s = Todo!Numbered(report[t].list, next)
      OBVIOUS
    <2>4. s \in Seq(Row) /\ Ascending(s) /\ Anchored(s) /\ \A i \in 1..Len(s) : s[i].seq >= next
      BY <2>1, <2>3, FreshRows
    <2>5. rows' = rows \o s
      BY <1>3, <2>2, <2>3 DEF Todo!AppendRows
    <2>6. Ascending(rows) /\ Anchored(rows) /\ \A i \in 1..Len(rows) : rows[i].seq < next
      BY <2>2, NextAbove DEF OrderInv
    <2>7. Ascending(rows') /\ Anchored(rows')
      BY <1>0, <2>4, <2>5, <2>6, Behind
    <2> QED BY <2>7 DEF OrderInv, Ascending, Anchored
  <1>4. ASSUME NEW t \in Reports, Todo!Complete(t) PROVE OrderInv'
    <2>1. /\ Len(rows') = Len(rows) /\ rows' \in Seq(Row)
          /\ \A i \in 1..Len(rows) : rows'[i].seq = rows[i].seq
      BY <1>0, <1>4, Ticked
    <2>2. Ascending(rows')
      BY <2>1 DEF OrderInv, Ascending
    <2>3. Anchored(rows')
      <3>1. SUFFICES ASSUME rows' # <<>> PROVE rows'[Len(rows')].seq > 0
        BY DEF Anchored
      <3>2. Len(rows) \in 1..Len(rows) /\ rows # <<>>
        BY <1>0, <2>1, <3>1
      <3> QED BY <2>1, <3>2 DEF OrderInv, Anchored
    <2> QED BY <2>2, <2>3 DEF OrderInv, Ascending, Anchored
  <1> QED BY <1>1, <1>2, <1>3, <1>4
        DEF Todo!Next, Todo!Load, Todo!Gate, Todo!CompleteFails, Todo!Reactivate, Todo!vars

LEMMA OrderStarts == Todo!Init => OrderInv
  <1>1. Len(<<>>) = 0 /\ 1..0 = {}
    OBVIOUS
  <1> QED BY <1>1 DEF Todo!Init, OrderInv, Ascending, Anchored

LEMMA OrderFollows == TodoShape /\ OrderInv => Todo!OrderKept
  <1>1. SUFFICES ASSUME TodoShape, OrderInv, NEW i \in 1..Len(rows), NEW j \in 1..Len(rows), rows[i].seq = rows[j].seq
                 PROVE  i = j
    BY DEF TodoShape, Todo!OrderKept
  <1>2. PICK n \in Nat : n = Len(rows)
    BY <1>1 DEF TodoShape
  <1>3. rows[i] \in Row /\ rows[j] \in Row
    BY <1>1 DEF TodoShape
  <1>4. rows[i].seq \in Nat /\ rows[j].seq \in Nat
    BY <1>3 DEF Row, Todo!Row
  <1>5. /\ i < j => rows[i].seq < rows[j].seq
        /\ j < i => rows[j].seq < rows[i].seq
    BY <1>1 DEF OrderInv, Ascending
  <1> QED BY <1>1, <1>2, <1>4, <1>5

(* In every list with content something stands behind the first place:      *)
(* then however replacements, appends and completions interleave, no two    *)
(* rows share the number the list is sorted by (report_progress of          *)
(* progress_service.py).                                                    *)
THEOREM OrderKeptHolds ==
    ASSUME Todo!TodoAssumption, Anchors PROVE Todo!Spec => []Todo!OrderKept
  <1>1. (TodoShape /\ OrderInv) /\ [Todo!Next]_(Todo!vars) => (TodoShape /\ OrderInv)'
    BY ShapeStep, OrderStep
  <1> QED BY <1>1, ShapeStarts, OrderStarts, OrderFollows, PTL DEF Todo!Spec

-----------------------------------------------------------------------------
(* The places that hold a status are a finite set, and one that grows with  *)
(* the list that holds it.                                                  *)
Places(s, x) == {i \in 1..Len(s) : s[i].status = x}

LEMMA PlacesCounted ==
    ASSUME NEW T, NEW s \in Seq(T), NEW x
    PROVE  IsFiniteSet(Places(s, x)) /\ Cardinality(Places(s, x)) \in Nat
           /\ Todo!Count(s, x) = Cardinality(Places(s, x))
  <1>1. PICK n \in Nat : n = Len(s) /\ DOMAIN s = 1..n
    OBVIOUS
  <1>2. IsFiniteSet(1..n)
    BY FS_Interval
  <1>3. Places(s, x) \in SUBSET (1..n)
    BY <1>1 DEF Places
  <1>4. IsFiniteSet(Places(s, x))
    BY <1>2, <1>3, FS_Subset
  <1>5. Todo!Count(s, x) = Cardinality(Places(s, x))
    BY <1>1, Zenon DEF Todo!Count, Todo!Cardinality, Cardinality, Places
  <1>6. Cardinality(Places(s, x)) \in Nat
    BY <1>4, FS_CardinalityType
  <1> QED BY <1>4, <1>5, <1>6

LEMMA CountGrows ==
    ASSUME NEW r \in Seq(Row), NEW s \in Seq(Row), NEW x, Len(r) <= Len(s),
           \A i \in 1..Len(r) : r[i].status = x => s[i].status = x
    PROVE  Todo!Count(s, x) >= Todo!Count(r, x)
  <1>1. PICK m \in Nat, n \in Nat : m = Len(r) /\ n = Len(s)
    OBVIOUS
  <1>2. Places(r, x) \in SUBSET Places(s, x)
    BY <1>1 DEF Places
  <1>3. Cardinality(Places(r, x)) <= Cardinality(Places(s, x))
    BY <1>2, PlacesCounted, FS_Subset
  <1> QED BY <1>3, PlacesCounted

(* No entry that reports completed work is empty: the count of a list       *)
(* includes such an entry and its rows do not.                              *)
NoEmptyWork ==
    \A l \in Replacements : \A n \in 1..Len(l) : l[n].status = "completed" => l[n].content # Blank

LEMMA NothingDropped ==
    ASSUME Todo!TodoAssumption, NoEmptyWork, NEW list \in Replacements, NEW s, s = Todo!Numbered(list, 0)
    PROVE  Todo!Count(s, "completed") >= Todo!Count(list, "completed")
  <1>1. list \in Seq(Todo!Entries) /\ list \in Listed /\ Len(list) \in Nat
    BY DEF Todo!TodoAssumption, Listed
  <1>2. RowsOf(s, list, 0, Len(list)) /\ s \in Seq(Row)
    BY <1>1, NumberedRows DEF RowsOf
  <1>3. PICK A, B : A = Places(list, "completed") /\ B = Places(s, "completed")
    OBVIOUS
  <1> DEFINE row(k) == CHOOSE i \in 1..Len(s) : s[i] = Todo!RowOf(list[k], 0, k)
             f == [k \in A |-> row(k)]
  <1>4. \A k \in A : row(k) \in B /\ s[row(k)].seq = k - 1 /\ k \in Nat
    <2> TAKE k \in A
    <2>1. k \in 1..Len(list) /\ list[k].status = "completed" /\ list[k].content # Blank
      BY <1>3 DEF Places, NoEmptyWork
    <2>2. \E i \in 1..Len(s) : s[i] = Todo!RowOf(list[k], 0, k)
      BY <1>2, <2>1 DEF RowsOf
    <2>3. row(k) \in 1..Len(s) /\ s[row(k)] = Todo!RowOf(list[k], 0, k)
      BY <2>2
    <2> HIDE DEF row
    <2>4. Todo!RowOf(list[k], 0, k).status = "completed" /\ Todo!RowOf(list[k], 0, k).seq = 0 + k - 1
      BY <1>1, <2>1, EntryRow
    <2>5. s[row(k)].status = "completed" /\ s[row(k)].seq = 0 + k - 1
      BY <2>3, <2>4, Zenon
    <2> QED BY <1>1, <1>3, <2>1, <2>3, <2>5 DEF Places
  <1> HIDE DEF row
  <1>5. f \in Injection(A, B)
    <2>1. f \in [A -> B]
      BY <1>4
    <2>2. \A k, l \in A : f[k] = f[l] => k = l
      <3> SUFFICES ASSUME NEW k \in A, NEW l \in A, f[k] = f[l] PROVE k = l
        OBVIOUS
      <3>1. k - 1 = l - 1
        BY <1>4
      <3> QED BY <1>4, <3>1
    <2> HIDE DEF f
    <2> QED BY <2>1, <2>2, Zenon DEF Injection, IsInjective
  <1>6. Cardinality(A) <= Cardinality(B)
    <2>1. IsFiniteSet(B)
      BY <1>2, <1>3, PlacesCounted
    <2> HIDE DEF f
    <2> QED BY <1>5, <2>1, FS_Injection
  <1> QED BY <1>1, <1>2, <1>3, <1>6, PlacesCounted

LEMMA CompletedStep ==
    ASSUME Todo!TodoAssumption, NoEmptyWork, TodoShape, Todo!Next
    PROVE  Todo!Count(rows', "completed") >= Todo!Count(rows, "completed")
  <1>0. rows \in Seq(Row) /\ ReportsFit
    BY DEF TodoShape
  <1>1. CASE UNCHANGED rows
    BY <1>0, <1>1, CountGrows
  <1>2. ASSUME NEW t \in Reports, Todo!Replace(t), rows' # rows
        PROVE  Todo!Count(rows', "completed") >= Todo!Count(rows, "completed")
    <2>1. PICK list \in Replacements : list = report[t].list
      BY <1>0, <1>2 DEF Todo!Replace, ReportsFit
    <2>2. rows' = Todo!Numbered(list, 0) /\ ~Todo!Regresses(list)
      BY <1>2, <2>1, Zenon DEF Todo!Replace
    <2>3. Todo!Count(rows', "completed") >= Todo!Count(list, "completed")
      BY <2>2, NothingDropped
    <2>4. list \in Seq(Todo!Entries) /\ list \in Listed
      BY DEF Todo!TodoAssumption, Listed
    <2>5. rows' \in Seq(Row)
      BY <2>2, <2>4, NumberedRows DEF RowsOf
    <2>6. PICK a \in Nat, b \in Nat, c \in Nat :
            /\ a = Todo!Count(rows, "completed") /\ b = Todo!Count(list, "completed")
            /\ c = Todo!Count(rows', "completed")
      <3>1. /\ Todo!Count(rows, "completed") \in Nat /\ Todo!Count(list, "completed") \in Nat
            /\ Todo!Count(rows', "completed") \in Nat
        BY <1>0, <2>4, <2>5, PlacesCounted
      <3> QED BY <3>1
    <2>7. ~(b < a)
      BY <2>2, <2>6, Zenon DEF Todo!Regresses
    <2> QED BY <2>3, <2>6, <2>7
  <1>3. ASSUME NEW t \in Reports, Todo!AppendRows(t)
        PROVE  Todo!Count(rows', "completed") >= Todo!Count(rows, "completed")
    <2>1. report[t].list \in Listed
      BY <1>0, <1>3 DEF Todo!AppendRows, ReportsFit
    <2>2. PICK s : s = Todo!Numbered(report[t].list, Todo!NextSequence)
      OBVIOUS
    <2>3. s \in Seq(Row) /\ rows' = rows \o s
      BY <1>0, <1>3, <2>1, <2>2, NextNumber, NumberedRows DEF RowsOf, Todo!AppendRows
    <2>4. rows' \in Seq(Row) /\ Len(rows) <= Len(rows') /\ \A i \in 1..Len(rows) : rows'[i] = rows[i]
      BY <1>0, <2>3
    <2> QED BY <1>0, <2>4, CountGrows
  <1>4. ASSUME NEW t \in Reports, Todo!Complete(t)
        PROVE  Todo!Count(rows', "completed") >= Todo!Count(rows, "completed")
    <2>1. /\ rows' \in Seq(Row) /\ Len(rows') = Len(rows) /\ Len(rows) \in Nat
          /\ \A i \in 1..Len(rows) : rows[i].status = "completed" => rows'[i].status = "completed"
      BY <1>0, <1>4, Ticked
    <2>2. Len(rows) <= Len(rows')
      BY <2>1
    <2> QED BY <1>0, <2>1, <2>2, CountGrows
  <1> QED BY <1>1, <1>2, <1>3, <1>4
        DEF Todo!Next, Todo!Load, Todo!Gate, Todo!CompleteFails, Todo!Reactivate

(* As long as no empty entry claims completed work, no report loses any: the *)
(* number of completed rows never falls (the regression guard of             *)
(* report_progress).                                                        *)
THEOREM CompletedKeptHolds ==
    ASSUME Todo!TodoAssumption, NoEmptyWork PROVE Todo!Spec => Todo!CompletedKept
  <1>1. TodoShape /\ [Todo!Next]_(Todo!vars) => TodoShape'
    BY ShapeStep
  <1>2. TodoShape /\ [Todo!Next]_(Todo!vars) =>
          [Todo!Count(rows', "completed") >= Todo!Count(rows, "completed")]_(Todo!vars)
    BY CompletedStep
  <1> QED BY <1>1, <1>2, ShapeStarts, PTL DEF Todo!Spec, Todo!CompletedKept

-----------------------------------------------------------------------------
(* When no two calls overlap, the rows a completion will tick off are all   *)
(* that is open, and nothing is open once it has.                           *)
GateInv ==
    /\ report \in [Reports -> Report]
    /\ \A t, u \in Reports : report[t].phase # "idle" /\ report[u].phase # "idle" => t = u
    /\ \A t \in Reports : /\ report[t].phase # "passed" => report[t].ticks = {}
                          /\ report[t].phase = "passed" => report[t].ticks = Todo!Open
                          /\ done => report[t].phase = "idle"
    /\ done => Todo!Open = {}

(* One call more while all the others are idle.                             *)
LEMMA OneMore ==
    ASSUME GateInv, NEW t \in Reports, NEW x \in Report, report' = [report EXCEPT ![t] = x],
           \A u \in Reports : report[u].phase = "idle", ~done, UNCHANGED <<rows, done>>,
           x.phase # "passed" => x.ticks = {}, x.phase = "passed" => x.ticks = Todo!Open
    PROVE  GateInv'
  <1>1. Todo!Open' = Todo!Open
    BY DEF Todo!Open
  <1> QED BY <1>1 DEF GateInv

(* The only call ends.                                                      *)
LEMMA OneLess ==
    ASSUME GateInv, NEW t \in Reports, report[t].phase # "idle", report' = [report EXCEPT ![t] = Todo!Idle],
           done' => Todo!Open' = {}
    PROVE  GateInv'
  <1>1. /\ Todo!Idle \in Report /\ Todo!Idle.phase = "idle" /\ Todo!Idle.ticks = {}
    BY DEF Todo!Idle, Report
  <1>2. \A u \in Reports : report'[u].phase = "idle" /\ report'[u].ticks = {} /\ report'[u] \in Report
    BY <1>1 DEF GateInv
  <1>3. report' \in [Reports -> Report]
    BY <1>1 DEF GateInv
  <1> QED BY <1>2, <1>3 DEF GateInv

LEMMA GateStep ==
    ASSUME Todo!TodoAssumption, ~Overlapping, TodoShape, GateInv, [Todo!Next]_(Todo!vars) PROVE GateInv'
  <1>1. ASSUME NEW t \in Reports, NEW list \in Listed, NEW append \in BOOLEAN,
               NEW replace \in BOOLEAN, Todo!Load(t, list, append, replace)
        PROVE  GateInv'
    <2>1. PICK x : x = [phase |-> "loaded", list |-> list, append |-> append,
                        replace |-> replace, ticks |-> {}]
      OBVIOUS
    <2>2. x \in Report /\ x.phase = "loaded" /\ x.ticks = {}
      BY <2>1 DEF Report
    <2>3. report' = [report EXCEPT ![t] = x] /\ UNCHANGED <<rows, done>> /\ ~done
          /\ \A u \in Reports : report[u].phase = "idle"
      BY <1>1, <2>1 DEF Todo!Load, Todo!Quiet
    <2> QED BY <2>2, <2>3, OneMore
  <1>2. ASSUME NEW t \in Reports, Todo!Replace(t) PROVE GateInv'
    <2>1. report[t].phase = "loaded" /\ ~done /\ done' = done
      BY <1>2 DEF Todo!Replace, GateInv
    <2>2. report' = [u \in Reports |->
            IF u = t THEN Todo!Idle
            ELSE IF rows' # rows /\ report[u].ticks # {} THEN [report[u] EXCEPT !.phase = "stale"]
            ELSE report[u]]
      BY <1>2, Zenon DEF Todo!Replace
    <2>3. \A u \in Reports : u # t => report[u].ticks = {}
      BY <2>1 DEF GateInv
    <2>4. report' = [report EXCEPT ![t] = Todo!Idle]
      BY <2>2, <2>3 DEF GateInv
    <2> QED BY <2>1, <2>4, OneLess
  <1>3. ASSUME NEW t \in Reports, Todo!AppendRows(t) PROVE GateInv'
    <2>1. report[t].phase = "loaded" /\ ~done /\ done' = done /\ report' = [report EXCEPT ![t] = Todo!Idle]
      BY <1>3 DEF Todo!AppendRows, GateInv
    <2> QED BY <2>1, OneLess
  <1>4. ASSUME NEW t \in Reports, Todo!Gate(t) PROVE GateInv'
    <2>1. PICK x : x = [Todo!Idle EXCEPT !.phase = "passed", !.ticks = Todo!OwnCloseout]
      OBVIOUS
    <2>2. Todo!OwnCloseout \in SUBSET Nat
      BY DEF Todo!OwnCloseout, Todo!Open, TodoShape
    <2>3. x \in Report /\ x.phase = "passed" /\ x.ticks = Todo!OwnCloseout
      BY <2>1, <2>2, IdleReport DEF Report
    <2>4. report' = [report EXCEPT ![t] = x] /\ UNCHANGED <<rows, done>> /\ ~done
          /\ \A u \in Reports : report[u].phase = "idle"
      BY <1>4, <2>1 DEF Todo!Gate, Todo!Quiet
    <2>5. Todo!OwnCloseout = Todo!Open
      BY <1>4 DEF Todo!Gate
    <2> QED BY <2>3, <2>4, <2>5, OneMore
  <1>5. ASSUME NEW t \in Reports, Todo!Complete(t) PROVE GateInv'
    <2>1. report[t].phase = "passed" /\ report' = [report EXCEPT ![t] = Todo!Idle]
      BY <1>5 DEF Todo!Complete
    <2>2. report[t].ticks = Todo!Open
      BY <2>1 DEF GateInv
    <2>3. /\ rows' \in Seq(Row) /\ Len(rows') = Len(rows) /\ rows \in Seq(Row)
          /\ \A i \in 1..Len(rows) :
               rows'[i].status = IF i \in report[t].ticks THEN "completed" ELSE rows[i].status
      BY <1>5, Ticked DEF TodoShape
    <2>4. PICK n \in Nat : n = Len(rows) /\ DOMAIN rows = 1..n /\ DOMAIN rows' = 1..n
      BY <2>3
    <2>5. \A i \in 1..n : rows'[i].status \in {"completed", "skipped"}
      BY <2>2, <2>3, <2>4 DEF Todo!Open
    <2>6. Todo!Open' = {}
      BY <2>4, <2>5 DEF Todo!Open
    <2> QED BY <2>1, <2>6, OneLess
  <1>6. ASSUME NEW t \in Reports, Todo!CompleteFails(t) PROVE GateInv'
    <2>1. report[t].phase = "stale" /\ ~done /\ done' = done /\ report' = [report EXCEPT ![t] = Todo!Idle]
      BY <1>6 DEF Todo!CompleteFails, GateInv
    <2> QED BY <2>1, OneLess
  <1>7. CASE Todo!Reactivate
    BY <1>7 DEF Todo!Reactivate, GateInv, Todo!Open
  <1>8. CASE UNCHANGED Todo!vars
    BY <1>8 DEF Todo!vars, GateInv, Todo!Open
  <1>9. ASSUME NEW t \in Reports, NEW list \in Replacements, NEW replace \in BOOLEAN,
               Todo!Load(t, list, FALSE, replace) PROVE GateInv'
    BY <1>1, <1>9 DEF Listed
  <1>10. ASSUME NEW t \in Reports, NEW list \in Appends, Todo!Load(t, list, TRUE, FALSE) PROVE GateInv'
    BY <1>1, <1>10 DEF Listed
  <1> QED BY <1>2, <1>3, <1>4, <1>5, <1>6, <1>7, <1>8, <1>9, <1>10 DEF Todo!Next

LEMMA GateStarts == Todo!Init => GateInv
  BY IdleReport DEF Todo!Init, GateInv, Todo!Idle

(* A completed agent has no work open when calls do not overlap: the gate of *)
(* complete_job refuses while an ordinary todo is open, and a later report   *)
(* is a no-op.                                                              *)
THEOREM NothingOpenHolds ==
    ASSUME Todo!TodoAssumption, ~Overlapping PROVE Todo!Spec => []Todo!NothingOpenWhenDone
  <1>1. TodoShape /\ GateInv /\ [Todo!Next]_(Todo!vars) => (TodoShape /\ GateInv)'
    BY ShapeStep, GateStep
  <1>2. GateInv => Todo!NothingOpenWhenDone
    BY DEF GateInv, Todo!NothingOpenWhenDone
  <1> QED BY <1>1, <1>2, ShapeStarts, GateStarts, PTL DEF Todo!Spec

-----------------------------------------------------------------------------
(* The live socket.  After the frames q a server that watches w watches p  *)
(* if b, and does not if not: the last frame about p decides, or w.        *)
Ends(q, w, p, b) ==
    /\ \A i \in 1..Len(q) :
         q[i][2] = p /\ (\A j \in 1..Len(q) : j > i => q[j][2] # p) => (q[i][1] = "subscribe" <=> b)
    /\ (\A i \in 1..Len(q) : q[i][2] # p) => (p \in w <=> b)
After(w, f) == IF f[1] = "subscribe" THEN w \cup {f[2]} ELSE w \ {f[2]}

SocketTypes ==
    /\ socket \in Sockets \cup {NoSocket}
    /\ queue \in Seq(Socket!Frame)
    /\ frames \in [Sockets -> Seq(Socket!Frame)]
    /\ pins \in [Entities -> Nat]
    /\ net \in [Sockets -> {"idle", "opening", "accepted", "open", "closing", "dead"}]
    /\ watched \in [Sockets -> SUBSET Entities]
LiveOne == \A s \in Sockets : net[s] \in {"opening", "accepted", "open"} => s = socket
Drained == status = "connected" => queue = <<>>
Untold == \A s \in Sockets : net[s] \in {"idle", "opening", "accepted"} => watched[s] = {}
(* No unpinned entity is the last word of the queue,                       *)
QueueTrue == \A p \in Entities : pins[p] = 0 => Ends(queue, {}, p, FALSE)
(* and the frames on the wire leave the server with what is pinned.        *)
WireTrue ==
    Socket!Healthy /\ socket \in registered =>
        \A p \in Entities : Ends(frames[socket], watched[socket], p, pins[p] > 0)
SocketInv == SocketTypes /\ LiveOne /\ Drained /\ Untold /\ QueueTrue /\ WireTrue

LEMMA EndsAppend ==
    ASSUME NEW q \in Seq(Socket!Frame), NEW f \in Socket!Frame, NEW w, NEW p, NEW b \in BOOLEAN
    PROVE  /\ f[2] = p /\ (f[1] = "subscribe" <=> b) => Ends(Append(q, f), w, p, b)
           /\ f[2] # p /\ Ends(q, w, p, b) => Ends(Append(q, f), w, p, b)
           /\ Append(q, f) \in Seq(Socket!Frame)
  <1> DEFINE r == Append(q, f)
  <1>1. /\ Len(q) \in Nat /\ Len(r) = Len(q) + 1 /\ r[Len(q) + 1] = f /\ r \in Seq(Socket!Frame)
        /\ \A i \in 1..Len(q) : r[i] = q[i]
    OBVIOUS
  <1>2. \A i \in 1..Len(r) : i \in 1..Len(q) \/ i = Len(q) + 1
    BY <1>1
  <1>3. \A i \in 1..Len(q) : i \in 1..Len(r) /\ Len(q) + 1 > i
    BY <1>1
  <1>4. Len(q) + 1 \in 1..Len(r)
    BY <1>1
  <1> HIDE DEF r
  <1>5. ASSUME f[2] = p, f[1] = "subscribe" <=> b PROVE Ends(r, w, p, b)
    BY <1>1, <1>2, <1>3, <1>4, <1>5 DEF Ends
  <1>6. ASSUME f[2] # p, Ends(q, w, p, b) PROVE Ends(r, w, p, b)
    <2>1. ASSUME NEW i \in 1..Len(r), r[i][2] = p, \A j \in 1..Len(r) : j > i => r[j][2] # p
          PROVE  r[i][1] = "subscribe" <=> b
      <3>1. i \in 1..Len(q) /\ r[i] = q[i]
        BY <1>1, <1>2, <1>6, <2>1
      <3>2. \A j \in 1..Len(q) : j > i => q[j][2] # p
        BY <1>1, <1>3, <2>1
      <3> QED BY <1>6, <2>1, <3>1, <3>2 DEF Ends
    <2>2. ASSUME \A i \in 1..Len(r) : r[i][2] # p PROVE p \in w <=> b
      <3>1. \A i \in 1..Len(q) : q[i][2] # p
        BY <1>1, <1>3, <2>2
      <3> QED BY <1>6, <3>1 DEF Ends
    <2> QED BY <2>1, <2>2 DEF Ends
  <1> QED BY <1>1, <1>5, <1>6 DEF r

LEMMA EndsTail ==
    ASSUME NEW q \in Seq(Socket!Frame), q # <<>>, NEW w, NEW p, NEW b \in BOOLEAN, Ends(q, w, p, b)
    PROVE  /\ Tail(q) \in Seq(Socket!Frame) /\ Head(q) \in Socket!Frame
           /\ Ends(Tail(q), After(w, Head(q)), p, b)
  <1> DEFINE r == Tail(q)
  <1>1. /\ Len(q) \in Nat /\ Len(q) >= 1 /\ Len(r) = Len(q) - 1 /\ r \in Seq(Socket!Frame)
        /\ Head(q) = q[1] /\ q[1] \in Socket!Frame
    OBVIOUS
  <1>2. \A i \in 1..Len(r) : i + 1 \in 1..Len(q) /\ r[i] = q[i + 1]
    BY <1>1
  <1>3. ASSUME NEW i \in 1..Len(q), i # 1 PROVE \E j \in 1..Len(r) : i = j + 1
    <2>1. i - 1 \in 1..Len(r) /\ i = (i - 1) + 1
      BY <1>1, <1>3
    <2> QED BY <2>1
  <1>4. 1 \in 1..Len(q)
    BY <1>1
  <1> HIDE DEF r
  <1>5. ASSUME NEW i \in 1..Len(r), r[i][2] = p, \A j \in 1..Len(r) : j > i => r[j][2] # p
        PROVE  r[i][1] = "subscribe" <=> b
    <2>1. ASSUME NEW j \in 1..Len(q), j > i + 1 PROVE q[j][2] # p
      <3>1. PICK k \in 1..Len(r) : j = k + 1
        BY <1>3, <2>1
      <3>2. k > i /\ r[k] = q[j]
        BY <1>2, <2>1, <3>1
      <3> QED BY <1>5, <3>2
    <2>2. i + 1 \in 1..Len(q) /\ q[i + 1] = r[i]
      BY <1>2
    <2> QED BY <1>5, <2>1, <2>2 DEF Ends
  <1>6. ASSUME \A i \in 1..Len(r) : r[i][2] # p PROVE p \in After(w, Head(q)) <=> b
    <2>1. \A j \in 1..Len(q) : j > 1 => q[j][2] # p
      BY <1>2, <1>3, <1>6
    <2>2. CASE q[1][2] = p
      <3>1. q[1][1] = "subscribe" <=> b
        BY <1>4, <2>1, <2>2 DEF Ends
      <3> QED BY <1>1, <2>2, <3>1 DEF After
    <2>3. CASE q[1][2] # p
      <3>1. \A j \in 1..Len(q) : q[j][2] # p
        BY <2>1, <2>3
      <3>2. p \in w <=> b
        BY <3>1 DEF Ends
      <3> QED BY <1>1, <2>3, <3>2 DEF After
    <2> QED BY <2>2, <2>3
  <1>7. Ends(r, After(w, Head(q)), p, b)
    BY <1>5, <1>6 DEF Ends
  <1> QED BY <1>1, <1>7 DEF r

(* The oldest frames may go: what is left ends as it did. *)
LEMMA EndsSuffix ==
    ASSUME NEW q \in Seq(Socket!Frame), NEW k \in Nat, k <= Len(q), NEW p, Ends(q, {}, p, FALSE)
    PROVE  SubSeq(q, k + 1, Len(q)) \in Seq(Socket!Frame) /\ Ends(SubSeq(q, k + 1, Len(q)), {}, p, FALSE)
  <1> DEFINE r == SubSeq(q, k + 1, Len(q))
  <1>1. Len(q) \in Nat /\ r \in Seq(Socket!Frame) /\ Len(r) = Len(q) - k
    OBVIOUS
  <1>2. \A i \in 1..Len(r) : r[i] = q[i + k] /\ i + k \in 1..Len(q)
    BY <1>1
  <1> HIDE DEF r
  <1>3. ASSUME NEW i \in 1..Len(r), r[i][2] = p, \A j \in 1..Len(r) : j > i => r[j][2] # p
        PROVE  r[i][1] # "subscribe"
    <2>1. ASSUME NEW j \in 1..Len(q), j > i + k PROVE q[j][2] # p
      <3>1. j - k \in 1..Len(r) /\ j - k > i /\ (j - k) + k = j
        BY <1>1, <2>1
      <3>2. r[j - k] = q[j]
        BY <1>2, <3>1
      <3> QED BY <1>3, <3>1, <3>2
    <2> QED BY <1>2, <1>3, <2>1 DEF Ends
  <1>4. Ends(r, {}, p, FALSE)
    BY <1>3 DEF Ends
  <1> QED BY <1>1, <1>4 DEF r

LEMMA EndsConcat ==
    ASSUME NEW q \in Seq(Socket!Frame), NEW r \in Seq(Socket!Frame), NEW w, NEW p, NEW b \in BOOLEAN,
           \A i \in 1..Len(r) : r[i][1] = "subscribe" <=> b,
           (\A i \in 1..Len(r) : r[i][2] # p) => Ends(q, w, p, b)
    PROVE  q \o r \in Seq(Socket!Frame) /\ Ends(q \o r, w, p, b)
  <1> DEFINE t == q \o r
  <1>1. Len(q) \in Nat /\ Len(r) \in Nat /\ t \in Seq(Socket!Frame) /\ Len(t) = Len(q) + Len(r)
    OBVIOUS
  <1>2. \A i \in 1..Len(q) : i \in 1..Len(t) /\ t[i] = q[i]
    BY <1>1
  <1>3. \A i \in 1..Len(r) : i + Len(q) \in 1..Len(t) /\ t[i + Len(q)] = r[i]
    BY <1>1
  <1>4. ASSUME NEW i \in 1..Len(t), i \notin 1..Len(q) PROVE \E j \in 1..Len(r) : i = j + Len(q)
    <2>1. i - Len(q) \in 1..Len(r) /\ i = (i - Len(q)) + Len(q)
      BY <1>1, <1>4
    <2> QED BY <2>1
  <1> HIDE DEF t
  <1>5. CASE \A i \in 1..Len(r) : r[i][2] # p
    <2>1. ASSUME NEW i \in 1..Len(t), t[i][2] = p, \A j \in 1..Len(t) : j > i => t[j][2] # p
          PROVE  t[i][1] = "subscribe" <=> b
      <3>1. i \in 1..Len(q) /\ t[i] = q[i]
        <4>1. ASSUME i \notin 1..Len(q) PROVE FALSE
          <5>1. PICK j \in 1..Len(r) : i = j + Len(q)
            BY <1>4, <4>1
          <5> QED BY <1>3, <1>5, <2>1, <5>1
        <4> QED BY <1>2, <4>1
      <3>2. \A j \in 1..Len(q) : j > i => q[j][2] # p
        BY <1>2, <2>1
      <3> QED BY <1>5, <2>1, <3>1, <3>2 DEF Ends
    <2>2. ASSUME \A i \in 1..Len(t) : t[i][2] # p PROVE p \in w <=> b
      <3>1. \A i \in 1..Len(q) : q[i][2] # p
        BY <1>2, <2>2
      <3> QED BY <1>5, <3>1 DEF Ends
    <2> QED BY <1>1, <2>1, <2>2 DEF Ends, t
  <1>6. CASE ~ \A i \in 1..Len(r) : r[i][2] # p
    <2>1. PICK m \in 1..Len(r) : r[m][2] = p
      BY <1>6
    <2>2. ASSUME NEW i \in 1..Len(t), t[i][2] = p, \A j \in 1..Len(t) : j > i => t[j][2] # p
          PROVE  t[i][1] = "subscribe" <=> b
      <3>1. i \notin 1..Len(q)
        <4>1. m + Len(q) \in 1..Len(t) /\ t[m + Len(q)][2] = p
          BY <1>3, <2>1
        <4>2. ~(m + Len(q) > i)
          BY <2>2, <4>1
        <4> QED BY <1>1, <4>2
      <3>2. PICK j \in 1..Len(r) : i = j + Len(q)
        BY <1>4, <3>1
      <3> QED BY <1>3, <3>2
    <2>3. ~ \A i \in 1..Len(t) : t[i][2] # p
      BY <1>3, <2>1
    <2> QED BY <1>1, <2>2, <2>3 DEF Ends, t
  <1> QED BY <1>5, <1>6

(* The sequence of a finite set has its members and no others. *)
LEMMA SequenceOf ==
    ASSUME NEW S, IsFiniteSet(S)
    PROVE  /\ Socket!SetToSeq(S) \in Seq(S)
           /\ \A x \in S : \E i \in 1..Len(Socket!SetToSeq(S)) : Socket!SetToSeq(S)[i] = x
  <1>1. Cardinality(S) \in Nat /\ ExistsBijection(1..Cardinality(S), S)
    BY FS_CardinalityType
  <1>2. PICK g : g \in Bijection(1..Cardinality(S), S)
    BY <1>1 DEF ExistsBijection
  <1>3. g \in [1..Cardinality(S) -> S] /\ Socket!IsInjective(g)
    BY <1>2 DEF Bijection, Injection, IsInjective, Socket!IsInjective
  <1>4. PICK f : f = Socket!SetToSeq(S)
    OBVIOUS
  <1>5. f \in [1..Cardinality(S) -> S] /\ Socket!IsInjective(f)
    BY <1>3, <1>4 DEF Socket!SetToSeq, Socket!Cardinality, Cardinality
  <1>6. IsFiniteSet(1..Cardinality(S)) /\ Cardinality(1..Cardinality(S)) = Cardinality(S)
    BY <1>1, FS_Interval
  <1>7. f \in Injection(1..Cardinality(S), S)
    BY <1>5 DEF Injection, IsInjective, Socket!IsInjective
  <1>8. f \in Surjection(1..Cardinality(S), S)
    BY <1>6, <1>7, FS_Injection
  <1>9. \A x \in S : \E i \in 1..Cardinality(S) : f[i] = x
    BY <1>8 DEF Surjection
  <1>10. f \in Seq(S) /\ Len(f) = Cardinality(S)
    BY <1>1, <1>5
  <1> QED BY <1>4, <1>9, <1>10

-----------------------------------------------------------------------------
(* The steps. *)

LEMMA SocketStarts == ASSUME NoSocket \notin Sockets, Socket!Init PROVE SocketInv
  <1>1. queue = <<>> /\ queue \in Seq(Socket!Frame) /\ <<>> \in Seq(Socket!Frame) /\ Len(queue) = 0
    BY DEF Socket!Init
  <1>2. SocketTypes
    BY <1>1 DEF Socket!Init, SocketTypes
  <1>3. LiveOne /\ Drained /\ Untold /\ WireTrue
    BY DEF Socket!Init, LiveOne, Drained, Untold, WireTrue, Socket!Healthy
  <1>4. QueueTrue
    BY <1>1 DEF QueueTrue, Ends
  <1> QED BY <1>2, <1>3, <1>4 DEF SocketInv

LEMMA Agreed == ASSUME SocketInv PROVE Socket!SubscriptionsAgree
  <1> SUFFICES ASSUME Socket!Healthy, socket \in registered, frames[socket] = <<>>
               PROVE  watched[socket] = Socket!Pinned
    BY DEF Socket!SubscriptionsAgree
  <1>1. \A p \in Entities : p \in watched[socket] <=> pins[p] > 0
    BY DEF SocketInv, WireTrue, Ends
  <1>2. watched[socket] \subseteq Entities
    BY DEF SocketInv, SocketTypes, Socket!Healthy
  <1> QED BY <1>1, <1>2 DEF Socket!Pinned

(* Steps that leave the subscriptions alone, and at most end sockets. *)
LEMMA EndsSockets ==
    ASSUME SocketInv, UNCHANGED <<queue, pins>>, NoSocket \notin Sockets,
           socket' \in {socket, NoSocket}, status' = "connected" => status = "connected",
           net' \in [Sockets -> {"idle", "opening", "accepted", "open", "closing", "dead"}],
           \A s \in Sockets : net'[s] \in {"opening", "accepted", "open"} =>
               socket' = socket /\ (net[s] = net'[s] \/ (net[s] = "opening" /\ net'[s] = "accepted")),
           frames' \in [Sockets -> Seq(Socket!Frame)], watched' \in [Sockets -> SUBSET Entities],
           \A s \in Sockets : net'[s] \in {"idle", "opening", "accepted"} => watched'[s] = {} \/ (watched'[s] = watched[s] /\ net[s] \in {"idle", "opening", "accepted"}),
           \A s \in Sockets : s \in registered' /\ net'[s] = "open" =>
               s \in registered /\ watched'[s] = watched[s] /\ frames'[s] = frames[s]
    PROVE  SocketInv'
  <1>1. SocketTypes'
    BY DEF SocketInv, SocketTypes
  <1>2. LiveOne'
    BY DEF SocketInv, LiveOne
  <1>3. Drained'
    BY DEF SocketInv, Drained
  <1>4. QueueTrue' /\ Untold'
    <2>1. QueueTrue'
      <3>1. QueueTrue
        BY DEF SocketInv
      <3>2. queue' = queue /\ pins' = pins
        OBVIOUS
      <3> QED BY <3>1, <3>2 DEF QueueTrue, Ends
    <2>2. Untold'
      BY DEF SocketInv, Untold
    <2> QED BY <2>1, <2>2
  <1>5. WireTrue'
    <2> SUFFICES ASSUME Socket!Healthy', (socket \in registered)', NEW p \in Entities
                 PROVE  Ends(frames[socket], watched[socket], p, pins[p] > 0)'
      BY DEF WireTrue
    <2>1. socket' \in Sockets /\ net'[socket'] = "open"
      BY <1>1 DEF SocketTypes, Socket!Healthy
    <2>2. socket' = socket /\ net[socket] = "open"
      BY <2>1
    <2>3. socket \in registered /\ watched'[socket] = watched[socket] /\ frames'[socket] = frames[socket]
      BY <2>1, <2>2
    <2>4. Ends(frames[socket], watched[socket], p, pins[p] > 0)
      BY <2>1, <2>2, <2>3 DEF SocketInv, WireTrue, Socket!Healthy
    <2> QED BY <2>2, <2>3, <2>4 DEF Ends
  <1> QED BY <1>1, <1>2, <1>3, <1>4, <1>5 DEF SocketInv

(* A new socket in the place of the old one. *)
LEMMA Replaced ==
    ASSUME SocketInv, UNCHANGED <<queue, pins, watched>>, NoSocket \notin Sockets,
           NEW s \in Sockets, net[s] = "idle", s # socket, socket' = s, status' = "connecting",
           net' = [Socket!Shut(net, socket) EXCEPT ![s] = "opening"],
           frames' = IF socket = NoSocket THEN frames ELSE [frames EXCEPT ![socket] = <<>>]
    PROVE  SocketInv'
  <1>1. PICK n : n = Socket!Shut(net, socket)
    OBVIOUS
  <1>2. n \in [Sockets -> {"idle", "opening", "accepted", "open", "closing", "dead"}]
    BY <1>1 DEF SocketInv, SocketTypes, Socket!Shut
  <1>3. \A k \in Sockets : /\ n[k] \notin {"opening", "accepted", "open"}
                           /\ n[k] = "idle" => net[k] = "idle"
    BY <1>1, <1>2 DEF SocketInv, SocketTypes, LiveOne, Socket!Shut
  <1>4. net' = [n EXCEPT ![s] = "opening"]
    BY <1>1
  <1>5. /\ net' \in [Sockets -> {"idle", "opening", "accepted", "open", "closing", "dead"}]
        /\ net'[s] = "opening" /\ \A k \in Sockets : k # s => net'[k] = n[k]
    BY <1>2, <1>4
  <1>6. frames' \in [Sockets -> Seq(Socket!Frame)]
    <2>1. <<>> \in Seq(Socket!Frame)
      OBVIOUS
    <2> QED BY <2>1 DEF SocketInv, SocketTypes
  <1>7. SocketTypes'
    BY <1>5, <1>6 DEF SocketInv, SocketTypes
  <1>8. LiveOne'
    BY <1>3, <1>5 DEF LiveOne
  <1>9. Drained' /\ QueueTrue'
    BY DEF SocketInv, Drained, QueueTrue, Ends
  <1>10. Untold'
    BY <1>3, <1>5 DEF SocketInv, Untold
  <1>11. WireTrue'
    BY DEF WireTrue, Socket!Healthy
  <1> QED BY <1>7, <1>8, <1>9, <1>10, <1>11 DEF SocketInv

LEMMA ConnectKept ==
    ASSUME SocketInv, NoSocket \notin Sockets, NEW s \in Sockets, NEW mark, Socket!Connect(s, mark),
           UNCHANGED <<queue, pins, watched>>
    PROVE  SocketInv'
  BY Replaced DEF Socket!Connect

LEMMA SocketStutters ==
    ASSUME SocketInv, UNCHANGED <<status, socket, queue, pins, net, frames, registered, watched>>
    PROVE  SocketInv'
  BY DEF SocketInv, SocketTypes, LiveOne, Drained, Untold, QueueTrue, WireTrue, Ends, Socket!Healthy

LEMMA TimersKept ==
    ASSUME SocketInv, NoSocket \notin Sockets, NEW s \in Sockets,
           Socket!Retry(s) \/ Socket!Trigger(s) \/ Socket!Manual(s) \/ Socket!Mount(s)
    PROVE  SocketInv'
  <1>1. CASE Socket!Retry(s)
    <2>1. CASE Socket!Busy
      BY <1>1, <2>1, SocketStutters DEF Socket!Retry, Socket!wireVars
    <2>2. CASE ~Socket!Busy
      BY <1>1, <2>2, ConnectKept DEF Socket!Retry
    <2> QED BY <2>1, <2>2
  <1>2. CASE Socket!Trigger(s)
    BY <1>2, ConnectKept DEF Socket!Trigger
  <1>3. CASE Socket!Manual(s)
    BY <1>3, ConnectKept DEF Socket!Manual
  <1>4. CASE Socket!Mount(s)
    <2>1. CASE Socket!Busy
      BY <1>4, <2>1, SocketStutters DEF Socket!Mount, Socket!wireVars, Socket!storeVars
    <2>2. CASE ~Socket!Busy
      BY <1>4, <2>2, Replaced DEF Socket!Mount
    <2> QED BY <2>1, <2>2
  <1> QED BY <1>1, <1>2, <1>3, <1>4

LEMMA OpenedKept ==
    ASSUME SocketInv, IsFiniteSet(Entities), NEW s \in Sockets, Socket!Opened(s) PROVE SocketInv'
  <1>1. /\ SocketTypes /\ net[s] = "accepted" /\ s = socket /\ watched[s] = {}
        /\ net' = [net EXCEPT ![s] = "open"] /\ status' = "connected" /\ queue' = <<>>
        /\ frames' = [frames EXCEPT ![s] = queue \o Socket!Resubscribed]
        /\ UNCHANGED <<socket, pins, watched, registered>>
    BY DEF SocketInv, LiveOne, Untold, Socket!Opened
  <1> DEFINE S == {"subscribe"} \X Socket!Pinned
  <1>2. PICK r : r = Socket!Resubscribed
    OBVIOUS
  <1>3. IsFiniteSet(S)
    <2>1. IsFiniteSet(Socket!Pinned)
      BY FS_Subset DEF Socket!Pinned
    <2> QED BY <2>1, FS_Singleton, FS_Product
  <1>4. r \in Seq(S) /\ \A x \in S : \E i \in 1..Len(r) : r[i] = x
    BY <1>2, <1>3, SequenceOf, ZenonT(90) DEF Socket!Resubscribed
  <1>5. r \in Seq(Socket!Frame) /\ \A i \in 1..Len(r) : r[i][1] = "subscribe" /\ r[i][2] \in Socket!Pinned
    <2>1. S \subseteq Socket!Frame
      BY DEF Socket!Pinned, Socket!Frame
    <2>2. Len(r) \in Nat /\ \A i \in 1..Len(r) : r[i] \in S
      BY <1>4
    <2>3. r \in Seq(Socket!Frame)
      BY <1>4, <2>1
    <2> QED BY <2>2, <2>3
  <1>6. ASSUME NEW p \in Entities PROVE Ends(queue \o r, {}, p, pins[p] > 0)
    <2>1. CASE pins[p] > 0
      <3>1. <<"subscribe", p>> \in S
        BY <2>1 DEF Socket!Pinned
      <3>2. PICK i \in 1..Len(r) : r[i] = <<"subscribe", p>>
        BY <1>4, <3>1
      <3>3. r[i][2] = p
        BY <3>2
      <3>4. Ends(queue \o r, {}, p, TRUE)
        BY <1>1, <1>5, <3>3, EndsConcat DEF SocketTypes
      <3> QED BY <2>1, <3>4 DEF Ends
    <2>2. CASE ~(pins[p] > 0)
      <3>1. p \notin Socket!Pinned /\ pins[p] = 0
        BY <1>1, <2>2 DEF Socket!Pinned, SocketTypes
      <3>2. Ends(queue, {}, p, FALSE)
        BY <3>1 DEF SocketInv, QueueTrue
      <3>3. \A i \in 1..Len(r) : r[i][2] # p
        BY <1>5, <3>1
      <3>4. Ends(queue \o r, {}, p, FALSE)
        <4> DEFINE t == queue \o r
        <4>1. /\ Len(queue) \in Nat /\ Len(r) \in Nat /\ Len(t) = Len(queue) + Len(r)
              /\ \A i \in 1..Len(queue) : i \in 1..Len(t) /\ t[i] = queue[i]
              /\ \A i \in 1..Len(t) : i \in 1..Len(queue) \/ (i - Len(queue) \in 1..Len(r) /\ t[i] = r[i - Len(queue)])
          BY <1>1, <1>5 DEF SocketTypes
        <4> HIDE DEF t
        <4>2. \A i \in 1..Len(t) : t[i][2] = p => i \in 1..Len(queue) /\ t[i] = queue[i]
          BY <3>3, <4>1
        <4>3. Ends(t, {}, p, FALSE)
          BY <3>2, <4>1, <4>2 DEF Ends
        <4> QED BY <4>3 DEF t
      <3> QED BY <2>2, <3>4 DEF Ends
    <2> QED BY <2>1, <2>2
  <1>7. queue \o r \in Seq(Socket!Frame) /\ <<>> \in Seq(Socket!Frame)
    BY <1>1, <1>5 DEF SocketTypes
  <1>8. frames' = [frames EXCEPT ![s] = queue \o r]
    BY <1>1, <1>2
  <1>9. SocketTypes'
    BY <1>1, <1>7, <1>8, ZenonT(90) DEF SocketTypes
  <1>10. frames'[s] = queue \o r
    BY <1>1, <1>8 DEF SocketTypes
  <1>11. WireTrue'
    <2> SUFFICES ASSUME NEW p \in Entities PROVE Ends(frames[socket], watched[socket], p, pins[p] > 0)'
      BY DEF WireTrue
    <2>1. PICK q : q = queue \o r
      OBVIOUS
    <2>2. Ends(q, {}, p, pins[p] > 0)
      BY <1>6, <2>1
    <2>3. frames'[socket'] = q /\ watched'[socket'] = {} /\ pins' = pins
      BY <1>1, <1>10, <2>1
    <2> QED BY <2>2, <2>3 DEF Ends
  <1>12. LiveOne' /\ Untold'
    BY <1>1 DEF SocketInv, SocketTypes, LiveOne, Untold
  <1>13. Drained' /\ QueueTrue'
    BY <1>1 DEF Drained, QueueTrue, Ends
  <1> QED BY <1>9, <1>11, <1>12, <1>13 DEF SocketInv

LEMMA ServeKept == ASSUME SocketInv, NEW s \in Sockets, Socket!Serve(s) PROVE SocketInv'
  <1>1. /\ SocketTypes /\ net[s] = "open" /\ s = socket /\ frames[s] # <<>>
        /\ frames' = [frames EXCEPT ![s] = Tail(frames[s])]
        /\ UNCHANGED <<status, socket, queue, pins, net, registered>>
    BY DEF SocketInv, LiveOne, Socket!Serve, Socket!storeVars, Socket!wireVars
  <1>2. PICK q \in Seq(Socket!Frame) : q = frames[s] /\ q # <<>>
    BY <1>1 DEF SocketTypes
  <1>3. Tail(q) \in Seq(Socket!Frame) /\ Head(q) \in Socket!Frame
    BY <1>2
  <1>4. Head(q)[2] \in Entities
    BY <1>3 DEF Socket!Frame
  <1>5. frames' = [frames EXCEPT ![s] = Tail(q)]
    BY <1>1, <1>2
  <1>6. watched' = IF s \notin registered THEN watched ELSE [watched EXCEPT ![s] = After(watched[s], Head(q))]
    BY <1>1, <1>2 DEF Socket!Serve, After
  <1>7. /\ watched' \in [Sockets -> SUBSET Entities]
        /\ s \in registered => watched'[s] = After(watched[s], Head(q))
        /\ \A k \in Sockets : k # s => watched'[k] = watched[k]
    <2>1. After(watched[s], Head(q)) \in SUBSET Entities
      BY <1>1, <1>4 DEF SocketTypes, After
    <2> QED BY <1>1, <1>6, <2>1 DEF SocketTypes
  <1>8. SocketTypes' /\ frames'[s] = Tail(q)
    BY <1>1, <1>3, <1>5, <1>7, ZenonT(90) DEF SocketTypes
  <1>9. LiveOne' /\ Drained' /\ QueueTrue'
    BY <1>1 DEF SocketInv, LiveOne, Drained, QueueTrue, Ends
  <1>10. Untold'
    BY <1>1, <1>7 DEF SocketInv, Untold
  <1>11. WireTrue'
    <2> SUFFICES ASSUME Socket!Healthy', (socket \in registered)', NEW p \in Entities
                 PROVE  Ends(frames[socket], watched[socket], p, pins[p] > 0)'
      BY DEF WireTrue
    <2>1. Socket!Healthy /\ socket \in registered
      BY <1>1 DEF Socket!Healthy
    <2>2. Ends(q, watched[s], p, pins[p] > 0)
      BY <1>1, <1>2, <2>1 DEF SocketInv, WireTrue
    <2>3. (pins[p] > 0) \in BOOLEAN
      OBVIOUS
    <2>4. PICK b \in BOOLEAN : b <=> pins[p] > 0
      BY <2>3
    <2>5. Ends(q, watched[s], p, b)
      BY <2>2, <2>4 DEF Ends
    <2>6. PICK w : w = After(watched[s], Head(q))
      OBVIOUS
    <2>7. Ends(Tail(q), w, p, b)
      BY <1>2, <2>5, <2>6, EndsTail
    <2>8. frames'[socket'] = Tail(q) /\ watched'[socket'] = w /\ pins' = pins
      BY <1>1, <1>7, <1>8, <2>1, <2>6
    <2> QED BY <2>4, <2>7, <2>8 DEF Ends
  <1> QED BY <1>8, <1>9, <1>10, <1>11 DEF SocketInv

(* A subscriber more or less: the frame, if one is sent, says it. *)
LEMMA EnqueueKeeps ==
    ASSUME MaxQueue \in Nat, NEW q \in Seq(Socket!Frame), NEW r \in Seq(Socket!Frame), NEW p,
           Ends(q \o r, {}, p, FALSE)
    PROVE  Socket!Enqueue(q, r) \in Seq(Socket!Frame) /\ Ends(Socket!Enqueue(q, r), {}, p, FALSE)
  <1>1. PICK t \in Seq(Socket!Frame) : t = q \o r
    <2>1. q \o r \in Seq(Socket!Frame)
      OBVIOUS
    <2> QED BY <2>1
  <1>2. PICK k \in Nat : k = (IF Len(t) > MaxQueue THEN Len(t) - MaxQueue ELSE 0) /\ k <= Len(t)
    <2>1. Len(t) \in Nat
      OBVIOUS
    <2>2. CASE Len(t) > MaxQueue
      <3>1. Len(t) - MaxQueue \in Nat /\ Len(t) - MaxQueue <= Len(t)
        BY <2>1, <2>2
      <3> QED BY <2>2, <3>1
    <2>3. CASE ~(Len(t) > MaxQueue)
      <3>1. 0 \in Nat /\ 0 <= Len(t)
        BY <2>1
      <3> QED BY <2>3, <3>1
    <2> QED BY <2>2, <2>3
  <1>3. Socket!Enqueue(q, r) = SubSeq(t, k + 1, Len(t))
    <2>1. 1 + k = k + 1
      BY <1>2
    <2> QED BY <1>1, <1>2, <2>1 DEF Socket!Enqueue
  <1> QED BY <1>1, <1>2, <1>3, EndsSuffix

LEMMA EnqueueTypes ==
    ASSUME MaxQueue \in Nat, NEW q \in Seq(Socket!Frame), NEW r \in Seq(Socket!Frame)
    PROVE  Socket!Enqueue(q, r) \in Seq(Socket!Frame)
  BY DEF Socket!Enqueue

LEMMA PinKept ==
    ASSUME SocketInv, MaxQueue \in Nat, NEW p \in Entities, NEW f \in Socket!Frame, NEW n \in Nat,
           pins' = [pins EXCEPT ![p] = n], f[2] = p, f[1] = "subscribe" <=> n > 0,
           \/ (n > 0 <=> pins[p] > 0) /\ UNCHANGED <<queue, frames>>
           \/ Socket!Send(f),
           UNCHANGED <<status, socket, net, watched, registered>>
    PROVE  SocketInv'
  <1>1. SocketTypes /\ pins' \in [Entities -> Nat] /\ pins'[p] = n /\ \A x \in Entities : x # p => pins'[x] = pins[x]
    BY DEF SocketInv, SocketTypes
  <1>2. LiveOne' /\ Untold'
    BY DEF SocketInv, LiveOne, Untold
  <1>3. CASE (n > 0 <=> pins[p] > 0) /\ UNCHANGED <<queue, frames>>
    <2>1. SocketTypes' /\ Drained'
      BY <1>1, <1>3 DEF SocketInv, SocketTypes, Drained
    <2>2. \A x \in Entities : (pins'[x] > 0 <=> pins[x] > 0) /\ (pins'[x] = 0 <=> pins[x] = 0)
      <3>1. pins[p] \in Nat
        BY <1>1 DEF SocketTypes
      <3> QED BY <1>1, <1>3, <3>1
    <2>3. QueueTrue'
      BY <1>3, <2>2 DEF SocketInv, QueueTrue, Ends
    <2>4. WireTrue'
      BY <1>3, <2>2 DEF SocketInv, WireTrue, Ends, Socket!Healthy
    <2> QED BY <1>2, <2>1, <2>3, <2>4 DEF SocketInv
  <1>4. CASE Socket!Send(f) /\ status = "connected"
    <2>1. UNCHANGED queue /\ queue = <<>> /\ Len(queue) = 0
      BY <1>4 DEF SocketInv, Drained, Socket!Send
    <2>2. QueueTrue' /\ Drained'
      BY <2>1 DEF QueueTrue, Ends, Drained
    <2>3. CASE ~(socket # NoSocket /\ net[socket] = "open")
      <3>1. frames' = frames
        BY <1>4, <2>3 DEF Socket!Send
      <3>2. WireTrue'
        BY <2>3 DEF WireTrue, Socket!Healthy
      <3>3. SocketTypes'
        BY <1>1, <2>1, <3>1 DEF SocketTypes
      <3> QED BY <1>2, <2>2, <3>2, <3>3 DEF SocketInv
    <2>4. CASE socket # NoSocket /\ net[socket] = "open"
      <3>1. socket \in Sockets
        BY <1>1, <2>4 DEF SocketTypes
      <3>2. PICK q \in Seq(Socket!Frame) : q = frames[socket]
        BY <1>1, <3>1 DEF SocketTypes
      <3>3. frames' = [frames EXCEPT ![socket] = Append(q, f)]
        BY <1>4, <2>4, <3>2 DEF Socket!Send
      <3>4. Append(q, f) \in Seq(Socket!Frame)
        OBVIOUS
      <3>5. SocketTypes' /\ frames'[socket] = Append(q, f)
        BY <1>1, <2>1, <3>1, <3>3, <3>4 DEF SocketTypes
      <3>6. WireTrue'
        <4> SUFFICES ASSUME Socket!Healthy', (socket \in registered)', NEW x \in Entities
                     PROVE  Ends(frames[socket], watched[socket], x, pins[x] > 0)'
          BY DEF WireTrue
        <4>1. Socket!Healthy /\ socket \in registered
          BY DEF Socket!Healthy
        <4>2. Ends(q, watched[socket], x, pins[x] > 0)
          BY <3>2, <4>1 DEF SocketInv, WireTrue
        <4>3. PICK b \in BOOLEAN : b <=> pins'[x] > 0
          OBVIOUS
        <4>4. Ends(Append(q, f), watched[socket], x, b)
          <5>1. CASE x = p
            BY <1>1, <4>3, <5>1, EndsAppend
          <5>2. CASE x # p
            <6>1. Ends(q, watched[socket], x, b)
              BY <1>1, <4>2, <4>3, <5>2 DEF Ends
            <6> QED BY <5>2, <6>1, EndsAppend
          <5> QED BY <5>1, <5>2
        <4> QED BY <3>5, <4>3, <4>4 DEF Ends
      <3> QED BY <1>2, <2>2, <3>5, <3>6 DEF SocketInv
    <2> QED BY <2>3, <2>4
  <1>5. CASE Socket!Send(f) /\ status # "connected"
    <2>1. queue' = Socket!Enqueue(queue, <<f>>) /\ UNCHANGED frames
      BY <1>5 DEF Socket!Send
    <2>2. <<f>> \in Seq(Socket!Frame) /\ queue \o <<f>> = Append(queue, f) /\ queue \in Seq(Socket!Frame)
      BY <1>1 DEF SocketTypes
    <2>3. SocketTypes'
      BY <1>1, <2>1, <2>2, EnqueueTypes DEF SocketTypes
    <2>4. ASSUME NEW x \in Entities, pins'[x] = 0 PROVE Ends(queue', {}, x, FALSE)
      <3>1. Ends(Append(queue, f), {}, x, FALSE)
        <4>1. CASE x = p
          <5>1. f[1] = "subscribe" <=> FALSE
            BY <1>1, <2>4, <4>1
          <5> QED BY <2>2, <4>1, <5>1, EndsAppend
        <4>2. CASE x # p
          <5>1. Ends(queue, {}, x, FALSE)
            BY <1>1, <2>4, <4>2 DEF SocketInv, QueueTrue
          <5> QED BY <2>2, <4>2, <5>1, EndsAppend
        <4> QED BY <4>1, <4>2
      <3> QED BY <2>1, <2>2, <3>1, EnqueueKeeps
    <2>5. QueueTrue'
      BY <2>4 DEF QueueTrue, Ends
    <2>6. Drained' /\ WireTrue'
      BY <1>5 DEF Drained, WireTrue, Socket!Healthy
    <2> QED BY <1>2, <2>3, <2>5, <2>6 DEF SocketInv
  <1> QED BY <1>3, <1>4, <1>5

LEMMA SubscribersKept ==
    ASSUME SocketInv, MaxQueue \in Nat, NEW p \in Entities, Socket!Subscribe(p) \/ Socket!Unsubscribe(p)
    PROVE  SocketInv'
  <1>1. pins[p] \in Nat
    BY DEF SocketInv, SocketTypes
  <1>2. CASE Socket!Subscribe(p)
    <2>1. PICK n \in Nat : n = pins[p] + 1
      BY <1>1
    <2>2. PICK f \in Socket!Frame : f = <<"subscribe", p>>
      BY DEF Socket!Frame
    <2>3. f[1] = "subscribe" /\ f[2] = p /\ n > 0
      BY <1>1, <2>1, <2>2
    <2>4. /\ pins' = [pins EXCEPT ![p] = n] /\ UNCHANGED <<status, socket, net, watched, registered>>
          /\ \/ pins[p] = 0 /\ Socket!Send(f)
             \/ pins[p] # 0 /\ UNCHANGED <<queue, frames>>
      BY <1>2, <2>1, <2>2 DEF Socket!Subscribe, Socket!storeVars, Socket!wireVars
    <2>5. f[1] = "subscribe" <=> n > 0
      BY <2>3
    <2>6. (pins[p] # 0 => (n > 0 <=> pins[p] > 0))
      BY <1>1, <2>3
    <2>7. \/ (n > 0 <=> pins[p] > 0) /\ UNCHANGED <<queue, frames>>
          \/ Socket!Send(f)
      BY <2>4, <2>6
    <2> QED BY <2>3, <2>4, <2>5, <2>7, PinKept
  <1>3. CASE Socket!Unsubscribe(p)
    <2>1. pins[p] > 0
      BY <1>3 DEF Socket!Unsubscribe
    <2>2. PICK n \in Nat : n = pins[p] - 1
      BY <1>1, <2>1
    <2>3. /\ pins' = [pins EXCEPT ![p] = n] /\ UNCHANGED <<status, socket, net, watched, registered>>
          /\ \/ pins[p] = 1 /\ Socket!Send(<<"unsubscribe", p>>)
             \/ pins[p] # 1 /\ UNCHANGED <<queue, frames>>
      BY <1>3, <2>2 DEF Socket!Unsubscribe, Socket!storeVars, Socket!wireVars
    <2>4. CASE pins[p] = 1
      <3>1. PICK f \in Socket!Frame : f = <<"unsubscribe", p>>
        BY DEF Socket!Frame
      <3>2. f[1] # "subscribe" /\ f[2] = p /\ n = 0 /\ Socket!Send(f)
        BY <2>2, <2>3, <2>4, <3>1
      <3>3. f[1] = "subscribe" <=> n > 0
        BY <3>2
      <3> QED BY <2>3, <3>2, <3>3, PinKept
    <2>5. CASE pins[p] # 1
      <3>1. PICK f \in Socket!Frame : f = <<"subscribe", p>>
        BY DEF Socket!Frame
      <3>2. f[1] = "subscribe" /\ f[2] = p /\ n > 0
        BY <1>1, <2>1, <2>2, <2>5, <3>1
      <3>3. (f[1] = "subscribe" <=> n > 0) /\ (n > 0 <=> pins[p] > 0)
        BY <2>1, <3>2
      <3> QED BY <2>3, <2>5, <3>2, <3>3, PinKept
    <2> QED BY <2>4, <2>5
  <1> QED BY <1>2, <1>3

LEMMA LogoutKept ==
    ASSUME SocketInv, MaxQueue \in Nat, IsFiniteSet(Entities), NoSocket \notin Sockets, Socket!Logout PROVE SocketInv'
  <1>1. /\ SocketTypes /\ status' = "disconnected" /\ socket' = NoSocket /\ net' = Socket!Shut(net, socket)
        /\ pins' = [p \in Entities |-> 0] /\ UNCHANGED <<frames, watched>>
        /\ queue' = Socket!Enqueue(queue, Socket!SetToSeq({"unsubscribe"} \X Socket!Pinned))
    BY DEF SocketInv, Socket!Logout, Socket!Disconnect
  <1> DEFINE S == {"unsubscribe"} \X Socket!Pinned
  <1>2. PICK r : r = Socket!SetToSeq(S)
    OBVIOUS
  <1>3. IsFiniteSet(S)
    <2>1. IsFiniteSet(Socket!Pinned)
      BY FS_Subset DEF Socket!Pinned
    <2> QED BY <2>1, FS_Singleton, FS_Product
  <1>4. r \in Seq(S) /\ \A x \in S : \E i \in 1..Len(r) : r[i] = x
    BY <1>2, <1>3, SequenceOf, ZenonT(90)
  <1>5. r \in Seq(Socket!Frame) /\ \A i \in 1..Len(r) : r[i][1] = "unsubscribe"
    <2>1. S \subseteq Socket!Frame
      BY DEF Socket!Pinned, Socket!Frame
    <2>2. Len(r) \in Nat /\ \A i \in 1..Len(r) : r[i] \in S
      BY <1>4
    <2>3. r \in Seq(Socket!Frame)
      BY <1>4, <2>1
    <2> QED BY <2>2, <2>3
  <1>6. ASSUME NEW p \in Entities PROVE Ends(queue', {}, p, FALSE)
    <2>1. (\A i \in 1..Len(r) : r[i][2] # p) => Ends(queue, {}, p, FALSE)
      <3>1. CASE pins[p] > 0
        <4>1. <<"unsubscribe", p>> \in S
          BY <3>1 DEF Socket!Pinned
        <4>2. PICK i \in 1..Len(r) : r[i] = <<"unsubscribe", p>>
          BY <1>4, <4>1
        <4> QED BY <4>2
      <3>2. CASE ~(pins[p] > 0)
        <4>1. pins[p] = 0
          BY <1>1, <3>2 DEF SocketTypes
        <4> QED BY <4>1 DEF SocketInv, QueueTrue
      <3> QED BY <3>1, <3>2
    <2>2. queue \in Seq(Socket!Frame)
      BY <1>1 DEF SocketTypes
    <2>3. \A i \in 1..Len(r) : r[i][1] = "subscribe" <=> FALSE
      BY <1>5
    <2>4. Ends(queue \o r, {}, p, FALSE)
      BY <1>5, <2>1, <2>2, <2>3, EndsConcat
    <2> QED BY <1>1, <1>2, <1>5, <2>2, <2>4, EnqueueKeeps
  <1>7. QueueTrue'
    BY <1>6 DEF QueueTrue, Ends
  <1>8. /\ net' \in [Sockets -> {"idle", "opening", "accepted", "open", "closing", "dead"}]
        /\ \A k \in Sockets : /\ net'[k] \notin {"opening", "accepted", "open"}
                              /\ net'[k] = "idle" => net[k] = "idle"
    BY <1>1 DEF SocketInv, SocketTypes, LiveOne, Socket!Shut
  <1>9. queue' \in Seq(Socket!Frame)
    BY <1>1, <1>2, <1>5, EnqueueTypes DEF SocketTypes
  <1>10. SocketTypes'
    BY <1>1, <1>8, <1>9 DEF SocketTypes
  <1>11. LiveOne' /\ Untold'
    BY <1>1, <1>8 DEF SocketInv, LiveOne, Untold
  <1>12. Drained' /\ WireTrue'
    BY <1>1 DEF Drained, WireTrue, Socket!Healthy
  <1> QED BY <1>7, <1>10, <1>11, <1>12 DEF SocketInv

LEMMA ClosedKept ==
    ASSUME SocketInv, NoSocket \notin Sockets, NEW s \in Sockets, Socket!Closed(s) PROVE SocketInv'
  <1>1. /\ SocketTypes /\ net[s] \in {"closing", "dead"} /\ net' = [net EXCEPT ![s] = "idle"]
        /\ socket' = (IF socket = s THEN NoSocket ELSE socket)
        /\ frames' = [frames EXCEPT ![s] = <<>>] /\ watched' = [watched EXCEPT ![s] = {}]
        /\ registered' = registered \ {s} /\ UNCHANGED <<queue, pins>>
    BY DEF SocketInv, Socket!Closed
  <1>2. status' = "connected" => status = "connected"
    BY DEF Socket!Closed, Socket!HandleDisconnect
  <1>3. /\ net' \in [Sockets -> {"idle", "opening", "accepted", "open", "closing", "dead"}]
        /\ net'[s] = "idle" /\ \A k \in Sockets : k # s => net'[k] = net[k]
    BY <1>1 DEF SocketTypes
  <1>4. <<>> \in Seq(Socket!Frame)
    OBVIOUS
  <1>5. /\ frames' \in [Sockets -> Seq(Socket!Frame)] /\ watched' \in [Sockets -> SUBSET Entities] /\ watched'[s] = {}
        /\ \A k \in Sockets : k # s => frames'[k] = frames[k] /\ watched'[k] = watched[k]
    BY <1>1, <1>4 DEF SocketTypes
  <1>6. socket' \in {socket, NoSocket}
    BY <1>1
  <1>7. \A k \in Sockets : net'[k] \in {"opening", "accepted", "open"} =>
          socket' = socket /\ (net[k] = net'[k] \/ (net[k] = "opening" /\ net'[k] = "accepted"))
    BY <1>1, <1>3 DEF SocketInv, LiveOne
  <1>8. \A k \in Sockets : net'[k] \in {"idle", "opening", "accepted"} =>
          watched'[k] = {} \/ (watched'[k] = watched[k] /\ net[k] \in {"idle", "opening", "accepted"})
    BY <1>3, <1>5
  <1>9. \A k \in Sockets : k \in registered' /\ net'[k] = "open" =>
          k \in registered /\ watched'[k] = watched[k] /\ frames'[k] = frames[k]
    BY <1>1, <1>3, <1>5
  <1> QED BY <1>1, <1>2, <1>3, <1>5, <1>6, <1>7, <1>8, <1>9, EndsSockets

LEMMA NetworkKept ==
    ASSUME SocketInv, NoSocket \notin Sockets, NEW s \in Sockets,
           Socket!Accept(s) \/ Socket!Refuse(s) \/ Socket!Evict(s) \/ Socket!Drop(s)
    PROVE  SocketInv'
  <1>1. SocketTypes /\ UNCHANGED <<status, socket, queue, pins, frames>>
    BY DEF SocketInv, Socket!Accept, Socket!Refuse, Socket!Evict, Socket!Drop, Socket!storeVars, Socket!subVars
  <1>2. CASE Socket!Evict(s)
    <2>1. registered' = registered \ {s} /\ watched' = [watched EXCEPT ![s] = {}] /\ UNCHANGED net
      BY <1>2 DEF Socket!Evict, Socket!wireVars
    <2>2. /\ watched' \in [Sockets -> SUBSET Entities] /\ watched'[s] = {}
          /\ \A k \in Sockets : k # s => watched'[k] = watched[k]
      BY <1>1, <2>1 DEF SocketTypes
    <2>3. net' \in [Sockets -> {"idle", "opening", "accepted", "open", "closing", "dead"}]
          /\ frames' \in [Sockets -> Seq(Socket!Frame)]
      BY <1>1, <2>1 DEF SocketTypes
    <2>4. \A k \in Sockets : k \in registered' => k # s /\ k \in registered
      BY <2>1
    <2>5. \A k \in Sockets : net'[k] \in {"opening", "accepted", "open"} => socket' = socket /\ net[k] = net'[k]
      BY <1>1, <2>1
    <2>6. \A k \in Sockets : net'[k] \in {"idle", "opening", "accepted"} =>
            watched'[k] = {} \/ (watched'[k] = watched[k] /\ net[k] \in {"idle", "opening", "accepted"})
      BY <2>1, <2>2
    <2>7. \A k \in Sockets : k \in registered' /\ net'[k] = "open" =>
            k \in registered /\ watched'[k] = watched[k] /\ frames'[k] = frames[k]
      BY <1>1, <2>2, <2>4
    <2> QED BY <1>1, <2>2, <2>3, <2>5, <2>6, <2>7, EndsSockets
  <1>3. CASE Socket!Accept(s) \/ Socket!Refuse(s) \/ Socket!Drop(s)
    <2>1. /\ UNCHANGED watched
          /\ \/ net[s] = "opening" /\ net' = [net EXCEPT ![s] = "accepted"] /\ registered' = registered \cup {s}
             \/ net' = [net EXCEPT ![s] = "dead"] /\ registered' = registered
      BY <1>3 DEF Socket!Accept, Socket!Refuse, Socket!Drop, Socket!subVars
    <2>2. /\ net' \in [Sockets -> {"idle", "opening", "accepted", "open", "closing", "dead"}]
          /\ \A k \in Sockets : k # s => net'[k] = net[k]
          /\ \/ net[s] = "opening" /\ net'[s] = "accepted"
             \/ net'[s] = "dead" /\ registered' = registered
      BY <1>1, <2>1 DEF SocketTypes
    <2>3. frames' \in [Sockets -> Seq(Socket!Frame)] /\ watched' \in [Sockets -> SUBSET Entities]
      BY <1>1, <2>1 DEF SocketTypes
    <2>4. \A k \in Sockets : net'[k] \in {"opening", "accepted", "open"} =>
            socket' = socket /\ (net[k] = net'[k] \/ (net[k] = "opening" /\ net'[k] = "accepted"))
      BY <1>1, <2>2
    <2>5. \A k \in Sockets : net'[k] \in {"idle", "opening", "accepted"} =>
            watched'[k] = {} \/ (watched'[k] = watched[k] /\ net[k] \in {"idle", "opening", "accepted"})
      BY <2>1, <2>2
    <2>6. \A k \in Sockets : k \in registered' /\ net'[k] = "open" =>
            k \in registered /\ watched'[k] = watched[k] /\ frames'[k] = frames[k]
      BY <1>1, <2>1, <2>2
    <2> QED BY <1>1, <2>2, <2>3, <2>4, <2>5, <2>6, EndsSockets
  <1> QED BY <1>2, <1>3

LEMMA RestartKept == ASSUME SocketInv, Socket!Restart PROVE SocketInv'
  <1>1. /\ SocketTypes /\ UNCHANGED <<status, socket, queue, pins, frames, watched>> /\ registered' = {}
        /\ net' = [s \in Sockets |-> IF net[s] \in {"opening", "accepted", "open"} THEN "dead" ELSE net[s]]
    BY DEF SocketInv, Socket!Restart, Socket!storeVars, Socket!subVars
  <1>2. SocketTypes'
    BY <1>1 DEF SocketTypes
  <1>3. LiveOne' /\ Untold'
    BY <1>1 DEF SocketInv, SocketTypes, LiveOne, Untold
  <1>4. Drained' /\ QueueTrue' /\ WireTrue'
    BY <1>1 DEF SocketInv, Drained, QueueTrue, WireTrue, Ends
  <1> QED BY <1>2, <1>3, <1>4 DEF SocketInv

LEMMA SocketSteps ==
    ASSUME Socket!LiveSocketAssumption, IsFiniteSet(Entities), SocketInv, [Socket!Next]_(Socket!vars) PROVE SocketInv'
  <1>1. NoSocket \notin Sockets /\ MaxQueue \in Nat
    BY DEF Socket!LiveSocketAssumption
  <1>2. ASSUME NEW s \in Sockets,
               \/ Socket!Retry(s) \/ Socket!Trigger(s) \/ Socket!Manual(s) \/ Socket!Mount(s)
               \/ Socket!Opened(s) \/ Socket!Closed(s) \/ Socket!Serve(s)
               \/ Socket!Accept(s) \/ Socket!Refuse(s) \/ Socket!Evict(s) \/ Socket!Drop(s)
        PROVE  SocketInv'
    BY <1>1, <1>2, TimersKept, OpenedKept, ClosedKept, ServeKept, NetworkKept
  <1>3. ASSUME NEW s \in Sockets, Socket!Deliver(s) PROVE SocketInv'
    BY <1>3, SocketStutters DEF Socket!Deliver, Socket!storeVars, Socket!wireVars, Socket!subVars
  <1>4. ASSUME NEW p \in Entities, Socket!Subscribe(p) \/ Socket!Unsubscribe(p) PROVE SocketInv'
    BY <1>1, <1>4, SubscribersKept
  <1>5. CASE Socket!Stable \/ Socket!Update \/ Socket!Recover
    BY <1>5, SocketStutters DEF Socket!Stable, Socket!Update, Socket!Recover,
                                Socket!storeVars, Socket!wireVars, Socket!subVars
  <1>6. CASE Socket!Logout
    BY <1>1, <1>6, LogoutKept
  <1>7. CASE Socket!Restart
    BY <1>7, RestartKept
  <1>8. CASE UNCHANGED Socket!vars
    BY <1>8, SocketStutters DEF Socket!vars, Socket!storeVars, Socket!wireVars, Socket!subVars
  <1> QED BY <1>2, <1>3, <1>4, <1>5, <1>6, <1>7, <1>8 DEF Socket!Next

(* On a connection that works and that the server lists, the server's      *)
(* subscriptions are those of the pages once no frame is on its way: for   *)
(* any number of sockets, entities and faults, and any length of the queue. *)
THEOREM SubscriptionsAgreeHolds ==
    ASSUME Socket!LiveSocketAssumption, IsFiniteSet(Entities)
    PROVE  Socket!Spec => []Socket!SubscriptionsAgree
  <1>1. Socket!Init => SocketInv
    BY SocketStarts DEF Socket!LiveSocketAssumption
  <1>2. SocketInv /\ [Socket!Next]_(Socket!vars) => SocketInv'
    BY SocketSteps
  <1>3. SocketInv => Socket!SubscriptionsAgree
    BY Agreed
  <1> QED BY <1>1, <1>2, <1>3, PTL DEF Socket!Spec

-----------------------------------------------------------------------------
ListCalls == [step : {"idle", "sent", "read"}, query : List!Lists, version : 0..MaxChanges,
              rows : SUBSET (0..MaxChanges), newest : BOOLEAN]
Screens == [query : List!Lists, version : 0..MaxChanges, rows : SUBSET (0..MaxChanges), whole : BOOLEAN]
Pullings == [step : {"idle", "sent", "read"}, version : 0..MaxChanges]

(* A version that brings every change owed, unless an event of a creation  *)
(* is still to come.                                                       *)
Fresh(v) == v >= owed \/ news["created"] > 0
(* The newest call answers the remembered query.                           *)
Newest ==
    \A s \in Fetches : fetch[s].newest =>
        /\ fetch[s].step # "idle"
        /\ fetch[s].query = last
        /\ fetch[s].step = "read" => Fresh(fetch[s].version)
(* With no such call the list on screen is its answer.                     *)
Answered ==
    \/ failed
    \/ \E s \in Fetches : fetch[s].newest
    \/ shown.query = last /\ Fresh(shown.version)
Remembered ==
    /\ asked # Bare => last = asked
    /\ view = "projects" => query # Bare
    /\ view = "projects" /\ ~opening /\ typed = Bare => asked = query
    /\ view = "other" => ~opening /\ typed = Bare
    /\ stray = Bare
NewsFit == news["created"] + news["updated"] <= world
ListInv == List!TypeOK /\ owed <= world /\ NewsFit /\ Newest /\ Answered /\ Remembered

LEMMA ListStarts == ASSUME List!ListAssumption, List!Init PROVE ListInv
  <1>1. List!TypeOK
    <2>1. /\ view \in {"projects", "other"} /\ opening \in BOOLEAN
          /\ query \in List!Lists /\ typed \in List!Lists /\ asked \in List!Lists
          /\ stray \in List!Lists /\ last \in List!Lists
          /\ failed \in BOOLEAN /\ optimist \in {"none", "here", "elsewhere"}
      BY DEF List!Init, List!Lists
    <2>2. world \in 0..MaxChanges /\ owed \in 0..MaxChanges /\ 0 \in 0..MaxChanges
      BY DEF List!ListAssumption, List!Init
    <2>3. item \in [version : 0..MaxChanges, status : Standings]
      BY <2>2 DEF List!Init
    <2>4. news \in [{"created", "updated"} -> 0..MaxChanges]
      BY <2>2 DEF List!Init
    <2>5. fetch \in [Fetches -> ListCalls]
      BY <2>2 DEF List!Init, List!Lists, List!Idle, ListCalls
    <2>6. pull \in [Pulls -> Pullings]
      BY <2>2 DEF List!Init, List!NoPull, Pullings
    <2>7. List!Listed(Bare) \subseteq 0..MaxChanges
      BY <2>3 DEF List!Listed
    <2>8. shown \in Screens
      BY <2>2, <2>7 DEF List!Init, List!Lists, Screens
    <2> QED
      BY <2>1, <2>2, <2>3, <2>4, <2>5, <2>6, <2>8 DEF List!TypeOK, ListCalls, Pullings, Screens
  <1>2. Newest
    BY DEF List!Init, List!Idle, Newest
  <1>3. Answered /\ Remembered /\ owed <= world /\ NewsFit
    BY DEF List!Init, Answered, Remembered, Fresh, NewsFit
  <1> QED BY <1>1, <1>2, <1>3 DEF ListInv

(* A call that is dispatched is the newest, and asks for the list that is  *)
(* remembered.                                                             *)
LEMMA Dispatching ==
    ASSUME List!ListAssumption, ListInv, NEW s \in Fetches, NEW q \in List!Lists, List!Dispatch(s, q)
    PROVE  /\ fetch' \in [Fetches -> ListCalls]
           /\ last' = q
           /\ Newest' /\ Answered'
  <1>1. \A t \in Fetches : fetch[t] \in ListCalls
    BY DEF ListInv, List!TypeOK, ListCalls
  <1>2. ASSUME NEW t \in Fetches PROVE fetch'[t] \in ListCalls
    <2>1. CASE t = s
      <3>1. 0 \in 0..MaxChanges
        BY DEF List!ListAssumption
      <3>2. fetch'[t] = [step |-> "sent", query |-> q, version |-> 0, rows |-> {}, newest |-> TRUE]
        BY <2>1 DEF List!Dispatch, List!Sent, List!Idle
      <3> QED BY <3>1, <3>2 DEF ListCalls
    <2>2. CASE t # s
      <3>1. fetch'[t] = [fetch[t] EXCEPT !.newest = FALSE]
        BY <2>2 DEF List!Dispatch
      <3> QED BY <1>1, <3>1 DEF ListCalls
    <2> QED BY <2>1, <2>2
  <1>3. fetch' \in [Fetches -> ListCalls]
    BY <1>2 DEF List!Dispatch
  <1>4. \A t \in Fetches : fetch'[t].newest => t = s
    BY <1>1 DEF List!Dispatch, ListCalls
  <1>5. fetch'[s].newest /\ fetch'[s].step = "sent" /\ fetch'[s].query = last' /\ last' = q
    BY DEF List!Dispatch, List!Sent, List!Idle
  <1>6. Newest'
    BY <1>4, <1>5 DEF Newest
  <1>7. Answered'
    BY <1>5 DEF Answered
  <1> QED BY <1>3, <1>5, <1>6, <1>7

(* What a step has to show of the page, of the calls and the list, of the  *)
(* rest of the page and of the server.                                     *)
PageKept ==
    /\ view' \in {"projects", "other"} /\ opening' \in BOOLEAN
    /\ query' \in List!Lists /\ typed' \in List!Lists /\ asked' \in List!Lists /\ stray' \in List!Lists
    /\ Remembered'
CallsKept ==
    /\ last' \in List!Lists
    /\ fetch' \in [Fetches -> ListCalls]
    /\ shown' \in Screens
    /\ failed' \in BOOLEAN
    /\ Newest' /\ Answered'
RestKept == pull' \in [Pulls -> Pullings] /\ optimist' \in {"none", "here", "elsewhere"}
WorldKept ==
    /\ world' \in 0..MaxChanges /\ owed' \in 0..MaxChanges /\ owed' <= world'
    /\ item' \in [version : 0..MaxChanges, status : Standings]
    /\ news' \in [{"created", "updated"} -> 0..MaxChanges] /\ NewsFit'

LEMMA ListKept == ASSUME PageKept, CallsKept, RestKept, WorldKept PROVE ListInv'
  BY DEF PageKept, CallsKept, RestKept, WorldKept, ListInv, List!TypeOK, ListCalls, Screens, Pullings

LEMMA CallsStay ==
    ASSUME ListInv, UNCHANGED List!listVars, owed' = owed, news' = news
    PROVE  CallsKept
  BY DEF CallsKept, List!listVars, ListInv, List!TypeOK, ListCalls, Screens, Newest, Answered, Fresh

LEMMA PageStays == ASSUME ListInv, UNCHANGED List!pageVars, last' = last PROVE PageKept
  BY DEF PageKept, List!pageVars, ListInv, List!TypeOK, Remembered

LEMMA RestStays == ASSUME ListInv, pull' = pull, optimist' = optimist PROVE RestKept
  BY DEF RestKept, ListInv, List!TypeOK, Pullings

LEMMA ServerStays ==
    ASSUME ListInv, UNCHANGED List!serverVars
    PROVE  WorldKept /\ world' = world /\ item' = item /\ news' = news /\ owed' = owed
  BY DEF WorldKept, List!serverVars, ListInv, List!TypeOK, NewsFit

(* A change is counted, and so is its event.                               *)
LEMMA NewsCounted ==
    ASSUME List!ListAssumption, ListInv, NEW kind \in {"created", "updated"}, List!Changed(kind)
    PROVE  /\ world' = world + 1 /\ world' \in 0..MaxChanges
           /\ news' \in [{"created", "updated"} -> 0..MaxChanges] /\ NewsFit'
           /\ kind = "created" => news'["created"] > 0
           /\ kind = "updated" => news'["created"] = news["created"]
  <1>1. /\ news \in [{"created", "updated"} -> 0..MaxChanges] /\ NewsFit
        /\ world \in 0..MaxChanges /\ world < MaxChanges /\ MaxChanges \in Nat
    BY DEF List!Changed, ListInv, List!TypeOK, List!ListAssumption
  <1>2. /\ news["created"] \in 0..MaxChanges /\ news["updated"] \in 0..MaxChanges
        /\ news["created"] + news["updated"] <= world
    BY <1>1 DEF NewsFit
  <1>3. news[kind] + 1 \in 0..MaxChanges
    BY <1>1, <1>2
  <1>4. news' = [news EXCEPT ![kind] = news[kind] + 1] /\ world' = world + 1
    BY DEF List!Changed
  <1>5. news' \in [{"created", "updated"} -> 0..MaxChanges]
    BY <1>1, <1>3, <1>4
  <1>6. CASE kind = "created"
    <2>1. news'["created"] = news["created"] + 1 /\ news'["updated"] = news["updated"]
      BY <1>1, <1>4, <1>6
    <2> QED BY <1>1, <1>2, <1>4, <1>5, <1>6, <2>1 DEF NewsFit
  <1>7. CASE kind = "updated"
    <2>1. news'["updated"] = news["updated"] + 1 /\ news'["created"] = news["created"]
      BY <1>1, <1>4, <1>7
    <2> QED BY <1>1, <1>2, <1>4, <1>5, <1>7, <2>1 DEF NewsFit
  <1> QED BY <1>6, <1>7

LEMMA Sends ==
    ASSUME List!ListAssumption, ListInv, NEW s \in Fetches, NEW q \in List!Lists, List!Dispatch(s, q),
           shown' \in Screens, failed' = failed
    PROVE  CallsKept
  BY Dispatching DEF CallsKept, ListInv, List!TypeOK

LEMMA Replays ==
    ASSUME List!ListAssumption, ListInv, NEW s \in Fetches, NEW q \in List!Lists, List!Fetch(s, q)
    PROVE  /\ List!Replayed(q) \in List!Lists /\ List!Dispatch(s, List!Replayed(q))
           /\ shown' = shown /\ failed' = failed
           /\ CallsKept
  <1>1. List!Replayed(q) \in List!Lists /\ shown \in Screens
    BY DEF ListInv, List!TypeOK, List!Replayed, Screens
  <1>2. List!Dispatch(s, List!Replayed(q)) /\ shown' = shown /\ failed' = failed
    BY DEF List!Fetch
  <1> QED BY <1>1, <1>2, Sends

(* fetchPage: whether or not it asks, the page's filter is the list that   *)
(* is remembered.                                                          *)
LEMMA PageFetches ==
    ASSUME List!ListAssumption, ListInv, NEW s \in Fetches, NEW q \in Queries, List!FetchPage(s, q),
           owed' = owed, news' = news
    PROVE  CallsKept /\ asked' = q /\ last' = q
  <1>1. q # Bare /\ q \in List!Lists
    BY DEF List!ListAssumption, List!Lists
  <1>2. CASE asked = q
    BY <1>1, <1>2, CallsStay DEF List!FetchPage, List!listVars, ListInv, Remembered
  <1>3. CASE asked # q
    <2>1. List!Fetch(s, q) /\ asked' = q
      BY <1>3 DEF List!FetchPage
    <2>2. List!Dispatch(s, q) /\ CallsKept
      BY <1>1, <2>1, Replays DEF List!Replayed
    <2> QED BY <2>1, <2>2 DEF List!Dispatch
  <1> QED BY <1>2, <1>3

LEMMA ReadKept == ASSUME ListInv, NEW s \in Fetches, List!Read(s) PROVE ListInv'
  <1>1. /\ fetch[s] \in ListCalls /\ fetch \in [Fetches -> ListCalls]
        /\ world \in 0..MaxChanges /\ owed \in 0..MaxChanges /\ owed <= world
    BY DEF ListInv, List!TypeOK, ListCalls
  <1>2. PICK c : c = [fetch[s] EXCEPT !.step = "read", !.version = world,
                                      !.rows = List!Listed(fetch[s].query)]
    OBVIOUS
  <1>3. fetch' = [fetch EXCEPT ![s] = c]
    BY <1>1, <1>2 DEF List!Read, ListCalls
  <1>4. List!Listed(fetch[s].query) \subseteq 0..MaxChanges
    BY DEF List!Listed, ListInv, List!TypeOK
  <1>5. c \in ListCalls /\ c.step = "read" /\ c.version = world /\ c.query = fetch[s].query
        /\ c.newest = fetch[s].newest
    BY <1>1, <1>2, <1>4 DEF ListCalls
  <1>6. fetch' \in [Fetches -> ListCalls]
    BY <1>1, <1>3, <1>5
  <1>7. /\ UNCHANGED List!pageVars /\ UNCHANGED List!serverVars
        /\ last' = last /\ shown' = shown /\ failed' = failed /\ pull' = pull /\ optimist' = optimist
    BY DEF List!Read
  <1>8. WorldKept /\ world' = world /\ news' = news /\ owed' = owed
    BY <1>7, ServerStays
  <1>9. Newest'
    BY <1>1, <1>3, <1>5, <1>7, <1>8 DEF ListInv, Newest, Fresh
  <1>10. Answered'
    BY <1>1, <1>3, <1>5, <1>7, <1>8 DEF ListInv, Answered, Fresh
  <1> QED BY <1>6, <1>7, <1>8, <1>9, <1>10, PageStays, RestStays, ListKept
          DEF CallsKept, ListInv, List!TypeOK, Screens

LEMMA AnswerKept ==
    ASSUME ListInv, NEW s \in Fetches, List!Answer(s) \/ List!Lose(s), List!ListAssumption
    PROVE  ListInv'
  <1>1. fetch[s] \in ListCalls /\ fetch \in [Fetches -> ListCalls] /\ world \in 0..MaxChanges
    BY DEF ListInv, List!TypeOK, ListCalls
  <1>2. /\ UNCHANGED List!pageVars /\ UNCHANGED List!serverVars /\ last' = last /\ pull' = pull
        /\ fetch' = [fetch EXCEPT ![s] = List!Idle]
    BY DEF List!Answer, List!Lose
  <1>3. WorldKept /\ news' = news /\ owed' = owed
    BY <1>2, ServerStays
  <1>4. List!Idle \in ListCalls /\ ~List!Idle.newest
    BY DEF List!Idle, ListCalls, List!Lists, List!ListAssumption
  <1>5. fetch' \in [Fetches -> ListCalls]
    BY <1>1, <1>2, <1>4
  <1>6. Newest'
    BY <1>1, <1>2, <1>3, <1>4 DEF ListInv, Newest, Fresh
  <1>7. /\ shown' \in Screens
        /\ failed' \in BOOLEAN /\ optimist' \in {"none", "here", "elsewhere"}
    <2>1. CASE List!Answer(s) /\ List!Current(s)
      <3>1. shown' = [query |-> fetch[s].query, version |-> fetch[s].version,
                      rows |-> fetch[s].rows, whole |-> TRUE]
        BY <2>1 DEF List!Answer
      <3> QED BY <1>1, <2>1, <3>1 DEF List!Answer, ListInv, List!TypeOK, ListCalls, Screens
    <2>2. CASE List!Answer(s) /\ ~List!Current(s)
      BY <2>2 DEF List!Answer, ListInv, List!TypeOK, Screens
    <2>3. CASE List!Lose(s)
      BY <1>1, <2>3 DEF List!Lose, List!Current, ListInv, List!TypeOK, ListCalls, Screens
    <2> QED BY <2>1, <2>2, <2>3
  <1>8. Answered'
    <2>1. CASE fetch[s].newest /\ List!Answer(s)
      <3>1. shown'.query = fetch[s].query /\ shown'.version = fetch[s].version /\ fetch[s].step = "read"
        BY <2>1 DEF List!Answer, List!Current
      <3>2. fetch[s].query = last /\ Fresh(fetch[s].version)
        BY <2>1, <3>1 DEF ListInv, Newest
      <3> QED BY <1>2, <1>3, <3>1, <3>2 DEF Answered, Fresh
    <2>2. CASE fetch[s].newest /\ List!Lose(s)
      BY <2>2 DEF List!Lose, List!Current, Answered
    <2>3. CASE ~fetch[s].newest
      <3>1. shown' = shown /\ failed' = failed
        <4>1. CASE List!Answer(s)
          BY <2>3, <4>1 DEF List!Answer, List!Current
        <4>2. CASE List!Lose(s)
          BY <2>3, <4>2 DEF List!Lose, List!Current, ListInv, List!TypeOK
        <4> QED BY <4>1, <4>2
      <3>2. \A t \in Fetches : fetch[t].newest => fetch'[t].newest
        BY <1>1, <1>2, <2>3
      <3> QED BY <1>2, <1>3, <3>1, <3>2 DEF ListInv, Answered, Fresh
    <2> QED BY <2>1, <2>2, <2>3
  <1>9. RestKept
    BY <1>2, <1>7 DEF RestKept, ListInv, List!TypeOK, Pullings
  <1> QED BY <1>2, <1>3, <1>5, <1>6, <1>7, <1>8, <1>9, PageStays, ListKept DEF CallsKept, ListInv, List!TypeOK

(* An event is delivered.                                                  *)
LEMMA NewsTaken ==
    ASSUME List!ListAssumption, ListInv, NEW kind \in {"created", "updated"}, news[kind] > 0,
           news' = [news EXCEPT ![kind] = @ - 1], world' = world
    PROVE  /\ news' \in [{"created", "updated"} -> 0..MaxChanges] /\ NewsFit'
           /\ kind = "updated" => news'["created"] = news["created"]
  <1>1. /\ news \in [{"created", "updated"} -> 0..MaxChanges] /\ NewsFit
        /\ world \in 0..MaxChanges /\ MaxChanges \in Nat
    BY DEF ListInv, List!TypeOK, List!ListAssumption
  <1>2. /\ news["created"] \in 0..MaxChanges /\ news["updated"] \in 0..MaxChanges
        /\ news["created"] + news["updated"] <= world
    BY <1>1 DEF NewsFit
  <1>3. news[kind] - 1 \in 0..MaxChanges
    BY <1>1, <1>2
  <1>4. news' \in [{"created", "updated"} -> 0..MaxChanges]
    <2>1. PICK n \in 0..MaxChanges : n = news[kind] - 1
      BY <1>3
    <2>2. news' = [news EXCEPT ![kind] = n]
      BY <2>1
    <2> QED BY <1>1, <2>2
  <1>5. CASE kind = "created"
    <2>1. news'["created"] = news["created"] - 1 /\ news'["updated"] = news["updated"]
      BY <1>1, <1>5
    <2> QED BY <1>1, <1>2, <1>4, <1>5, <2>1 DEF NewsFit
  <1>6. CASE kind = "updated"
    <2>1. news'["updated"] = news["updated"] - 1 /\ news'["created"] = news["created"]
      BY <1>1, <1>6
    <2> QED BY <1>1, <1>2, <1>4, <1>6, <2>1 DEF NewsFit
  <1> QED BY <1>5, <1>6

(* A row replaced in place leaves the list's query and version.            *)
LEMMA RowReplaced ==
    ASSUME ListInv, NEW v \in 0..MaxChanges
    PROVE  /\ List!Upserted(v) \in Screens
           /\ List!Upserted(v).query = shown.query /\ List!Upserted(v).version = shown.version
  <1>1. shown \in Screens
    BY DEF ListInv, List!TypeOK, Screens
  <1>2. (IF shown.rows = {} THEN {} ELSE {v}) \in SUBSET (0..MaxChanges)
    OBVIOUS
  <1>3. List!Upserted(v) = [shown EXCEPT !.rows = IF shown.rows = {} THEN {} ELSE {v}]
    BY <1>1 DEF List!Upserted, Screens
  <1> QED BY <1>1, <1>2, <1>3 DEF Screens

LEMMA RowActsKept ==
    ASSUME List!ListAssumption, ListInv, NEW r \in Pulls,
           List!Notice(r) \/ List!ReadRow(r) \/ List!AnswerRow(r) \/ List!LoseRow(r)
    PROVE  ListInv'
  <1>1. /\ pull \in [Pulls -> Pullings] /\ item.version \in 0..MaxChanges /\ 0 \in 0..MaxChanges
        /\ news \in [{"created", "updated"} -> 0..MaxChanges]
    BY DEF ListInv, List!TypeOK, Pullings, List!ListAssumption
  <1>2. PageKept
    BY PageStays DEF List!Notice, List!ReadRow, List!AnswerRow, List!LoseRow, List!listVars
  <1>3. RestKept
    <2>1. PICK p \in Pullings : pull' = [pull EXCEPT ![r] = p]
      <3>1. pull[r] \in Pullings
        BY <1>1
      <3>2. CASE List!Notice(r)
        BY <3>1, <3>2, [pull[r] EXCEPT !.step = "sent"] \in Pullings DEF List!Notice, Pullings
      <3>3. CASE List!ReadRow(r)
        <4>1. [pull[r] EXCEPT !.step = "read", !.version = item.version] \in Pullings
          BY <1>1, <3>1 DEF Pullings
        <4> QED BY <1>1, <3>3, <4>1 DEF List!ReadRow
      <3>4. CASE List!AnswerRow(r) \/ List!LoseRow(r)
        BY <1>1, <3>4 DEF List!AnswerRow, List!LoseRow, List!NoPull, Pullings
      <3> QED BY <3>2, <3>3, <3>4
    <2>2. optimist' = optimist
      BY DEF List!Notice, List!ReadRow, List!AnswerRow, List!LoseRow
    <2> QED BY <1>1, <2>1, <2>2 DEF RestKept, ListInv, List!TypeOK
  <1>4. CASE List!Notice(r)
    <2>1. WorldKept /\ news'["created"] = news["created"] /\ owed' = owed
      <3>1. UNCHANGED <<world, item, owed>> /\ news["updated"] > 0
            /\ news' = [news EXCEPT !["updated"] = @ - 1]
        BY <1>4 DEF List!Notice
      <3> QED BY <3>1, NewsTaken DEF WorldKept, ListInv, List!TypeOK
    <2>2. UNCHANGED List!listVars
      BY <1>4 DEF List!Notice
    <2>3. CallsKept
      BY <2>1, <2>2 DEF CallsKept, List!listVars, ListInv, List!TypeOK, ListCalls, Screens, Newest, Answered,
                        Fresh
    <2> QED BY <1>2, <1>3, <2>1, <2>3, ListKept
  <1>5. CASE List!ReadRow(r) \/ List!LoseRow(r)
    BY <1>2, <1>3, <1>5, CallsStay, ServerStays, ListKept DEF List!ReadRow, List!LoseRow
  <1>6. CASE List!AnswerRow(r)
    <2>1. WorldKept /\ news' = news /\ owed' = owed
      BY <1>6, ServerStays DEF List!AnswerRow
    <2>2. shown' = List!Upserted(pull[r].version) /\ pull[r].version \in 0..MaxChanges
      BY <1>1, <1>6 DEF List!AnswerRow, Pullings
    <2>3. shown' \in Screens /\ shown'.query = shown.query /\ shown'.version = shown.version
      BY <2>2, RowReplaced
    <2>4. last' = last /\ fetch' = fetch /\ failed' = failed
      BY <1>6 DEF List!AnswerRow
    <2>5. CallsKept
      BY <2>1, <2>3, <2>4 DEF CallsKept, ListInv, List!TypeOK, ListCalls, Newest, Answered, Fresh
    <2> QED BY <1>2, <1>3, <2>1, <2>5, ListKept
  <1> QED BY <1>4, <1>5, <1>6

LEMMA PageActsKept ==
    ASSUME List!ListAssumption, "stray" \notin PageOps, ListInv, NEW s \in Fetches,
           List!Opened(s) \/ List!Search(s) \/ \E q \in Queries : List!Filter(s, q)
    PROVE  ListInv'
  <1>1. /\ UNCHANGED <<stray, view, pull, optimist>> /\ UNCHANGED List!serverVars
    BY DEF List!Opened, List!Search, List!Filter
  <1>2. RestKept /\ WorldKept /\ owed' = owed /\ news' = news
    BY <1>1, RestStays, ServerStays
  <1>3. view = "projects" => query \in Queries
    BY DEF ListInv, List!TypeOK, List!Lists, Remembered
  <1>4. CASE List!Opened(s)
    <2>1. query \in Queries
      BY <1>3, <1>4 DEF List!Opened, ListInv, List!TypeOK, Remembered
    <2>2. CallsKept /\ asked' = query /\ last' = query
      BY <1>2, <1>4, <2>1, PageFetches DEF List!Opened
    <2>3. PageKept
      BY <1>1, <1>4, <2>2 DEF List!Opened, PageKept, ListInv, List!TypeOK, Remembered
    <2> QED BY <1>2, <2>2, <2>3, ListKept
  <1>5. CASE List!Search(s)
    <2>1. query \in Queries
      BY <1>3, <1>5 DEF List!Search, ListInv, List!TypeOK, Remembered
    <2>2. CallsKept /\ asked' = query /\ last' = query
      BY <1>2, <1>5, <2>1, PageFetches DEF List!Search
    <2>3. PageKept
      BY <1>1, <1>5, <2>2 DEF List!Search, PageKept, ListInv, List!TypeOK, List!Lists, Remembered
    <2> QED BY <1>2, <2>2, <2>3, ListKept
  <1>6. ASSUME NEW q \in Queries, List!Filter(s, q) PROVE ListInv'
    <2>1. CallsKept /\ asked' = q /\ last' = q
      BY <1>2, <1>6, PageFetches DEF List!Filter
    <2>2. PageKept
      BY <1>1, <1>6, <2>1 DEF List!Filter, PageKept, ListInv, List!TypeOK, List!Lists, Remembered,
                              List!ListAssumption
    <2> QED BY <1>2, <2>1, <2>2, ListKept
  <1> QED BY <1>4, <1>5, <1>6

(* Leaving the page, with nothing pending, fetches the default list.       *)
LEMMA LeaveKept ==
    ASSUME List!ListAssumption, "stray" \notin PageOps, ListInv, NEW s \in Fetches, List!Leave(s)
    PROVE  ListInv'
  <1>1. /\ List!Dispatch(s, Bare) /\ shown' = shown /\ failed' = failed
        /\ pull' = pull /\ optimist' = optimist /\ UNCHANGED List!serverVars
    BY DEF List!Leave
  <1>2. Bare \in List!Lists /\ shown' \in Screens
    BY <1>1 DEF List!Lists, ListInv, List!TypeOK, Screens
  <1>3. CallsKept
    BY <1>1, <1>2, Sends
  <1>4. PageKept
    BY <1>2 DEF List!Leave, PageKept, ListInv, List!TypeOK, Remembered
  <1> QED BY <1>1, <1>3, <1>4, RestStays, ServerStays, ListKept

(* The fetches of the remembered list: a refresh, a reconnect, the end of   *)
(* an activation.                                                          *)
LEMMA RefetchKept ==
    ASSUME List!ListAssumption, ListInv, NEW s \in Fetches,
           List!Refresh(s) \/ List!Reconnect(s) \/ List!Reconcile(s)
    PROVE  ListInv'
  <1>1. last \in List!Lists /\ List!Fetch(s, last) /\ UNCHANGED List!pageVars
    BY DEF List!Refresh, List!Reconnect, List!Reconcile, ListInv, List!TypeOK
  <1>2. List!Dispatch(s, last) /\ CallsKept
    BY <1>1, Replays DEF List!Replayed
  <1>3. PageKept
    BY <1>1, <1>2, PageStays DEF List!Dispatch
  <1>4. RestKept
    BY DEF List!Refresh, List!Reconnect, List!Reconcile, RestKept, ListInv, List!TypeOK, Pullings
  <1>5. WorldKept
    <2>1. CASE List!Refresh(s)
      <3>1. UNCHANGED <<world, item, owed>> /\ news["created"] > 0
            /\ news' = [news EXCEPT !["created"] = @ - 1]
        BY <2>1 DEF List!Refresh
      <3> QED BY <3>1, NewsTaken DEF WorldKept, ListInv, List!TypeOK
    <2>2. CASE List!Reconnect(s)
      BY <2>2 DEF List!Reconnect, WorldKept, ListInv, List!TypeOK, List!ListAssumption, NewsFit
    <2>3. CASE List!Reconcile(s)
      BY <2>3 DEF List!Reconcile, WorldKept, ListInv, List!TypeOK, List!ListAssumption, NewsFit
    <2> QED BY <2>1, <2>2, <2>3
  <1> QED BY <1>2, <1>3, <1>4, <1>5, ListKept

(* Those of the page's filter: a reload, alone or after a change of the     *)
(* user's own.                                                             *)
LEMMA ReloadKept ==
    ASSUME List!ListAssumption, ListInv, NEW s \in Fetches,
           List!Reload(s) \/ \E state \in Standings : List!Mutate(s, state)
    PROVE  ListInv'
  <1>1. /\ view = "projects" /\ ~opening /\ asked' = query /\ List!Dispatch(s, List!Replayed(query))
        /\ UNCHANGED <<view, opening, query, typed, stray, failed, pull, optimist>>
    BY DEF List!Reload, List!Mutate, List!Fetch
  <1>2. query # Bare /\ query \in List!Lists
    BY <1>1 DEF ListInv, List!TypeOK, Remembered
  <1>3. List!Replayed(query) = query
    BY <1>2 DEF List!Replayed
  <1>4. PageKept
    BY <1>1, <1>2, <1>3 DEF List!Dispatch, PageKept, ListInv, List!TypeOK, Remembered
  <1>5. shown' \in Screens /\ WorldKept
    <2>1. CASE List!Reload(s)
      BY <2>1, ServerStays DEF List!Reload, List!Fetch, ListInv, List!TypeOK, Screens
    <2>2. ASSUME NEW state \in Standings, List!Mutate(s, state) PROVE shown' \in Screens /\ WorldKept
      <3>1. world' \in 0..MaxChanges /\ owed' = world' /\ shown' = List!Upserted(world')
        BY <2>2, NewsCounted DEF List!Mutate
      <3>2. item' \in [version : 0..MaxChanges, status : Standings]
        BY <2>2, <3>1 DEF List!Mutate
      <3>3. news' \in [{"created", "updated"} -> 0..MaxChanges] /\ NewsFit'
        BY <2>2, NewsCounted DEF List!Mutate
      <3> QED BY <3>1, <3>2, <3>3, RowReplaced DEF WorldKept
    <2> QED BY <2>1, <2>2
  <1>6. CallsKept
    BY <1>1, <1>2, <1>3, <1>5, Sends
  <1> QED BY <1>1, <1>4, <1>5, <1>6, RestStays, ListKept

LEMMA QuietActsKept ==
    ASSUME List!ListAssumption, ListInv,
           \/ List!Open \/ List!Optimistic \/ List!RollBack
           \/ \E q \in Queries : List!Type(q)
    PROVE  ListInv'
  <1>1. WorldKept /\ owed' = owed /\ news' = news
    BY ServerStays DEF List!Open, List!Optimistic, List!RollBack, List!Type
  <1>2. RestKept
    BY DEF List!Open, List!Optimistic, List!RollBack, List!Type, RestKept, ListInv, List!TypeOK, Pullings
  <1>3. CASE List!Open
    <2>1. CallsKept
      BY <1>1, <1>3, CallsStay DEF List!Open
    <2>2. PageKept
      BY <1>3 DEF List!Open, List!listVars, PageKept, ListInv, List!TypeOK, List!Lists, Remembered,
                  List!ListAssumption
    <2> QED BY <1>1, <1>2, <2>1, <2>2, ListKept
  <1>4. ASSUME NEW q \in Queries, List!Type(q) PROVE ListInv'
    <2>1. CallsKept
      BY <1>1, <1>4, CallsStay DEF List!Type
    <2>2. PageKept
      BY <1>4 DEF List!Type, List!listVars, PageKept, ListInv, List!TypeOK, List!Lists, Remembered,
                  List!ListAssumption
    <2> QED BY <1>1, <1>2, <2>1, <2>2, ListKept
  <1>5. CASE List!Optimistic
    BY <1>1, <1>2, <1>5, CallsStay, PageStays, ListKept DEF List!Optimistic, List!listVars
  <1>6. CASE List!RollBack
    <2>1. PageKept
      BY <1>6, PageStays DEF List!RollBack
    <2>2. shown \in Screens
      BY DEF ListInv, List!TypeOK, Screens
    <2>3. PICK l : l = [shown EXCEPT !.whole = shown.whole /\ optimist = "here"]
      OBVIOUS
    <2>4. shown' = l
      BY <1>6, <2>3 DEF List!RollBack
    <2>5. l \in Screens /\ l.query = shown.query /\ l.version = shown.version
      BY <2>2, <2>3 DEF Screens
    <2>6. CallsKept
      BY <1>1, <1>6, <2>4, <2>5 DEF List!RollBack, CallsKept, ListInv, List!TypeOK, ListCalls, Newest,
                              Answered, Fresh
    <2> QED BY <1>1, <1>2, <2>1, <2>6, ListKept
  <1> QED BY <1>3, <1>4, <1>5, <1>6

(* A creation is owed, and its event is on its way; a change made by        *)
(* others is owed to nobody.                                               *)
LEMMA ChangesKept ==
    ASSUME List!ListAssumption, ListInv, List!Create \/ \E state \in Standings : List!Update(state)
    PROVE  ListInv'
  <1>1. /\ UNCHANGED List!pageVars /\ UNCHANGED List!listVars /\ pull' = pull /\ optimist' = optimist
    BY DEF List!Create, List!Update
  <1>2. PageKept /\ RestKept
    BY <1>1, PageStays, RestStays DEF List!listVars
  <1>3. CASE List!Create
    <2>1. WorldKept /\ news'["created"] > 0
      BY <1>3, NewsCounted DEF List!Create, WorldKept, ListInv, List!TypeOK
    <2> QED
      BY <1>1, <1>2, <2>1, ListKept DEF List!listVars, CallsKept, ListInv, List!TypeOK, ListCalls, Screens,
                                        Newest, Answered, Fresh
  <1>4. ASSUME NEW state \in Standings, List!Update(state) PROVE ListInv'
    <2>1. /\ world' \in 0..MaxChanges /\ world' = world + 1 /\ NewsFit'
          /\ news' \in [{"created", "updated"} -> 0..MaxChanges]
          /\ news'["created"] = news["created"] /\ owed' = owed
      BY <1>4, NewsCounted DEF List!Update
    <2>2. WorldKept
      BY <1>4, <2>1 DEF List!Update, WorldKept, ListInv, List!TypeOK
    <2>3. CallsKept
      BY <1>1, <2>1 DEF List!listVars, CallsKept, ListInv, List!TypeOK, ListCalls, Screens, Newest,
                        Answered, Fresh
    <2> QED BY <1>2, <2>2, <2>3, ListKept
  <1> QED BY <1>3, <1>4

LEMMA ListSteps ==
    ASSUME List!ListAssumption, "stray" \notin PageOps, ListInv, [List!Next]_(List!vars)
    PROVE  ListInv'
  <1>1. CASE UNCHANGED List!vars
    <2>1. /\ UNCHANGED List!pageVars /\ UNCHANGED List!listVars /\ UNCHANGED List!serverVars
          /\ pull' = pull /\ optimist' = optimist
      BY <1>1 DEF List!vars
    <2> QED BY <2>1, CallsStay, PageStays, RestStays, ServerStays, ListKept DEF List!listVars
  <1>2. ASSUME NEW s \in Fetches, List!Stray(s) PROVE FALSE
    BY <1>2 DEF List!Stray, ListInv, Remembered
  <1> QED
    BY <1>1, <1>2, ReadKept, AnswerKept, PageActsKept, LeaveKept, RefetchKept, ReloadKept, QuietActsKept,
       RowActsKept, ChangesKept DEF List!Next

LEMMA ListSettles == ASSUME List!ListAssumption, ListInv PROVE List!ListSettled
  <1> SUFFICES ASSUME view = "projects", List!Quiet, ~failed
               PROVE  shown.query = query /\ shown.version >= owed
    BY DEF List!ListSettled
  <1>1. \A s \in Fetches : ~fetch[s].newest
    BY DEF ListInv, Newest, List!Quiet, List!TypeOK
  <1>2. shown.query = last /\ shown.version >= owed
    BY <1>1 DEF ListInv, Answered, Fresh, List!Quiet
  <1>3. last = query
    BY DEF ListInv, Remembered, List!Quiet
  <1> QED BY <1>2, <1>3

(* Whatever overlapped, a page at rest lists what its user's filter selects *)
(* at a moment no older than the newest creation, the user's own last      *)
(* change and the last reconnect, as long as nothing fetches for a page    *)
(* that is gone (fetchSeq, _lastListOpts, the anti-clobber guard).         *)
THEOREM ListSettledHolds ==
    ASSUME List!ListAssumption, "stray" \notin PageOps
    PROVE  List!Spec => []List!ListSettled
  <1>1. List!Init => ListInv
    BY ListStarts
  <1>2. ListInv /\ [List!Next]_(List!vars) => ListInv'
    BY ListSteps
  <1>3. ListInv => List!ListSettled
    BY ListSettles
  <1> QED BY <1>1, <1>2, <1>3, PTL DEF List!Spec

-----------------------------------------------------------------------------
(* The staging flags.  A flag that must come on is on, or its event is on  *)
(* its way, or a fetch is that will read it or has.                        *)
OnTheWay(event) == \E i \in 1..Len(wire) : wire[i] = event
Complete(r) == r.staging = "complete"
Launched(r) == r.launched
CompleteKnown ==
    /\ ending => flags.complete \/ OnTheWay("complete")
    /\ Complete(project) =>
         \/ flags.complete \/ OnTheWay("complete")
         \/ \E g \in Gets : get[g].step = "sent" \/ (get[g].step = "read" /\ Complete(get[g].row))
LaunchKnown ==
    Launched(project) =>
        \/ flags.launched \/ OnTheWay("launched")
        \/ \E g \in Gets : get[g].step = "sent" \/ (get[g].step = "read" /\ Launched(get[g].row))
(* The answer that takes the flags back is one to a row that was reset.    *)
ResetAlone == own = "restage" => project = Flags!Fresh /\ ~ending
FlagTypes ==
    /\ project \in Flags!Rows /\ ending \in BOOLEAN
    /\ wire \in Seq({"mission", "complete", "launched", "touch"})
    /\ get \in [Gets -> [step : {"idle", "sent", "read"}, row : Flags!Rows]]
    /\ own \in {"none", "generating", "stage", "restage", "unstage"}
    /\ flags \in [staged : BOOLEAN, staging : BOOLEAN, complete : BOOLEAN, launched : BOOLEAN]
FlagInv == FlagTypes /\ CompleteKnown /\ LaunchKnown /\ ResetAlone

PlainOps == FlagOps \intersect {"blind", "late"} = {}

LEMMA FlagsStart == ASSUME Flags!Init PROVE FlagInv
  <1>1. FlagTypes
    <2>1. project \in Flags!Rows /\ flags \in [staged : BOOLEAN, staging : BOOLEAN, complete : BOOLEAN, launched : BOOLEAN]
      BY DEF Flags!Init, Flags!Rows, Flags!Fresh, Flags!NoFlags
    <2>2. get \in [Gets -> [step : {"idle", "sent", "read"}, row : Flags!Rows]]
      BY DEF Flags!Init, Flags!Rows, Flags!Fresh, Flags!NoGet
    <2>3. wire \in Seq({"mission", "complete", "launched", "touch"})
      BY DEF Flags!Init
    <2> QED BY <2>1, <2>2, <2>3 DEF Flags!Init, FlagTypes
  <1>2. CompleteKnown /\ LaunchKnown /\ ResetAlone
    BY DEF Flags!Init, CompleteKnown, LaunchKnown, ResetAlone, Complete, Launched, Flags!Fresh
  <1> QED BY <1>1, <1>2 DEF FlagInv

LEMMA FlagsCaughtUp == ASSUME FlagInv PROVE Flags!FlagsCatchUp
  <1> SUFFICES ASSUME Flags!Quiet
               PROVE  /\ project.staging = "complete" => flags.complete
                      /\ project.launched => flags.launched
    BY DEF Flags!FlagsCatchUp
  <1>1. \A event : ~OnTheWay(event)
    BY DEF Flags!Quiet, OnTheWay
  <1>2. \A g \in Gets : get[g].step # "sent" /\ get[g].step # "read"
    BY DEF Flags!Quiet
  <1> QED BY <1>1, <1>2 DEF FlagInv, CompleteKnown, LaunchKnown, Complete, Launched

(* An event announced is on its way, and what was on its way still is.     *)
LEMMA Announced ==
    ASSUME FlagTypes, NEW event \in {"mission", "complete", "launched", "touch"}, Flags!Announce(event)
    PROVE  /\ wire' \in Seq({"mission", "complete", "launched", "touch"})
           /\ OnTheWay(event)'
           /\ \A e : OnTheWay(e) => OnTheWay(e)'
  <1>1. wire' = Append(wire, event)
    BY DEF Flags!Announce
  <1>2. /\ Len(wire') = Len(wire) + 1 /\ wire'[Len(wire) + 1] = event
        /\ \A i \in 1..Len(wire) : wire'[i] = wire[i]
        /\ Len(wire) \in Nat
    BY <1>1 DEF FlagTypes
  <1>3. wire' \in Seq({"mission", "complete", "launched", "touch"})
    BY <1>1 DEF FlagTypes
  <1> QED BY <1>2, <1>3 DEF OnTheWay

(* The event delivered is the only one that leaves the wire.               *)
LEMMA Delivered ==
    ASSUME FlagTypes, wire # <<>>, wire' = Tail(wire)
    PROVE  /\ wire' \in Seq({"mission", "complete", "launched", "touch"})
           /\ \A e : OnTheWay(e) => e = Head(wire) \/ OnTheWay(e)'
  <1>1. /\ Len(wire) \in Nat /\ Len(wire') = Len(wire) - 1 /\ Head(wire) = wire[1]
        /\ \A i \in 1..Len(wire') : wire'[i] = wire[i + 1]
    BY DEF FlagTypes
  <1>2. wire' \in Seq({"mission", "complete", "launched", "touch"})
    BY DEF FlagTypes
  <1>3. ASSUME NEW e, NEW i \in 1..Len(wire), wire[i] = e PROVE e = Head(wire) \/ OnTheWay(e)'
    <2>1. CASE i = 1
      BY <1>1, <1>3, <2>1
    <2>2. CASE i # 1
      <3>1. i - 1 \in 1..Len(wire') /\ wire'[i - 1] = e
        BY <1>1, <1>3, <2>2
      <3> QED BY <3>1 DEF OnTheWay
    <2> QED BY <2>1, <2>2
  <1> QED BY <1>2, <1>3 DEF OnTheWay

(* The server's steps. *)
LEMMA ServerKept ==
    ASSUME FlagInv, PlainOps,
           \/ Flags!WriteMission \/ Flags!EndStaging \/ Flags!CommitEnd \/ Flags!AbortEnd
           \/ Flags!LaunchImplementation \/ Flags!Touch \/ Flags!Elsewhere
    PROVE  FlagInv'
  <1>0. UNCHANGED <<get, own, flags>> /\ project \in Flags!Rows
    BY DEF Flags!WriteMission, Flags!EndStaging, Flags!CommitEnd, Flags!AbortEnd,
           Flags!LaunchImplementation, Flags!Touch, Flags!Elsewhere, FlagInv, FlagTypes
  <1>1. CASE Flags!WriteMission
    <2>1. PICK r : r = [project EXCEPT !.staging = IF project.staging = "complete" THEN "complete" ELSE "staging"]
      OBVIOUS
    <2>2. project' = r /\ UNCHANGED ending /\ Flags!Announce("mission") /\ project.staging # "none"
      BY <1>1, <2>1 DEF Flags!WriteMission, Flags!Prompted, PlainOps
    <2>3. r \in Flags!Rows /\ r.launched = project.launched /\ (r.staging = "complete" <=> project.staging = "complete")
      BY <1>0, <2>1 DEF Flags!Rows
    <2>4. own # "restage"
      BY <2>2 DEF FlagInv, ResetAlone, Flags!Fresh
    <2> QED BY <1>0, <2>2, <2>3, <2>4, Announced DEF FlagInv, FlagTypes, CompleteKnown, LaunchKnown, ResetAlone, Complete, Launched
  <1>2. CASE Flags!EndStaging
    <2>1. own # "restage" /\ UNCHANGED project /\ ending' /\ Flags!Announce("complete")
      BY <1>2 DEF Flags!EndStaging, FlagInv, ResetAlone, Flags!Fresh
    <2> QED BY <1>0, <2>1, Announced DEF FlagInv, FlagTypes, CompleteKnown, LaunchKnown, ResetAlone, Complete, Launched
  <1>3. CASE Flags!CommitEnd
    <2>1. PICK r : r = [project EXCEPT !.staging = "complete"]
      OBVIOUS
    <2>2. project' = r /\ ending /\ ending' = FALSE /\ wire' = wire
      BY <1>3, <2>1 DEF Flags!CommitEnd
    <2>3. r \in Flags!Rows /\ r.launched = project.launched
      BY <1>0, <2>1 DEF Flags!Rows
    <2>4. own # "restage" /\ (flags.complete \/ OnTheWay("complete"))
      BY <2>2 DEF FlagInv, ResetAlone, CompleteKnown
    <2>5. \A e : OnTheWay(e)' <=> OnTheWay(e)
      BY <2>2 DEF OnTheWay
    <2>6. FlagTypes' /\ ResetAlone'
      BY <1>0, <2>2, <2>3, <2>4 DEF FlagInv, FlagTypes, ResetAlone
    <2>7. CompleteKnown'
      <3>1. flags'.complete \/ OnTheWay("complete")'
        BY <1>0, <2>4, <2>5
      <3> QED BY <2>2, <3>1 DEF CompleteKnown
    <2>8. LaunchKnown'
      BY <1>0, <2>2, <2>3, <2>5 DEF FlagInv, LaunchKnown, Launched
    <2> QED BY <2>6, <2>7, <2>8 DEF FlagInv
  <1>4. CASE Flags!AbortEnd
    <2>1. \A e : OnTheWay(e)' <=> OnTheWay(e)
      BY <1>4 DEF OnTheWay, Flags!AbortEnd
    <2> QED BY <1>0, <1>4, <2>1 DEF Flags!AbortEnd, FlagInv, FlagTypes, CompleteKnown, LaunchKnown, ResetAlone, Complete, Launched
  <1>5. CASE Flags!LaunchImplementation
    <2>1. PICK r : r = [project EXCEPT !.launched = TRUE]
      OBVIOUS
    <2>2. project' = r /\ UNCHANGED ending /\ Flags!Announce("launched") /\ project.staging = "complete"
      BY <1>5, <2>1 DEF Flags!LaunchImplementation
    <2>3. r \in Flags!Rows /\ r.staging = project.staging
      BY <1>0, <2>1 DEF Flags!Rows
    <2>4. own # "restage"
      BY <2>2 DEF FlagInv, ResetAlone, Flags!Fresh
    <2> QED BY <1>0, <2>2, <2>3, <2>4, Announced DEF FlagInv, FlagTypes, CompleteKnown, LaunchKnown, ResetAlone, Complete, Launched
  <1>6. CASE Flags!Touch
    <2>1. UNCHANGED <<project, ending>> /\ Flags!Announce("touch")
      BY <1>6 DEF Flags!Touch
    <2> QED BY <1>0, <2>1, Announced DEF FlagInv, FlagTypes, CompleteKnown, LaunchKnown, ResetAlone, Complete, Launched
  <1>7. CASE Flags!Elsewhere
    BY <1>0, <1>7 DEF Flags!Elsewhere, Flags!Fresh, Flags!Rows, FlagInv, FlagTypes, CompleteKnown, LaunchKnown, ResetAlone, Complete, Launched
  <1> QED BY <1>1, <1>2, <1>3, <1>4, <1>5, <1>6, <1>7

(* The buttons of this browser and the answers of its calls. *)
LEMMA ButtonKept ==
    ASSUME FlagInv,
           Flags!Stage \/ Flags!MarkStaged \/ Flags!Unstage \/ Flags!Restage \/ Flags!Answered
    PROVE  FlagInv'
  <1>0. /\ UNCHANGED <<ending, wire, get>> /\ project \in Flags!Rows
        /\ flags \in [staged : BOOLEAN, staging : BOOLEAN, complete : BOOLEAN, launched : BOOLEAN]
    BY DEF Flags!Stage, Flags!MarkStaged, Flags!Unstage, Flags!Restage, Flags!Answered, Flags!Click,
           FlagInv, FlagTypes
  <1>w. \A e : OnTheWay(e)' <=> OnTheWay(e)
    BY <1>0 DEF OnTheWay
  <1>1. ASSUME NEW stage \in {"staging", "staged", "none"}, NEW r, r = [project EXCEPT !.staging = stage],
               project' = r, UNCHANGED flags, own' \in {"generating", "stage", "unstage"}
        PROVE  FlagInv'
    <2>1. r \in Flags!Rows /\ r.launched = project.launched /\ r.staging # "complete"
      BY <1>0, <1>1 DEF Flags!Rows
    <2> QED BY <1>0, <1>w, <1>1, <2>1 DEF FlagInv, FlagTypes, CompleteKnown, LaunchKnown, ResetAlone, Complete, Launched
  <1>2. CASE Flags!Stage \/ Flags!MarkStaged \/ Flags!Unstage
    BY <1>1, <1>2 DEF Flags!Stage, Flags!MarkStaged, Flags!Unstage, Flags!Click
  <1>3. CASE Flags!Restage
    BY <1>0, <1>w, <1>3 DEF Flags!Restage, Flags!Click, Flags!Fresh, Flags!Rows, FlagInv, FlagTypes,
         CompleteKnown, LaunchKnown, ResetAlone, Complete, Launched
  <1>4. CASE Flags!Answered
    <2>0. UNCHANGED project /\ own' = "none"
      BY <1>4 DEF Flags!Answered
    <2>1. CASE own = "restage"
      <3>1. flags' = Flags!NoFlags
        BY <1>4, <2>1 DEF Flags!Answered
      <3>2. ~Complete(project) /\ ~Launched(project) /\ ~ending
        BY <2>1 DEF FlagInv, ResetAlone, Flags!Fresh, Complete, Launched
      <3> QED BY <1>0, <2>0, <3>1, <3>2 DEF Flags!NoFlags, FlagInv, FlagTypes, CompleteKnown, LaunchKnown,
                ResetAlone, Complete, Launched
    <2>2. ASSUME NEW f, f = [flags EXCEPT !.staged = TRUE] \/ f = [flags EXCEPT !.staged = FALSE, !.staging = FALSE],
                 flags' = f
          PROVE  FlagInv'
      <3>1. /\ f.complete = flags.complete /\ f.launched = flags.launched
            /\ f \in [staged : BOOLEAN, staging : BOOLEAN, complete : BOOLEAN, launched : BOOLEAN]
        BY <1>0, <2>2
      <3> QED BY <1>0, <1>w, <2>0, <2>2, <3>1 DEF FlagInv, FlagTypes, CompleteKnown, LaunchKnown, ResetAlone, Complete, Launched
    <2> QED BY <1>4, <2>1, <2>2 DEF Flags!Answered
  <1> QED BY <1>2, <1>3, <1>4

(* The events and the fetches. *)
LEMMA DeliverFlagKept == ASSUME FlagInv, NEW g \in Gets, Flags!Deliver(g) PROVE FlagInv'
  <1>0. /\ UNCHANGED <<project, ending, own>> /\ wire # <<>> /\ wire' = Tail(wire)
        /\ flags \in [staged : BOOLEAN, staging : BOOLEAN, complete : BOOLEAN, launched : BOOLEAN]
    BY DEF Flags!Deliver, FlagInv, FlagTypes
  <1>1. /\ flags' \in [staged : BOOLEAN, staging : BOOLEAN, complete : BOOLEAN, launched : BOOLEAN]
        /\ flags.complete \/ Head(wire) = "complete" => flags'.complete
        /\ flags.launched \/ Head(wire) = "launched" => flags'.launched
    <2>1. ASSUME NEW f, flags' = f,
                 \/ f = [flags EXCEPT !.staged = FALSE, !.staging = TRUE] /\ Head(wire) = "mission"
                 \/ f = [flags EXCEPT !.complete = TRUE, !.staging = FALSE] /\ Head(wire) = "complete"
                 \/ f = [flags EXCEPT !.launched = TRUE] /\ Head(wire) = "launched"
                 \/ f = flags /\ Head(wire) \notin {"mission", "complete", "launched"}
          PROVE  <1>1!1
      BY <1>0, <2>1
    <2> QED BY <2>1 DEF Flags!Deliver
  <1>2. /\ get' \in [Gets -> [step : {"idle", "sent", "read"}, row : Flags!Rows]]
        /\ \A h \in Gets : get[h].step # "idle" => get'[h] = get[h]
    <2>1. CASE UNCHANGED get
      BY <2>1 DEF FlagInv, FlagTypes
    <2>2. CASE Flags!Fetched(g)
      <3>1. PICK r : r = [Flags!NoGet EXCEPT !.step = "sent"]
        OBVIOUS
      <3>2. get[g].step = "idle" /\ get' = [get EXCEPT ![g] = r]
        BY <2>2, <3>1 DEF Flags!Fetched
      <3>3. r \in [step : {"idle", "sent", "read"}, row : Flags!Rows]
        BY <3>1 DEF Flags!NoGet, Flags!Fresh, Flags!Rows
      <3> QED BY <3>2, <3>3 DEF FlagInv, FlagTypes
    <2> QED BY <2>1, <2>2 DEF Flags!Deliver
  <1> QED BY <1>0, <1>1, <1>2, Delivered DEF FlagInv, FlagTypes, CompleteKnown, LaunchKnown, ResetAlone, Complete, Launched

LEMMA FetchFlagKept ==
    ASSUME FlagInv, PlainOps, NEW g \in Gets, Flags!ReadProject(g) \/ Flags!SetProject(g) \/ Flags!Reconnect(g)
    PROVE  FlagInv'
  <1>0. UNCHANGED <<project, ending, own>> /\ get[g] \in [step : {"idle", "sent", "read"}, row : Flags!Rows]
    BY DEF Flags!ReadProject, Flags!SetProject, Flags!Reconnect, FlagInv, FlagTypes
  <1>1. CASE Flags!ReadProject(g)
    <2>1. /\ UNCHANGED <<wire, flags>>
          /\ get' = [get EXCEPT ![g] = [step |-> "read", row |-> project]]
      BY <1>1 DEF Flags!ReadProject
    <2>2. get' \in [Gets -> [step : {"idle", "sent", "read"}, row : Flags!Rows]]
      BY <2>1 DEF FlagInv, FlagTypes
    <2>3. get'[g].step = "read" /\ get'[g].row = project /\ \A h \in Gets \ {g} : get'[h] = get[h]
      BY <2>1 DEF FlagInv, FlagTypes
    <2>4. \A e : OnTheWay(e)' <=> OnTheWay(e)
      BY <2>1 DEF OnTheWay
    <2> QED BY <1>0, <2>1, <2>2, <2>3, <2>4 DEF FlagInv, FlagTypes, CompleteKnown, LaunchKnown, ResetAlone, Complete, Launched
  <1>2. CASE Flags!SetProject(g)
    <2>1. /\ UNCHANGED wire /\ get' = [get EXCEPT ![g] = Flags!NoGet] /\ flags' = Flags!Merged(get[g].row)
          /\ get[g].step = "read"
      BY <1>2 DEF Flags!SetProject
    <2>2. get' \in [Gets -> [step : {"idle", "sent", "read"}, row : Flags!Rows]]
      BY <2>1 DEF FlagInv, FlagTypes, Flags!NoGet, Flags!Fresh, Flags!Rows
    <2>3. \A h \in Gets \ {g} : get'[h] = get[h]
      BY <2>1 DEF FlagInv, FlagTypes
    <2>4. PICK f : f = Flags!FlagsOf(get[g].row)
      OBVIOUS
    <2>5. /\ f \in [staged : BOOLEAN, staging : BOOLEAN, complete : BOOLEAN, launched : BOOLEAN]
          /\ f.complete = Complete(get[g].row) /\ f.launched = Launched(get[g].row)
      BY <1>0, <2>4 DEF Flags!FlagsOf, Complete, Launched, Flags!Rows
    <2>6. flags' = [f EXCEPT !.complete = f.complete \/ flags.complete, !.launched = f.launched \/ flags.launched]
      BY <2>1, <2>4 DEF Flags!Merged
    <2>7. /\ flags' \in [staged : BOOLEAN, staging : BOOLEAN, complete : BOOLEAN, launched : BOOLEAN]
          /\ flags.complete \/ Complete(get[g].row) => flags'.complete
          /\ flags.launched \/ Launched(get[g].row) => flags'.launched
      BY <2>5, <2>6 DEF FlagInv, FlagTypes
    <2>8. \A e : OnTheWay(e)' <=> OnTheWay(e)
      BY <2>1 DEF OnTheWay
    <2> QED BY <1>0, <2>1, <2>2, <2>3, <2>7, <2>8 DEF FlagInv, FlagTypes, CompleteKnown, LaunchKnown, ResetAlone, Complete, Launched
  <1>3. CASE Flags!Reconnect(g)
    <2>1. PICK r : r = [Flags!NoGet EXCEPT !.step = "sent"]
      OBVIOUS
    <2>2. ~ending /\ wire' = <<>> /\ UNCHANGED flags /\ get' = [get EXCEPT ![g] = r]
      BY <1>3, <2>1 DEF Flags!Reconnect, Flags!Fetched, PlainOps
    <2>3. r \in [step : {"idle", "sent", "read"}, row : Flags!Rows] /\ r.step = "sent"
      BY <2>1 DEF Flags!NoGet, Flags!Fresh, Flags!Rows
    <2>4. get' \in [Gets -> [step : {"idle", "sent", "read"}, row : Flags!Rows]] /\ get'[g].step = "sent"
      BY <2>2, <2>3 DEF FlagInv, FlagTypes
    <2>5. wire' \in Seq({"mission", "complete", "launched", "touch"})
      BY <2>2
    <2>6. FlagTypes' /\ ResetAlone'
      BY <1>0, <2>2, <2>4, <2>5 DEF FlagInv, FlagTypes, ResetAlone
    <2>7. CompleteKnown' /\ LaunchKnown'
      BY <1>0, <2>2, <2>4 DEF CompleteKnown, LaunchKnown
    <2> QED BY <2>6, <2>7 DEF FlagInv
  <1> QED BY <1>1, <1>2, <1>3

LEMMA FlagSteps == ASSUME FlagInv, PlainOps, [Flags!Next]_(Flags!vars) PROVE FlagInv'
  <1>1. CASE UNCHANGED Flags!vars
    BY <1>1 DEF Flags!vars, FlagInv, FlagTypes, CompleteKnown, LaunchKnown, ResetAlone, Complete, Launched, OnTheWay
  <1> QED BY <1>1, ServerKept, ButtonKept, DeliverFlagKept, FetchFlagKept DEF Flags!Next

(* However late a fetch is answered and however many events were lost, a   *)
(* page at rest knows that staging is complete and that implementation was *)
(* launched (the OR-merge of setProject, the resync of a reconnect).       *)
THEOREM FlagsCatchUpHolds == ASSUME PlainOps PROVE Flags!Spec => []Flags!FlagsCatchUp
  <1>1. Flags!Init => FlagInv
    BY FlagsStart
  <1>2. FlagInv /\ [Flags!Next]_(Flags!vars) => FlagInv'
    BY FlagSteps
  <1>3. FlagInv => Flags!FlagsCatchUp
    BY FlagsCaughtUp
  <1> QED BY <1>1, <1>2, <1>3, PTL DEF Flags!Spec

-----------------------------------------------------------------------------
Events == [kind : {"created", "status", "progress", "removed"}, agent : Workers, version : Board!Versions]
Is(i, a, K) == events[i].agent = a /\ events[i].kind \in K
Some(a, K) == \E i \in 1..Len(events) : Is(i, a, K)
Latest(i, a, K) == Is(i, a, K) /\ \A j \in 1..Len(events) : j > i => ~Is(j, a, K)

(* What an agent's events on the wire say: its births and ends come before *)
(* everything else, and the newest of a kind says how its row is.          *)
Ordered(a) ==
    \A i, j \in 1..Len(events) :
        i < j /\ Is(i, a, {"status", "progress"}) => ~Is(j, a, {"created", "removed"})
GoneTold(a) ==
    agents[a] = None =>
        /\ ~Some(a, {"status", "progress"})
        /\ \A i \in 1..Len(events) : Is(i, a, {"created"}) => \E j \in 1..Len(events) : j > i /\ Is(j, a, {"removed"})
RowTold(a) ==
    agents[a] # None =>
        /\ agents[a].home
        /\ \A i \in 1..Len(events) : Is(i, a, {"removed"}) => \E j \in 1..Len(events) : j > i /\ Is(j, a, {"created"})
        /\ \A i \in 1..Len(events) : Latest(i, a, {"created", "status"}) => events[i].version = agents[a].status
        /\ \A i \in 1..Len(events) : Latest(i, a, {"progress"}) => events[i].version = agents[a].progress
        /\ Some(a, {"created", "removed"}) /\ ~Some(a, {"progress"}) => agents[a].progress = 0
        /\ Some(a, {"status"}) => agents[a].status > 0
        /\ Some(a, {"progress"}) => agents[a].progress > 0
BornAtZero(a) == \A i \in 1..Len(events) : Is(i, a, {"created"}) => events[i].version = 0
Told(a) == Ordered(a) /\ GoneTold(a) /\ RowTold(a) /\ BornAtZero(a)

(* A row that the events still to come, and the delayed progress q, turn   *)
(* into the server's.                                                      *)
Right(a, b, q) ==
    /\ agents[a] = None /\ ~Some(a, {"created", "removed"}) => b = None
    /\ agents[a] # None =>
         /\ (b # None /\ b.home) \/ Some(a, {"created"})
         /\ ~Some(a, {"created", "status"}) => b.status = agents[a].status
         /\ b # None /\ q = None /\ ~Some(a, {"progress", "removed"}) => b.progress = agents[a].progress
DelayRight(a) ==
    delayed[a] # None =>
        /\ agents[a] # None /\ agents[a].progress > 0
        /\ ~Some(a, {"progress"}) => delayed[a] = agents[a].progress

BoardTypes ==
    /\ agents \in [Workers -> Board!Rows \cup {None}]
    /\ events \in Seq(Events)
    /\ board \in [Workers -> Board!Rows \cup {None}]
    /\ delayed \in [Workers -> Board!Versions \cup {None}]
    /\ load \in [Loads -> [step : {"idle", "sent", "read"}, project : Projects,
                           rows : [Workers -> Board!Rows \cup {None}]]]
    /\ open \in Projects
Here == {a \in Workers : ProjectOf(a) = open}
BoardInv ==
    /\ BoardTypes
    /\ \A a \in Workers : Told(a)
    /\ \A a \in Here : DelayRight(a)
    /\ \A l \in Loads : load[l].step # "idle" => load[l].project = open
    /\ \A l \in Loads : load[l].step = "read" => \A a \in Here : Right(a, load[l].rows[a], None)
    /\ (\A l \in Loads : load[l].step = "idle") => \A a \in Here : Right(a, board[a], delayed[a])

NothingOverlaps == Board!JobBoardAssumption /\ BoardOps \intersect {"hasty", "overlap", "overtake"} = {}

LEMMA BoardStarts == ASSUME NothingOverlaps, Board!Init PROVE BoardInv
  <1>1. agents \in [Workers -> Board!Rows \cup {None}] /\ board \in [Workers -> Board!Rows \cup {None}]
    BY DEF Board!Init
  <1>2. events = <<>> /\ events \in Seq(Events) /\ Len(events) = 0
    BY DEF Board!Init
  <1>3. load \in [Loads -> [step : {"idle", "sent", "read"}, project : Projects,
                           rows : [Workers -> Board!Rows \cup {None}]]]
    BY DEF Board!Init, Board!NoLoad
  <1>4. BoardTypes
    BY <1>1, <1>2, <1>3 DEF Board!Init, BoardTypes
  <1>5. \A a \in Workers : Told(a)
    BY <1>2 DEF Told, Ordered, GoneTold, RowTold, BornAtZero, Some, Board!Init
  <1>6. \A a \in Workers : DelayRight(a) /\ Right(a, board[a], delayed[a])
    BY DEF DelayRight, Right, Board!Init
  <1>7. \A l \in Loads : load[l].step = "idle"
    BY DEF Board!Init, Board!NoLoad
  <1> QED BY <1>4, <1>5, <1>6, <1>7 DEF BoardInv, Here

LEMMA BoardSettled == ASSUME NothingOverlaps, BoardInv PROVE Board!RowsSettle
  <1> SUFFICES ASSUME Board!Quiet, NEW a \in Workers, ProjectOf(a) = open PROVE Board!Shown(a) = agents[a]
    BY DEF Board!RowsSettle
  <1>1. \A K : ~Some(a, K)
    BY DEF Some, Board!Quiet
  <1>2. delayed[a] = None /\ Right(a, board[a], delayed[a])
    BY DEF Board!Quiet, BoardInv, Here
  <1>3. CASE agents[a] = None
    BY <1>1, <1>2, <1>3 DEF Right, Board!Shown
  <1>4. CASE agents[a] # None
    <2>1. /\ board[a] # None /\ board[a].home
          /\ board[a].status = agents[a].status /\ board[a].progress = agents[a].progress
      BY <1>1, <1>2, <1>4 DEF Right
    <2>2. agents[a] \in Board!Rows /\ board[a] \in Board!Rows /\ agents[a].home
      BY <1>4, <2>1 DEF BoardInv, BoardTypes, Told, RowTold
    <2>3. board[a] = agents[a]
      BY <2>1, <2>2 DEF Board!Rows
    <2> QED BY <2>1, <2>3 DEF Board!Shown
  <1> QED BY <1>3, <1>4

(* An event announced at the end of the wire. *)
LEMMA EventAppended ==
    ASSUME BoardTypes, NEW e \in Events, events' = Append(events, e)
    PROVE  /\ events' \in Seq(Events) /\ Len(events) \in Nat /\ Len(events') = Len(events) + 1
           /\ \A i \in 1..Len(events') : i \in 1..Len(events) \/ i = Len(events) + 1
           /\ \A i \in 1..Len(events) : i \in 1..Len(events') /\ events'[i] = events[i]
           /\ Len(events) + 1 \in 1..Len(events') /\ events'[Len(events) + 1] = e
  BY DEF BoardTypes

LEMMA AppendedSome ==
    ASSUME BoardTypes, NEW e \in Events, events' = Append(events, e), NEW a, NEW K
    PROVE  Some(a, K)' <=> Some(a, K) \/ (e.agent = a /\ e.kind \in K)
  BY EventAppended, Z3 DEF Some, Is

(* What is said of another agent is as it was. *)
LEMMA OthersKept ==
    ASSUME BoardTypes, NEW e \in Events, events' = Append(events, e),
           NEW a, a # e.agent, agents'[a] = agents[a], Told(a)
    PROVE  Told(a)' /\ \A b, q : Right(a, b, q) => Right(a, b, q)'
  <1>1. \A K : Some(a, K)' <=> Some(a, K)
    BY AppendedSome
  <1>2. \A K : \A i \in 1..Len(events') : Is(i, a, K)' => i \in 1..Len(events) /\ Is(i, a, K)
    BY EventAppended DEF Is
  <1>3. \A K : \A i \in 1..Len(events) : Is(i, a, K) => i \in 1..Len(events') /\ Is(i, a, K)'
    BY EventAppended DEF Is
  <1>4. \A i \in 1..Len(events) : events'[i] = events[i]
    BY EventAppended
  <1>5. \A K : \A i \in 1..Len(events') : Latest(i, a, K)' => i \in 1..Len(events) /\ Latest(i, a, K)
    BY <1>2, <1>3 DEF Latest
  <1>6. Ordered(a)'
    BY <1>2 DEF Told, Ordered
  <1>7. GoneTold(a)'
    BY <1>1, <1>2, <1>3 DEF Told, GoneTold
  <1>8. RowTold(a)'
    BY <1>1, <1>2, <1>3, <1>4, <1>5 DEF Told, RowTold
  <1>9. BornAtZero(a)'
    BY <1>2, <1>4 DEF Told, BornAtZero
  <1>10. \A b, q : Right(a, b, q) => Right(a, b, q)'
    <2>1. agents'[a] = agents[a]
      OBVIOUS
    <2> QED BY <1>1, <2>1 DEF Right
  <1> QED BY <1>6, <1>7, <1>8, <1>9, <1>10 DEF Told

(* A change of one agent's row, once it is shown for that agent. *)
LEMMA RowsKept ==
    ASSUME BoardInv, NEW a \in Workers, NEW e \in Events, e.agent = a,
           NEW new \in Board!Rows \cup {None}, agents' = [agents EXCEPT ![a] = new],
           events' = Append(events, e), UNCHANGED <<open, load, board, delayed>>,
           Told(a)', ProjectOf(a) = open => DelayRight(a)',
           \A b, q : Right(a, b, q) => Right(a, b, q)'
    PROVE  BoardInv'
  <1>1. BoardTypes
    BY DEF BoardInv
  <1>2. BoardTypes'
    <2>1. agents' \in [Workers -> Board!Rows \cup {None}]
      BY <1>1 DEF BoardTypes
    <2> QED BY <1>1, <2>1, EventAppended DEF BoardTypes
  <1>3. \A x \in Workers : x # a => agents'[x] = agents[x]
    BY <1>1 DEF BoardTypes
  <1>4. \A x \in Workers : x # a => Told(x)' /\ \A b, q : Right(x, b, q) => Right(x, b, q)'
    BY <1>1, <1>3, OthersKept DEF BoardInv
  <1>5. \A x \in Workers : Told(x)' /\ \A b, q : Right(x, b, q) => Right(x, b, q)'
    BY <1>4
  <1>6. \A x \in Here : x # a => DelayRight(x)'
    <2> SUFFICES ASSUME NEW x \in Here, x # a PROVE DelayRight(x)'
      OBVIOUS
    <2>1. x \in Workers /\ agents'[x] = agents[x] /\ delayed'[x] = delayed[x] /\ DelayRight(x)
      BY <1>3 DEF Here, BoardInv
    <2>2. Some(x, {"progress"})' <=> Some(x, {"progress"})
      BY <1>1, AppendedSome
    <2> QED BY <2>1, <2>2 DEF DelayRight
  <1>7. Here' = Here /\ \A x \in Here : x \in Workers /\ DelayRight(x)'
    BY <1>6 DEF Here
  <1>8. \A l \in Loads : load[l].step = "read" => \A x \in Here : Right(x, load[l].rows[x], None)'
    BY <1>5 DEF BoardInv, Here
  <1>9. (\A l \in Loads : load[l].step = "idle") => \A x \in Here : Right(x, board[x], delayed[x])'
    <2> SUFFICES ASSUME \A l \in Loads : load[l].step = "idle", NEW x \in Here
                 PROVE  Right(x, board[x], delayed[x])'
      OBVIOUS
    <2>1. Right(x, board[x], delayed[x]) /\ x \in Workers
      BY DEF BoardInv, Here
    <2>2. \A b, q : Right(x, b, q) => Right(x, b, q)'
      BY <1>5, <2>1
    <2> QED BY <2>1, <2>2, ZenonT(90) DEF Right
  <1>10. \A l \in Loads : load[l].step = "read" => \A x \in Here : Right(x, load[l].rows[x], None)'
    BY <1>8
  <1>11. (\A l \in Loads : load[l].step # "idle" => load[l].project = open)'
    BY DEF BoardInv
  <1>12. (\A l \in Loads : load[l].step = "read" => \A x \in Here : Right(x, load[l].rows[x], None))'
    BY <1>7, <1>8 DEF Right
  <1>13. ((\A l \in Loads : load[l].step = "idle") => \A x \in Here : Right(x, board[x], delayed[x]))'
    BY <1>7, <1>9
  <1> QED BY <1>2, <1>5, <1>7, <1>11, <1>12, <1>13 DEF BoardInv

LEMMA AddsLast ==
    ASSUME NothingOverlaps, NEW e, Board!Announce(e) PROVE events' = Append(events, e)
  BY DEF NothingOverlaps, Board!Announce

LEMMA AppendedOwn ==
    ASSUME BoardTypes, NEW e \in Events, events' = Append(events, e), NEW a, e.agent = a
    PROVE  \E n \in Nat :
               /\ n \in 1..Len(events') /\ events'[n] = e
               /\ \A i \in 1..Len(events) : /\ i \in 1..Len(events') /\ i < n /\ events'[i] = events[i]
                                             /\ \A K : Is(i, a, K)' <=> Is(i, a, K)
               /\ \A i \in 1..Len(events') : i \in 1..Len(events) \/ i = n
               /\ \A K : Is(n, a, K)' <=> e.kind \in K
  <1>1. PICK n \in Nat : n = Len(events) + 1
    BY EventAppended
  <1> QED BY <1>1, EventAppended DEF Is

LEMMA CreateKeeps == ASSUME NothingOverlaps, BoardInv, NEW a \in Workers, Board!Create(a) PROVE BoardInv'
  <1> DEFINE e == Board!Event("created", a, 0)
  <1> DEFINE new == Board!Row(0, 0, TRUE)
  <1>1. agents[a] = None /\ agents' = [agents EXCEPT ![a] = new] /\ UNCHANGED <<open, load, board, delayed>>
    BY DEF Board!Create, Board!Change
  <1>2. events' = Append(events, e)
    BY AddsLast DEF Board!Create, Board!Change
  <1>3. 0 \in Board!Versions /\ e \in Events /\ e.agent = a /\ e.kind = "created" /\ e.version = 0
    BY DEF NothingOverlaps, Board!JobBoardAssumption, Board!Event, Board!Versions, Events
  <1>4. new \in Board!Rows
    BY <1>3 DEF Board!Row, Board!Rows
  <1>4a. new # None /\ new.home /\ new.status = 0 /\ new.progress = 0
    BY <1>4 DEF NothingOverlaps, Board!JobBoardAssumption, Board!Row
  <1>5. BoardTypes /\ Told(a) /\ agents'[a] = new
    BY <1>1 DEF BoardInv, BoardTypes
  <1> HIDE DEF e, new
  <1>6. \A K : Some(a, K)' <=> Some(a, K) \/ "created" \in K
    BY <1>2, <1>3, <1>5, AppendedSome
  <1>7. \A K : ~Some(a, K) => \A i \in 1..Len(events) : ~Is(i, a, K)
    BY DEF Some
  <1>8. /\ ~Some(a, {"status", "progress"}) /\ ~Some(a, {"status"}) /\ ~Some(a, {"progress"})
        /\ \A i \in 1..Len(events) : ~Is(i, a, {"status", "progress"}) /\ ~Is(i, a, {"status"}) /\ ~Is(i, a, {"progress"})
    BY <1>1, <1>5 DEF Told, GoneTold, Some, Is
  <1>9. PICK n \in Nat :
          /\ n \in 1..Len(events') /\ events'[n] = e
          /\ \A i \in 1..Len(events) : /\ i \in 1..Len(events') /\ i < n /\ events'[i] = events[i]
                                        /\ \A K : Is(i, a, K)' <=> Is(i, a, K)
          /\ \A i \in 1..Len(events') : i \in 1..Len(events) \/ i = n
          /\ \A K : Is(n, a, K)' <=> e.kind \in K
    BY <1>2, <1>3, <1>5, AppendedOwn
  <1>11. Told(a)'
    <2>1. Ordered(a)'
      BY <1>8, <1>3, <1>9 DEF Ordered
    <2>2. GoneTold(a)'
      BY <1>4, <1>4a, <1>5 DEF GoneTold
    <2>3. BornAtZero(a)'
      BY <1>3, <1>5, <1>9 DEF Told, BornAtZero
    <2>4. \A i \in 1..Len(events') : Is(i, a, {"removed"})' => \E j \in 1..Len(events') : j > i /\ Is(j, a, {"created"})'
      BY <1>3, <1>9
    <2>5. \A i \in 1..Len(events') : Latest(i, a, {"created", "status"})' => events'[i].version = 0
      BY <1>3, <1>9 DEF Latest
    <2>6. \A i \in 1..Len(events') : ~Latest(i, a, {"progress"})'
      BY <1>8, <1>3, <1>9 DEF Latest
    <2>7. ~Some(a, {"status"})' /\ ~Some(a, {"progress"})'
      BY <1>6, <1>8
    <2>8. RowTold(a)'
      BY <1>4, <1>4a, <1>5, <2>4, <2>5, <2>6, <2>7 DEF RowTold
    <2> QED BY <2>1, <2>2, <2>3, <2>8 DEF Told
  <1>12. ProjectOf(a) = open => DelayRight(a)'
    BY <1>1 DEF BoardInv, DelayRight, Here
  <1>13. ASSUME NEW b, NEW q, Right(a, b, q) PROVE Right(a, b, q)'
    <2>1. Some(a, {"created"})' /\ Some(a, {"created", "status"})' /\ Some(a, {"created", "removed"})'
      BY <1>6
    <2>2. CASE b = None
      BY <1>4, <1>4a, <1>5, <2>1, <2>2 DEF Right
    <2>3. CASE b # None
      <3>1. Some(a, {"created", "removed"})
        BY <1>1, <1>13, <2>3 DEF Right
      <3>2. Some(a, {"removed"})
        BY <1>1, <1>5, <3>1 DEF Some, Is, Told, GoneTold
      <3>3. Some(a, {"progress", "removed"})'
        BY <1>6, <3>2 DEF Some, Is
      <3> QED BY <1>4, <1>4a, <1>5, <2>1, <3>3 DEF Right
    <2> QED BY <2>2, <2>3
  <1> QED BY <1>1, <1>2, <1>3, <1>4, <1>11, <1>12, <1>13, RowsKept

LEMMA StatusKeeps == ASSUME NothingOverlaps, BoardInv, NEW a \in Workers, Board!SetStatus(a) PROVE BoardInv'
  <1>1. BoardTypes /\ Told(a)
    BY DEF BoardInv
  <1>2. PICK v \in Nat : /\ v = agents[a].status + 1 /\ v \in Board!Versions
                         /\ agents[a] # None /\ agents[a] \in Board!Rows
                         /\ agents' = [agents EXCEPT ![a] = [agents[a] EXCEPT !.status = v]]
                         /\ events' = Append(events, Board!Event("status", a, v))
                         /\ UNCHANGED <<open, load, board, delayed>>
    <2>1. agents[a] # None /\ agents[a] \in Board!Rows /\ agents[a].status < MaxVersion
      BY <1>1 DEF Board!SetStatus, BoardTypes
    <2>2. agents[a].status \in 0..MaxVersion /\ MaxVersion \in Nat
      BY <2>1 DEF Board!Rows, Board!Versions, NothingOverlaps, Board!JobBoardAssumption
    <2>3. agents[a].status + 1 \in Nat /\ agents[a].status + 1 \in Board!Versions
      BY <2>1, <2>2 DEF Board!Versions
    <2>4. PICK v \in Nat : v = agents[a].status + 1
      BY <2>3
    <2>5. /\ agents' = [agents EXCEPT ![a] = [agents[a] EXCEPT !.status = v]]
          /\ Board!Announce(Board!Event("status", a, v)) /\ UNCHANGED <<open, load, board, delayed>>
      BY <2>4 DEF Board!SetStatus, Board!Change
    <2>6. events' = Append(events, Board!Event("status", a, v))
      BY <2>5, AddsLast
    <2> QED BY <2>1, <2>3, <2>4, <2>5, <2>6
  <1> DEFINE e == Board!Event("status", a, v)
  <1> DEFINE new == [agents[a] EXCEPT !.status = v]
  <1>3. e \in Events /\ e.agent = a /\ e.kind = "status" /\ e.version = v
    BY <1>2 DEF Board!Event, Events
  <1>4. PICK r : r = new
    OBVIOUS
  <1>5. r \in Board!Rows /\ r.status = v /\ r.progress = agents[a].progress /\ r.home = agents[a].home /\ v > 0
    <2>1. agents[a].status \in Nat
      BY <1>2 DEF Board!Rows, Board!Versions
    <2> QED BY <1>2, <1>4, <2>1, SMTT(90) DEF Board!Rows
  <1>6. r # None
    BY <1>5 DEF NothingOverlaps, Board!JobBoardAssumption
  <1>7. agents' = [agents EXCEPT ![a] = r] /\ events' = Append(events, e) /\ agents'[a] = r
    BY <1>1, <1>2, <1>4 DEF BoardTypes
  <1> HIDE DEF e, new
  <1>8. \A K : Some(a, K)' <=> Some(a, K) \/ "status" \in K
    BY <1>1, <1>3, <1>7, AppendedSome
  <1>9. PICK n \in Nat :
          /\ n \in 1..Len(events') /\ events'[n] = e
          /\ \A i \in 1..Len(events) : /\ i \in 1..Len(events') /\ i < n /\ events'[i] = events[i]
                                        /\ \A K : Is(i, a, K)' <=> Is(i, a, K)
          /\ \A i \in 1..Len(events') : i \in 1..Len(events) \/ i = n
          /\ \A K : Is(n, a, K)' <=> e.kind \in K
    BY <1>1, <1>3, <1>7, AppendedOwn
  <1>10. ~Is(n, a, {"created", "removed"})' /\ ~Is(n, a, {"created"})' /\ ~Is(n, a, {"removed"})'
         /\ ~Is(n, a, {"progress"})' /\ Is(n, a, {"created", "status"})'
    BY <1>3, <1>9
  <1>11. Told(a)'
    <2>1. Ordered(a)'
      BY <1>1, <1>9, <1>10 DEF Told, Ordered
    <2>2. GoneTold(a)'
      BY <1>6, <1>7 DEF GoneTold
    <2>3. BornAtZero(a)'
      BY <1>1, <1>9, <1>10 DEF Told, BornAtZero
    <2>4. \A i \in 1..Len(events') : Is(i, a, {"removed"})' => \E j \in 1..Len(events') : j > i /\ Is(j, a, {"created"})'
      BY <1>1, <1>2, <1>9, <1>10 DEF Told, RowTold
    <2>5. \A i \in 1..Len(events') : Latest(i, a, {"created", "status"})' => events'[i].version = v
      BY <1>3, <1>9, <1>10 DEF Latest
    <2>6. \A i \in 1..Len(events') : Latest(i, a, {"progress"})' => events'[i].version = agents[a].progress
      BY <1>1, <1>2, <1>9, <1>10 DEF Latest, Told, RowTold
    <2>7. /\ Some(a, {"created", "removed"})' /\ ~Some(a, {"progress"})' => agents[a].progress = 0
          /\ Some(a, {"progress"})' => agents[a].progress > 0
      BY <1>1, <1>2, <1>8 DEF Told, RowTold
    <2>8. agents[a].home
      BY <1>1, <1>2 DEF Told, RowTold
    <2>9. RowTold(a)'
      BY <1>5, <1>6, <1>7, <2>4, <2>5, <2>6, <2>7, <2>8 DEF RowTold
    <2> QED BY <2>1, <2>2, <2>3, <2>9 DEF Told
  <1>12. ProjectOf(a) = open => DelayRight(a)'
    <2>1. Some(a, {"progress"})' <=> Some(a, {"progress"})
      BY <1>8
    <2> QED BY <1>2, <1>5, <1>6, <1>7, <2>1 DEF BoardInv, DelayRight, Here
  <1>13. ASSUME NEW b, NEW q, Right(a, b, q) PROVE Right(a, b, q)'
    <2>1. Some(a, {"created", "status"})'
      BY <1>8
    <2>2. /\ Some(a, {"created"}) => Some(a, {"created"})'
          /\ Some(a, {"progress", "removed"}) => Some(a, {"progress", "removed"})'
      BY <1>8
    <2> QED BY <1>2, <1>5, <1>6, <1>7, <1>13, <2>1, <2>2 DEF Right
  <1> QED BY <1>2, <1>3, <1>5, <1>7, <1>11, <1>12, <1>13, RowsKept

LEMMA ReportKeeps == ASSUME NothingOverlaps, BoardInv, NEW a \in Workers, Board!Report(a) PROVE BoardInv'
  <1>1. BoardTypes /\ Told(a)
    BY DEF BoardInv
  <1>2. PICK v \in Nat : /\ v = agents[a].progress + 1 /\ v \in Board!Versions
                         /\ agents[a] # None /\ agents[a] \in Board!Rows
                         /\ agents' = [agents EXCEPT ![a] = [agents[a] EXCEPT !.progress = v]]
                         /\ events' = Append(events, Board!Event("progress", a, v))
                         /\ UNCHANGED <<open, load, board, delayed>>
    <2>1. agents[a] # None /\ agents[a] \in Board!Rows /\ agents[a].progress < MaxVersion
      BY <1>1 DEF Board!Report, BoardTypes
    <2>2. agents[a].progress \in 0..MaxVersion /\ MaxVersion \in Nat
      BY <2>1 DEF Board!Rows, Board!Versions, NothingOverlaps, Board!JobBoardAssumption
    <2>3. agents[a].progress + 1 \in Nat /\ agents[a].progress + 1 \in Board!Versions
      BY <2>1, <2>2 DEF Board!Versions
    <2>4. PICK v \in Nat : v = agents[a].progress + 1
      BY <2>3
    <2>5. /\ agents' = [agents EXCEPT ![a] = [agents[a] EXCEPT !.progress = v]]
          /\ Board!Announce(Board!Event("progress", a, v)) /\ UNCHANGED <<open, load, board, delayed>>
      BY <2>4 DEF Board!Report, Board!Change
    <2>6. events' = Append(events, Board!Event("progress", a, v))
      BY <2>5, AddsLast
    <2> QED BY <2>1, <2>3, <2>4, <2>5, <2>6
  <1> DEFINE e == Board!Event("progress", a, v)
  <1> DEFINE new == [agents[a] EXCEPT !.progress = v]
  <1>3. e \in Events /\ e.agent = a /\ e.kind = "progress" /\ e.version = v
    BY <1>2 DEF Board!Event, Events
  <1>4. PICK r : r = new
    OBVIOUS
  <1>5. r \in Board!Rows /\ r.progress = v /\ r.status = agents[a].status /\ r.home = agents[a].home /\ v > 0
    <2>1. agents[a].progress \in Nat
      BY <1>2 DEF Board!Rows, Board!Versions
    <2> QED BY <1>2, <1>4, <2>1, SMTT(90) DEF Board!Rows
  <1>6. r # None
    BY <1>5 DEF NothingOverlaps, Board!JobBoardAssumption
  <1>7. agents' = [agents EXCEPT ![a] = r] /\ events' = Append(events, e) /\ agents'[a] = r
    BY <1>1, <1>2, <1>4 DEF BoardTypes
  <1> HIDE DEF e, new
  <1>8. \A K : Some(a, K)' <=> Some(a, K) \/ "progress" \in K
    BY <1>1, <1>3, <1>7, AppendedSome
  <1>9. PICK n \in Nat :
          /\ n \in 1..Len(events') /\ events'[n] = e
          /\ \A i \in 1..Len(events) : /\ i \in 1..Len(events') /\ i < n /\ events'[i] = events[i]
                                        /\ \A K : Is(i, a, K)' <=> Is(i, a, K)
          /\ \A i \in 1..Len(events') : i \in 1..Len(events) \/ i = n
          /\ \A K : Is(n, a, K)' <=> e.kind \in K
    BY <1>1, <1>3, <1>7, AppendedOwn
  <1>10. ~Is(n, a, {"created", "removed"})' /\ ~Is(n, a, {"created"})' /\ ~Is(n, a, {"removed"})'
         /\ Is(n, a, {"progress"})' /\ ~Is(n, a, {"created", "status"})'
    BY <1>3, <1>9
  <1>11. Told(a)'
    <2>1. Ordered(a)'
      BY <1>1, <1>9, <1>10 DEF Told, Ordered
    <2>2. GoneTold(a)'
      BY <1>6, <1>7 DEF GoneTold
    <2>3. BornAtZero(a)'
      BY <1>1, <1>9, <1>10 DEF Told, BornAtZero
    <2>4. \A i \in 1..Len(events') : Is(i, a, {"removed"})' => \E j \in 1..Len(events') : j > i /\ Is(j, a, {"created"})'
      BY <1>1, <1>2, <1>9, <1>10 DEF Told, RowTold
    <2>5. \A i \in 1..Len(events') : Latest(i, a, {"created", "status"})' => events'[i].version = agents[a].status
      BY <1>1, <1>2, <1>9, <1>10 DEF Latest, Told, RowTold
    <2>6. \A i \in 1..Len(events') : Latest(i, a, {"progress"})' => events'[i].version = v
      BY <1>3, <1>9, <1>10 DEF Latest
    <2>7. Some(a, {"progress"})' /\ (Some(a, {"status"})' => agents[a].status > 0)
      BY <1>1, <1>2, <1>8 DEF Told, RowTold
    <2>8. agents[a].home
      BY <1>1, <1>2 DEF Told, RowTold
    <2>9. RowTold(a)'
      BY <1>5, <1>6, <1>7, <2>4, <2>5, <2>6, <2>7, <2>8 DEF RowTold
    <2> QED BY <2>1, <2>2, <2>3, <2>9 DEF Told
  <1>12. ProjectOf(a) = open => DelayRight(a)'
    <2>1. Some(a, {"progress"})'
      BY <1>8
    <2> QED BY <1>5, <1>6, <1>7, <2>1 DEF DelayRight
  <1>13. ASSUME NEW b, NEW q, Right(a, b, q) PROVE Right(a, b, q)'
    <2>1. Some(a, {"progress", "removed"})'
      BY <1>8
    <2>2. /\ Some(a, {"created"}) => Some(a, {"created"})'
          /\ Some(a, {"created", "status"}) => Some(a, {"created", "status"})'
      BY <1>8
    <2> QED BY <1>2, <1>5, <1>6, <1>7, <1>13, <2>1, <2>2 DEF Right
  <1> QED BY <1>2, <1>3, <1>5, <1>7, <1>11, <1>12, <1>13, RowsKept

LEMMA DeleteKeeps == ASSUME NothingOverlaps, BoardInv, NEW a \in Workers, Board!Delete(a) PROVE BoardInv'
  <1> DEFINE e == Board!Event("removed", a, 0)
  <1>1. BoardTypes /\ Told(a)
    BY DEF BoardInv
  <1>2. agents[a] = Board!Row(0, 0, TRUE) /\ agents' = [agents EXCEPT ![a] = None] /\ UNCHANGED <<open, load, board, delayed>>
    BY DEF Board!Delete, Board!Change
  <1>3. events' = Append(events, e)
    BY AddsLast DEF Board!Delete, Board!Change
  <1>4. 0 \in Board!Versions /\ e \in Events /\ e.agent = a /\ e.kind = "removed" /\ e.version = 0
    BY DEF NothingOverlaps, Board!JobBoardAssumption, Board!Event, Board!Versions, Events
  <1>5. agents[a] \in Board!Rows
    BY <1>2, <1>4 DEF Board!Row, Board!Rows
  <1>6. agents[a] # None /\ agents[a].status = 0 /\ agents[a].progress = 0 /\ agents'[a] = None
    <2>1. agents[a] # None
      BY <1>5 DEF NothingOverlaps, Board!JobBoardAssumption
    <2>2. agents[a].status = 0 /\ agents[a].progress = 0
      BY <1>2 DEF Board!Row
    <2>3. agents'[a] = None
      BY <1>1, <1>2 DEF BoardTypes
    <2> QED BY <2>1, <2>2, <2>3
  <1> HIDE DEF e
  <1>7. \A K : Some(a, K)' <=> Some(a, K) \/ "removed" \in K
    BY <1>1, <1>3, <1>4, AppendedSome
  <1>8. ~Some(a, {"status"}) /\ ~Some(a, {"progress"})
    BY <1>1, <1>6 DEF Told, RowTold
  <1>9. /\ ~Some(a, {"status", "progress"})
        /\ \A i \in 1..Len(events) : ~Is(i, a, {"status", "progress"})
    BY <1>8 DEF Some, Is
  <1>10. PICK n \in Nat :
          /\ n \in 1..Len(events') /\ events'[n] = e
          /\ \A i \in 1..Len(events) : /\ i \in 1..Len(events') /\ i < n /\ events'[i] = events[i]
                                        /\ \A K : Is(i, a, K)' <=> Is(i, a, K)
          /\ \A i \in 1..Len(events') : i \in 1..Len(events) \/ i = n
          /\ \A K : Is(n, a, K)' <=> e.kind \in K
    BY <1>1, <1>3, <1>4, AppendedOwn
  <1>11. Is(n, a, {"removed"})' /\ ~Is(n, a, {"created"})' /\ ~Is(n, a, {"status", "progress"})'
    BY <1>4, <1>10
  <1>12. Told(a)'
    <2>1. Ordered(a)'
      BY <1>9, <1>10, <1>11 DEF Ordered
    <2>2. GoneTold(a)'
      <3>1. ~Some(a, {"status", "progress"})'
        BY <1>7, <1>9
      <3>2. \A i \in 1..Len(events') : Is(i, a, {"created"})' => \E j \in 1..Len(events') : j > i /\ Is(j, a, {"removed"})'
        BY <1>10, <1>11
      <3> QED BY <3>1, <3>2 DEF GoneTold
    <2>3. BornAtZero(a)'
      BY <1>1, <1>10, <1>11 DEF Told, BornAtZero
    <2>4. RowTold(a)'
      BY <1>6 DEF RowTold
    <2> QED BY <2>1, <2>2, <2>3, <2>4 DEF Told
  <1>13. ProjectOf(a) = open => DelayRight(a)'
    <2> SUFFICES ASSUME ProjectOf(a) = open PROVE DelayRight(a)'
      OBVIOUS
    <2>1. DelayRight(a)
      BY DEF BoardInv, Here
    <2>2. ~(agents[a].progress > 0)
      BY <1>6
    <2>3. delayed'[a] = None
      BY <1>2, <2>1, <2>2 DEF DelayRight
    <2> QED BY <2>3 DEF DelayRight
  <1>14. ASSUME NEW b, NEW q PROVE Right(a, b, q)'
    BY <1>6, <1>7 DEF Right
  <1> QED BY <1>2, <1>3, <1>4, <1>12, <1>13, <1>14, RowsKept

-----------------------------------------------------------------------------
(* The event at the head of the wire is delivered. *)

LEMMA Shifted ==
    ASSUME BoardTypes, events # <<>>, events' = Tail(events)
    PROVE  /\ events' \in Seq(Events) /\ 1 \in 1..Len(events) /\ events[1] = Head(events) /\ events[1] \in Events
           /\ \A i \in 1..Len(events') : i + 1 \in 1..Len(events) /\ events'[i] = events[i + 1]
           /\ \A i \in 1..Len(events) : i = 1 \/ \E j \in 1..Len(events') : i = j + 1
  <1>1. events \in Seq(Events) /\ Len(events) \in Nat /\ Len(events) >= 1
    BY DEF BoardTypes
  <1>2. Len(events') = Len(events) - 1 /\ events' \in Seq(Events)
    BY <1>1
  <1>3. \A i \in 1..Len(events') : i + 1 \in 1..Len(events) /\ events'[i] = events[i + 1]
    BY <1>1, <1>2
  <1>4. ASSUME NEW i \in 1..Len(events), i # 1 PROVE \E j \in 1..Len(events') : i = j + 1
    <2>1. i - 1 \in 1..Len(events') /\ i = (i - 1) + 1
      BY <1>1, <1>2, <1>4
    <2> QED BY <2>1
  <1>5. 1 \in 1..Len(events) /\ events[1] = Head(events) /\ events[1] \in Events
    BY <1>1
  <1> QED BY <1>2, <1>3, <1>4, <1>5

LEMMA ShiftedSome ==
    ASSUME BoardTypes, events # <<>>, events' = Tail(events), NEW a, NEW K
    PROVE  /\ Some(a, K)' => Some(a, K)
           /\ Some(a, K) => Some(a, K)' \/ Is(1, a, K)
           /\ Is(1, a, K) => Some(a, K)
  <1>1. \A i \in 1..Len(events') : i + 1 \in 1..Len(events) /\ (Is(i, a, K)' <=> Is(i + 1, a, K))
    BY Shifted DEF Is
  <1>2. \A i \in 1..Len(events) : i = 1 \/ \E j \in 1..Len(events') : i = j + 1
    BY Shifted
  <1>3. Some(a, K)' => Some(a, K)
    BY <1>1 DEF Some
  <1>4. Some(a, K) => Some(a, K)' \/ Is(1, a, K)
    BY <1>1, <1>2 DEF Some
  <1>5. Is(1, a, K) => Some(a, K)
    BY Shifted DEF Some
  <1> QED BY <1>3, <1>4, <1>5

LEMMA ShiftedTold ==
    ASSUME BoardTypes, events # <<>>, events' = Tail(events), NEW a, Told(a), agents' = agents
    PROVE  Told(a)'
  <1>1. \A i \in 1..Len(events') : /\ i + 1 \in 1..Len(events) /\ events'[i] = events[i + 1]
                                   /\ \A K : Is(i, a, K)' <=> Is(i + 1, a, K)
    BY Shifted DEF Is
  <1>2. \A i \in 1..Len(events) : i = 1 \/ \E j \in 1..Len(events') : i = j + 1
    BY Shifted
  <1>3. \A i, j \in 1..Len(events') : (i < j <=> i + 1 < j + 1) /\ i + 1 > 1
    OBVIOUS
  <1>4. \A K : (Some(a, K)' => Some(a, K)) /\ (Some(a, K) => Some(a, K)' \/ Is(1, a, K))
    BY ShiftedSome
  <1>5. \A K : \A i \in 1..Len(events') : Latest(i, a, K)' => Latest(i + 1, a, K)
    <2> SUFFICES ASSUME NEW K, NEW i \in 1..Len(events'), Latest(i, a, K)', NEW j \in 1..Len(events), j > i + 1
                 PROVE  ~Is(j, a, K)
      BY <1>1 DEF Latest
    <2>1. PICK k \in 1..Len(events') : j = k + 1
      BY <1>2
    <2>2. k > i
      BY <2>1
    <2> QED BY <1>1, <2>1, <2>2 DEF Latest
  <1>6. Ordered(a)'
    <2> SUFFICES ASSUME NEW i \in 1..Len(events'), NEW j \in 1..Len(events'), i < j, Is(i, a, {"status", "progress"})'
                 PROVE  ~Is(j, a, {"created", "removed"})'
      BY DEF Ordered
    <2>1. i + 1 < j + 1 /\ i + 1 \in 1..Len(events) /\ j + 1 \in 1..Len(events) /\ Is(i + 1, a, {"status", "progress"})
      BY <1>1
    <2>2. ~Is(j + 1, a, {"created", "removed"})
      BY <2>1 DEF Told, Ordered
    <2> QED BY <1>1, <2>2
  <1>7. ASSUME NEW K, NEW L, NEW i \in 1..Len(events'), Is(i, a, K)',
               \A m \in 1..Len(events) : Is(m, a, K) => \E j \in 1..Len(events) : j > m /\ Is(j, a, L)
        PROVE  \E j \in 1..Len(events') : j > i /\ Is(j, a, L)'
    <2>1. PICK j \in 1..Len(events) : j > i + 1 /\ Is(j, a, L)
      BY <1>1, <1>7
    <2>2. PICK k \in 1..Len(events') : j = k + 1
      BY <1>2, <2>1
    <2>3. k > i /\ Is(k, a, L)'
      BY <1>1, <2>1, <2>2
    <2> QED BY <2>3
  <1>8. GoneTold(a)'
    <2>1. agents[a] = None =>
            \A i \in 1..Len(events') : Is(i, a, {"created"})' => \E j \in 1..Len(events') : j > i /\ Is(j, a, {"removed"})'
      BY <1>7 DEF Told, GoneTold
    <2> QED BY <1>4, <2>1 DEF Told, GoneTold
  <1>9. RowTold(a)'
    <2> SUFFICES ASSUME agents[a] # None PROVE RowTold(a)'
      BY DEF RowTold
    <2>1. \A i \in 1..Len(events') : Is(i, a, {"removed"})' => \E j \in 1..Len(events') : j > i /\ Is(j, a, {"created"})'
      BY <1>7 DEF Told, RowTold
    <2>2. \A i \in 1..Len(events') : Latest(i, a, {"created", "status"})' => events'[i].version = agents[a].status
      BY <1>1, <1>5 DEF Told, RowTold
    <2>3. \A i \in 1..Len(events') : Latest(i, a, {"progress"})' => events'[i].version = agents[a].progress
      BY <1>1, <1>5 DEF Told, RowTold
    <2>4. ASSUME Some(a, {"created", "removed"})', ~Some(a, {"progress"})' PROVE agents[a].progress = 0
      <3>1. PICK i \in 1..Len(events') : Is(i, a, {"created", "removed"})'
        BY <2>4 DEF Some
      <3>2. 1 < i + 1 /\ 1 \in 1..Len(events) /\ i + 1 \in 1..Len(events) /\ Is(i + 1, a, {"created", "removed"})
        BY <1>1, <3>1, Shifted
      <3>3. ~Is(1, a, {"status", "progress"})
        BY <3>2 DEF Told, Ordered
      <3>4. ~Some(a, {"progress"}) /\ Some(a, {"created", "removed"})
        BY <1>4, <2>4, <3>3 DEF Is
      <3> QED BY <3>4 DEF Told, RowTold
    <2>5. /\ Some(a, {"status"})' => agents[a].status > 0
          /\ Some(a, {"progress"})' => agents[a].progress > 0
      BY <1>4 DEF Told, RowTold
    <2> QED BY <2>1, <2>2, <2>3, <2>4, <2>5 DEF Told, RowTold
  <1>10. BornAtZero(a)'
    BY <1>1 DEF Told, BornAtZero
  <1> QED BY <1>6, <1>8, <1>9, <1>10 DEF Told

LEMMA HeadNewest ==
    ASSUME BoardTypes, events # <<>>, events' = Tail(events), NEW a, NEW K, Is(1, a, K), ~Some(a, K)'
    PROVE  Latest(1, a, K) /\ 1 \in 1..Len(events)
  <1>1. \A i \in 1..Len(events) : i = 1 \/ \E j \in 1..Len(events') : i = j + 1
    BY Shifted
  <1>2. \A i \in 1..Len(events') : events'[i] = events[i + 1]
    BY Shifted
  <1>3. 1 \in 1..Len(events)
    BY Shifted
  <1>4. ASSUME NEW i \in 1..Len(events), i > 1 PROVE ~Is(i, a, K)
    <2>1. PICK j \in 1..Len(events') : i = j + 1
      BY <1>1, <1>4
    <2> QED BY <1>2, <2>1 DEF Some, Is
  <1> QED BY <1>3, <1>4 DEF Latest

LEMMA CreatedDelivered ==
    ASSUME NothingOverlaps, BoardTypes, events # <<>>, events' = Tail(events), agents' = agents, NEW a \in Workers, Told(a),
           events[1].agent = a, events[1].kind = "created",
           board'[a] = Board!Born(board[a]),
           delayed'[a] = delayed[a]
    PROVE  Right(a, board[a], delayed[a]) => Right(a, board[a], delayed[a])'
  <1> SUFFICES ASSUME Right(a, board[a], delayed[a]) PROVE Right(a, board[a], delayed[a])'
    OBVIOUS
  <1>1. \A K : /\ Is(1, a, K) <=> "created" \in K
               /\ Some(a, K)' => Some(a, K)
               /\ Some(a, K) => Some(a, K)' \/ "created" \in K
               /\ "created" \in K => Some(a, K)
    BY ShiftedSome DEF Is
  <1>2. agents[a] = None => Some(a, {"created", "removed"})'
    <2> SUFFICES ASSUME agents[a] = None PROVE Some(a, {"created", "removed"})'
      OBVIOUS
    <2>1. PICK j \in 1..Len(events) : j > 1 /\ Is(j, a, {"removed"})
      BY <1>1, Shifted DEF Told, GoneTold
    <2>2. Some(a, {"removed"})
      BY <2>1 DEF Some
    <2>3. Some(a, {"removed"})'
      BY <1>1, <2>2
    <2> QED BY <2>3 DEF Some, Is
  <1>3. board[a] \in Board!Rows \/ board[a] = None
    BY DEF BoardTypes
  <1>4. PICK b : b = board'[a]
    OBVIOUS
  <1>5. b.home /\ b.status = 0 /\ (b.progress = IF board[a] = None THEN 0 ELSE board[a].progress)
    BY <1>3, <1>4 DEF Board!Born, Board!Row, Board!Rows
  <1>6. b # None
    <2>1. 0 \in Board!Versions
      BY DEF NothingOverlaps, Board!JobBoardAssumption, Board!Versions
    <2>2. b \in Board!Rows
      <3>1. CASE board[a] = None
        BY <1>4, <2>1, <3>1 DEF Board!Born, Board!Row, Board!Rows
      <3>2. CASE board[a] # None
        <4>1. b = [board[a] EXCEPT !.status = 0, !.home = TRUE] /\ board[a] \in Board!Rows
          BY <1>3, <1>4, <3>2 DEF Board!Born
        <4> QED BY <2>1, <4>1 DEF Board!Rows
      <3> QED BY <3>1, <3>2
    <2> QED BY <2>2 DEF NothingOverlaps, Board!JobBoardAssumption
  <1>7. agents[a] # None /\ ~Some(a, {"created", "status"})' => agents[a].status = 0
    <2> SUFFICES ASSUME agents[a] # None, ~Some(a, {"created", "status"})' PROVE agents[a].status = 0
      OBVIOUS
    <2>1. Latest(1, a, {"created", "status"}) /\ 1 \in 1..Len(events)
      BY <1>1, HeadNewest
    <2>2. events[1].version = 0
      BY <1>1, <2>1 DEF Told, BornAtZero
    <2> QED BY <2>1, <2>2 DEF Told, RowTold
  <1>8. ASSUME agents[a] # None, delayed[a] = None, ~Some(a, {"progress", "removed"})'
        PROVE  b.progress = agents[a].progress
    <2>1. ~Some(a, {"progress", "removed"}) /\ ~Some(a, {"progress"}) /\ Some(a, {"created", "removed"})
      BY <1>1, <1>8 DEF Some, Is
    <2>2. agents[a].progress = 0
      BY <1>8, <2>1 DEF Told, RowTold
    <2>3. board[a] # None => board[a].progress = agents[a].progress
      BY <1>8, <2>1 DEF Right
    <2> QED BY <1>5, <2>2, <2>3
  <1> QED BY <1>2, <1>4, <1>5, <1>6, <1>7, <1>8 DEF Right

LEMMA RemovedDelivered ==
    ASSUME BoardTypes, events # <<>>, events' = Tail(events), agents' = agents, NEW a \in Workers, Told(a),
           events[1].agent = a, events[1].kind = "removed", board'[a] = None
    PROVE  Right(a, board[a], delayed[a])'
  <1>1. \A K : /\ Is(1, a, K) <=> "removed" \in K
               /\ Some(a, K) => Some(a, K)' \/ "removed" \in K
    BY ShiftedSome DEF Is
  <1>2. agents[a] # None => Some(a, {"created"})' /\ Some(a, {"created", "status"})'
    <2> SUFFICES ASSUME agents[a] # None PROVE Some(a, {"created"})' /\ Some(a, {"created", "status"})'
      OBVIOUS
    <2>1. PICK j \in 1..Len(events) : j > 1 /\ Is(j, a, {"created"})
      BY <1>1, Shifted DEF Told, RowTold
    <2>2. Some(a, {"created"})
      BY <2>1 DEF Some
    <2>3. Some(a, {"created"})'
      BY <1>1, <2>2
    <2> QED BY <2>3 DEF Some, Is
  <1> QED BY <1>2 DEF Right

LEMMA ProgressDelivered ==
    ASSUME NothingOverlaps, BoardTypes, events # <<>>, events' = Tail(events), agents' = agents, NEW a \in Workers, Told(a),
           events[1].agent = a, events[1].kind = "progress",
           board'[a] = board[a], delayed'[a] = events[1].version
    PROVE  DelayRight(a)' /\ (Right(a, board[a], delayed[a]) => Right(a, board[a], delayed[a])')
  <1>1. \A K : /\ Is(1, a, K) <=> "progress" \in K
               /\ Some(a, K) => Some(a, K)' \/ "progress" \in K
               /\ "progress" \in K => Some(a, K)
    BY ShiftedSome DEF Is
  <1>2. events[1].version # None
    BY Shifted DEF Events, NothingOverlaps, Board!JobBoardAssumption
  <1>3. Some(a, {"status", "progress"}) /\ Some(a, {"progress"})
    BY <1>1
  <1>4. agents[a] # None /\ agents[a].progress > 0
    BY <1>3 DEF Told, GoneTold, RowTold
  <1>5. ~Some(a, {"progress"})' => events[1].version = agents[a].progress
    BY <1>1, <1>4, HeadNewest DEF Told, RowTold
  <1>6. DelayRight(a)'
    BY <1>4, <1>5 DEF DelayRight
  <1>7. /\ Some(a, {"created"}) => Some(a, {"created"})'
        /\ Some(a, {"created", "status"}) => Some(a, {"created", "status"})'
    BY <1>1
  <1>8. Right(a, board[a], delayed[a]) => Right(a, board[a], delayed[a])'
    BY <1>2, <1>4, <1>7 DEF Right
  <1> QED BY <1>6, <1>8

LEMMA StatusDelivered ==
    ASSUME NothingOverlaps, BoardTypes, events # <<>>, events' = Tail(events), agents' = agents, NEW a \in Workers, Told(a),
           events[1].agent = a, events[1].kind = "status", DelayRight(a), Right(a, board[a], delayed[a]),
           board[a] = None => board'[a] = None /\ delayed'[a] = delayed[a],
           board[a] # None => /\ board'[a] = [Board!Flushed(a) EXCEPT !.status = events[1].version, !.home = TRUE]
                              /\ delayed'[a] = None
    PROVE  Right(a, board[a], delayed[a])'
  <1>1. \A K : /\ Is(1, a, K) <=> "status" \in K
               /\ Some(a, K) => Some(a, K)' \/ "status" \in K
               /\ "status" \in K => Some(a, K)
    BY ShiftedSome DEF Is
  <1>2. agents[a] # None
    <2>1. Some(a, {"status", "progress"})
      BY <1>1
    <2> QED BY <2>1 DEF Told, GoneTold
  <1>3. CASE board[a] = None
    <2>1. Some(a, {"created"})
      BY <1>2, <1>3 DEF Right
    <2>2. Some(a, {"created"})'
      BY <1>1, <2>1
    <2>3. Some(a, {"created", "status"})'
      BY <2>2 DEF Some, Is
    <2> QED BY <1>2, <1>3, <2>2, <2>3 DEF Right
  <1>4. CASE board[a] # None
    <2>1. board[a] \in Board!Rows
      BY <1>4 DEF BoardTypes
    <2>2. PICK f : f = Board!Flushed(a)
      OBVIOUS
    <2>3. f = IF delayed[a] = None THEN board[a] ELSE [board[a] EXCEPT !.progress = delayed[a]]
      BY <1>4, <2>2 DEF Board!Flushed, Board!Patched
    <2>4. f \in Board!Rows /\ f.status = board[a].status
          /\ (f.progress = IF delayed[a] = None THEN board[a].progress ELSE delayed[a])
      BY <2>1, <2>3 DEF Board!Rows, BoardTypes
    <2>5. PICK b : b = [f EXCEPT !.status = events[1].version, !.home = TRUE]
      OBVIOUS
    <2>6. b \in Board!Rows /\ b.status = events[1].version /\ b.home /\ b.progress = f.progress
      BY <2>4, <2>5, Shifted DEF Board!Rows, Events
    <2>7. board'[a] = b /\ delayed'[a] = None
      BY <1>4, <2>2, <2>5
    <2>8. b # None
      BY <2>6 DEF NothingOverlaps, Board!JobBoardAssumption
    <2>9. ~Some(a, {"created", "status"})' => events[1].version = agents[a].status
      BY <1>1, <1>2, HeadNewest DEF Told, RowTold
    <2>10. ASSUME ~Some(a, {"progress", "removed"})' PROVE b.progress = agents[a].progress
      <3>1. ~Some(a, {"progress", "removed"}) /\ ~Some(a, {"progress"})
        BY <1>1, <2>10 DEF Some, Is
      <3>2. CASE delayed[a] = None
        BY <1>2, <1>4, <2>4, <2>6, <3>1, <3>2 DEF Right
      <3>3. CASE delayed[a] # None
        BY <2>4, <2>6, <3>1, <3>3 DEF DelayRight
      <3> QED BY <3>2, <3>3
    <2> QED BY <1>2, <2>6, <2>7, <2>8, <2>9, <2>10 DEF Right
  <1> QED BY <1>3, <1>4

LEMMA DeliverKeeps == ASSUME NothingOverlaps, BoardInv, Board!Deliver PROVE BoardInv'
  <1>a. PICK a : a = Head(events).agent
    OBVIOUS
  <1>b. PICK kind : kind = Head(events).kind
    OBVIOUS
  <1>1. /\ BoardTypes /\ events # <<>> /\ events' = Tail(events) /\ UNCHANGED <<agents, open, load>>
        /\ \A l \in Loads : load[l].step # "read"
    BY DEF BoardInv, Board!Deliver, Board!Apart, NothingOverlaps
  <1>2. /\ Head(events) = events[1] /\ a \in Workers /\ kind \in {"created", "status", "progress", "removed"}
        /\ events[1].version \in Board!Versions
    BY <1>a, <1>b, <1>1, Shifted DEF Events
  <1>3. ProjectOf(a) # open => UNCHANGED <<board, delayed>>
    BY <1>a, <1>b DEF Board!Deliver
  <1>4. ProjectOf(a) = open /\ kind = "created" =>
          /\ board' = [board EXCEPT ![a] = Board!Born(board[a])]
          /\ UNCHANGED delayed
    BY <1>a, <1>b DEF Board!Deliver
  <1>5. ProjectOf(a) = open /\ kind = "progress" =>
          delayed' = [delayed EXCEPT ![a] = Head(events).version] /\ UNCHANGED board
    BY <1>a, <1>b DEF Board!Deliver
  <1>6. ProjectOf(a) = open /\ kind = "removed" => board' = [board EXCEPT ![a] = None] /\ UNCHANGED delayed
    BY <1>a, <1>b DEF Board!Deliver
  <1>7. ProjectOf(a) = open /\ kind = "status" /\ board[a] = None => UNCHANGED <<board, delayed>>
    BY <1>a, <1>b DEF Board!Deliver
  <1>8. ProjectOf(a) = open /\ kind = "status" /\ board[a] # None =>
          /\ board' = [board EXCEPT ![a] = [Board!Flushed(a) EXCEPT !.status = Head(events).version, !.home = TRUE]]
          /\ delayed' = [delayed EXCEPT ![a] = None]
    BY <1>a, <1>b DEF Board!Deliver
  <1>9. \A x \in Workers : x # a => board'[x] = board[x] /\ delayed'[x] = delayed[x]
    BY <1>1, <1>2, <1>3, <1>4, <1>5, <1>6, <1>7, <1>8 DEF BoardTypes
  <1>10. \A x \in Workers : Told(x) /\ Told(x)'
    BY <1>1, ShiftedTold DEF BoardInv
  <1>11. BoardTypes'
    <2>1. 0 \in Board!Versions
      BY DEF NothingOverlaps, Board!JobBoardAssumption, Board!Versions
    <2>2. board' \in [Workers -> Board!Rows \cup {None}]
      <3>1. CASE ProjectOf(a) = open /\ kind = "created"
        <4>1. PICK b : b = Board!Born(board[a])
          OBVIOUS
        <4>2. b \in Board!Rows
          <5>1. CASE board[a] = None
            BY <2>1, <4>1, <5>1 DEF Board!Born, Board!Row, Board!Rows
          <5>2. CASE board[a] # None
            <6>1. b = [board[a] EXCEPT !.status = 0, !.home = TRUE] /\ board[a] \in Board!Rows
              BY <1>1, <1>2, <4>1, <5>2 DEF Board!Born, BoardTypes
            <6> QED BY <2>1, <6>1 DEF Board!Rows
          <5> QED BY <5>1, <5>2
        <4>3. board' = [board EXCEPT ![a] = b]
          BY <1>4, <3>1, <4>1
        <4> QED BY <1>1, <4>2, <4>3 DEF BoardTypes
      <3>2. CASE ProjectOf(a) = open /\ kind = "status" /\ board[a] # None
        <4>1. board[a] \in Board!Rows
          BY <1>1, <1>2, <3>2 DEF BoardTypes
        <4>2. PICK f : f = Board!Flushed(a)
          OBVIOUS
        <4>3. f = IF delayed[a] = None THEN board[a] ELSE [board[a] EXCEPT !.progress = delayed[a]]
          BY <3>2, <4>2 DEF Board!Flushed, Board!Patched
        <4>4. f \in Board!Rows
          BY <1>1, <1>2, <4>1, <4>3 DEF Board!Rows, BoardTypes
        <4>5. PICK b : b = [f EXCEPT !.status = events[1].version, !.home = TRUE]
          OBVIOUS
        <4>6. b \in Board!Rows
          BY <1>2, <4>4, <4>5 DEF Board!Rows
        <4>7. board' = [board EXCEPT ![a] = b]
          BY <1>2, <1>8, <3>2, <4>2, <4>5
        <4> QED BY <1>1, <4>6, <4>7 DEF BoardTypes
      <3>3. CASE ProjectOf(a) = open /\ kind = "removed"
        BY <1>1, <1>6, <3>3 DEF BoardTypes
      <3>4. CASE \/ ProjectOf(a) # open
                 \/ ProjectOf(a) = open /\ kind = "progress"
                 \/ ProjectOf(a) = open /\ kind = "status" /\ board[a] = None
        BY <1>1, <1>3, <1>5, <1>7, <3>4 DEF BoardTypes
      <3> QED BY <1>2, <3>1, <3>2, <3>3, <3>4
    <2>3. delayed' \in [Workers -> Board!Versions \cup {None}]
      BY <1>1, <1>2, <1>3, <1>4, <1>5, <1>6, <1>7, <1>8 DEF BoardTypes
    <2>4. events' \in Seq(Events)
      BY <1>1, Shifted
    <2> QED BY <1>1, <2>2, <2>3, <2>4 DEF BoardTypes
  <1>12. ASSUME NEW x \in Here, x # a PROVE DelayRight(x)' /\ (Right(x, board[x], delayed[x]) => Right(x, board[x], delayed[x])')
    <2>1. x \in Workers /\ ~ \E K : Is(1, x, K)
      BY <1>a, <1>2, <1>12 DEF Here, Is
    <2>2. \A K : Some(x, K)' <=> Some(x, K)
      BY <1>1, <2>1, ShiftedSome
    <2>3. DelayRight(x)'
      BY <1>1, <1>9, <1>12, <2>1, <2>2 DEF BoardInv, DelayRight
    <2>4. Right(x, board[x], delayed[x]) => Right(x, board[x], delayed[x])'
      BY <1>1, <1>9, <1>12, <2>1, <2>2 DEF Right
    <2> QED BY <2>3, <2>4
  <1>13. ASSUME a \in Here PROVE DelayRight(a)' /\ (Right(a, board[a], delayed[a]) => Right(a, board[a], delayed[a])')
    <2>1. ProjectOf(a) = open /\ a \in Workers /\ Told(a) /\ DelayRight(a) /\ events[1].agent = a /\ events[1].kind = kind
      BY <1>a, <1>b, <1>2, <1>10, <1>13 DEF BoardInv, Here
    <2>2. kind # "progress" => (Some(a, {"progress"})' <=> Some(a, {"progress"}))
      BY <1>1, <2>1, ShiftedSome DEF Is
    <2>3. CASE kind = "created"
      <3>1. board'[a] = Board!Born(board[a])
        BY <1>1, <1>4, <2>1, <2>3 DEF BoardTypes
      <3>2. delayed'[a] = delayed[a]
        BY <1>4, <2>1, <2>3
      <3>3. DelayRight(a)'
        BY <1>1, <2>1, <2>2, <2>3, <3>2 DEF DelayRight
      <3> QED BY <1>1, <2>1, <2>3, <3>1, <3>2, <3>3, CreatedDelivered
    <2>4. CASE kind = "removed"
      <3>1. board'[a] = None /\ delayed'[a] = delayed[a]
        BY <1>1, <1>6, <2>1, <2>4 DEF BoardTypes
      <3>2. DelayRight(a)'
        BY <1>1, <2>1, <2>2, <2>4, <3>1 DEF DelayRight
      <3> QED BY <1>1, <2>1, <2>4, <3>1, <3>2, RemovedDelivered
    <2>5. CASE kind = "progress"
      <3>1. board'[a] = board[a] /\ delayed'[a] = events[1].version
        BY <1>1, <1>2, <1>5, <2>1, <2>5 DEF BoardTypes
      <3> QED BY <1>1, <2>1, <2>5, <3>1, ProgressDelivered
    <2>6. CASE kind = "status"
      <3>1. board[a] = None => board'[a] = None /\ delayed'[a] = delayed[a]
        BY <1>7, <2>1, <2>6
      <3>1a. board[a] # None => /\ board'[a] = [Board!Flushed(a) EXCEPT !.status = events[1].version, !.home = TRUE]
                                /\ delayed'[a] = None
        <4> SUFFICES ASSUME board[a] # None
                     PROVE  /\ board'[a] = [Board!Flushed(a) EXCEPT !.status = events[1].version, !.home = TRUE]
                            /\ delayed'[a] = None
          OBVIOUS
        <4>1. PICK b : b = [Board!Flushed(a) EXCEPT !.status = events[1].version, !.home = TRUE]
          OBVIOUS
        <4>2. board' = [board EXCEPT ![a] = b] /\ delayed' = [delayed EXCEPT ![a] = None]
          BY <1>2, <1>8, <2>1, <2>6, <4>1
        <4>3. board'[a] = b /\ delayed'[a] = None
          BY <1>1, <2>1, <4>2 DEF BoardTypes
        <4> QED BY <4>1, <4>3
      <3>2. DelayRight(a)'
        <4>1. delayed'[a] = delayed[a] \/ delayed'[a] = None
          BY <3>1, <3>1a
        <4> QED BY <1>1, <2>1, <2>2, <2>6, <4>1 DEF DelayRight
      <3> QED BY <1>1, <2>1, <2>6, <3>1, <3>1a, <3>2, StatusDelivered
    <2> QED BY <1>2, <2>3, <2>4, <2>5, <2>6
  <1>14. Here' = Here /\ \A x \in Here : DelayRight(x)' /\ (Right(x, board[x], delayed[x]) => Right(x, board[x], delayed[x])')
    BY <1>1, <1>12, <1>13 DEF Here
  <1>15. ((\A l \in Loads : load[l].step = "idle") => \A x \in Here : Right(x, board[x], delayed[x]))'
    BY <1>1, <1>14 DEF BoardInv
  <1>16. (\A l \in Loads : load[l].step # "idle" => load[l].project = open)'
    BY <1>1 DEF BoardInv
  <1>17. (\A l \in Loads : load[l].step = "read" => \A x \in Here : Right(x, load[l].rows[x], None))'
    BY <1>1
  <1> QED BY <1>10, <1>11, <1>14, <1>15, <1>16, <1>17 DEF BoardInv

-----------------------------------------------------------------------------
(* Loads, and the debounce. *)

LEMMA BegunLoad ==
    ASSUME BoardTypes, NEW l \in Loads, NEW p \in Projects, Board!Begin(l, p)
    PROVE  /\ load[l].step = "idle" /\ load'[l].step = "sent" /\ load'[l].project = p
           /\ \A k \in Loads : k # l => load'[k] = load[k]
           /\ load' \in [Loads -> [step : {"idle", "sent", "read"}, project : Projects,
                                   rows : [Workers -> Board!Rows \cup {None}]]]
  <1>1. PICK r : r = [Board!NoLoad EXCEPT !.step = "sent", !.project = p]
    OBVIOUS
  <1>2. /\ r.step = "sent" /\ r.project = p
        /\ r \in [step : {"idle", "sent", "read"}, project : Projects, rows : [Workers -> Board!Rows \cup {None}]]
    BY <1>1 DEF Board!NoLoad
  <1>3. load' = [load EXCEPT ![l] = r] /\ load[l].step = "idle"
    BY <1>1 DEF Board!Begin
  <1> QED BY <1>2, <1>3 DEF BoardTypes

LEMMA SwitchKeeps ==
    ASSUME NothingOverlaps, BoardInv, NEW l \in Loads, NEW p \in Projects, Board!Switch(l, p) PROVE BoardInv'
  <1>1. /\ BoardTypes /\ open' = p /\ UNCHANGED <<agents, events, board, delayed>> /\ Board!Begin(l, p)
        /\ \A a \in Workers : ProjectOf(a) = p => delayed[a] = None
        /\ load = [k \in Loads |-> Board!NoLoad]
    BY DEF BoardInv, NothingOverlaps, Board!Switch
  <1>2. \A k \in Loads : load[k].step = "idle"
    BY <1>1 DEF Board!NoLoad
  <1>3. /\ load[l].step = "idle" /\ load'[l].step = "sent" /\ load'[l].project = p
        /\ \A k \in Loads : k # l => load'[k] = load[k]
        /\ load' \in [Loads -> [step : {"idle", "sent", "read"}, project : Projects,
                                rows : [Workers -> Board!Rows \cup {None}]]]
    BY <1>1, BegunLoad
  <1>4. BoardTypes'
    BY <1>1, <1>3 DEF BoardTypes
  <1>5. \A a \in Workers : Told(a)'
    BY <1>1 DEF BoardInv, Told, Ordered, GoneTold, RowTold, BornAtZero, Some, Latest, Is
  <1>6. (\A a \in Here : DelayRight(a))'
    BY <1>1 DEF Here, DelayRight
  <1>7. (\A k \in Loads : load[k].step # "idle" => load[k].project = open)'
    BY <1>1, <1>2, <1>3
  <1>8. \A k \in Loads : load'[k].step # "read"
    BY <1>2, <1>3
  <1>9. ~ \A k \in Loads : load'[k].step = "idle"
    BY <1>3
  <1> QED BY <1>4, <1>5, <1>6, <1>7, <1>8, <1>9 DEF BoardInv

LEMMA ReconnectKeeps ==
    ASSUME NothingOverlaps, BoardInv, NEW l \in Loads, Board!Reconnect(l) PROVE BoardInv'
  <1>1. /\ BoardTypes /\ events' = <<>> /\ UNCHANGED <<agents, open, board, delayed>> /\ Board!Begin(l, open)
        /\ \A a \in Workers : delayed[a] = None
        /\ \A k \in Loads : load[k].step # "read"
    BY DEF BoardInv, NothingOverlaps, Board!Reconnect, Board!Apart
  <1>2. /\ load[l].step = "idle" /\ load'[l].step = "sent" /\ load'[l].project = open
        /\ \A k \in Loads : k # l => load'[k] = load[k]
        /\ load' \in [Loads -> [step : {"idle", "sent", "read"}, project : Projects,
                                rows : [Workers -> Board!Rows \cup {None}]]]
    <2>1. open \in Projects
      BY <1>1 DEF BoardTypes
    <2> QED BY <1>1, <2>1, BegunLoad
  <1>3. events' \in Seq(Events) /\ Len(events') = 0
    BY <1>1
  <1>4. BoardTypes'
    BY <1>1, <1>2, <1>3 DEF BoardTypes
  <1>5. \A K, a : ~Some(a, K)'
    BY <1>3 DEF Some
  <1>6. \A a \in Workers : Told(a)'
    <2> SUFFICES ASSUME NEW a \in Workers PROVE Told(a)'
      OBVIOUS
    <2>1. agents[a] # None => agents[a].home
      BY DEF BoardInv, Told, RowTold
    <2>2. RowTold(a)'
      BY <1>1, <1>3, <1>5, <2>1 DEF RowTold
    <2> QED BY <1>3, <1>5, <2>2 DEF Told, Ordered, GoneTold, BornAtZero
  <1>7. (\A a \in Here : DelayRight(a))'
    BY <1>1 DEF Here, DelayRight
  <1>8. (\A k \in Loads : load[k].step # "idle" => load[k].project = open)'
    BY <1>1, <1>2 DEF BoardInv
  <1>9. \A k \in Loads : load'[k].step # "read"
    BY <1>1, <1>2
  <1>10. ~ \A k \in Loads : load'[k].step = "idle"
    BY <1>2
  <1> QED BY <1>4, <1>6, <1>7, <1>8, <1>9, <1>10 DEF BoardInv

LEMMA ReadKeeps ==
    ASSUME NothingOverlaps, BoardInv, NEW l \in Loads, Board!Read(l) PROVE BoardInv'
  <1>1. BoardTypes /\ UNCHANGED <<agents, events, open, board, delayed>> /\ load[l].step = "sent" /\ load[l].project = open
    BY DEF BoardInv, Board!Read
  <1>2. PICK answer : answer = [a \in Workers |-> IF ProjectOf(a) = load[l].project THEN agents[a] ELSE None]
    OBVIOUS
  <1>3. answer \in [Workers -> Board!Rows \cup {None}] /\ \A a \in Here : answer[a] = agents[a]
    BY <1>1, <1>2 DEF BoardTypes, Here
  <1>4. PICK r : r = [load[l] EXCEPT !.step = "read", !.rows = answer]
    OBVIOUS
  <1>5. load' = [load EXCEPT ![l] = r]
    BY <1>1, <1>2, <1>4 DEF Board!Read, BoardTypes
  <1>6. /\ r.step = "read" /\ r.project = open /\ r.rows = answer
        /\ r \in [step : {"idle", "sent", "read"}, project : Projects, rows : [Workers -> Board!Rows \cup {None}]]
    BY <1>1, <1>3, <1>4 DEF BoardTypes
  <1>7. load'[l] = r /\ \A k \in Loads : k # l => load'[k] = load[k]
    BY <1>1, <1>5 DEF BoardTypes
  <1>8. BoardTypes'
    BY <1>1, <1>5, <1>6 DEF BoardTypes
  <1>9. \A a \in Workers : Told(a)'
    BY <1>1 DEF BoardInv, Told, Ordered, GoneTold, RowTold, BornAtZero, Some, Latest, Is
  <1>10. (\A a \in Here : DelayRight(a))'
    BY <1>1 DEF BoardInv, Here, DelayRight, Some, Is
  <1>11. (\A k \in Loads : load[k].step # "idle" => load[k].project = open)'
    BY <1>1, <1>6, <1>7 DEF BoardInv
  <1>12. ASSUME NEW a \in Here PROVE Right(a, answer[a], None)
    <2>1. Told(a) /\ answer[a] = agents[a] /\ a \in Workers
      BY <1>3 DEF BoardInv, Here
    <2>2. CASE agents[a] = None
      BY <2>1, <2>2 DEF Right
    <2>3. CASE agents[a] # None
      BY <2>1, <2>3 DEF Right, Told, RowTold
    <2> QED BY <2>2, <2>3
  <1>13. \A k \in Loads : load'[k].step = "read" => \A a \in Here : Right(a, load'[k].rows[a], None)
    BY <1>6, <1>7, <1>12 DEF BoardInv
  <1>14. (\A k \in Loads : load[k].step = "read" => \A a \in Here : Right(a, load[k].rows[a], None))'
    BY <1>1, <1>13 DEF Here, Right, Some, Is
  <1>15. ~ \A k \in Loads : load'[k].step = "idle"
    BY <1>6, <1>7
  <1> QED BY <1>8, <1>9, <1>10, <1>11, <1>14, <1>15 DEF BoardInv

LEMMA SetJobsKeeps ==
    ASSUME NothingOverlaps, BoardInv, NEW l \in Loads, Board!SetJobs(l) PROVE BoardInv'
  <1>1. /\ BoardTypes /\ UNCHANGED <<agents, events, open, delayed>> /\ load[l].step = "read"
        /\ board' = load[l].rows /\ load' = [load EXCEPT ![l] = Board!NoLoad]
    BY DEF BoardInv, Board!SetJobs
  <1>2. Board!NoLoad.step = "idle" /\ Board!NoLoad.rows = [a \in Workers |-> None]
    BY DEF Board!NoLoad
  <1>3. load'[l].step = "idle" /\ \A k \in Loads : k # l => load'[k] = load[k]
    BY <1>1, <1>2 DEF BoardTypes
  <1>4. BoardTypes'
    <2>1. Projects # {}
      BY <1>1 DEF BoardTypes
    <2>2. Board!NoLoad.project \in Projects
      BY <2>1 DEF Board!NoLoad
    <2>3. Board!NoLoad \in [step : {"idle", "sent", "read"}, project : Projects, rows : [Workers -> Board!Rows \cup {None}]]
      BY <1>2, <2>2 DEF Board!NoLoad
    <2> QED BY <1>1, <2>3 DEF BoardTypes
  <1>5. \A a \in Workers : Told(a)'
    BY <1>1 DEF BoardInv, Told, Ordered, GoneTold, RowTold, BornAtZero, Some, Latest, Is
  <1>6. (\A a \in Here : DelayRight(a))'
    BY <1>1 DEF BoardInv, Here, DelayRight, Some, Is
  <1>7. (\A k \in Loads : load[k].step # "idle" => load[k].project = open)'
    BY <1>1, <1>3 DEF BoardInv
  <1>8. \A k \in Loads : load'[k].step = "read" => \A a \in Here : Right(a, load'[k].rows[a], None)
    BY <1>3 DEF BoardInv
  <1>9. (\A k \in Loads : load[k].step = "read" => \A a \in Here : Right(a, load[k].rows[a], None))'
    BY <1>1, <1>8 DEF Here, Right, Some, Is
  <1>10. \A a \in Here : Right(a, load[l].rows[a], delayed[a])
    BY <1>1 DEF BoardInv, Right
  <1>11. (\A a \in Here : Right(a, board[a], delayed[a]))'
    BY <1>1, <1>10 DEF Here, Right, Some, Is
  <1> QED BY <1>4, <1>5, <1>6, <1>7, <1>9, <1>11 DEF BoardInv

LEMMA FlushKeeps == ASSUME NothingOverlaps, BoardInv, Board!Flush PROVE BoardInv'
  <1>1. /\ BoardTypes /\ UNCHANGED <<agents, events, open, load>>
        /\ board' = [a \in Workers |-> Board!Flushed(a)] /\ delayed' = [a \in Workers |-> None]
    BY DEF BoardInv, Board!Flush
  <1>2. ASSUME NEW a \in Workers
        PROVE  /\ Board!Flushed(a) \in Board!Rows \cup {None}
               /\ delayed[a] = None => Board!Flushed(a) = board[a]
               /\ delayed[a] # None =>
                    /\ Board!Flushed(a).progress = delayed[a]
                    /\ board[a] # None => Board!Flushed(a).status = board[a].status /\ Board!Flushed(a).home = board[a].home
    <2>1. CASE delayed[a] = None
      BY <1>1, <2>1 DEF Board!Flushed, BoardTypes
    <2>2. CASE delayed[a] # None /\ board[a] = None
      <3>1. delayed[a] \in Board!Versions /\ 0 \in Board!Versions
        BY <1>1, <2>2 DEF BoardTypes, NothingOverlaps, Board!JobBoardAssumption, Board!Versions
      <3> QED BY <2>2, <3>1 DEF Board!Flushed, Board!Patched, Board!Row, Board!Rows
    <2>3. CASE delayed[a] # None /\ board[a] # None
      <3>1. delayed[a] \in Board!Versions /\ board[a] \in Board!Rows
        BY <1>1, <2>3 DEF BoardTypes
      <3>2. Board!Flushed(a) = [board[a] EXCEPT !.progress = delayed[a]]
        BY <2>3 DEF Board!Flushed, Board!Patched
      <3> QED BY <2>3, <3>1, <3>2 DEF Board!Rows
    <2> QED BY <2>1, <2>2, <2>3
  <1>3. BoardTypes'
    BY <1>1, <1>2 DEF BoardTypes
  <1>4. \A a \in Workers : Told(a)'
    BY <1>1 DEF BoardInv, Told, Ordered, GoneTold, RowTold, BornAtZero, Some, Latest, Is
  <1>5. (\A a \in Here : DelayRight(a))'
    BY <1>1 DEF Here, DelayRight
  <1>6. (\A k \in Loads : load[k].step # "idle" => load[k].project = open)'
    BY <1>1 DEF BoardInv
  <1>7. (\A k \in Loads : load[k].step = "read" => \A a \in Here : Right(a, load[k].rows[a], None))'
    BY <1>1 DEF BoardInv, Here, Right, Some, Is
  <1>8. ASSUME NEW a \in Here, Right(a, board[a], delayed[a]) PROVE Right(a, board'[a], None)
    <2>1. a \in Workers /\ DelayRight(a) /\ board'[a] = Board!Flushed(a)
      BY <1>1 DEF BoardInv, Here
    <2>2. CASE delayed[a] = None
      BY <1>2, <1>8, <2>1, <2>2
    <2>3. CASE delayed[a] # None
      <3>1. agents[a] # None /\ (~Some(a, {"progress"}) => delayed[a] = agents[a].progress)
        BY <2>1, <2>3 DEF DelayRight
      <3>2. board'[a].progress = delayed[a]
        BY <1>2, <2>1, <2>3
      <3>3. ~Some(a, {"progress", "removed"}) => ~Some(a, {"progress"})
        BY DEF Some, Is
      <3>4. CASE board[a] = None
        <4>1. Some(a, {"created"}) /\ Some(a, {"created", "status"})
          BY <1>8, <3>1, <3>4 DEF Right, Some, Is
        <4> QED BY <3>1, <3>2, <3>3, <4>1 DEF Right
      <3>5. CASE board[a] # None
        <4>1. board'[a].status = board[a].status /\ board'[a].home = board[a].home /\ board'[a] # None
          <5>1. delayed[a] \in Board!Versions /\ board[a] \in Board!Rows
            BY <1>1, <2>1, <2>3, <3>5 DEF BoardTypes
          <5>2. board'[a] = [board[a] EXCEPT !.progress = delayed[a]]
            BY <2>1, <2>3, <3>5 DEF Board!Flushed, Board!Patched
          <5>3. board'[a] \in Board!Rows
            BY <5>1, <5>2 DEF Board!Rows
          <5> QED BY <1>2, <2>1, <2>3, <3>5, <5>3 DEF NothingOverlaps, Board!JobBoardAssumption
        <4> QED BY <1>8, <3>1, <3>2, <3>3, <3>5, <4>1 DEF Right
      <3> QED BY <3>4, <3>5
    <2> QED BY <2>2, <2>3
  <1>9. ((\A l \in Loads : load[l].step = "idle") => \A a \in Here : Right(a, board[a], delayed[a]))'
    <2> SUFFICES ASSUME \A l \in Loads : load[l].step = "idle", NEW a \in Here, Right(a, board'[a], None)
                 PROVE  Right(a, board[a], delayed[a])'
      BY <1>1, <1>8 DEF BoardInv, Here
    <2>1. delayed'[a] = None
      BY <1>1 DEF Here
    <2> QED BY <1>1, <2>1 DEF Right, Some, Is
  <1> QED BY <1>3, <1>4, <1>5, <1>6, <1>7, <1>9 DEF BoardInv

LEMMA BoardStutters == ASSUME BoardInv, UNCHANGED Board!vars PROVE BoardInv'
  BY DEF BoardInv, BoardTypes, Told, Ordered, GoneTold, RowTold, BornAtZero, DelayRight, Right, Here, Some, Latest, Is,
         Board!vars

(* At rest the open project's agents are shown as the server holds them:  *)
(* for any number of agents, projects and loads, after removals, switches,  *)
(* lost sockets and debounced progress, as long as nothing overlaps a load. *)
THEOREM RowsSettleHolds == ASSUME NothingOverlaps PROVE Board!Spec => []Board!RowsSettle
  <1>1. Board!Init => BoardInv
    BY BoardStarts
  <1>2. BoardInv /\ [Board!Next]_Board!vars => BoardInv'
    <2> SUFFICES ASSUME BoardInv, [Board!Next]_Board!vars PROVE BoardInv'
      OBVIOUS
    <2>1. ASSUME NEW a \in Workers, Board!Create(a) \/ Board!SetStatus(a) \/ Board!Report(a) \/ Board!Delete(a)
          PROVE  BoardInv'
      BY <2>1, CreateKeeps, StatusKeeps, ReportKeeps, DeleteKeeps
    <2>2. ASSUME NEW l \in Loads, \/ Board!Reconnect(l) \/ Board!Read(l) \/ Board!SetJobs(l)
                                  \/ \E p \in Projects : Board!Switch(l, p)
          PROVE  BoardInv'
      BY <2>2, ReconnectKeeps, ReadKeeps, SetJobsKeeps, SwitchKeeps
    <2>3. CASE Board!Deliver \/ Board!Flush
      BY <2>3, DeliverKeeps, FlushKeeps
    <2>4. CASE UNCHANGED Board!vars
      BY <2>4, BoardStutters
    <2> QED BY <2>1, <2>2, <2>3, <2>4 DEF Board!Next
  <1>3. BoardInv => Board!RowsSettle
    BY BoardSettled
  <1> QED BY <1>1, <1>2, <1>3, PTL DEF Board!Spec

-----------------------------------------------------------------------------
(* The composition of MCMessages.  Each part moves by itself, so every     *)
(* behaviour is one of each module, and what holds of the module holds of  *)
(* the composition, whatever the constants of the others.                  *)

LEMMA EachMoves ==
    ASSUME [MCNext]_allVars
    PROVE  /\ [Next]_vars /\ [Todo!Next]_(Todo!vars) /\ [Socket!Next]_(Socket!vars)
           /\ [List!Next]_(List!vars) /\ [Flags!Next]_(Flags!vars) /\ [Board!Next]_(Board!vars)
  <1>1. /\ Next \/ UNCHANGED vars
        /\ Todo!Next \/ UNCHANGED todoVars
        /\ Socket!Next \/ UNCHANGED socketVars
        /\ List!Next \/ UNCHANGED listVars
        /\ Flags!Next \/ UNCHANGED flagVars
        /\ Board!Next \/ UNCHANGED boardVars
    <2>1. CASE MCNext
      BY <2>1, Zenon DEF MCNext, Only
    <2>2. CASE UNCHANGED allVars
      BY <2>2 DEF allVars
    <2> QED BY <2>1, <2>2
  <1>2. [Next]_vars
    BY <1>1
  <1>3. UNCHANGED todoVars => UNCHANGED Todo!vars
    BY DEF todoVars, Todo!vars
  <1>4. UNCHANGED socketVars => UNCHANGED Socket!vars
    BY DEF socketVars, Socket!vars, Socket!storeVars, Socket!wireVars, Socket!subVars, Socket!pageVars
  <1>5. UNCHANGED listVars => UNCHANGED List!vars
    BY DEF listVars, List!vars, List!pageVars, List!listVars, List!serverVars
  <1>6. UNCHANGED flagVars => UNCHANGED Flags!vars
    BY DEF flagVars, Flags!vars
  <1>7. UNCHANGED boardVars => UNCHANGED Board!vars
    BY DEF boardVars, Board!vars
  <1> QED BY <1>1, <1>2, <1>3, <1>4, <1>5, <1>6, <1>7

LEMMA EachStarts ==
    MCInit => Init /\ Todo!Init /\ Socket!Init /\ List!Init /\ Flags!Init /\ Board!Init
  BY DEF MCInit

LEMMA EachRuns == MCSpec => Todo!Spec /\ List!Spec /\ Flags!Spec /\ Board!Spec
  <1>1. [MCNext]_allVars => /\ [Todo!Next]_(Todo!vars) /\ [List!Next]_(List!vars)
                            /\ [Flags!Next]_(Flags!vars) /\ [Board!Next]_(Board!vars)
    BY EachMoves
  <1> QED BY <1>1, EachStarts, PTL DEF MCSpec, Todo!Spec, List!Spec, Flags!Spec, Board!Spec

(* The behaviours of HubThread in which no thread is deleted, among those   *)
(* of the composition: the bound thread both agents learned stays the one.  *)
Meets == HubShape /\ ReadInv /\ (part = "rendezvous" => MeetInv)

LEMMA MeetsStep == ASSUME Interleaved = FALSE, Meets, [MCNext]_allVars PROVE Meets'
  <1>1. [Next]_vars
    BY EachMoves
  <1>0. HubShape /\ ReadInv
    BY DEF Meets
  <1>2. HubShape' /\ ReadInv'
    BY <1>0, <1>1, HubStep, Zenon
  <1>3. ASSUME part' = "rendezvous" PROVE MeetInv'
    <2>1. CASE UNCHANGED allVars
      <3>1. part = "rendezvous" /\ UNCHANGED vars
        BY <1>3, <2>1 DEF allVars
      <3>2. UNCHANGED <<thread, tick, post, resolver, known>>
        BY <3>1 DEF vars
      <3> QED BY <3>1, <3>2, MeetKept DEF Meets, Open
    <2>2. CASE MCNext
      <3>1. part = "rendezvous" /\ ((Next /\ Meeting) \/ UNCHANGED vars)
        BY <1>3, <2>2 DEF MCNext, Only
      <3>2. CASE UNCHANGED vars
        <4>1. UNCHANGED <<thread, tick, post, resolver, known>>
          BY <3>2 DEF vars
        <4> QED BY <3>1, <4>1, MeetKept DEF Meets, Open
      <3>3. CASE Next /\ Meeting
        <4>1. ASSUME NEW t \in Threads, Delete(t) PROVE FALSE
          <5>1. thread' = [thread EXCEPT ![t].state = "deleted"]
            BY <4>1 DEF Delete
          <5>2. thread'[t].state = "deleted"
            BY <5>1 DEF Meets, HubShape, TypeOK
          <5> QED BY <3>3, <5>2 DEF Meeting
        <4> QED BY <3>1, <3>3, <4>1, <1>1, MeetStep DEF Meets
      <3> QED BY <3>1, <3>2, <3>3
    <2> QED BY <2>1, <2>2
  <1> QED BY <1>2, <1>3 DEF Meets

(* Where no thread is deleted, the user's decision is posted on the thread  *)
(* the agents were told to read, for any number of agents, threads and      *)
(* posts, as long as one call at a time opens the bound thread.             *)
THEOREM DecisionsMeetHolds == ASSUME Interleaved = FALSE PROVE MCSpec => []DecisionsMeet
  <1>1. MCInit => Meets
    BY EachStarts, HubInit, MeetInit DEF Meets
  <1>2. Meets /\ [MCNext]_allVars => Meets'
    BY MeetsStep, Zenon
  <1>3. Meets => DecisionsMeet
    BY DEF Meets, DecisionsMeet, MeetInv, DecisionOnKnownThread, Open, HubShape, TypeOK
  <1> QED BY <1>1, <1>2, <1>3, PTL DEF MCSpec

(* No two rows of the todo list share the number it is sorted by, as long  *)
(* as every list has content behind its first place.                       *)
THEOREM OrderKeptComposed == ASSUME Anchors PROVE MCSpec => []OrderKept
  <1>1. Todo!Spec => []Todo!OrderKept
    BY OrderKeptHolds, InstancesFit
  <1> QED BY <1>1, EachRuns, PTL DEF OrderKept

(* No report loses completed work.                                         *)
THEOREM CompletedKeptComposed == ASSUME NoEmptyWork PROVE MCSpec => CompletedKept
  <1>1. Todo!Spec => Todo!CompletedKept
    BY CompletedKeptHolds, InstancesFit
  <1> QED BY <1>1, EachRuns, PTL DEF CompletedKept

(* A working connection is subscribed to what its pages pinned.            *)
THEOREM SubscriptionsAgreeComposed ==
    ASSUME IsFiniteSet(Entities) PROVE MCSpec => []SubscriptionsAgree
  <1>1. MCInit => SocketInv
    BY EachStarts, SocketStarts, InstancesFit DEF Socket!LiveSocketAssumption
  <1>2. SocketInv /\ [MCNext]_allVars => SocketInv'
    BY EachMoves, SocketSteps, InstancesFit
  <1>3. SocketInv => SubscriptionsAgree
    BY Agreed DEF SubscriptionsAgree
  <1> QED BY <1>1, <1>2, <1>3, PTL DEF MCSpec

(* The project list comes to rest on the answer to the last query.         *)
THEOREM ListSettledComposed == ASSUME "stray" \notin PageOps PROVE MCSpec => []ListSettled
  <1>1. List!Spec => []List!ListSettled
    BY ListSettledHolds, InstancesFit
  <1> QED BY <1>1, EachRuns, PTL DEF ListSettled

(* The project page comes to rest on what the server holds: its staging     *)
(* flags and its agents, together.                                          *)
THEOREM PageSettledHolds ==
    ASSUME PlainOps, BoardOps \intersect {"hasty", "overlap", "overtake"} = {}
    PROVE  MCSpec => []PageSettled
  <1>1. Flags!Spec => []Flags!FlagsCatchUp
    BY FlagsCatchUpHolds
  <1>2. Board!Spec => []Board!RowsSettle
    BY RowsSettleHolds, InstancesFit DEF NothingOverlaps
  <1> QED BY <1>1, <1>2, EachRuns, PTL DEF PageSettled

==============================================================================
