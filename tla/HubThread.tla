------------------------------ MODULE HubThread ------------------------------
(***************************************************************************)
(* The threads of the message hub: how a project's bound thread is         *)
(* resolved or minted, how a post is addressed and committed, how a        *)
(* participant drains its unread posts, and the completion gate and loop   *)
(* directives that read the same tables (comm_thread_service.py,           *)
(* comm_thread_repository.py, agent_completion_repository.py).             *)
(*                                                                         *)
(* A post and a thread are named by the time their transaction STARTED:    *)
(* created_at is the database's now(), which is that time, while the row   *)
(* becomes visible only when the transaction commits.                      *)
(***************************************************************************)
EXTENDS Integers, FiniteSets, FiniteSetsExt

CONSTANTS
    Agents,       \* the agents that read and post
    Roster,       \* those of them the project's broadcast enrols by itself
    User,         \* an author that is not an agent
    Authors,      \* who posts
    Everyone,     \* the addressee of a broadcast
    Slots,        \* the reads one agent may have open at once
    Resolvers,    \* the calls that resolve the bound thread
    MaxPosts,     \* bound: posts ever begun
    MaxThreads,   \* bound: threads ever begun
    Kinds,        \* the posts callers make: [to, action, loop, status]
    ReadKinds,    \* the reads they make: "unread", "full", "directed", "tail"
    DrainKind,    \* the read an agent keeps repeating
    Ops,          \* the optional operations: "organic", "delete", "abort"
    Interleaved   \* may posts commit out of order, and two calls mint at once?

ASSUME HubAssumption ==
    /\ Roster \subseteq Agents /\ Authors \subseteq Agents \cup {User}
    /\ User \notin Agents /\ Everyone \notin Agents
    /\ MaxPosts \in Nat /\ MaxThreads \in Nat
    /\ Kinds \subseteq [to : Agents \cup {Everyone}, action : BOOLEAN, loop : BOOLEAN,
                        status : {"keep", "resolved", "open"}]
    /\ ReadKinds \subseteq {"unread", "full", "directed", "tail"} /\ DrainKind \in ReadKinds
    /\ Interleaved \in BOOLEAN

VARIABLES
    thread,    \* comm_threads
    tick,      \* the start time of the next transaction that mints a thread
    post,      \* messages with their recipients
    joined,    \* comm_participants
    cursor,    \* comm_participants.last_read_at, zero when NULL
    acked,     \* message_acknowledgments
    reader,    \* the open get_thread_history(mark_read) calls
    resolver,  \* the open resolve_or_create_bound_thread calls
    known,     \* the coordination thread an agent's mission named, or zero
    looping    \* the threads an agent wakes up for, as its last poll said

vars == <<thread, tick, post, joined, cursor, acked, reader, resolver, known, looping>>

Threads == 1..MaxThreads
Posts == 1..MaxPosts
Calls == Agents \X Slots
NoThread == [state |-> "unused", marker |-> FALSE, closed |-> FALSE]
NoPost == [phase |-> "none", thread |-> 0, to |-> {}, enrols |-> {}, action |-> FALSE,
           loop |-> FALSE, status |-> "keep", decision |-> FALSE]
NoRead == [phase |-> "idle", thread |-> 0, kind |-> "full", seen |-> {}, cursor |-> 0]
NoCall == [phase |-> "idle", thread |-> 0, agent |-> User, why |-> "mission"]
Decision(a) == [to |-> a, action |-> TRUE, loop |-> FALSE, status |-> "keep"]

Init ==
    /\ thread = [t \in Threads |-> NoThread]
    /\ tick = 1
    /\ post = [p \in Posts |-> NoPost]
    /\ joined = [t \in Threads |-> {}]
    /\ cursor = [t \in Threads |-> [a \in Agents |-> 0]]
    /\ acked = [p \in Posts |-> {}]
    /\ reader = [c \in Calls |-> NoRead]
    /\ resolver = [s \in Resolvers |-> NoCall]
    /\ known = [a \in Agents |-> 0]
    /\ looping = [a \in Agents |-> {}]

-----------------------------------------------------------------------------
(* The bound thread of the project.                                        *)

Live(t) == thread[t].state = "live"

\* Mutant of Bound: the newest live thread, marker or not.
BoundNewest ==
    LET live == {t \in Threads : Live(t)} IN IF live = {} THEN 0 ELSE Max(live)

\* The project's bound thread: the marker thread before an organic one, the
\* oldest of several, zero when there is none.
Bound ==
    LET live == {t \in Threads : Live(t)}
        marked == {t \in live : thread[t].marker}
    IN  IF live = {} THEN 0 ELSE IF marked # {} THEN Min(marked) ELSE Min(live)

\* create_thread for the project by one of its agents, who becomes its first
\* participant.
CreateThread(a) ==
    /\ "organic" \in Ops
    /\ Interleaved \/ \A s \in Resolvers : resolver[s].phase # "creating"
    /\ tick \in Threads
    /\ tick' = tick + 1
    /\ thread' = [thread EXCEPT ![tick] = [NoThread EXCEPT !.state = "live"]]
    /\ joined' = [joined EXCEPT ![tick] = {a}]
    /\ UNCHANGED <<post, cursor, acked, reader, resolver, known, looping>>

\* resolve_or_create_bound_thread looks the thread up, for the mission of agent
\* a or to tell it of the user's decision; finding none it goes on to mint one,
\* in the same transaction.
Resolve(s, a, why) ==
    /\ resolver[s].phase = "idle"
    /\ why = "mission" => known[a] = 0
    /\ Bound = 0 => /\ tick \in Threads
                    /\ Interleaved \/ \A r \in Resolvers : resolver[r].phase # "creating"
    /\ resolver' = [resolver EXCEPT ![s] =
         [phase |-> IF Bound = 0 THEN "creating" ELSE "found",
          thread |-> IF Bound = 0 THEN tick ELSE Bound, agent |-> a, why |-> why]]
    /\ tick' = IF Bound = 0 THEN tick + 1 ELSE tick
    /\ UNCHANGED <<thread, post, joined, cursor, acked, reader, known, looping>>

\* The marker thread commits.
Mint(s) ==
    /\ resolver[s].phase = "creating"
    /\ thread' = [thread EXCEPT ![resolver[s].thread] = [NoThread EXCEPT !.state = "live", !.marker = TRUE]]
    /\ resolver' = [resolver EXCEPT ![s].phase = "found"]
    /\ UNCHANGED <<tick, post, joined, cursor, acked, reader, known, looping>>

\* Another thread took the serial number this one read: the unique index
\* refuses it, and both callers swallow the failure.
Collide(s) ==
    /\ resolver[s].phase = "creating"
    /\ \E t \in Threads : Live(t)
    /\ resolver' = [resolver EXCEPT ![s] = NoCall]
    /\ UNCHANGED <<thread, tick, post, joined, cursor, acked, reader, known, looping>>

\* The mission is rendered with the thread's id.
Learn(s) ==
    /\ resolver[s].phase = "found" /\ resolver[s].why = "mission"
    /\ known' = [known EXCEPT ![resolver[s].agent] = resolver[s].thread]
    /\ resolver' = [resolver EXCEPT ![s] = NoCall]
    /\ UNCHANGED <<thread, tick, post, joined, cursor, acked, reader, looping>>

-----------------------------------------------------------------------------
(* Posting.                                                                *)

\* post_to_thread starts: the thread must be live; a broadcast enrols the
\* project's roster and goes to every participant but its author.
Begin(author, t, k, decision) ==
    /\ Live(t)
    /\ \E p \in Posts :
         /\ post[p].phase = "none"
         /\ \A q \in 1..(p - 1) : post[q].phase # "none"
         /\ post' = [post EXCEPT ![p] =
              [phase |-> "begun", thread |-> t, action |-> k.action, loop |-> k.loop,
               status |-> k.status, decision |-> decision,
               to |-> IF k.to = Everyone THEN (joined[t] \cup Roster) \ {author} ELSE {k.to},
               enrols |-> IF k.to = Everyone THEN Roster ELSE {}]]

BeginPost(author, t, k) ==
    /\ Begin(author, t, k, FALSE)
    /\ UNCHANGED <<thread, tick, joined, cursor, acked, reader, resolver, known, looping>>

\* The user's decision is posted to the agent on the thread just resolved; a
\* thread deleted since makes the post fail, and the failure is swallowed.
BeginDecision(s) ==
    LET c == resolver[s] IN
    /\ c.phase = "found" /\ c.why = "decision"
    /\ IF Live(c.thread) THEN Begin(User, c.thread, Decision(c.agent), TRUE) ELSE UNCHANGED post
    /\ resolver' = [resolver EXCEPT ![s] = NoCall]
    /\ UNCHANGED <<thread, tick, joined, cursor, acked, reader, known, looping>>

\* Mutant of CommitPost: the roster is addressed but not enrolled.
CommitPostUnenrolled(p) ==
    LET m == post[p] IN
    /\ m.phase = "begun"
    /\ Interleaved \/ \A q \in 1..(p - 1) : post[q].phase # "begun"
    /\ post' = [post EXCEPT ![p].phase = "posted"]
    /\ thread' = IF m.status = "keep" \/ ~Live(m.thread) THEN thread
                 ELSE [thread EXCEPT ![m.thread].closed = m.status = "resolved"]
    /\ UNCHANGED <<tick, joined, cursor, acked, reader, resolver, known, looping>>

\* The transaction commits: message, recipients, enrolments and status appear
\* together.
CommitPost(p) ==
    LET m == post[p] IN
    /\ m.phase = "begun"
    /\ Interleaved \/ \A q \in 1..(p - 1) : post[q].phase # "begun"
    /\ post' = [post EXCEPT ![p].phase = "posted"]
    /\ joined' = [joined EXCEPT ![m.thread] = @ \cup m.enrols]
    /\ thread' = IF m.status = "keep" \/ ~Live(m.thread) THEN thread
                 ELSE [thread EXCEPT ![m.thread].closed = m.status = "resolved"]
    /\ UNCHANGED <<tick, cursor, acked, reader, resolver, known, looping>>

\* The transaction fails and leaves nothing.
AbortPost(p) ==
    /\ "abort" \in Ops
    /\ post[p].phase = "begun"
    /\ post' = [post EXCEPT ![p] = [NoPost EXCEPT !.phase = "gone"]]
    /\ UNCHANGED <<thread, tick, joined, cursor, acked, reader, resolver, known, looping>>

-----------------------------------------------------------------------------
(* Reading with mark_read.                                                 *)

Join(a, t) ==
    /\ Live(t) /\ a \notin joined[t]
    /\ joined' = [joined EXCEPT ![t] = @ \cup {a}]
    /\ UNCHANGED <<thread, tick, post, cursor, acked, reader, resolver, known, looping>>

Posted(t) == {p \in Posts : post[p].phase = "posted" /\ post[p].thread = t}

\* get_thread_messages: the posts a read of each kind returns.
Returned(a, t, kind) ==
    LET after == {p \in Posted(t) : p > cursor[t][a]} IN
    CASE kind = "unread" -> after
      [] kind = "full" -> Posted(t)
      [] kind = "directed" -> {p \in after : a \in post[p].to}
      [] kind = "tail" -> IF Posted(t) = {} THEN {} ELSE {Max(Posted(t))}

\* Mutant of FullDrain: a truncated read advances the cursor.
FullDrainTruncated(kind) == kind \in {"unread", "full", "tail"}

\* A read that was neither narrowed nor truncated.
FullDrain(kind) == kind \in {"unread", "full"}

\* get_thread_history: the participant's row and the posts are read.
BeginRead(a, i, t, kind) ==
    /\ reader[<<a, i>>].phase = "idle"
    /\ Live(t) /\ a \in joined[t]
    /\ reader' = [reader EXCEPT ![<<a, i>>] =
         [phase |-> "reading", thread |-> t, kind |-> kind,
          seen |-> Returned(a, t, kind), cursor |-> cursor[t][a]]]
    /\ UNCHANGED <<thread, tick, post, joined, cursor, acked, resolver, known, looping>>

\* The returned posts are acknowledged and, on a full drain, the cursor moves to
\* the newest of them if that is past the cursor this call read.
EndRead(a, i) ==
    LET r == reader[<<a, i>>]
        advances == /\ FullDrain(r.kind) /\ r.seen # {} /\ Max(r.seen) > r.cursor
    IN
    /\ r.phase = "reading"
    /\ acked' = [p \in Posts |-> IF p \in r.seen THEN acked[p] \cup {a} ELSE acked[p]]
    /\ cursor' = IF advances THEN [cursor EXCEPT ![r.thread][a] = Max(r.seen)] ELSE cursor
    /\ reader' = [reader EXCEPT ![<<a, i>>] = NoRead]
    /\ UNCHANGED <<thread, tick, post, joined, resolver, known, looping>>

\* get_my_turn: the participant's threads with a directive that still loops.
Directives(a) ==
    {t \in Threads : /\ Live(t) /\ ~thread[t].closed /\ a \in joined[t]
                     /\ \E p \in Posted(t) : post[p].loop}

Poll(a) ==
    /\ looping' = [looping EXCEPT ![a] = Directives(a)]
    /\ UNCHANGED <<thread, tick, post, joined, cursor, acked, reader, resolver, known>>

-----------------------------------------------------------------------------
(* The trash.                                                              *)

Delete(t) ==
    /\ "delete" \in Ops /\ Live(t)
    /\ thread' = [thread EXCEPT ![t].state = "deleted"]
    /\ UNCHANGED <<tick, post, joined, cursor, acked, reader, resolver, known, looping>>

Restore(t) ==
    /\ thread[t].state = "deleted"
    /\ thread' = [thread EXCEPT ![t].state = "live"]
    /\ UNCHANGED <<tick, post, joined, cursor, acked, reader, resolver, known, looping>>

\* purge_expired_deleted_threads: past the recovery window the row goes, and its
\* posts, participants and acknowledgments with it.  No call stays open that long.
Purge(t) ==
    LET mine == {p \in Posts : post[p].thread = t} IN
    /\ thread[t].state = "deleted"
    /\ \A p \in mine : post[p].phase # "begun"
    /\ \A c \in Calls : reader[c].thread # t
    /\ \A s \in Resolvers : resolver[s].thread # t
    /\ thread' = [thread EXCEPT ![t].state = "purged"]
    /\ post' = [p \in Posts |-> IF p \in mine THEN [NoPost EXCEPT !.phase = "gone"] ELSE post[p]]
    /\ acked' = [p \in Posts |-> IF p \in mine THEN {} ELSE acked[p]]
    /\ joined' = [joined EXCEPT ![t] = {}]
    /\ cursor' = [cursor EXCEPT ![t] = [a \in Agents |-> 0]]
    /\ UNCHANGED <<tick, reader, resolver, known, looping>>

-----------------------------------------------------------------------------
ReadStep ==
    \/ \E a \in Agents, i \in Slots : EndRead(a, i)
    \/ \E a \in Agents, i \in Slots, t \in Threads, kind \in ReadKinds : BeginRead(a, i, t, kind)

PostStep ==
    \/ \E author \in Authors, t \in Threads, k \in Kinds : BeginPost(author, t, k)
    \/ \E p \in Posts : CommitPost(p) \/ AbortPost(p)

ThreadStep ==
    \/ \E s \in Resolvers : Mint(s) \/ Collide(s) \/ Learn(s) \/ BeginDecision(s)
    \/ \E s \in Resolvers, a \in Agents, why \in {"mission", "decision"} : Resolve(s, a, why)
    \/ \E a \in Agents : CreateThread(a) \/ Poll(a) \/ \E t \in Threads : Join(a, t)
    \/ \E t \in Threads : Delete(t) \/ Restore(t) \/ Purge(t)

Next == ReadStep \/ PostStep \/ ThreadStep

Spec == Init /\ [][Next]_vars

\* A transaction ends, and an agent that keeps working polls its turn and drains
\* every thread it has joined, as its protocol tells it to at each checkpoint
\* ("unread") or the completion gate when it refuses ("full").
FairSpec ==
    /\ Spec
    /\ \A p \in Posts : WF_vars(CommitPost(p))
    /\ \A a \in Agents : WF_vars(Poll(a))
    /\ \A a \in Agents, i \in Slots :
         /\ WF_vars(EndRead(a, i))
         /\ \A t \in Threads : SF_vars(BeginRead(a, i, t, DrainKind))

-----------------------------------------------------------------------------
(* Properties.                                                             *)

\* Every thread, post, participant row and open call has its shape.
TypeOK ==
    /\ thread \in [Threads -> [state : {"unused", "live", "deleted", "purged"},
                               marker : BOOLEAN, closed : BOOLEAN]]
    /\ tick \in 1..(MaxThreads + 1)
    /\ post \in [Posts -> [phase : {"none", "begun", "posted", "gone"}, thread : 0..MaxThreads,
                           to : SUBSET Agents, enrols : SUBSET Agents, action : BOOLEAN,
                           loop : BOOLEAN, status : {"keep", "resolved", "open"},
                           decision : BOOLEAN]]
    /\ joined \in [Threads -> SUBSET Agents]
    /\ cursor \in [Threads -> [Agents -> 0..MaxPosts]]
    /\ acked \in [Posts -> SUBSET Agents]
    /\ reader \in [Calls -> [phase : {"idle", "reading"}, thread : 0..MaxThreads, cursor : 0..MaxPosts,
                             kind : {"unread", "full", "directed", "tail"}, seen : SUBSET Posts]]
    /\ resolver \in [Resolvers -> [phase : {"idle", "creating", "found"}, thread : 0..MaxThreads,
                                   agent : Agents \cup {User}, why : {"mission", "decision"}]]
    /\ known \in [Agents -> 0..MaxThreads]
    /\ looping \in [Agents -> SUBSET Threads]

\* A post the cursor has passed was returned to its reader: get_thread_history
\* advances the cursor only to the newest post of a contiguous run, so that
\* unread_only never leaves out a post the participant was not shown.
NothingSkipped ==
    \A t \in Threads, a \in Agents, p \in Posts :
        p \in Posted(t) /\ p <= cursor[t][a] => a \in acked[p]

\* The posts that stop complete_job: action-required, addressed to the agent and
\* not acknowledged by it.
Blocks(p, a) == post[p].phase = "posted" /\ post[p].action /\ a \in post[p].to /\ a \notin acked[p]

\* What blocks an agent's completion can be drained by the read the protocol
\* names as the only way through the gate: the thread is there, and the post is
\* past the agent's cursor or the agent has yet to join.
BlockersDrainable ==
    \A p \in Posts, a \in Agents :
        Blocks(p, a) => LET t == post[p].thread IN
                        Live(t) /\ (a \in joined[t] => p > cursor[t][a])

\* The user's decision reaches the agent on the thread the agent was told to
\* read: both sides resolve the project's one bound thread.
DecisionOnKnownThread ==
    \A p \in Posts : \A a \in post[p].to :
        post[p].decision /\ post[p].phase = "posted" /\ known[a] # 0 => post[p].thread = known[a]

\* Every agent a broadcast is addressed to gets to read it, the ones that never
\* joined the thread included, unless the thread is thrown away.
BroadcastsRead ==
    \A p \in Posts, a \in Agents :
        (post[p].phase = "posted" /\ a \in post[p].to /\ post[p].enrols # {})
            ~> (a \in acked[p] \/ post[p].phase # "posted" \/ ~Live(post[p].thread))

\* A loop directive stops waking agents for good once its thread stays resolved
\* or deleted: this is what makes the loop end.
LoopTerminates ==
    \A t \in Threads, a \in Agents :
        <>[](thread[t].closed \/ ~Live(t)) => <>[](t \notin looping[a])

=============================================================================
