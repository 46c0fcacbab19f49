---------------------------- MODULE MCLiveness ----------------------------
(* Small instances for TLC of the work that must get done: a chain with    *)
(* member marks lost, a thread that an agent drains by unread reads or by  *)
(* full ones, and a dashboard whose connection is lost.  `part' is the     *)
(* instance that moves in a behaviour, and only its fairness constrains    *)
(* the behaviour.                                                          *)
EXTENDS SequenceRun, TLC

CONSTANTS p1, p2, r1, s1, s2, a1, user, everyone, c1, c2, c3, none

VARIABLES part,
          thread, tick, post, joined, cursor, acked, reader, resolver, known, looping,
          status, socket, attempts, retry, steady, armed, queue, pins, net, attached, again,
          frames, pending, layout, awaited, routed, missed, up, registered, watched, faults

hubVars == <<thread, tick, post, joined, cursor, acked, reader, resolver, known, looping>>

socketVars == <<status, socket, attempts, retry, steady, armed, queue, pins, net, attached, again,
                frames, pending, layout, awaited, routed, missed, up, registered, watched, faults>>

Pair == {<<p1, p2>>}
Broadcast(loop, kept) == [to |-> everyone, action |-> FALSE, loop |-> loop, status |-> kept]

\* SequenceRun itself is the instance of the chain.
Unread == INSTANCE HubThread
    WITH Agents <- {a1}, Roster <- {a1}, User <- user, Authors <- {user}, Everyone <- everyone,
         Slots <- {1}, Resolvers <- {s1}, MaxPosts <- 2, MaxThreads <- 1,
         Kinds <- {Broadcast(TRUE, "keep"), Broadcast(FALSE, "resolved")},
         ReadKinds <- {"unread", "directed"}, DrainKind <- "unread",
         Ops <- {"abort", "delete"}, Interleaved <- FALSE
Full == INSTANCE HubThread
    WITH Agents <- {a1}, Roster <- {a1}, User <- user, Authors <- {user}, Everyone <- everyone,
         Slots <- {1}, Resolvers <- {s1}, MaxPosts <- 2, MaxThreads <- 1,
         Kinds <- {Broadcast(FALSE, "keep")},
         ReadKinds <- {"full"}, DrainKind <- "full", Ops <- {"abort", "delete"}, Interleaved <- TRUE

Socket == INSTANCE LiveSocket
    WITH Sockets <- {c1, c2, c3}, NoSocket <- none, Projects <- {}, MaxAttempts <- 2, MaxQueue <- 2,
         MaxPins <- 0, MaxFrames <- 1, MaxFaults <- 2, Faults <- {"drop", "restart", "evict"},
         Ops <- {"manual", "update"}

ASSUME SequenceRunAssumption

MCInit ==
    /\ part \in {"chain", "unread", "full", "socket"}
    /\ Init /\ Socket!Init
    /\ IF part = "full" THEN Full!Init ELSE Unread!Init

MCNext ==
    /\ UNCHANGED part
    /\ \/ part = "chain" /\ Next /\ UNCHANGED <<hubVars, socketVars>>
       \/ part = "unread" /\ Unread!Next /\ UNCHANGED <<vars, socketVars>>
       \/ part = "full" /\ Full!Next /\ UNCHANGED <<vars, socketVars>>
       \/ part = "socket" /\ Socket!Next /\ UNCHANGED <<vars, hubVars>>

\* The fairness each module states for itself.
ChainFair ==
    /\ \A s \in Slots : WF_vars(part = "chain" /\ Proceed(s))
    /\ \A r \in Runs : /\ SF_vars(part = "chain" /\ \E s \in Slots : CompleteJob(s, r))
                       /\ SF_vars(part = "chain" /\ \E s \in Slots : Decide(s, r))
UnreadFair ==
    /\ \A p \in 1..2 : WF_hubVars(part = "unread" /\ Unread!CommitPost(p))
    /\ WF_hubVars(part = "unread" /\ Unread!Poll(a1))
    /\ WF_hubVars(part = "unread" /\ Unread!EndRead(a1, 1))
    /\ SF_hubVars(part = "unread" /\ Unread!BeginRead(a1, 1, 1, "unread"))
FullFair ==
    /\ \A p \in 1..2 : WF_hubVars(part = "full" /\ Full!CommitPost(p))
    /\ WF_hubVars(part = "full" /\ Full!Poll(a1))
    /\ WF_hubVars(part = "full" /\ Full!EndRead(a1, 1))
    /\ SF_hubVars(part = "full" /\ Full!BeginRead(a1, 1, 1, "full"))
SocketFair ==
    /\ WF_socketVars(part = "socket" /\ \E s \in {c1, c2, c3} : Socket!Retry(s))
    /\ WF_socketVars(part = "socket" /\ \E s \in {c1, c2, c3} : Socket!Trigger(s))
    /\ \A s \in {c1, c2, c3} :
        /\ WF_socketVars(part = "socket" /\ Socket!Opened(s))
        /\ WF_socketVars(part = "socket" /\ Socket!Closed(s))
        /\ WF_socketVars(part = "socket" /\ Socket!Deliver(s))
        /\ WF_socketVars(part = "socket" /\ (Socket!Accept(s) \/ Socket!Refuse(s)))
    /\ WF_socketVars(part = "socket" /\ Socket!Recover)

MCSpec ==
    /\ MCInit /\ [][MCNext]_<<vars, part, hubVars, socketVars>>
    /\ ChainFair /\ UnreadFair /\ FullFair /\ SocketFair

ThreadsServed == Unread!BroadcastsRead /\ Unread!LoopTerminates
Recovers == Socket!Recovers
===========================================================================
