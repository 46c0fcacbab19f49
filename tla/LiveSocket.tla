----------------------------- MODULE LiveSocket -----------------------------
(* The dashboard's live connection: the websocket store of the browser     *)
(* (status machine, backoff ladder, slow-retry policy, offline queue,      *)
(* reference-counted subscriptions), the layout that opens it and installs *)
(* the event router, and the server's registry of connections.             *)
(*                                                                         *)
(* A socket is named for as long as any callback of it can still run; a    *)
(* fresh client id per socket keeps the server's entries of two sockets    *)
(* apart.  Events are not told apart: `pending' says that a socket carries *)
(* some, and `missed' that the pages have not seen one that happened since *)
(* they last fetched.                                                      *)
EXTENDS Naturals, SequencesExt

CONSTANTS Sockets,      \* names of the physical sockets alive at once (bound)
          NoSocket,
          Projects,     \* entities a page subscribes to
          MaxAttempts,  \* config.maxReconnectAttempts
          MaxQueue,     \* config.messageQueueSize
          MaxPins,      \* subscribers per entity (bound)
          MaxFrames,    \* frames in flight on one socket (bound)
          MaxFaults,    \* faults of a behaviour (bound)
          Faults,       \* of {"drop", "restart", "evict"}
          Ops           \* of {"logout", "manual", "update"}

LiveSocketAssumption ==
    /\ NoSocket \notin Sockets
    /\ MaxAttempts \in Nat /\ MaxQueue \in Nat \ {0} /\ MaxPins \in Nat
    /\ MaxFrames \in Nat \ {0} /\ MaxFaults \in Nat
    /\ Faults \subseteq {"drop", "restart", "evict"}
    /\ Ops \subseteq {"logout", "manual", "update"}

VARIABLES
    \* the store
    status,     \* connectionStatus
    socket,     \* ws
    attempts,   \* reconnectAttempts
    retry,      \* reconnectTimer is set
    steady,     \* stableTimer is set
    armed,      \* the reconnect policy is armed
    queue,      \* messageQueue
    pins,       \* subscriptions: entity -> number of subscribers
    \* its sockets
    net,        \* what became of each socket
    attached,   \* its handlers are still those of the store
    again,      \* isReconnectAttempt, as its onopen captured it
    frames,     \* frames on their way to the server
    pending,    \* events are on their way to the browser
    \* the layout and its pages
    layout,     \* "out" of it, "awaiting" connect(), "ready", or "broken"
    awaited,    \* the socket whose promise the layout awaits
    routed,     \* the event router is installed
    missed,     \* an event since the last fetch has not reached the pages
    \* the server
    up,
    registered, \* active_connections
    watched,    \* the server's subscriptions of each connection
    faults

storeVars == <<status, socket, attempts, retry, steady, armed>>
wireVars == <<net, attached, again>>
subVars == <<queue, pins, frames, watched>>
pageVars == <<layout, awaited, routed>>
vars == <<storeVars, wireVars, subVars, pageVars, pending, missed, up, registered, faults>>

Frame == {"subscribe", "unsubscribe"} \X Projects

TypeOK ==
    /\ status \in {"disconnected", "connecting", "connected", "reconnecting"}
    /\ socket \in Sockets \cup {NoSocket}
    /\ attempts \in 0..MaxAttempts
    /\ retry \in BOOLEAN /\ steady \in BOOLEAN /\ armed \in BOOLEAN
    /\ queue \in Seq(Frame) /\ Len(queue) <= MaxQueue
    /\ pins \in [Projects -> 0..MaxPins]
    /\ net \in [Sockets -> {"idle", "opening", "accepted", "open", "closing", "dead"}]
    /\ attached \in [Sockets -> BOOLEAN] /\ again \in [Sockets -> BOOLEAN]
    /\ frames \in [Sockets -> Seq(Frame)]
    /\ pending \in [Sockets -> BOOLEAN]
    /\ layout \in {"out", "awaiting", "ready", "broken"}
    /\ awaited \in Sockets \cup {NoSocket}
    /\ routed \in BOOLEAN /\ missed \in BOOLEAN /\ up \in BOOLEAN
    /\ registered \subseteq Sockets
    /\ watched \in [Sockets -> SUBSET Projects]
    /\ faults \in 0..MaxFaults

Init ==
    /\ status = "disconnected" /\ socket = NoSocket /\ attempts = 0
    /\ retry = FALSE /\ steady = FALSE /\ armed = FALSE
    /\ queue = <<>> /\ pins = [p \in Projects |-> 0]
    /\ net = [s \in Sockets |-> "idle"]
    /\ attached = [s \in Sockets |-> FALSE] /\ again = [s \in Sockets |-> FALSE]
    /\ frames = [s \in Sockets |-> <<>>]
    /\ pending = [s \in Sockets |-> FALSE]
    /\ layout = "out" /\ awaited = NoSocket /\ routed = FALSE
    /\ missed = FALSE /\ up = TRUE
    /\ registered = {} /\ watched = [s \in Sockets |-> {}]
    /\ faults = 0

-----------------------------------------------------------------------------
(* The store.                                                              *)

Busy == status \in {"connected", "connecting"}

Detached(s) == IF s = NoSocket THEN attached ELSE [attached EXCEPT ![s] = FALSE]
\* close() of a socket: a closing handshake, unless the line is dead already.
Shut(n, s) ==
    IF s # NoSocket /\ n[s] \in {"opening", "accepted", "open"} THEN [n EXCEPT ![s] = "closing"] ELSE n

\* connect() past its guard: the old socket is detached and closed, a new
\* one opened; `mark' is the status connect() finds.
Connect(s, mark) ==
    /\ net[s] = "idle" /\ s # socket
    /\ retry' = FALSE
    /\ socket' = s
    /\ status' = "connecting"
    /\ net' = [Shut(net, socket) EXCEPT ![s] = "opening"]
    /\ attached' = [Detached(socket) EXCEPT ![s] = TRUE]
    /\ again' = [again EXCEPT ![s] = mark = "reconnecting"]
    /\ missed' = (missed \/ (socket # NoSocket /\ pending[socket]))
    /\ pending' = IF socket = NoSocket THEN pending ELSE [pending EXCEPT ![socket] = FALSE]
    /\ frames' = IF socket = NoSocket THEN frames ELSE [frames EXCEPT ![socket] = <<>>]
    /\ UNCHANGED <<attempts, steady, armed>>

\* Mutant: the ladder's end does not arm the slow policy.
HandleDisconnectForGood ==
    /\ steady' = FALSE
    /\ IF attempts < MaxAttempts
       THEN attempts' = attempts + 1 /\ status' = "reconnecting" /\ retry' = TRUE
       ELSE status' = "disconnected" /\ UNCHANGED <<attempts, retry>>
    /\ UNCHANGED armed
\* handleDisconnect and the attemptReconnect it ends in.
HandleDisconnect ==
    /\ steady' = FALSE
    /\ IF attempts < MaxAttempts
       THEN /\ attempts' = attempts + 1
            /\ status' = "reconnecting" /\ retry' = TRUE
            /\ UNCHANGED armed
       ELSE /\ status' = "disconnected" /\ armed' = TRUE
            /\ UNCHANGED <<attempts, retry>>

\* A promise of a socket that is detached never settles: the layout that
\* awaits it stays where it is.
Forsaken == IF awaited = socket THEN NoSocket ELSE awaited

\* The reconnect timer fires.
Retry(s) ==
    /\ retry
    /\ IF Busy
       THEN /\ retry' = FALSE
            /\ UNCHANGED <<status, socket, attempts, steady, armed, wireVars, frames, pending, missed, awaited>>
       ELSE Connect(s, status) /\ awaited' = Forsaken
    /\ UNCHANGED <<queue, pins, watched, layout, routed, up, registered, faults>>

\* triggerReconnect: the slow-retry tick, the network or the tab coming back.
Trigger(s) ==
    /\ armed /\ ~Busy
    /\ Connect(s, "reconnecting") /\ awaited' = Forsaken
    /\ UNCHANGED <<queue, pins, watched, layout, routed, up, registered, faults>>

\* reconnect: the button of the connection dialog, whatever the status.
Manual(s) ==
    /\ "manual" \in Ops /\ layout # "out" /\ faults < MaxFaults
    /\ Connect(s, "reconnecting") /\ awaited' = Forsaken
    /\ faults' = faults + 1
    /\ UNCHANGED <<queue, pins, watched, layout, routed, up, registered>>

\* A connection up for stabilityResetDelay is healthy.
Stable ==
    /\ steady
    /\ steady' = FALSE /\ attempts' = 0
    /\ UNCHANGED <<status, socket, retry, armed, wireVars, subVars, pageVars, pending, missed, up, registered, faults>>

\* What processMessageQueue and resubscribeAll put on the wire.
Pinned == {p \in Projects : pins[p] > 0}
\* Mutant: a new connection is not told of the subscriptions.
ResubscribedNever == <<>>
Resubscribed == SetToSeq({"subscribe"} \X Pinned)

\* onopen: the queue is drained, the listeners told, and every subscription
\* sent again; the router's listener refetches if this is a reconnect.
Opened(s) ==
    /\ net[s] = "accepted" /\ attached[s]
    /\ net' = [net EXCEPT ![s] = "open"]
    /\ status' = "connected" /\ armed' = FALSE /\ steady' = TRUE
    /\ queue' = <<>>
    /\ frames' = [frames EXCEPT ![s] = queue \o Resubscribed]
    /\ missed' = (missed /\ ~(again[s] /\ routed /\ layout = "ready"))
    /\ IF awaited = s
       THEN awaited' = NoSocket /\ layout' = "ready" /\ routed' = TRUE
       ELSE UNCHANGED <<awaited, layout, routed>>
    /\ UNCHANGED <<socket, attempts, retry, attached, again, pins, watched, pending, up, registered, faults>>

\* The browser learns that a socket is gone (error and close run in one
\* task): a failed opening rejects its promise, and an attached onclose runs
\* handleDisconnect, whether or not the socket is still the store's.
Closed(s) ==
    /\ net[s] \in {"closing", "dead"}
    /\ net' = [net EXCEPT ![s] = "idle"]
    /\ attached' = [attached EXCEPT ![s] = FALSE]
    /\ socket' = IF socket = s THEN NoSocket ELSE socket
    /\ again' = [again EXCEPT ![s] = FALSE]
    /\ frames' = [frames EXCEPT ![s] = <<>>]
    /\ watched' = [watched EXCEPT ![s] = {}]
    /\ registered' = registered \ {s}
    /\ missed' = (missed \/ pending[s])
    /\ pending' = [pending EXCEPT ![s] = FALSE]
    /\ IF attached[s] THEN HandleDisconnect ELSE UNCHANGED <<status, attempts, retry, steady, armed>>
    /\ IF awaited = s
       THEN /\ awaited' = NoSocket
            /\ layout' = IF status = "connecting" /\ layout = "awaiting" THEN "broken" ELSE layout
       ELSE UNCHANGED <<awaited, layout>>
    /\ UNCHANGED <<queue, pins, routed, up, faults>>

\* disconnect: the socket is closed, but its handlers stay attached.
Disconnect ==
    /\ status' = "disconnected" /\ socket' = NoSocket
    /\ retry' = FALSE /\ steady' = FALSE /\ armed' = FALSE
    /\ net' = Shut(net, socket)
    /\ UNCHANGED <<attempts, attached, again>>

\* send: on the wire when the status says connected (a line that is gone
\* swallows the frame), queued otherwise, the oldest making room.
Enqueue(q, f) == LET r == q \o f IN SubSeq(r, 1 + (IF Len(r) > MaxQueue THEN Len(r) - MaxQueue ELSE 0), Len(r))
Send(f) ==
    IF status = "connected"
    THEN /\ frames' = IF socket # NoSocket /\ net[socket] = "open"
                      THEN [frames EXCEPT ![socket] = Append(@, f)] ELSE frames
         /\ UNCHANGED queue
    ELSE queue' = Enqueue(queue, <<f>>) /\ UNCHANGED frames

WireFree == socket # NoSocket => Len(frames[socket]) < MaxFrames

\* subscribe and unsubscribe of a page.
Subscribe(p) ==
    /\ layout # "out" /\ pins[p] < MaxPins /\ WireFree
    /\ pins' = [pins EXCEPT ![p] = @ + 1]
    /\ IF pins[p] = 0 THEN Send(<<"subscribe", p>>) ELSE UNCHANGED <<queue, frames>>
    /\ UNCHANGED <<storeVars, wireVars, pageVars, watched, pending, missed, up, registered, faults>>
Unsubscribe(p) ==
    /\ layout # "out" /\ pins[p] > 0 /\ WireFree
    /\ pins' = [pins EXCEPT ![p] = @ - 1]
    /\ IF pins[p] = 1 THEN Send(<<"unsubscribe", p>>) ELSE UNCHANGED <<queue, frames>>
    /\ UNCHANGED <<storeVars, wireVars, pageVars, watched, pending, missed, up, registered, faults>>

-----------------------------------------------------------------------------
(* The layout.                                                             *)

\* The layout is mounted: its pages fetch, and it awaits connect().
Mount(s) ==
    /\ layout = "out"
    /\ IF Busy
       THEN /\ layout' = "ready" /\ routed' = TRUE /\ missed' = FALSE
            /\ UNCHANGED <<storeVars, wireVars, frames, pending, awaited>>
       ELSE /\ net[s] = "idle" /\ s # socket
            /\ layout' = "awaiting" /\ awaited' = s /\ missed' = FALSE
            /\ retry' = FALSE /\ socket' = s /\ status' = "connecting"
            /\ net' = [Shut(net, socket) EXCEPT ![s] = "opening"]
            /\ attached' = [Detached(socket) EXCEPT ![s] = TRUE]
            /\ again' = [again EXCEPT ![s] = status = "reconnecting"]
            /\ pending' = IF socket = NoSocket THEN pending ELSE [pending EXCEPT ![socket] = FALSE]
            /\ frames' = IF socket = NoSocket THEN frames ELSE [frames EXCEPT ![socket] = <<>>]
            /\ UNCHANGED <<attempts, steady, armed, routed>>
    /\ UNCHANGED <<queue, pins, watched, up, registered, faults>>

\* Logging out: disconnect(), then the pages go and unsubscribe into the
\* queue, and the layout goes with them.
Logout ==
    /\ "logout" \in Ops /\ layout # "out"
    /\ Disconnect
    /\ layout' = "out" /\ awaited' = NoSocket
    /\ queue' = Enqueue(queue, SetToSeq({"unsubscribe"} \X Pinned))
    /\ pins' = [p \in Projects |-> 0]
    /\ UNCHANGED <<routed, frames, watched, pending, missed, up, registered, faults>>

\* An event reaches the browser: without the router nobody hears it.
Deliver(s) ==
    /\ net[s] = "open" /\ attached[s] /\ pending[s]
    /\ pending' = [pending EXCEPT ![s] = FALSE]
    /\ missed' = (missed \/ ~routed)
    /\ UNCHANGED <<storeVars, wireVars, subVars, pageVars, up, registered, faults>>

-----------------------------------------------------------------------------
(* The server and the network.                                             *)

Accept(s) ==
    /\ up /\ net[s] = "opening"
    /\ net' = [net EXCEPT ![s] = "accepted"]
    /\ registered' = registered \cup {s}
    /\ UNCHANGED <<storeVars, attached, again, subVars, pageVars, pending, missed, up, faults>>

\* No server answers, or it finds no session.
Refuse(s) ==
    /\ net[s] = "opening" /\ (~up \/ layout = "out")
    /\ net' = [net EXCEPT ![s] = "dead"]
    /\ UNCHANGED <<storeVars, attached, again, subVars, pageVars, pending, missed, up, registered, faults>>

\* The endpoint's loop takes a frame; the manager ignores or refuses those
\* of a connection it no longer lists.
Serve(s) ==
    /\ up /\ net[s] = "open" /\ frames[s] # <<>>
    /\ frames' = [frames EXCEPT ![s] = Tail(@)]
    /\ LET f == Head(frames[s]) IN
       watched' = IF s \notin registered THEN watched
                  ELSE [watched EXCEPT ![s] = IF f[1] = "subscribe" THEN @ \cup {f[2]} ELSE @ \ {f[2]}]
    /\ UNCHANGED <<storeVars, wireVars, queue, pins, pageVars, pending, missed, up, registered, faults>>

\* broadcast_event_to_tenant: every listed connection of the tenant.
Reachable == {s \in registered : net[s] \in {"accepted", "open"} /\ attached[s]}
Update ==
    /\ "update" \in Ops /\ up
    /\ pending' = [s \in Sockets |-> pending[s] \/ s \in Reachable]
    /\ missed' = (missed \/ Reachable = {})
    /\ UNCHANGED <<storeVars, wireVars, subVars, pageVars, up, registered, faults>>

Fault(kind) == kind \in Faults /\ faults < MaxFaults /\ faults' = faults + 1

\* The send of an event takes too long: the connection is forgotten, its
\* socket stays open.
Evict(s) ==
    /\ Fault("evict") /\ up /\ s \in registered /\ net[s] \in {"accepted", "open"}
    /\ registered' = registered \ {s}
    /\ watched' = [watched EXCEPT ![s] = {}]
    /\ missed' = TRUE
    /\ UNCHANGED <<storeVars, wireVars, queue, pins, frames, pageVars, pending, up>>

\* The line dies: by itself, or with the server.
Drop(s) ==
    /\ Fault("drop") /\ net[s] \in {"accepted", "open"}
    /\ net' = [net EXCEPT ![s] = "dead"]
    /\ UNCHANGED <<storeVars, attached, again, subVars, pageVars, pending, missed, up, registered>>
Restart ==
    /\ Fault("restart") /\ up
    /\ up' = FALSE /\ registered' = {}
    /\ net' = [s \in Sockets |-> IF net[s] \in {"opening", "accepted", "open"} THEN "dead" ELSE net[s]]
    /\ UNCHANGED <<storeVars, attached, again, subVars, pageVars, pending, missed>>
Recover ==
    /\ ~up /\ up' = TRUE
    /\ UNCHANGED <<storeVars, wireVars, subVars, pageVars, pending, missed, registered, faults>>

Next ==
    \/ \E s \in Sockets :
        \/ Retry(s) \/ Trigger(s) \/ Manual(s) \/ Opened(s) \/ Closed(s) \/ Mount(s)
        \/ Deliver(s) \/ Accept(s) \/ Refuse(s) \/ Serve(s) \/ Evict(s) \/ Drop(s)
    \/ \E p \in Projects : Subscribe(p) \/ Unsubscribe(p)
    \/ Stable \/ Logout \/ Update \/ Restart \/ Recover

\* Timers fire, the browser runs its callbacks, a server that is down comes
\* back and answers what reaches it.
Fairness ==
    /\ WF_vars(\E s \in Sockets : Retry(s))
    /\ WF_vars(\E s \in Sockets : Trigger(s))
    /\ \A s \in Sockets : /\ WF_vars(Opened(s)) /\ WF_vars(Closed(s)) /\ WF_vars(Deliver(s))
                          /\ WF_vars(Accept(s) \/ Refuse(s)) /\ WF_vars(Serve(s))
    /\ WF_vars(Recover)

Spec == Init /\ [][Next]_vars /\ Fairness

-----------------------------------------------------------------------------
(* Properties.                                                             *)

\* The browser holds a connection that works in both directions.
Healthy == status = "connected" /\ socket # NoSocket /\ net[socket] = "open"

\* However long the server was away and however often the line broke, a
\* layout that was ready refetches what happened in the meantime: the fast
\* ladder, the slow policy and the listener of reconnects leave no way out
\* (handleDisconnect, triggerReconnect, initWebsocketEventRouter).
Recovers ==
    (missed /\ layout = "ready" /\ ~Healthy) ~> (~missed \/ layout = "out")

\* On a connection that works and that the server lists, the server's
\* subscriptions are those of the pages once no frame is on its way:
\* whatever was queued, dropped from the queue or swallowed by a dead line,
\* and in whatever order (send, processMessageQueue, resubscribeAll).
SubscriptionsAgree ==
    Healthy /\ socket \in registered /\ frames[socket] = <<>> => watched[socket] = Pinned

\* What the comments promise and the code does not keep:
\* a connection that works is listed by the server,
ConnectedIsServed == Healthy => socket \in registered
\* a browser that is connected routes its events,
RoutedInTheEnd == (layout # "out") ~> (routed \/ layout = "out")
\* an event is not missed for good by a page whose connection works,
NothingMissedForGood == (missed /\ layout = "ready") ~> (~missed \/ layout = "out")
\* and nothing connects after a deliberate disconnect.
StaysDisconnected ==
    [][layout = "out" => \A s \in Sockets : net[s] = "idle" => net'[s] = "idle" \/ layout' # "out"]_vars
=============================================================================
