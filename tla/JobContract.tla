----------------------------- MODULE JobContract -----------------------------
(***************************************************************************)
(* What the server promises about a job, seen by the orchestrator that     *)
(* hands it out: a job is open until its agent finishes it, finishing and  *)
(* final acceptance both need every action-required post to the agent to   *)
(* be settled, and an accepted job never comes back.  A job that was given *)
(* up can be recalled.  AgentLifecycle implements this contract when its   *)
(* handlers run one at a time.                                             *)
(***************************************************************************)
CONSTANTS Agents, Posts

VARIABLES
    stage,   \* where each agent's job stands
    unread,  \* posts the agent has not acknowledged
    sent,    \* posts ever made
    waived   \* posts nobody has to answer any more

vars == <<stage, unread, sent, waived>>

Init ==
    /\ stage \in [Agents -> {"absent", "open"}]
    /\ unread = [a \in Agents |-> {}]
    /\ sent = {}
    /\ waived = {}

Settled(a) == unread[a] \subseteq waived

(* Moves a set of jobs together, as the bulk closeout does.                *)
Move(group, from, to) ==
    /\ \A a \in group : stage[a] = from
    /\ stage' = [a \in Agents |-> IF a \in group THEN to ELSE stage[a]]
    /\ UNCHANGED <<unread, sent, waived>>

Hire(a)    == Move({a}, "absent", "open")
Finish(a)  == Settled(a) /\ Move({a}, "open", "finished")
Reopen(a)  == Move({a}, "finished", "open")
Accept(g)  == (\A a \in g : Settled(a)) /\ Move(g, "finished", "accepted")
GiveUp(a)  == Move({a}, "open", "abandoned")
Recall(g)  == Move(g, "abandoned", "open")

Post(p, a) ==
    /\ p \notin sent
    /\ stage[a] # "absent"
    /\ sent' = sent \cup {p}
    /\ unread' = [unread EXCEPT ![a] = @ \cup {p}]
    /\ UNCHANGED <<stage, waived>>

Read(a) ==
    /\ unread' = [unread EXCEPT ![a] = {}]
    /\ UNCHANGED <<stage, sent, waived>>

Waive(posts) ==
    /\ posts \subseteq sent
    /\ waived' = waived \cup posts
    /\ UNCHANGED <<stage, unread, sent>>

Next ==
    \/ \E a \in Agents :
         \/ Hire(a) \/ Finish(a) \/ Reopen(a) \/ GiveUp(a) \/ Read(a)
         \/ \E p \in Posts : Post(p, a)
    \/ \E g \in SUBSET Agents : Accept(g) \/ Recall(g)
    \/ \E posts \in SUBSET Posts : Waive(posts)

Spec == Init /\ [][Next]_vars
=============================================================================
