------------------------------ MODULE MCLoops ------------------------------
(* Small instances for TLC of what the background loops owe a user: the    *)
(* banners of updates and skills, API keys near their expiry, the reminder *)
(* of a tuning, and the notice of an agent gone silent.  `part' is the     *)
(* instance that moves in a behaviour, and only its fairness constrains    *)
(* the behaviour.                                                          *)
EXTENDS Naturals

CONSTANTS k1, k2, checker, refresh, skills, e1, e2, o, a1, r1, nothing

VARIABLES part,
          latest, info, drift, row, emitter, key, scanner, boots, resolving,
          sequence, stamp, active, wanted, banner, nagger, tuned, muted,
          status, done, job, todo, age, old, inbox, project, staging, launched, slot, sent, waived

noteVars == <<latest, info, drift, row, emitter, key, scanner, boots, resolving>>
tuneVars == <<sequence, stamp, active, wanted, banner, nagger, tuned, muted>>
agentVars == <<status, done, job, todo, age, old, inbox, project, staging, launched, slot, sent, waived>>

Notes == INSTANCE Notifications
    WITH Checker <- checker, Refresh <- refresh, Drift <- skills,
         Versions <- 1..2, ApiKeys <- {}, Mode <- "git", Families <- {"update", "drift"},
         MaxBoots <- 1, Interleaved <- TRUE,
         Ops <- {"release", "fail", "dismiss", "setup", "upgrade"}
Expiry == INSTANCE Notifications
    WITH Checker <- checker, Refresh <- refresh, Drift <- skills,
         Versions <- 1..2, ApiKeys <- {k1, k2}, Mode <- "git", Families <- {"drift"},
         MaxBoots <- 0, Interleaved <- FALSE, Ops <- {"dismiss", "revoke"}
Tuning == INSTANCE TuningReminder
    WITH Emitters <- {e1, e2}, Threshold <- 3, MaxSequence <- 5,
         emitter <- nagger, Ops <- {"tune", "dismiss", "switch", "prefer"}, Interleaved <- TRUE
Silence == INSTANCE AgentLifecycle
    WITH Agents <- {o, a1}, Orchestrators <- {o}, Slots <- {r1}, Monitors <- {"silence"},
         Posts <- {}, NoPost <- nothing, Todos <- {"clear"}, Rests <- {"blocked"}
ASSUME Tuning!ReminderAssumption

MCInit ==
    /\ part \in {"notes", "keys", "tuning", "silence"}
    /\ Tuning!Init /\ Silence!Init
    /\ IF part = "keys" THEN Expiry!Init ELSE Notes!Init

MCNext ==
    /\ UNCHANGED part
    /\ \/ part = "notes" /\ Notes!Next /\ UNCHANGED <<tuneVars, agentVars>>
       \/ part = "keys" /\ Expiry!Next /\ UNCHANGED <<tuneVars, agentVars>>
       \/ part = "tuning" /\ Tuning!Next /\ UNCHANGED <<noteVars, agentVars>>
       \/ part = "silence" /\ Silence!Next /\ UNCHANGED <<noteVars, tuneVars>>

\* The fairness each module states for itself.
NotesFair ==
    /\ WF_noteVars(part = "notes" /\ Notes!Begin)
    /\ \A e \in {checker, refresh} : WF_noteVars(part = "notes" /\ Notes!Emit(e))
    /\ WF_noteVars(part = "notes" /\ \E k \in {1, 2, skills} : Notes!Age(k))
TuningFair == \A e \in {e1, e2} : WF_tuneVars(part = "tuning" /\ Tuning!Emit(e))
SilenceFair ==
    /\ \A t \in {r1, "silence"} : WF_agentVars(part = "silence" /\ Silence!Commit(t))
    /\ WF_agentVars(part = "silence" /\ Silence!MonitorStep("silence"))

MCSpec == /\ MCInit /\ [][MCNext]_<<part, noteVars, tuneVars, agentVars>>
          /\ NotesFair /\ TuningFair /\ SilenceFair

\* The properties of the instances.
\* The update banner and the tuning reminder end up as they should be, and
\* the warning of a key that was dismissed stays dismissed.
BannersSettle ==
    /\ Notes!UpdateSettles /\ Tuning!BannerSettles
    /\ [][part = "keys" => \A k \in {k1, k2} : row[k] \in {"dismissed", "aged"} => row'[k] # "shown"]_row
StaleWorkerNoticed == Silence!StaleWorkerNoticed
===========================================================================
