---------------------------- MODULE TuningReminder ----------------------------
(***************************************************************************)
(* The reminder that a product's context is due for a review: projects are *)
(* counted from the last review, the banner emitters compare the count     *)
(* with the user's threshold, and raise or resolve one banner              *)
(* (product_tuning_service.py, context_tuning_banner.py,                   *)
(* notification_service.py).                                               *)
(***************************************************************************)
EXTENDS Integers

CONSTANTS Emitters,     \* the loops that refresh the banners
          Threshold,    \* tuning_reminder_threshold
          MaxSequence,  \* bound: memory entries written
          Ops,          \* what users do: "tune", "dismiss", "switch", "prefer"
          Interleaved   \* FALSE: nothing happens while an emitter is at work

ReminderAssumption ==
    /\ Threshold \in Nat /\ MaxSequence \in Nat
    /\ Ops \subseteq {"tune", "dismiss", "switch", "prefer"}
    /\ Interleaved \in BOOLEAN

VARIABLES sequence,     \* the newest memory entry of the product
          stamp,        \* tuning_state.last_tuned_at_sequence, Never when it is NULL
          active,       \* is the product active?
          wanted,       \* context_tuning_reminder
          banner,       \* the open row: "none", "shown" or "dismissed"
          emitter,
          tuned,        \* ghost: the newest entry when the context was last reviewed
          muted         \* ghost: dismissed while due, and not reviewed since

vars == <<sequence, stamp, active, wanted, banner, emitter, tuned, muted>>

Never == -1
Asleep == [pc |-> "asleep", due |-> FALSE, found |-> "nothing"]

Init ==
    /\ sequence = 0 /\ stamp = Never
    /\ active = TRUE /\ wanted = TRUE
    /\ banner = "none"
    /\ emitter = [e \in Emitters |-> Asleep]
    /\ tuned = 0 /\ muted = FALSE

Max2(a, b) == IF a > b THEN a ELSE b

(* check_tuning_staleness.  A product never reviewed counts from zero, and   *)
(* a threshold below three is read as three.                                 *)
Due ==
    /\ active /\ wanted
    /\ sequence - (IF stamp = Never THEN 0 ELSE stamp) >= Max2(Threshold, 3)

Quiet == Interleaved \/ \A e \in Emitters : emitter[e].pc = "asleep"
Called(op) == op \in Ops /\ Quiet

(* A project's closeout writes a memory entry. *)
Close ==
    /\ Quiet
    /\ sequence < MaxSequence
    /\ sequence' = sequence + 1
    /\ UNCHANGED <<stamp, active, wanted, banner, emitter, tuned, muted>>

(* apply_tuning_updates.  The stamp goes into the dictionary that was loaded, *)
(* so the column is written only when there was none: afterwards the new      *)
(* value equals the changed old one and the ORM writes nothing.               *)
Stamped == IF stamp = Never THEN sequence ELSE stamp
Tune ==
    /\ Called("tune")
    /\ stamp' = Stamped
    /\ tuned' = sequence /\ muted' = FALSE
    /\ UNCHANGED <<sequence, active, wanted, banner, emitter>>

(* The product is switched off or on; the user turns the reminder off or on. *)
Switch ==
    /\ Called("switch")
    /\ active' = ~active
    /\ UNCHANGED <<sequence, stamp, wanted, banner, emitter, tuned, muted>>
Prefer ==
    /\ Called("prefer")
    /\ wanted' = ~wanted
    /\ UNCHANGED <<sequence, stamp, active, banner, emitter, tuned, muted>>

(* mark_dismissed. *)
Dismiss ==
    /\ Called("dismiss")
    /\ banner = "shown"
    /\ banner' = "dismissed" /\ muted' = Due
    /\ UNCHANGED <<sequence, stamp, active, wanted, emitter, tuned>>

(* An emitter computes the condition, then acts on what it computed.         *)
Compute(e) ==
    /\ emitter[e].pc = "asleep"
    /\ emitter' = [emitter EXCEPT ![e] = [Asleep EXCEPT !.pc = "computed", !.due = Due]]
    /\ UNCHANGED <<sequence, stamp, active, wanted, banner, tuned, muted>>

(* Mutant of Resolve: a reminder that is no longer due is left alone. *)
ResolveNothing(e) ==
    /\ emitter[e].pc = "computed" /\ ~emitter[e].due
    /\ emitter' = [emitter EXCEPT ![e] = Asleep]
    /\ UNCHANGED <<sequence, stamp, active, wanted, banner, tuned, muted>>

(* Not due: the open row is resolved, also under an emitter that found it.   *)
Resolve(e) ==
    /\ emitter[e].pc = "computed" /\ ~emitter[e].due
    /\ banner' = "none"
    /\ emitter' = [x \in Emitters |-> CASE x = e -> Asleep
                                        [] emitter[x].found = "row" /\ x # e ->
                                             [emitter[x] EXCEPT !.found = "resolved"]
                                        [] OTHER -> emitter[x]]
    /\ UNCHANGED <<sequence, stamp, active, wanted, tuned, muted>>

(* Due: upsert_by_dedupe_key looks for the open row...                       *)
Find(e) ==
    /\ emitter[e].pc = "computed" /\ emitter[e].due
    /\ emitter' = [emitter EXCEPT ![e].pc = "found",
                                  ![e].found = IF banner = "none" THEN "nothing" ELSE "row"]
    /\ UNCHANGED <<sequence, stamp, active, wanted, banner, tuned, muted>>

(* ... and inserts one, or changes the text of the one it found.  There is   *)
(* no resurfacing: a dismissed row stays dismissed.  An insert that loses    *)
(* against another one changes that one.                                     *)
Upsert(e) ==
    /\ emitter[e].pc = "found"
    /\ banner' = IF emitter[e].found = "nothing" /\ banner = "none" THEN "shown" ELSE banner
    /\ emitter' = [emitter EXCEPT ![e] = Asleep]
    /\ UNCHANGED <<sequence, stamp, active, wanted, tuned, muted>>

Emit(e) == Compute(e) \/ Resolve(e) \/ Find(e) \/ Upsert(e)

Next ==
    \/ Close \/ Tune \/ Switch \/ Prefer \/ Dismiss
    \/ \E e \in Emitters : Emit(e)

Spec == Init /\ [][Next]_vars
(* The refresh task wakes up every six hours. *)
FairSpec == Spec /\ \A e \in Emitters : WF_vars(Emit(e))

-----------------------------------------------------------------------------
(* Every variable has the values the code gives it. *)
TypeOK ==
    /\ sequence \in 0..MaxSequence
    /\ stamp \in -1..MaxSequence /\ tuned \in 0..MaxSequence
    /\ {active, wanted, muted} \subseteq BOOLEAN
    /\ banner \in {"none", "shown", "dismissed"}
    /\ emitter \in [Emitters -> [pc : {"asleep", "computed", "found"}, due : BOOLEAN,
                                 found : {"nothing", "row", "resolved"}]]

(* However the emitters overlap, a condition that settles is shown, or no     *)
(* longer shown, for good.                                                    *)
BannerSettles ==
    /\ <>[]Due => <>[](banner # "none")
    /\ <>[]~Due => <>[](banner = "none")

(* A reminder dismissed while it was due stays dismissed until the context is *)
(* reviewed.                                                                  *)
DismissedStays == muted => banner # "shown"

(* A reminder is raised only when the threshold of projects has been closed   *)
(* since the last review.                                                     *)
RaisedWhenDue ==
    [][banner = "none" /\ banner' = "shown" => sequence - tuned >= Threshold]_vars
=============================================================================
