----------------------------- MODULE Notifications -----------------------------
(***************************************************************************)
(* The notifications of a tenant: the banner of an available update, which *)
(* the update checker and the refresh task emit; the banner of an outdated *)
(* skills bundle, which comes back a day after its dismissal; and the      *)
(* warning that an API key is about to expire (notification_service.py,    *)
(* background_tasks.py, update_checker.py, auth_service.py).               *)
(*                                                                         *)
(* A unique index allows one open row per dedupe key, so a key's open row  *)
(* is its state; a row that was resolved is "none".                        *)
(***************************************************************************)
EXTENDS Integers

CONSTANTS Checker, Refresh,  \* the two loops that emit the banners
          Versions,          \* bound: the releases that ever appear, 1..n
          ApiKeys,
          Drift,             \* the dedupe key of the skills banner
          Mode,              \* "git" or "release": how the checker looks for updates
          Families,          \* the banners emitted: "update", "drift"
          MaxBoots,          \* bound: restarts of the server
          Ops,               \* "fail", "release", "setup", "upgrade", "dismiss", "revoke"
          Interleaved        \* FALSE: one loop or scan at a time, and no revocation during it

Emitters == {Checker, Refresh}
Keys == Versions \cup {Drift} \cup ApiKeys

VARIABLES latest,   \* the newest release there is, zero if it is the installed one
          info,     \* state.update_available, zero for None
          drift,    \* is the acknowledged skills bundle behind?
          row,      \* the open row of each dedupe key
          emitter,
          key,      \* "far" from its expiry, "near", "expired" or "revoked"
          scanner,  \* the keys the running scan has still to announce
          boots,    \* the restarts so far
          resolving \* the keys whose revocation is committed, their row not yet resolved

vars == <<latest, info, drift, row, emitter, key, scanner, resolving, boots>>

Idle == [pc |-> "idle", info |-> 0, drift |-> FALSE, found |-> "none"]
NoScan == [todo |-> {}, key |-> "none", found |-> "none"]

Init ==
    /\ latest = 0 /\ info = 0 /\ drift = FALSE
    /\ row = [k \in Keys |-> "none"]
    /\ emitter = [e \in Emitters |-> Idle]
    /\ key = [k \in ApiKeys |-> "far"]
    /\ scanner = NoScan /\ resolving = {} /\ boots = 0

Called(op) == op \in Ops
Alone(other) == Interleaved \/ emitter[other].pc = "idle"

(* An emitter or a scan that holds a row finds it gone after it is resolved. *)
Resolved(closed) ==
    [e \in Emitters |->
        IF emitter[e].found # "none"
           /\ (\/ emitter[e].pc = "updating" /\ emitter[e].info \in closed
               \/ emitter[e].pc = "drifting" /\ Drift \in closed)
        THEN [emitter[e] EXCEPT !.found = "gone"] ELSE emitter[e]]
Close(closed) == row' = [k \in Keys |-> IF k \in closed THEN "none" ELSE row[k]]

-----------------------------------------------------------------------------
(* The world: a release appears, the server is upgraded with a new bundle,   *)
(* giljo_setup acknowledges it.                                              *)
Release ==
    /\ Called("release")
    /\ latest + 1 \in Versions /\ latest' = latest + 1
    /\ UNCHANGED <<info, drift, row, emitter, key, scanner, resolving, boots>>
Upgrade ==
    /\ Called("upgrade") /\ ~drift
    /\ drift' = TRUE
    /\ UNCHANGED <<latest, info, row, emitter, key, scanner, resolving, boots>>
Setup ==
    /\ Called("setup") /\ drift
    /\ drift' = FALSE
    /\ UNCHANGED <<latest, info, row, emitter, key, scanner, resolving, boots>>

(* mark_dismissed; a day later the dismissal is old.                         *)
Dismiss(k) ==
    /\ Called("dismiss") /\ row[k] = "shown"
    /\ row' = [row EXCEPT ![k] = "dismissed"]
    /\ UNCHANGED <<latest, info, drift, emitter, key, scanner, resolving, boots>>

Age(k) ==
    /\ row[k] = "dismissed"
    /\ row' = [row EXCEPT ![k] = "aged"]
    /\ UNCHANGED <<latest, info, drift, emitter, key, scanner, resolving, boots>>

-----------------------------------------------------------------------------

(* One round of the update checker.  A failed look-up leaves the state alone *)
(* in git mode; in release mode it reads as "up to date".  A change is       *)
(* emitted.                                                                  *)
Answer(failed) == IF ~failed THEN latest ELSE IF Mode = "git" THEN info ELSE 0

First == IF "update" \in Families THEN "update" ELSE "drift"
Started(e, i) == [emitter EXCEPT ![e] = [Idle EXCEPT !.pc = First, !.info = i]]
Check(failed) ==
    /\ emitter[Checker].pc = "idle" /\ Alone(Refresh)
    /\ failed => Called("fail")
    /\ info' = Answer(failed)
    /\ emitter' = IF info' # info THEN Started(Checker, info') ELSE emitter
    /\ UNCHANGED <<latest, drift, row, key, scanner, resolving, boots>>

(* The refresh task, every six hours.                                        *)
Begin ==
    /\ emitter[Refresh].pc = "idle" /\ Alone(Checker)
    /\ emitter' = Started(Refresh, info)
    /\ UNCHANGED <<latest, info, drift, row, key, scanner, resolving, boots>>

(* A restart: what the process knew is gone, and init_background_tasks emits *)
(* the banners before the checker has its first answer.                      *)
Restart ==
    /\ boots < MaxBoots /\ boots' = boots + 1
    /\ info' = 0
    /\ emitter' = [e \in Emitters |-> IF e = Refresh THEN [Idle EXCEPT !.pc = First] ELSE Idle]
    /\ scanner' = NoScan /\ resolving' = {}
    /\ UNCHANGED <<latest, drift, row, key>>

AfterUpdate == IF "drift" \in Families THEN "drift" ELSE "idle"
To(e, em, pc) == IF pc = "idle" THEN [em EXCEPT ![e] = Idle] ELSE [em EXCEPT ![e].pc = pc]

(* No update: every row of the type is resolved.  Otherwise the version's    *)
(* row is looked for, inserted or refreshed, and the other versions' rows    *)
(* are resolved.                                                             *)
NoUpdate(e) ==
    /\ emitter[e].pc = "update" /\ emitter[e].info = 0
    /\ Close(Versions)
    /\ emitter' = To(e, Resolved(Versions), AfterUpdate)
    /\ UNCHANGED <<latest, info, drift, key, scanner, resolving, boots>>
FindUpdate(e) ==
    /\ emitter[e].pc = "update" /\ emitter[e].info # 0
    /\ emitter' = [emitter EXCEPT ![e].pc = "updating", ![e].found = row[emitter[e].info]]
    /\ UNCHANGED <<latest, info, drift, row, key, scanner, resolving, boots>>

(* An insert that loses against another one refreshes the row it lost to; a  *)
(* row that was resolved meanwhile is refreshed all the same, and stays      *)
(* resolved.  Only the drift banner resurfaces.                              *)
Refreshed(found, now, resurface) ==
    IF found = "none" /\ now = "none" THEN "shown"
    ELSE IF resurface /\ found = "aged" /\ now # "none" THEN "shown"
    ELSE now
WriteUpdate(e) ==
    /\ emitter[e].pc = "updating"
    /\ LET v == emitter[e].info IN row' = [row EXCEPT ![v] = Refreshed(emitter[e].found, row[v], FALSE)]
    /\ emitter' = [emitter EXCEPT ![e].pc = "superseding"]
    /\ UNCHANGED <<latest, info, drift, key, scanner, resolving, boots>>

Supersede(e) ==
    /\ emitter[e].pc = "superseding"
    /\ Close(Versions \ {emitter[e].info})
    /\ emitter' = To(e, Resolved(Versions \ {emitter[e].info}), AfterUpdate)
    /\ UNCHANGED <<latest, info, drift, key, scanner, resolving, boots>>

(* The skills banner: compute, then resolve or find and refresh.             *)
ComputeDrift(e) ==
    /\ emitter[e].pc = "drift"
    /\ emitter' = [emitter EXCEPT ![e].pc = "computed", ![e].drift = drift, ![e].found = "none"]
    /\ UNCHANGED <<latest, info, drift, row, key, scanner, resolving, boots>>
NoDrift(e) ==
    /\ emitter[e].pc = "computed" /\ ~emitter[e].drift
    /\ Close({Drift})
    /\ emitter' = To(e, Resolved({Drift}), "idle")
    /\ UNCHANGED <<latest, info, drift, key, scanner, resolving, boots>>
FindDrift(e) ==
    /\ emitter[e].pc = "computed" /\ emitter[e].drift
    /\ emitter' = [emitter EXCEPT ![e].pc = "drifting", ![e].found = row[Drift]]
    /\ UNCHANGED <<latest, info, drift, row, key, scanner, resolving, boots>>
WriteDrift(e) ==
    /\ emitter[e].pc = "drifting"
    /\ row' = [row EXCEPT ![Drift] = Refreshed(emitter[e].found, row[Drift], TRUE)]
    /\ emitter' = To(e, emitter, "idle")
    /\ UNCHANGED <<latest, info, drift, key, scanner, resolving, boots>>

Emit(e) ==
    \/ NoUpdate(e) \/ FindUpdate(e) \/ WriteUpdate(e) \/ Supersede(e)
    \/ ComputeDrift(e) \/ NoDrift(e) \/ FindDrift(e) \/ WriteDrift(e)

-----------------------------------------------------------------------------
(* Time passes over an API key. *)
Approach(k) ==
    /\ \/ key[k] = "far" /\ key' = [key EXCEPT ![k] = "near"]
       \/ key[k] = "near" /\ key' = [key EXCEPT ![k] = "expired"]
    /\ UNCHANGED <<latest, info, drift, row, emitter, scanner, resolving, boots>>

(* revoke_api_key commits, then resolves the key's warning.                  *)
Revoke(k) ==
    /\ Called("revoke") /\ key[k] # "revoked"
    /\ Interleaved \/ scanner = NoScan
    /\ key' = [key EXCEPT ![k] = "revoked"] /\ resolving' = resolving \cup {k}
    /\ UNCHANGED <<latest, info, drift, row, emitter, scanner, boots>>
ResolveKey(k) ==
    /\ k \in resolving
    /\ Close({k}) /\ resolving' = resolving \ {k}
    /\ UNCHANGED <<latest, info, drift, emitter, key, scanner, boots>>

(* scan_expiring_api_keys lists the keys and creates a warning for each;     *)
(* create leaves an open row as it is.                                       *)
Expiring == {k \in ApiKeys : key[k] = "near"}
Scan ==
    /\ scanner = NoScan /\ Expiring # {}
    /\ scanner' = [NoScan EXCEPT !.todo = Expiring]
    /\ UNCHANGED <<latest, info, drift, row, emitter, key, resolving, boots>>
FindKey(k) ==
    /\ k \in scanner.todo /\ scanner.key = "none"
    /\ scanner' = [todo |-> scanner.todo \ {k}, key |-> k, found |-> row[k]]
    /\ UNCHANGED <<latest, info, drift, row, emitter, key, resolving, boots>>
CreateKey ==
    /\ scanner.key # "none"
    /\ row' = [row EXCEPT ![scanner.key] = Refreshed(scanner.found, @, FALSE)]
    /\ scanner' = [scanner EXCEPT !.key = "none", !.found = "none"]
    /\ UNCHANGED <<latest, info, drift, emitter, key, resolving, boots>>

(* purge_resolved_older_than, thirty days after the key's expiry.            *)
Purge(k) ==
    /\ key[k] = "expired" /\ row[k] # "none"
    /\ Close({k})
    /\ UNCHANGED <<latest, info, drift, emitter, key, scanner, resolving, boots>>

Next ==
    \/ Release \/ Upgrade \/ Setup
    \/ \E failed \in BOOLEAN : Check(failed)
    \/ Begin \/ Restart \/ \E e \in Emitters : Emit(e)
    \/ \E k \in Keys : Dismiss(k) \/ Age(k)
    \/ \E k \in ApiKeys : Approach(k) \/ Revoke(k) \/ ResolveKey(k) \/ FindKey(k) \/ Purge(k)
    \/ Scan \/ CreateKey

Spec == Init /\ [][Next]_vars
(* The loops wake up every six hours, and days go by.                        *)
FairSpec ==
    /\ Spec
    /\ WF_vars(Begin) /\ \A e \in Emitters : WF_vars(Emit(e))
    /\ WF_vars(\E k \in Keys : Age(k))
    /\ \A k \in ApiKeys : WF_vars(ResolveKey(k)) /\ WF_vars(Purge(k)) /\ WF_vars(FindKey(k))
    /\ WF_vars(CreateKey)

-----------------------------------------------------------------------------
(* Every variable has the values the code gives it. *)
TypeOK ==
    /\ {latest, info} \subseteq Versions \cup {0} /\ drift \in BOOLEAN
    /\ row \in [Keys -> {"none", "shown", "dismissed", "aged"}]
    /\ \A e \in Emitters : emitter[e].pc \in {"idle", "update", "updating", "superseding",
                                              "drift", "computed", "drifting"}
    /\ key \in [ApiKeys -> {"far", "near", "expired", "revoked"}]
    /\ scanner.todo \subseteq ApiKeys /\ resolving \subseteq ApiKeys
    /\ boots \in 0..MaxBoots

(* The releases announced. *)
Announced == {v \in Versions : row[v] # "none"}

(* However the checker and the refresh task overlap, once the checker's      *)
(* answer settles, exactly the version it names stays announced.             *)
UpdateSettles ==
    /\ <>[](info = 0) => <>[](Announced = {})
    /\ \A v \in Versions : <>[](info = v) => <>[](Announced = {v})

(* The warning of a revoked key is resolved with the revocation.             *)
RevokedQuiet ==
    \A k \in ApiKeys : key[k] = "revoked" /\ k \notin resolving => row[k] = "none"

(* An available update stays announced while it is available, whatever       *)
(* becomes of a look-up.                                                     *)
AnnouncedStays ==
    [][\A v \in Versions : v = latest /\ row[v] # "none" => row'[v] # "none"]_vars
=============================================================================
