---------------------------- MODULE TokenRefresh ----------------------------
(***************************************************************************)
(* The OAuth refresh grant of one user and the invalidations that race     *)
(* with it: a rotating, one-time refresh token, the answer cache that      *)
(* makes a retry idempotent, reuse detection, and the eviction of a user   *)
(* (force-logout, password change, deactivation).                          *)
(*                                                                         *)
(* Requests are slots.  A refresh looks its row up without a lock, misses  *)
(* the cache, waits for the row lock of the user, re-reads its row and     *)
(* then mints; its writes are visible from its commit on, but the answer   *)
(* cache is no part of the transaction.  The families exist already: the   *)
(* authorization-code exchange that starts one is not modelled.            *)
(***************************************************************************)
EXTENDS Naturals, FiniteSets

CONSTANTS
    Tokens,    \* refresh tokens, those still to be issued included (a bound)
    Roots,     \* the first token of each family
    NoToken,
    Slots,     \* requests in flight
    NoSlot,
    MaxEpoch   \* bound on the evictions

ASSUME TokensAssumption ==
    /\ Roots \subseteq Tokens
    /\ NoToken \notin Tokens
    /\ NoSlot \notin Slots
    /\ MaxEpoch \in Nat

VARIABLES
    row,     \* oauth_refresh_tokens, as committed
    family,  \* the root each row descends from
    parent,  \* the token each row was exchanged for
    born,    \* revocation epoch in the access token handed out with the row
    epoch,   \* users.token_revocation_epoch
    active,  \* users.is_active
    locked,  \* the slot that holds the lock of the user's row
    cache,   \* answer cache: the pair to repeat to a retry of a token
    slot     \* requests in flight

vars == <<row, family, parent, born, epoch, active, locked, cache, slot>>
tokens == <<row, family, parent, born>>

Phases == {"idle", "waiting", "checked", "minted", "evicting", "evicted"}
Idle == [phase |-> "idle", token |-> NoToken, new |-> NoToken, read |-> 0, to |-> TRUE]

TypeOK ==
    /\ row \in [Tokens -> {"none", "live", "revoked"}]
    /\ family \in [Tokens -> Roots \cup {NoToken}]
    /\ parent \in [Tokens -> Tokens \cup {NoToken}]
    /\ born \in [Tokens -> 0 .. MaxEpoch]
    /\ epoch \in 0 .. MaxEpoch
    /\ active \in BOOLEAN
    /\ locked \in Slots \cup {NoSlot}
    /\ cache \in [Tokens -> Tokens \cup {NoToken}]
    /\ slot \in [Slots -> [phase : Phases, token : Tokens \cup {NoToken},
                           new : Tokens \cup {NoToken}, read : 0 .. MaxEpoch,
                           to : BOOLEAN]]

Init ==
    /\ row = [k \in Tokens |-> IF k \in Roots THEN "live" ELSE "none"]
    /\ family = [k \in Tokens |-> IF k \in Roots THEN k ELSE NoToken]
    /\ parent = [k \in Tokens |-> NoToken]
    /\ born = [k \in Tokens |-> 0]
    /\ epoch = 0
    /\ active = TRUE
    /\ locked = NoSlot
    /\ cache = [k \in Tokens |-> NoToken]
    /\ slot = [t \in Slots |-> Idle]

-----------------------------------------------------------------------------
LiveOf(f) == {k \in Tokens : row[k] = "live" /\ family[k] = f}
Revoked(ks) == [k \in Tokens |-> IF k \in ks THEN "revoked" ELSE row[k]]
LiveTokens == {k \in Tokens : row[k] = "live"}
Unissued(k) ==
    /\ row[k] = "none"
    /\ \A t \in Slots : slot[t].new # k
    /\ \A j \in Tokens : cache[j] # k
AcquireUser(t) == locked = NoSlot /\ locked' = t
ReleaseUser == locked' = NoSlot

(* refresh_token_grant: the unlocked look-up and the cache miss.  A cache  *)
(* hit repeats the cached pair and changes nothing.                        *)
Present(t, k) ==
    /\ slot[t].phase = "idle"
    /\ row[k] # "none"
    /\ cache[k] = NoToken
    /\ slot' = [slot EXCEPT ![t] = [Idle EXCEPT !.phase = "waiting", !.token = k]]
    /\ UNCHANGED <<tokens, epoch, active, locked, cache>>

(* Mutant of StillLive: row.revoked as the unlocked look-up read it.        *)
LiveWhenRead(k) == k \in Tokens
(* db.refresh(row): the row as committed now, under the user's lock.       *)
StillLive(k) == row[k] = "live"

LockAndCheck(t) ==
    /\ slot[t].phase = "waiting"
    /\ StillLive(slot[t].token)
    /\ active
    /\ AcquireUser(t)
    /\ slot' = [slot EXCEPT ![t].phase = "checked", ![t].read = epoch]
    /\ UNCHANGED <<tokens, epoch, active, cache>>

(* The token was used before: the family is revoked and committed before   *)
(* the request is refused.                                                 *)
ReuseDetected(t) ==
    /\ slot[t].phase = "waiting"
    /\ ~StillLive(slot[t].token)
    /\ locked = NoSlot
    /\ row' = Revoked(LiveOf(family[slot[t].token]))
    /\ slot' = [slot EXCEPT ![t] = Idle]
    /\ UNCHANGED <<family, parent, born, epoch, active, locked, cache>>

(* An expired token or an inactive user: refused, nothing written.         *)
Refuse(t) ==
    /\ slot[t].phase = "waiting"
    /\ StillLive(slot[t].token)
    /\ locked = NoSlot
    /\ slot' = [slot EXCEPT ![t] = Idle]
    /\ UNCHANGED <<tokens, epoch, active, locked, cache>>

(* Rotation: the old row is revoked and a new pair made; the pair is in    *)
(* the answer cache before the rows are committed.                         *)
Mint(t, n) ==
    /\ slot[t].phase = "checked"
    /\ Unissued(n)
    /\ slot' = [slot EXCEPT ![t].phase = "minted", ![t].new = n]
    /\ cache' = [cache EXCEPT ![slot[t].token] = n]
    /\ UNCHANGED <<tokens, epoch, active, locked>>

(* The commit of the grant, and the lock is gone.                          *)
CommitRefresh(t) ==
    LET k == slot[t].token
        n == slot[t].new
    IN  /\ slot[t].phase = "minted"
        /\ row' = [row EXCEPT ![k] = "revoked", ![n] = "live"]
        /\ family' = [family EXCEPT ![n] = family[k]]
        /\ parent' = [parent EXCEPT ![n] = k]
        /\ born' = [born EXCEPT ![n] = slot[t].read]
        /\ slot' = [slot EXCEPT ![t] = Idle]
        /\ ReleaseUser
        /\ UNCHANGED <<epoch, active, cache>>

(* The request dies or its commit fails: rolled back, except the cache.    *)
Abort(t) ==
    /\ slot[t].phase \in {"checked", "minted", "evicted"}
    /\ slot' = [slot EXCEPT ![t] = Idle]
    /\ ReleaseUser
    /\ UNCHANGED <<tokens, epoch, active, cache>>

(* The window of the answer cache ends, or the entry is evicted.           *)
ForgetAnswer(k) ==
    /\ cache[k] # NoToken
    /\ cache' = [cache EXCEPT ![k] = NoToken]
    /\ UNCHANGED <<tokens, epoch, active, locked, slot>>

(* force_logout, change_password, update_user and delete_user: the user is *)
(* read first, then locked; the locking SELECT does not refresh what was   *)
(* read, so the new epoch is computed from the first read.                 *)
EvictRead(t, stays) ==
    /\ slot[t].phase = "idle"
    /\ epoch < MaxEpoch
    /\ slot' = [slot EXCEPT ![t] = [Idle EXCEPT !.phase = "evicting",
                                                !.read = epoch + 1, !.to = stays]]
    /\ UNCHANGED <<tokens, epoch, active, locked, cache>>

EvictLock(t) ==
    /\ slot[t].phase = "evicting"
    /\ AcquireUser(t)
    /\ slot' = [slot EXCEPT ![t].phase = "evicted"]
    /\ UNCHANGED <<tokens, epoch, active, cache>>

(* Mutant of EvictCommit: the epoch alone, as before the refresh tokens     *)
(* were revoked with it.                                                    *)
EvictEpochOnly(t) ==
    /\ slot[t].phase = "evicted"
    /\ epoch' = slot[t].read
    /\ active' = (active /\ slot[t].to)
    /\ slot' = [slot EXCEPT ![t] = Idle]
    /\ ReleaseUser
    /\ UNCHANGED <<row, family, parent, born, cache>>

(* revoke_all_for_user and the epoch, in one commit.                       *)
EvictCommit(t) ==
    /\ slot[t].phase = "evicted"
    /\ row' = Revoked(LiveTokens)
    /\ epoch' = slot[t].read
    /\ active' = (active /\ slot[t].to)
    /\ slot' = [slot EXCEPT ![t] = Idle]
    /\ ReleaseUser
    /\ UNCHANGED <<family, parent, born, cache>>

Next ==
    \/ \E t \in Slots :
        \/ \E k \in Tokens : Present(t, k)
        \/ LockAndCheck(t)
        \/ ReuseDetected(t)
        \/ Refuse(t)
        \/ \E n \in Tokens : Mint(t, n)
        \/ CommitRefresh(t)
        \/ Abort(t)
        \/ \E stays \in BOOLEAN : EvictRead(t, stays)
        \/ EvictLock(t)
        \/ EvictCommit(t)
    \/ \E k \in Tokens : ForgetAnswer(k)

Spec == Init /\ [][Next]_vars

-----------------------------------------------------------------------------

(* A token is exchanged for at most one pair that exists: the lineage of a *)
(* family is a chain, also when retries overlap the first request.         *)
OneSuccessor ==
    \A k, m \in Tokens : parent[k] = parent[m] /\ parent[k] # NoToken => k = m

(* However refreshes, retries and evictions interleave, a family has at    *)
(* most one token that can still be exchanged.                             *)
OneLivePerFamily == \A k, m \in LiveTokens : family[k] = family[m] => k = m

(* No pair survives an eviction: what can still be refreshed was minted at *)
(* the user's present epoch, whichever of the two took the lock first.     *)
NothingSurvivesEviction == \A k \in LiveTokens : born[k] = epoch

(* A retry of a token whose answer is still in the cache is no reuse: it   *)
(* must not revoke the family the answer belongs to.                       *)
NoFalseAlarm ==
    [][\A t \in Slots : ReuseDetected(t) => cache[slot[t].token] = NoToken]_vars
=============================================================================
