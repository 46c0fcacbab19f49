---------------------------- MODULE ChainProofs ----------------------------
(***************************************************************************)
(* Theorems about the two kinds of chains of MCChains.                     *)
(*                                                                         *)
(* TokenRefresh, for any number of tokens and requests: a token is         *)
(* exchanged for one pair at most, a family has one token that can be      *)
(* exchanged at most, and no pair survives an eviction.  The argument is   *)
(* about the lock of the user's row.  Whoever holds it holds it alone      *)
(* (Held), and what was read under it still stands when it is written      *)
(* (Checked): the token is live, the epoch is the user's, and the row      *)
(* about to be inserted does not exist.  A token that has a successor is   *)
(* revoked (Rotated), so a live one has none.                              *)
(*                                                                         *)
(* The runs of MCChains, each for any projects, runs and chains: the part  *)
(* that moves never changes, so a behaviour is one of an instance of       *)
(* SequenceRun, and the theorems of SequenceRunProofs apply to it.         *)
(***************************************************************************)
EXTENDS MCChains, FiniteSetTheorems, TLAPS

-----------------------------------------------------------------------------
(* The tokens. *)
Held == \A t \in Slots : slot[t].phase \in {"checked", "minted", "evicted"} => locked = t
Checked ==
    \A t \in Slots :
        /\ slot[t].phase \in {"waiting", "checked", "minted"} => slot[t].token \in Tokens
        /\ slot[t].phase \in {"checked", "minted"} =>
             row[slot[t].token] = "live" /\ slot[t].read = epoch
        /\ slot[t].phase = "minted" => slot[t].new \in Tokens /\ row[slot[t].new] = "none"
Rotated == \A k \in Tokens : parent[k] # NoToken => row[parent[k]] = "revoked"

TokenInv ==
    /\ TypeOK
    /\ Held
    /\ Checked
    /\ Rotated
    /\ OneSuccessor
    /\ OneLivePerFamily
    /\ NothingSurvivesEviction

(* Nobody holds anything at the start. *)
LEMMA TokenInit == Init => TokenInv
  <1> USE TokensAssumption
  <1> SUFFICES ASSUME Init PROVE TokenInv
    OBVIOUS
  <1>1. TypeOK
    BY DEF Init, TypeOK, Idle, Phases
  <1>2. Held /\ Checked
    BY DEF Init, Held, Checked, Idle
  <1>3. Rotated /\ OneSuccessor /\ NothingSurvivesEviction
    BY DEF Init, Rotated, OneSuccessor, NothingSurvivesEviction, LiveTokens
  <1>4. OneLivePerFamily
    BY DEF Init, OneLivePerFamily, LiveTokens
  <1> QED
    BY <1>1, <1>2, <1>3, <1>4 DEF TokenInv

(* A commit of a refresh: its token was live until now, so it has no other *)
(* successor, its family no other live token, and its epoch is the user's. *)
LEMMA CommitRefreshStep ==
    ASSUME TokenInv, NEW t \in Slots, CommitRefresh(t) PROVE TokenInv'
  <1> USE TokensAssumption
  <1> DEFINE k == slot[t].token
             n == slot[t].new
  <1>1. /\ k \in Tokens /\ n \in Tokens /\ row[k] = "live" /\ row[n] = "none" /\ k # n
        /\ slot[t].read = epoch /\ locked = t
    BY DEF TokenInv, Held, Checked, CommitRefresh
  <1>2. \A u \in Slots : u # t => slot[u].phase \notin {"checked", "minted", "evicted"}
    BY <1>1 DEF TokenInv, Held
  <1>3. /\ row' = [row EXCEPT ![k] = "revoked", ![n] = "live"]
        /\ family' = [family EXCEPT ![n] = family[k]]
        /\ parent' = [parent EXCEPT ![n] = k]
        /\ born' = [born EXCEPT ![n] = epoch]
        /\ slot' = [slot EXCEPT ![t] = Idle]
        /\ locked' = NoSlot /\ epoch' = epoch /\ active' = active /\ cache' = cache
    BY <1>1 DEF CommitRefresh, ReleaseUser
  <1>4. TypeOK
    BY DEF TokenInv
  <1> HIDE DEF k, n
  <1>5. TypeOK'
    BY <1>1, <1>3, <1>4 DEF TypeOK, Idle, Phases
  <1>6. \A u \in Slots : slot'[u] = IF u = t THEN Idle ELSE slot[u]
    BY <1>3, <1>4 DEF TypeOK
  <1>7. Held' /\ Checked'
    BY <1>2, <1>6 DEF TokenInv, Held, Checked, Idle
  <1>8. \A j \in Tokens : /\ row'[j] = IF j = n THEN "live" ELSE IF j = k THEN "revoked" ELSE row[j]
                          /\ parent'[j] = IF j = n THEN k ELSE parent[j]
                          /\ family'[j] = IF j = n THEN family[k] ELSE family[j]
                          /\ born'[j] = IF j = n THEN epoch ELSE born[j]
    BY <1>1, <1>3, <1>4 DEF TypeOK
  <1>9. \A j \in Tokens : parent[j] # NoToken => parent[j] \in Tokens /\ row[parent[j]] = "revoked"
    BY <1>4 DEF TokenInv, Rotated, TypeOK
  <1>10. Rotated'
    BY <1>1, <1>8, <1>9 DEF Rotated
  <1>11. OneSuccessor'
    BY <1>1, <1>8, <1>9 DEF TokenInv, OneSuccessor
  <1>12. OneLivePerFamily'
    BY <1>1, <1>8 DEF TokenInv, OneLivePerFamily, LiveTokens
  <1>13. NothingSurvivesEviction'
    BY <1>1, <1>3, <1>8 DEF TokenInv, NothingSurvivesEviction, LiveTokens
  <1> QED
    BY <1>5, <1>7, <1>10, <1>11, <1>12, <1>13 DEF TokenInv

(* A step that revokes tokens while nobody else holds the lock, and may    *)
(* move the epoch if it leaves no live token.                              *)
LEMMA RevokingStep ==
    ASSUME TokenInv, NEW t \in Slots, NEW ks \in SUBSET LiveTokens,
           row' = Revoked(ks), slot' = [slot EXCEPT ![t] = Idle], locked' = NoSlot,
           UNCHANGED <<family, parent, born, cache>>,
           locked \in {t, NoSlot}, epoch' \in 0 .. MaxEpoch, active' \in BOOLEAN,
           ks = LiveTokens \/ epoch' = epoch
    PROVE TokenInv'
  <1> USE TokensAssumption
  <1>1. TypeOK
    BY DEF TokenInv
  <1>2. \A k \in Tokens : row'[k] = IF k \in ks THEN "revoked" ELSE row[k]
    BY DEF Revoked
  <1>3. \A k \in Tokens : row'[k] = "live" => row[k] = "live" /\ epoch' = epoch
    BY <1>2 DEF LiveTokens
  <1>4. TypeOK'
    BY <1>1 DEF TypeOK, Revoked, Idle, Phases
  <1>5. \A u \in Slots : slot'[u] = IF u = t THEN Idle ELSE slot[u]
    BY <1>1 DEF TypeOK
  <1>6. \A u \in Slots : slot'[u].phase \notin {"checked", "minted", "evicted"}
    <2> TAKE u \in Slots
    <2>1. CASE u = t
      BY <1>5, <2>1 DEF Idle
    <2>2. CASE u # t
      BY <1>5, <2>2 DEF TokenInv, Held, TypeOK
    <2> QED
      BY <2>1, <2>2
  <1>7. Held' /\ Checked'
    BY <1>5, <1>6 DEF TokenInv, Held, Checked, Idle
  <1>8. Rotated'
    BY <1>1, <1>2 DEF TokenInv, Rotated, TypeOK
  <1>9. OneSuccessor'
    BY DEF TokenInv, OneSuccessor
  <1>10. OneLivePerFamily' /\ NothingSurvivesEviction'
    BY <1>3 DEF TokenInv, OneLivePerFamily, NothingSurvivesEviction, LiveTokens
  <1> QED
    BY <1>4, <1>7, <1>8, <1>9, <1>10 DEF TokenInv

(* A step of one request that leaves the table and the epoch as they are:  *)
(* the request's own record has to fit, and the lock stays with its holder.*)
LEMMA RequestStep ==
    ASSUME TokenInv, NEW t \in Slots, NEW s,
           UNCHANGED <<tokens, epoch, active>>,
           slot' = [slot EXCEPT ![t] = s],
           s \in [phase : Phases, token : Tokens \cup {NoToken},
                  new : Tokens \cup {NoToken}, read : 0 .. MaxEpoch, to : BOOLEAN],
           cache' \in [Tokens -> Tokens \cup {NoToken}],
           locked' \in Slots \cup {NoSlot},
           \A u \in Slots \ {t} : locked = u => locked' = u,
           s.phase \in {"checked", "minted", "evicted"} => locked' = t,
           s.phase \in {"waiting", "checked", "minted"} => s.token \in Tokens,
           s.phase \in {"checked", "minted"} => row[s.token] = "live" /\ s.read = epoch,
           s.phase = "minted" => s.new \in Tokens /\ row[s.new] = "none"
    PROVE TokenInv'
  <1>1. TypeOK
    BY DEF TokenInv
  <1>2. \A u \in Slots : slot'[u] = IF u = t THEN s ELSE slot[u]
    BY <1>1 DEF TypeOK
  <1>3. TypeOK'
    BY <1>1 DEF TypeOK, tokens
  <1>4. Held'
    BY <1>2 DEF TokenInv, Held
  <1>5. Checked'
    BY <1>2 DEF TokenInv, Checked, tokens
  <1>6. Rotated' /\ OneSuccessor'
    BY DEF TokenInv, Rotated, OneSuccessor, tokens
  <1>7. OneLivePerFamily' /\ NothingSurvivesEviction'
    BY DEF TokenInv, OneLivePerFamily, NothingSurvivesEviction, LiveTokens, tokens
  <1> QED
    BY <1>3, <1>4, <1>5, <1>6, <1>7 DEF TokenInv

(* Every step preserves the invariant. *)
LEMMA TokenStep == TokenInv /\ [Next]_vars => TokenInv'
  <1> USE TokensAssumption
  <1> SUFFICES ASSUME TokenInv, [Next]_vars PROVE TokenInv'
    OBVIOUS
  <1>0. TypeOK /\ Held /\ Checked
    BY DEF TokenInv
  <1>rec. \A t \in Slots : slot[t] \in [phase : Phases, token : Tokens \cup {NoToken},
                     new : Tokens \cup {NoToken}, read : 0 .. MaxEpoch, to : BOOLEAN]
    BY <1>0 DEF TypeOK
  <1>idle. Idle \in [phase : Phases, token : Tokens \cup {NoToken},
                     new : Tokens \cup {NoToken}, read : 0 .. MaxEpoch, to : BOOLEAN]
    BY DEF Idle, Phases
  <1>1. ASSUME NEW t \in Slots, NEW k \in Tokens, Present(t, k) PROVE TokenInv'
    <2> DEFINE s == [Idle EXCEPT !.phase = "waiting", !.token = k]
    <2>1. s \in [phase : Phases, token : Tokens \cup {NoToken},
                 new : Tokens \cup {NoToken}, read : 0 .. MaxEpoch, to : BOOLEAN]
          /\ s.phase = "waiting" /\ s.token = k
      BY <1>idle DEF Phases
    <2>2. slot' = [slot EXCEPT ![t] = s] /\ UNCHANGED <<tokens, epoch, active, locked, cache>>
      BY <1>1 DEF Present
    <2> HIDE DEF s
    <2> QED
      BY <1>0, <2>1, <2>2, RequestStep DEF TypeOK
  <1>2. ASSUME NEW t \in Slots, LockAndCheck(t) PROVE TokenInv'
    <2> DEFINE s == [slot[t] EXCEPT !.phase = "checked", !.read = epoch]
    <2>1. s \in [phase : Phases, token : Tokens \cup {NoToken},
                 new : Tokens \cup {NoToken}, read : 0 .. MaxEpoch, to : BOOLEAN]
          /\ s.phase = "checked" /\ s.token = slot[t].token /\ s.read = epoch
      BY <1>0, <1>rec DEF TypeOK, Phases
    <2>2. /\ slot' = [slot EXCEPT ![t] = s] /\ UNCHANGED <<tokens, epoch, active, cache>>
          /\ locked = NoSlot /\ locked' = t
      BY <1>0, <1>2 DEF LockAndCheck, AcquireUser, TypeOK
    <2>3. s.token \in Tokens /\ row[s.token] = "live"
      BY <1>0, <1>2, <2>1 DEF LockAndCheck, StillLive, Checked
    <2> HIDE DEF s
    <2> QED
      BY <1>0, <2>1, <2>2, <2>3, RequestStep DEF TypeOK
  <1>3. ASSUME NEW t \in Slots, ReuseDetected(t) PROVE TokenInv'
    <2> DEFINE ks == LiveOf(family[slot[t].token])
    <2>1. ks \in SUBSET LiveTokens
      BY DEF LiveOf, LiveTokens
    <2>2. /\ row' = Revoked(ks) /\ slot' = [slot EXCEPT ![t] = Idle] /\ locked = NoSlot
          /\ UNCHANGED <<family, parent, born, epoch, active, locked, cache>>
      BY <1>3 DEF ReuseDetected
    <2> HIDE DEF ks
    <2> QED
      BY <1>0, <2>1, <2>2, RevokingStep DEF TypeOK
  <1>4. ASSUME NEW t \in Slots, Refuse(t) PROVE TokenInv'
    <2>1. /\ slot' = [slot EXCEPT ![t] = Idle]
          /\ UNCHANGED <<tokens, epoch, active, locked, cache>>
      BY <1>4 DEF Refuse
    <2> QED
      BY <1>0, <1>idle, <2>1, RequestStep DEF TypeOK, Idle
  <1>5. ASSUME NEW t \in Slots, NEW n \in Tokens, Mint(t, n) PROVE TokenInv'
    <2> DEFINE s == [slot[t] EXCEPT !.phase = "minted", !.new = n]
    <2>1. s \in [phase : Phases, token : Tokens \cup {NoToken},
                 new : Tokens \cup {NoToken}, read : 0 .. MaxEpoch, to : BOOLEAN]
          /\ s.phase = "minted" /\ s.token = slot[t].token /\ s.read = slot[t].read /\ s.new = n
      BY <1>0, <1>rec DEF TypeOK, Phases
    <2>2. /\ slot' = [slot EXCEPT ![t] = s] /\ UNCHANGED <<tokens, epoch, active, locked>>
          /\ cache' = [cache EXCEPT ![slot[t].token] = n] /\ row[n] = "none"
      BY <1>0, <1>5 DEF Mint, TypeOK, Unissued
    <2>3. s.token \in Tokens /\ row[s.token] = "live" /\ s.read = epoch /\ locked = t
      BY <1>0, <1>5, <2>1 DEF Mint, Checked, Held
    <2>4. cache' \in [Tokens -> Tokens \cup {NoToken}]
      BY <1>0, <2>2 DEF TypeOK
    <2> HIDE DEF s
    <2> QED
      BY <1>0, <2>1, <2>2, <2>3, <2>4, RequestStep DEF TypeOK
  <1>6. ASSUME NEW t \in Slots, CommitRefresh(t) PROVE TokenInv'
    BY <1>6, CommitRefreshStep
  <1>7. ASSUME NEW t \in Slots, Abort(t) PROVE TokenInv'
    <2>1. /\ slot' = [slot EXCEPT ![t] = Idle] /\ locked = t /\ locked' = NoSlot
          /\ UNCHANGED <<tokens, epoch, active, cache>>
      BY <1>0, <1>7 DEF Abort, ReleaseUser, Held
    <2> QED
      BY <1>0, <1>idle, <2>1, RequestStep DEF TypeOK, Idle
  <1>8. ASSUME NEW t \in Slots, NEW stays \in BOOLEAN, EvictRead(t, stays) PROVE TokenInv'
    <2> DEFINE s == [Idle EXCEPT !.phase = "evicting", !.read = epoch + 1, !.to = stays]
    <2>1. s \in [phase : Phases, token : Tokens \cup {NoToken},
                 new : Tokens \cup {NoToken}, read : 0 .. MaxEpoch, to : BOOLEAN]
          /\ s.phase = "evicting"
      <3>1. epoch + 1 \in 0 .. MaxEpoch
        BY <1>0, <1>8 DEF EvictRead, TypeOK
      <3> QED
        BY <1>idle, <3>1 DEF Phases
    <2>2. slot' = [slot EXCEPT ![t] = s] /\ UNCHANGED <<tokens, epoch, active, locked, cache>>
      BY <1>8 DEF EvictRead
    <2> HIDE DEF s
    <2> QED
      BY <1>0, <2>1, <2>2, RequestStep DEF TypeOK
  <1>9. ASSUME NEW t \in Slots, EvictLock(t) PROVE TokenInv'
    <2> DEFINE s == [slot[t] EXCEPT !.phase = "evicted"]
    <2>1. s \in [phase : Phases, token : Tokens \cup {NoToken},
                 new : Tokens \cup {NoToken}, read : 0 .. MaxEpoch, to : BOOLEAN]
          /\ s.phase = "evicted"
      BY <1>0, <1>rec DEF TypeOK, Phases
    <2>2. /\ slot' = [slot EXCEPT ![t] = s] /\ UNCHANGED <<tokens, epoch, active, cache>>
          /\ locked = NoSlot /\ locked' = t
      BY <1>0, <1>9 DEF EvictLock, AcquireUser, TypeOK
    <2> HIDE DEF s
    <2> QED
      BY <1>0, <2>1, <2>2, RequestStep DEF TypeOK
  <1>10. ASSUME NEW t \in Slots, EvictCommit(t) PROVE TokenInv'
    <2>1. /\ row' = Revoked(LiveTokens) /\ slot' = [slot EXCEPT ![t] = Idle]
          /\ locked' = NoSlot /\ UNCHANGED <<family, parent, born, cache>>
          /\ epoch' = slot[t].read /\ active' = (active /\ slot[t].to) /\ locked = t
      BY <1>0, <1>10 DEF EvictCommit, ReleaseUser, Held
    <2>2. epoch' \in 0 .. MaxEpoch
      BY <1>0, <2>1 DEF TypeOK
    <2>3. active' \in BOOLEAN
      BY <2>1
    <2> QED
      BY <2>1, <2>2, <2>3, RevokingStep
  <1>11. ASSUME NEW k \in Tokens, ForgetAnswer(k) PROVE TokenInv'
    <2>1. cache' = [cache EXCEPT ![k] = NoToken] /\ UNCHANGED <<tokens, epoch, active, locked, slot>>
      BY <1>11 DEF ForgetAnswer
    <2> QED
      BY <2>1 DEF TokenInv, TypeOK, Held, Checked, Rotated, OneSuccessor, OneLivePerFamily,
                  NothingSurvivesEviction, LiveTokens, tokens
  <1>12. CASE UNCHANGED vars
    BY <1>12 DEF TokenInv, TypeOK, Held, Checked, Rotated, OneSuccessor, OneLivePerFamily,
                 NothingSurvivesEviction, LiveTokens, tokens, vars
  <1> QED
    BY <1>1, <1>2, <1>3, <1>4, <1>5, <1>6, <1>7, <1>8, <1>9, <1>10, <1>11, <1>12 DEF Next

LEMMA TokenInvariant == Spec => []TokenInv
  BY TokenInit, TokenStep, PTL DEF Spec

(* A refresh token is exchanged for at most one pair, however requests,    *)
(* retries, failures and evictions interleave (refresh_token_grant).       *)
THEOREM OneSuccessorHolds == Spec => []OneSuccessor
  <1>1. TokenInv => OneSuccessor
    BY DEF TokenInv
  <1> QED
    BY <1>1, TokenInvariant, PTL

(* A family never has two tokens that can be exchanged.                    *)
THEOREM OneLivePerFamilyHolds == Spec => []OneLivePerFamily
  <1>1. TokenInv => OneLivePerFamily
    BY DEF TokenInv
  <1> QED
    BY <1>1, TokenInvariant, PTL

(* What can still be refreshed was minted at the user's present epoch, so  *)
(* an eviction leaves nothing behind (revoke_all_for_user).                *)
THEOREM NothingSurvivesHolds == Spec => []NothingSurvivesEviction
  <1>1. TokenInv => NothingSurvivesEviction
    BY DEF TokenInv
  <1> QED
    BY <1>1, TokenInvariant, PTL

-----------------------------------------------------------------------------
(* The runs. *)
Racing == part \notin {"serial", "turns"}
InSerial == part = "serial"
InTurns == part = "turns"

LEMMA RacesRun == MCSpec /\ Racing => Races!Spec /\ []Racing
  <1>1. MCInit /\ Racing => Races!Init
    BY DEF MCInit, Racing
  <1>2. Racing /\ [MCNext]_<<vars, part, runVars>> => Racing' /\ [Races!Next]_(Races!vars)
    BY DEF MCNext, Racing, runVars, Races!vars
  <1> QED BY <1>1, <1>2, PTL DEF MCSpec, Races!Spec

LEMMA SerialRuns == MCSpec /\ InSerial => Serial!Spec /\ []InSerial
  <1>1. MCInit /\ InSerial => Serial!Init
    BY DEF MCInit, InSerial
  <1>2. InSerial /\ [MCNext]_<<vars, part, runVars>> => InSerial' /\ [Serial!Next]_(Serial!vars)
    BY DEF MCNext, InSerial, runVars, Serial!vars
  <1> QED BY <1>1, <1>2, PTL DEF MCSpec, Serial!Spec

LEMMA TurnsRun == MCSpec /\ InTurns => Turns!Spec /\ []InTurns
  <1>1. MCInit /\ InTurns => Turns!Init
    BY DEF MCInit, InTurns
  <1>2. InTurns /\ [MCNext]_<<vars, part, runVars>> => InTurns' /\ [Turns!Next]_(Turns!vars)
    BY DEF MCNext, InTurns, runVars, Turns!vars
  <1> QED BY <1>1, <1>2, PTL DEF MCSpec, Turns!Spec

LEMMA OnePart == Racing \/ InSerial \/ InTurns
  BY DEF Racing, InSerial, InTurns

LEMMA OneServed == Serial!OneRequest /\ Turns!OneRequest
  BY DEF Serial!OneRequest, Turns!OneRequest

(* An active run takes a member for finished only when the project has     *)
(* finished or its closeout is under way, whatever stale map was written   *)
(* back over the copy, with any number of requests in flight.              *)
THEOREM TruthfulCopiesHolds == MCSpec => []TruthfulCopies
  <1>1. MCSpec /\ Racing => []TruthfulCopies
    <2>1. Races!Spec => []Races!TruthfulCopy
      BY RunsFit, Races!TruthfulCopyHolds
    <2>2. Racing /\ Races!TruthfulCopy => TruthfulCopies
      BY DEF Racing, TruthfulCopies
    <2> QED BY <2>1, <2>2, RacesRun, PTL
  <1>2. MCSpec /\ InSerial => []TruthfulCopies
    <2>1. Serial!Spec => []Serial!TruthfulCopy
      BY RunsFit, Serial!TruthfulCopyHolds
    <2>2. InSerial /\ Serial!TruthfulCopy => TruthfulCopies
      BY DEF InSerial, TruthfulCopies
    <2> QED BY <2>1, <2>2, SerialRuns, PTL
  <1>3. MCSpec /\ InTurns => []TruthfulCopies
    <2>1. Turns!Spec => []Turns!TruthfulCopy
      BY RunsFit, Turns!TruthfulCopyHolds
    <2>2. InTurns /\ Turns!TruthfulCopy => TruthfulCopies
      BY DEF InTurns, TruthfulCopies
    <2> QED BY <2>1, <2>2, TurnsRun, PTL
  <1> QED BY <1>1, <1>2, <1>3, OnePart, PTL

(* A run is deleted only when each of its members has finished or is being *)
(* closed out, as long as none is taken out of a run while requests        *)
(* overlap; and, served one request at a time, only when no settlement     *)
(* approval is pending.                                                    *)
THEOREM PurgedAreFinishedHolds ==
    ASSUME {"remove", "delete"} \cap RaceOps = {} PROVE MCSpec => PurgedAreFinished
  <1>1. MCSpec /\ Racing => PurgedAreFinished
    <2>1. Races!Spec => Races!PurgedFinished
      BY RunsFit, Races!PurgedFinishedHolds DEF Races!MembersKept
    <2>2. Racing /\ [\A r \in Solo : Races!Purged(r) =>
                       \A p \in ToSet(run[r].order) : member[p].ended \/ Races!Closing(p)]_(Races!vars)
          => [part # "turns" => \A r \in Solo : Races!Purged(r) =>
                /\ part = "serial" => settle[r] = {}
                /\ \A p \in ToSet(run[r].order) :
                     \/ member[p].ended
                     \/ IF part = "serial" THEN Serial!Closing(p) ELSE Races!Closing(p)]_runVars
      BY DEF Racing, Races!vars, runVars
    <2>3. Races!PurgedFinished =>
            [][\A r \in Solo : Races!Purged(r) =>
                 \A p \in ToSet(run[r].order) : member[p].ended \/ Races!Closing(p)]_(Races!vars)
      BY PTL DEF Races!PurgedFinished, Races!ToSet, ToSet
    <2> QED BY <2>1, <2>2, <2>3, RacesRun, PTL DEF PurgedAreFinished
  <1>2. MCSpec /\ InSerial => PurgedAreFinished
    <2>1. Serial!Spec => Serial!PurgedFinished /\ Serial!PurgedSettled
      BY RunsFit, OneServed, Serial!PurgedFinishedHolds, Serial!PurgedSettledHolds
    <2>2. InSerial /\ [\A r \in Solo : Serial!Purged(r) =>
                         \A p \in ToSet(run[r].order) : member[p].ended \/ Serial!Closing(p)]_(Serial!vars)
                   /\ [\A r \in Solo : Serial!Purged(r) => settle[r] = {}]_(Serial!vars)
          => [part # "turns" => \A r \in Solo : Races!Purged(r) =>
                /\ part = "serial" => settle[r] = {}
                /\ \A p \in ToSet(run[r].order) :
                     \/ member[p].ended
                     \/ IF part = "serial" THEN Serial!Closing(p) ELSE Races!Closing(p)]_runVars
      BY DEF InSerial, Serial!vars, runVars, Serial!Purged, Races!Purged
    <2>3. Serial!PurgedFinished =>
            [][\A r \in Solo : Serial!Purged(r) =>
                 \A p \in ToSet(run[r].order) : member[p].ended \/ Serial!Closing(p)]_(Serial!vars)
      BY PTL DEF Serial!PurgedFinished, Serial!ToSet, ToSet
    <2>4. Serial!PurgedSettled => [][\A r \in Solo : Serial!Purged(r) => settle[r] = {}]_(Serial!vars)
      BY PTL DEF Serial!PurgedSettled
    <2> QED BY <2>1, <2>2, <2>3, <2>4, SerialRuns, PTL DEF PurgedAreFinished
  <1>3. MCSpec /\ InTurns => PurgedAreFinished
    <2>1. InTurns => [part # "turns" => \A r \in Solo : Races!Purged(r) =>
                        /\ part = "serial" => settle[r] = {}
                        /\ \A p \in ToSet(run[r].order) :
                             \/ member[p].ended
                             \/ IF part = "serial" THEN Serial!Closing(p) ELSE Races!Closing(p)]_runVars
      BY DEF InTurns
    <2> QED BY <2>1, TurnsRun, PTL DEF PurgedAreFinished
  <1> QED BY <1>1, <1>2, <1>3, OnePart, PTL

(* The index of a run moves past a member only when the run knows it to    *)
(* have finished, when requests are served one at a time, chains name no   *)
(* project twice, and nothing takes a mark back (a resumed page, a         *)
(* deactivation).                                                          *)
THEOREM PassedAreFinishedHolds ==
    ASSUME {"resume", "deactivate"} \cap SerialOps = {},
           \A chain \in TrioChains : \A i, j \in 1..Len(chain) : chain[i] = chain[j] => i = j
    PROVE  MCSpec => PassedAreFinished
  <1>1. MCSpec /\ InSerial => PassedAreFinished
    <2>1. Serial!NoRegress
      BY OneServed DEF Serial!NoRegress, Serial!Distinct
    <2>2. Serial!Spec => Serial!PassedFinished
      BY <2>1, RunsFit, Serial!PassedFinishedHolds
    <2>3. InSerial /\ [\A r \in Solo : run'[r].index > run[r].index =>
                         run[r].copy[run[r].order[run'[r].index]] \in Serial!Terminal]_(Serial!vars)
          => [part = "serial" => \A r \in Solo : run'[r].index > run[r].index =>
                 run[r].copy[run[r].order[run'[r].index]] \in Serial!Terminal]_runVars
      BY DEF Serial!vars, runVars
    <2> QED BY <2>2, <2>3, SerialRuns, PTL DEF PassedAreFinished, Serial!PassedFinished
  <1>2. ASSUME ~InSerial
        PROVE  [part = "serial" => \A r \in Solo : run'[r].index > run[r].index =>
                   run[r].copy[run[r].order[run'[r].index]] \in Serial!Terminal]_runVars
    BY <1>2 DEF InSerial
  <1>3. Racing \/ InTurns => ~InSerial
    BY DEF Racing, InSerial, InTurns
  <1> QED BY <1>1, <1>2, <1>3, OnePart, RacesRun, TurnsRun, PTL DEF PassedAreFinished

(* Served one request at a time, the runs keep to the contract of          *)
(* ChainContract: a project is under one run at most and nobody leaves one *)
(* that is under way, a run that ended is not taken up again, and one is   *)
(* deleted only with all its members over.                                 *)
THEOREM RunsHonouredHolds == MCSpec => RunsHonoured
  <1> DEFINE Step == /\ part = "serial" => [Serial!Contract!Next]_(Serial!Contract!vars)
                     /\ part = "turns" => [Turns!Contract!Next]_(Turns!Contract!vars)
             Start == /\ part = "serial" => Serial!Contract!Init
                      /\ part = "turns" => Turns!Contract!Init
  <1>1. MCSpec /\ InSerial => RunsHonoured
    <2>1. Serial!Spec => Serial!ChainHonoured
      BY RunsFit, OneServed, Serial!HonoursChain DEF Serial!Serially
    <2>2. InSerial /\ Serial!Contract!Init => Start
      BY DEF InSerial
    <2>3. InSerial /\ [Serial!Contract!Next]_(Serial!Contract!vars) => [Step]_runVars
      BY DEF InSerial
    <2> QED BY <2>1, <2>2, <2>3, SerialRuns, PTL DEF RunsHonoured, Serial!ChainHonoured, Serial!Contract!Spec
  <1>2. MCSpec /\ InTurns => RunsHonoured
    <2>1. Turns!Spec => Turns!ChainHonoured
      BY RunsFit, OneServed, Turns!HonoursChain DEF Turns!Serially
    <2>2. InTurns /\ Turns!Contract!Init => Start
      BY DEF InTurns
    <2>3. InTurns /\ [Turns!Contract!Next]_(Turns!Contract!vars) => [Step]_runVars
      BY DEF InTurns
    <2> QED BY <2>1, <2>2, <2>3, TurnsRun, PTL DEF RunsHonoured, Turns!ChainHonoured, Turns!Contract!Spec
  <1>3. MCSpec /\ Racing => RunsHonoured
    <2>1. Racing => Start /\ [Step]_runVars
      BY DEF Racing
    <2> QED BY <2>1, RacesRun, PTL DEF RunsHonoured
  <1> QED BY <1>1, <1>2, <1>3, OnePart, PTL
=============================================================================
