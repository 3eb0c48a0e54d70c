-------------------------- MODULE WebSessionProofs --------------------------
(***************************************************************************)
(* Proofs about the session store and the tab that logs in through it.     *)
(***************************************************************************)
EXTENDS WebSession, FiniteSetTheorems, TLAPS

(* A session that is not usable and will never be again.                   *)
Dead(t) == sessions[t].place # "unused" /\ ~ActiveSession(t)

(* A challenge that is answered for good, and the session it was answered  *)
(* with.                                                                   *)
Closed(c) == challenges[c].status \notin {"unused", "pending"}

(* A session's challenge is closed; a revoked one is used.                 *)
UsedInv ==
  \A t \in Tokens :
    /\ sessions[t].place # "unused" =>
         sessions[t].challenge \in ChallengeIds /\ Closed(sessions[t].challenge)
    /\ sessions[t].revoked => sessions[t].place # "unused"

(* Sessions end after they began, and are swept only when their beginning  *)
(* has left the cooldown's window.                                         *)
TimeInv ==
  \A t \in Tokens :
    /\ sessions[t].place = "map" =>
         /\ sessions[t].created_at <= now
         /\ sessions[t].created_at <= sessions[t].expires_at
         /\ sessions[t].revoked => sessions[t].created_at <= sessions[t].revoked_at
    /\ sessions[t].place = "swept" => sessions[t].created_at <= now - ApprovalWindow

(* An approved challenge names a used session.                             *)
ApprovedInv ==
  \A c \in ChallengeIds :
    challenges[c].status = "approved" =>
      challenges[c].session \in Tokens /\ sessions[challenges[c].session].place # "unused"

StoreInv ==
  /\ StoreTypeOK
  /\ UsedInv
  /\ TimeInv
  /\ ApprovedInv
  /\ OneSessionPerChallenge
  /\ ApprovalCooldown

-----------------------------------------------------------------------------
(* The store.                                                              *)

LEMMA GoneType ==
  ASSUME NEW e \in ChallengeRecord
  PROVE  /\ Gone(e) \in ChallengeRecord
         /\ Gone(e).status = "gone" /\ Gone(e).session = e.session
<1>1. e.session \in Tokens \union {None}  BY DEF ChallengeRecord
<1> QED  BY <1>1 DEF Gone, ChallengeRecord

LEMMA SweptType ==
  ASSUME NEW r \in SessionRecord
  PROVE  LET swept == [r EXCEPT !.place = "swept"]
         IN  /\ swept \in SessionRecord /\ swept.place = "swept"
             /\ swept.challenge = r.challenge /\ swept.revoked = r.revoked
  BY DEF SessionRecord

LEMMA LostType ==
  ASSUME NEW c \in ChallengeIds \union {None}, NEW place \in {"unused", "lost"}
  PROVE  LET lost == Forgotten(place, c)
         IN  /\ lost \in SessionRecord /\ lost.place = place
             /\ lost.challenge = c /\ ~lost.revoked
  BY DEF Forgotten, SessionRecord

LEMMA RevokedType ==
  ASSUME NEW r \in SessionRecord, NEW time \in Int
  PROVE  LET revoked == [r EXCEPT !.revoked = TRUE, !.revoked_at = time]
         IN  /\ revoked \in SessionRecord
             /\ revoked.revoked /\ revoked.revoked_at = time
             /\ revoked.place = r.place /\ revoked.challenge = r.challenge
             /\ revoked.did = r.did /\ revoked.device = r.device
             /\ revoked.created_at = r.created_at /\ revoked.expires_at = r.expires_at
  BY DEF SessionRecord

(* No approval the cooldown should count has been swept.                   *)
LEMMA SweptAreOld ==
  ASSUME StoreTypeOK, TimeInv, NEW d \in Dids, NEW v \in Devices
  PROVE  RecentApprovals(d, v) = RecentInMap(d, v)
  BY TimeAssumption DEF StoreTypeOK, TimeInv, SessionRecord, RecentApprovals, RecentInMap, InMap

LEMMA RecentFinite ==
  ASSUME NEW d \in Dids, NEW v \in Devices
  PROVE  /\ IsFiniteSet(RecentApprovals(d, v))
         /\ Cardinality(RecentApprovals(d, v)) \in Nat
<1>1. RecentApprovals(d, v) \subseteq Tokens  BY DEF RecentApprovals
<1>2. IsFiniteSet(RecentApprovals(d, v))  BY <1>1, FS_Subset, TokensAssumption
<1> QED  BY <1>2, FS_CardinalityType

(* The cooldown holds on when no approval is added.                        *)
LEMMA CooldownShrinks ==
  ASSUME ApprovalCooldown,
         \A d \in Dids, v \in Devices : RecentApprovals(d, v)' \subseteq RecentApprovals(d, v)
  PROVE  ApprovalCooldown'
<1> SUFFICES ASSUME NEW d \in Dids, NEW v \in Devices
             PROVE  Cardinality(RecentApprovals(d, v)') <= MaxApprovals
    BY DEF ApprovalCooldown
<1>1. /\ IsFiniteSet(RecentApprovals(d, v)')
      /\ Cardinality(RecentApprovals(d, v)') <= Cardinality(RecentApprovals(d, v))
    BY RecentFinite, FS_Subset
<1>2. Cardinality(RecentApprovals(d, v)') \in Nat  BY <1>1, FS_CardinalityType
<1> QED  BY <1>1, <1>2, RecentFinite, LimitAssumption DEF ApprovalCooldown

LEMMA StoreInitInv == StoreInit => StoreInv
<1> SUFFICES ASSUME StoreInit PROVE StoreInv  OBVIOUS
<1>1. StoreTypeOK
    BY DEF StoreInit, StoreTypeOK, ChallengeRecord, SessionRecord, NoSession, Forgotten
<1>2. UsedInv /\ TimeInv /\ ApprovedInv /\ OneSessionPerChallenge
    BY DEF StoreInit, UsedInv, TimeInv, ApprovedInv, OneSessionPerChallenge,
           NoSession, Forgotten
<1>3. ApprovalCooldown
  <2> SUFFICES ASSUME NEW d \in Dids, NEW v \in Devices
               PROVE  Cardinality(RecentApprovals(d, v)) <= MaxApprovals
      BY DEF ApprovalCooldown
  <2>1. RecentApprovals(d, v) = {}  BY DEF RecentApprovals, StoreInit, NoSession, Forgotten
  <2> QED  BY <2>1, FS_EmptySet, LimitAssumption
<1> QED  BY <1>1, <1>2, <1>3 DEF StoreInv

LEMMA IssueInv ==
  ASSUME StoreInv, NEW c \in ChallengeIds, Issue(c)
  PROVE  StoreInv'
<1>1. StoreTypeOK'
    BY TimeAssumption DEF StoreInv, StoreTypeOK, Issue, ChallengeRecord
<1>2. UsedInv'
    BY DEF StoreInv, StoreTypeOK, UsedInv, Closed, Issue, ChallengeRecord
<1>3. TimeInv' /\ OneSessionPerChallenge'
    BY DEF StoreInv, TimeInv, OneSessionPerChallenge, Issue
<1>4. ApprovedInv'
    BY DEF StoreInv, StoreTypeOK, ApprovedInv, Issue
<1>5. ApprovalCooldown'
    BY CooldownShrinks DEF StoreInv, RecentApprovals, Issue
<1> QED  BY <1>1, <1>2, <1>3, <1>4, <1>5 DEF StoreInv

LEMMA PollInv ==
  ASSUME StoreInv, NEW c \in ChallengeIds, Poll(c)
  PROVE  StoreInv'
<1>1. StoreTypeOK'
    BY DEF StoreInv, StoreTypeOK, Poll, ChallengeRecord
<1>2. UsedInv'
    BY DEF StoreInv, StoreTypeOK, UsedInv, Closed, Poll, ChallengeRecord
<1>3. TimeInv' /\ OneSessionPerChallenge'
    BY DEF StoreInv, TimeInv, OneSessionPerChallenge, Poll
<1>4. ApprovedInv'
    BY DEF StoreInv, StoreTypeOK, ApprovedInv, Poll, ChallengeRecord
<1>5. ApprovalCooldown'
    BY CooldownShrinks DEF StoreInv, RecentApprovals, Poll
<1> QED  BY <1>1, <1>2, <1>3, <1>4, <1>5 DEF StoreInv

LEMMA RejectInv ==
  ASSUME StoreInv, NEW c \in ChallengeIds, Reject(c)
  PROVE  StoreInv'
<1>1. StoreTypeOK'
    BY DEF StoreInv, StoreTypeOK, Reject, ChallengeRecord
<1>2. UsedInv'
    BY DEF StoreInv, StoreTypeOK, UsedInv, Closed, Reject, ChallengeRecord
<1>3. TimeInv' /\ OneSessionPerChallenge'
    BY DEF StoreInv, TimeInv, OneSessionPerChallenge, Reject
<1>4. ApprovedInv'
    BY DEF StoreInv, StoreTypeOK, ApprovedInv, Reject, ChallengeRecord
<1>5. ApprovalCooldown'
    BY CooldownShrinks DEF StoreInv, RecentApprovals, Reject
<1> QED  BY <1>1, <1>2, <1>3, <1>4, <1>5 DEF StoreInv

LEMMA RevokeInv ==
  ASSUME StoreInv, NEW t \in Tokens, Revoke(t)
  PROVE  StoreInv'
<1> USE DEF StoreInv
<1> DEFINE revoked == [sessions[t] EXCEPT !.revoked = TRUE, !.revoked_at = now]
<1>1. sessions' = [sessions EXCEPT ![t] = revoked] /\ UNCHANGED <<now, challenges>>
    BY DEF StoreTypeOK, Revoke
<1>2. /\ revoked \in SessionRecord
      /\ revoked.revoked /\ revoked.revoked_at = now
      /\ revoked.place = sessions[t].place /\ revoked.challenge = sessions[t].challenge
      /\ revoked.did = sessions[t].did /\ revoked.device = sessions[t].device
      /\ revoked.created_at = sessions[t].created_at
      /\ revoked.expires_at = sessions[t].expires_at
  <2>1. sessions[t] \in SessionRecord /\ now \in Int  BY DEF StoreTypeOK
  <2> QED  BY <2>1, RevokedType, Zenon
<1>3. sessions[t].place = "map"  BY DEF Revoke, InMap
<1> HIDE DEF revoked
<1>4. StoreTypeOK'
    BY <1>1, <1>2 DEF StoreTypeOK
<1>5. UsedInv'
    BY <1>1, <1>2, <1>3 DEF StoreTypeOK, UsedInv, Closed
<1>6. TimeInv'
    BY <1>1, <1>2, <1>3 DEF StoreTypeOK, TimeInv, SessionRecord
<1>7. OneSessionPerChallenge'
    BY <1>1, <1>2, <1>3 DEF StoreTypeOK, OneSessionPerChallenge
<1>8. ApprovedInv'
    BY <1>1, <1>2, <1>3 DEF StoreTypeOK, ApprovedInv
<1>9. ApprovalCooldown'
  <2>1. \A d \in Dids, v \in Devices : RecentApprovals(d, v)' \subseteq RecentApprovals(d, v)
      BY <1>1, <1>2 DEF StoreTypeOK, RecentApprovals
  <2> QED  BY <2>1, CooldownShrinks
<1> QED  BY <1>4, <1>5, <1>6, <1>7, <1>8, <1>9

LEMMA TickInv ==
  ASSUME StoreInv, Tick
  PROVE  StoreInv'
<1>1. StoreTypeOK'
    BY DEF StoreInv, StoreTypeOK, Tick
<1>2. UsedInv' /\ OneSessionPerChallenge' /\ ApprovedInv'
    BY DEF StoreInv, UsedInv, Closed, OneSessionPerChallenge, ApprovedInv, Tick
<1>3. TimeInv'
    BY TimeAssumption DEF StoreInv, StoreTypeOK, TimeInv, Tick, SessionRecord
<1>4. ApprovalCooldown'
  <2>1. \A d \in Dids, v \in Devices : RecentApprovals(d, v)' \subseteq RecentApprovals(d, v)
      BY TimeAssumption DEF StoreInv, StoreTypeOK, SessionRecord, RecentApprovals, Tick
  <2> QED  BY <2>1, CooldownShrinks DEF StoreInv
<1> QED  BY <1>1, <1>2, <1>3, <1>4 DEF StoreInv

LEMMA SweepInv ==
  ASSUME StoreInv, Sweep
  PROVE  StoreInv'
<1> USE DEF StoreInv
<1>1. \A t \in Tokens :
        /\ sessions'[t] \in SessionRecord
        /\ sessions'[t].challenge = sessions[t].challenge
        /\ sessions'[t].revoked = sessions[t].revoked
        /\ sessions'[t].place # "unused" <=> sessions[t].place # "unused"
    BY SweptType DEF StoreTypeOK, Sweep, PrunableSession, InMap
<1>2. \A c \in ChallengeIds :
        /\ challenges'[c] \in ChallengeRecord
        /\ \/ challenges'[c] = challenges[c]
           \/ challenges'[c].status = "gone" /\ challenges[c].status # "unused"
    BY GoneType DEF StoreTypeOK, Sweep, PrunableChallenge
<1>3. StoreTypeOK'
    BY <1>1, <1>2 DEF StoreTypeOK, Sweep
<1>4. UsedInv'
  <2> SUFFICES ASSUME NEW t \in Tokens
               PROVE  /\ sessions'[t].place # "unused" =>
                           /\ sessions'[t].challenge \in ChallengeIds
                           /\ challenges'[sessions'[t].challenge].status
                                \notin {"unused", "pending"}
                      /\ sessions'[t].revoked => sessions'[t].place # "unused"
      BY DEF UsedInv, Closed
  <2> QED  BY <1>1, <1>2 DEF UsedInv, Closed
<1>5. TimeInv'
    BY TimeAssumption, RetentionAssumption
    DEF StoreTypeOK, TimeInv, Sweep, PrunableSession, InMap, Cutoff, SessionRecord
<1>6. OneSessionPerChallenge'
    BY <1>1 DEF OneSessionPerChallenge
<1>7. ApprovedInv'
    BY <1>1, <1>2 DEF StoreTypeOK, ApprovedInv
<1>8. ApprovalCooldown'
  <2>1. \A d \in Dids, v \in Devices : RecentApprovals(d, v)' \subseteq RecentApprovals(d, v)
      BY DEF StoreTypeOK, SessionRecord, RecentApprovals, Sweep, PrunableSession, InMap
  <2> QED  BY <2>1, CooldownShrinks
<1> QED  BY <1>3, <1>4, <1>5, <1>6, <1>7, <1>8

LEMMA RestartInv ==
  ASSUME StoreInv, Restart
  PROVE  StoreInv'
<1> USE DEF StoreInv
<1>1. \A t \in Tokens :
        \/ sessions[t].place = "unused" /\ sessions'[t] = sessions[t]
        \/ /\ sessions[t].place # "unused" /\ sessions'[t].place = "lost"
           /\ sessions'[t].challenge = sessions[t].challenge
           /\ ~sessions'[t].revoked /\ sessions'[t] \in SessionRecord
  <2> SUFFICES ASSUME NEW t \in Tokens, sessions[t].place # "unused"
               PROVE  /\ sessions'[t].place = "lost"
                      /\ sessions'[t].challenge = sessions[t].challenge
                      /\ ~sessions'[t].revoked /\ sessions'[t] \in SessionRecord
      BY DEF StoreTypeOK, Restart
  <2>1. sessions[t].challenge \in ChallengeIds \union {None}
      BY DEF StoreTypeOK, SessionRecord
  <2>2. sessions'[t] = Forgotten("lost", sessions[t].challenge)
      BY DEF StoreTypeOK, Restart
  <2> QED  BY <2>1, <2>2, LostType
<1>2. \A c \in ChallengeIds :
        /\ challenges'[c] \in ChallengeRecord
        /\ \/ challenges'[c].status = "unused" /\ challenges[c].status = "unused"
           \/ challenges'[c].status = "gone"
    BY GoneType DEF StoreTypeOK, Restart
<1>3. StoreTypeOK'
    BY <1>1, <1>2 DEF StoreTypeOK, Restart
<1>4. UsedInv'
  <2> SUFFICES ASSUME NEW t \in Tokens
               PROVE  /\ sessions'[t].place # "unused" =>
                           /\ sessions'[t].challenge \in ChallengeIds
                           /\ challenges'[sessions'[t].challenge].status
                                \notin {"unused", "pending"}
                      /\ sessions'[t].revoked => sessions'[t].place # "unused"
      BY DEF UsedInv, Closed
  <2> QED  BY <1>1, <1>2 DEF UsedInv, Closed
<1>5. TimeInv' /\ OneSessionPerChallenge'
    BY <1>1 DEF StoreTypeOK, TimeInv, OneSessionPerChallenge, SessionRecord
<1>6. ApprovedInv'
    BY <1>2 DEF ApprovedInv
<1>7. ApprovalCooldown'
  <2>1. \A d \in Dids, v \in Devices : RecentApprovals(d, v)' \subseteq RecentApprovals(d, v)
      BY <1>1 DEF RecentApprovals
  <2> QED  BY <2>1, CooldownShrinks
<1> QED  BY <1>3, <1>4, <1>5, <1>6, <1>7

(* Approval is the only step that adds a session: the cooldown's count of  *)
(* the map is the count of all approvals, because none was swept early.    *)
LEMMA ApproveInv ==
  ASSUME StoreInv, NEW c \in ChallengeIds, NEW t \in Tokens, NEW d \in Dids,
         NEW v \in Devices, NEW expires \in Int, Approve(c, t, d, v, expires)
  PROVE  StoreInv'
<1> USE DEF StoreInv
<1>1. StoreTypeOK'
  <2> DEFINE approved == [challenges[c] EXCEPT !.status = "approved", !.session = t]
             session == [place |-> "map", challenge |-> c, did |-> d, device |-> v,
                         created_at |-> now, expires_at |-> expires,
                         revoked |-> FALSE, revoked_at |-> 0]
  <2>1. approved \in ChallengeRecord  BY DEF StoreTypeOK, ChallengeRecord
  <2>2. session \in SessionRecord  BY DEF StoreTypeOK, SessionRecord
  <2>3. challenges' = [challenges EXCEPT ![c] = approved]  BY DEF StoreTypeOK, Approve
  <2>4. sessions' = [sessions EXCEPT ![t] = session]  BY DEF Approve
  <2>5. now' = now  BY DEF Approve
  <2> HIDE DEF approved, session
  <2>6. challenges' \in [ChallengeIds -> ChallengeRecord]  BY <2>1, <2>3 DEF StoreTypeOK
  <2>7. sessions' \in [Tokens -> SessionRecord]  BY <2>2, <2>4 DEF StoreTypeOK
  <2>8. now' \in Nat  BY <2>5 DEF StoreTypeOK
  <2> QED  BY <2>6, <2>7, <2>8 DEF StoreTypeOK
<1>2. /\ sessions'[t].place = "map" /\ sessions'[t].challenge = c
      /\ sessions'[t].did = d /\ sessions'[t].device = v
      /\ sessions'[t].created_at = now /\ sessions'[t].expires_at = expires
      /\ ~sessions'[t].revoked
      /\ \A u \in Tokens \ {t} : sessions'[u] = sessions[u]
      /\ sessions[t].place = "unused" /\ now' = now /\ expires > now
    BY DEF StoreTypeOK, Approve
<1>3. /\ challenges[c].status = "pending" /\ challenges'[c].status = "approved"
      /\ challenges'[c].session = t
      /\ \A b \in ChallengeIds \ {c} : challenges'[b] = challenges[b]
    BY DEF StoreTypeOK, Approve, PendingChallenge, ChallengeRecord
<1>4. UsedInv'
    BY <1>2, <1>3 DEF UsedInv, Closed
<1>5. TimeInv'
    BY <1>2 DEF StoreTypeOK, TimeInv
<1>6. OneSessionPerChallenge'
  <2>1. \A u \in Tokens : sessions[u].place # "unused" => sessions[u].challenge # c
      BY <1>3 DEF UsedInv, Closed
  <2> QED  BY <1>2, <2>1 DEF OneSessionPerChallenge
<1>7. ApprovedInv'
    BY <1>2, <1>3 DEF ApprovedInv, StoreTypeOK, ChallengeRecord
<1>8. ApprovalCooldown'
  <2> SUFFICES ASSUME NEW e \in Dids, NEW w \in Devices
               PROVE  Cardinality(RecentApprovals(e, w)') <= MaxApprovals
      BY DEF ApprovalCooldown
  <2>1. CASE e = d /\ w = v
    <3>1. RecentApprovals(e, w)' \subseteq RecentApprovals(e, w) \union {t}
        BY <1>2 DEF RecentApprovals
    <3>2. Cardinality(RecentApprovals(e, w)) < MaxApprovals
        BY <2>1, SweptAreOld DEF Approve
    <3>3. /\ IsFiniteSet(RecentApprovals(e, w) \union {t})
          /\ Cardinality(RecentApprovals(e, w) \union {t}) <= Cardinality(RecentApprovals(e, w)) + 1
      <4>1. IsFiniteSet(RecentApprovals(e, w)) /\ Cardinality(RecentApprovals(e, w)) \in Nat
          BY RecentFinite
      <4> DEFINE S == RecentApprovals(e, w)
      <4> HIDE DEF S
      <4>2. /\ IsFiniteSet(S \union {t})
            /\ Cardinality(S \union {t}) = IF t \in S THEN Cardinality(S) ELSE Cardinality(S) + 1
          BY <4>1, FS_AddElement, Zenon DEF S
      <4> QED  BY <4>1, <4>2 DEF S
    <3>4. Cardinality(RecentApprovals(e, w)') <= Cardinality(RecentApprovals(e, w) \union {t})
        BY <3>1, <3>3, FS_Subset
    <3>5. /\ Cardinality(RecentApprovals(e, w)') \in Nat
          /\ Cardinality(RecentApprovals(e, w) \union {t}) \in Nat
        BY <3>1, <3>3, FS_Subset, FS_CardinalityType
    <3> QED  BY <3>2, <3>3, <3>4, <3>5, RecentFinite, LimitAssumption
  <2>2. CASE ~(e = d /\ w = v)
    <3>1. RecentApprovals(e, w)' = RecentApprovals(e, w)
        BY <1>2, <2>2 DEF RecentApprovals
    <3> QED  BY <3>1 DEF ApprovalCooldown
  <2> QED  BY <2>1, <2>2
<1> QED  BY <1>1, <1>4, <1>5, <1>6, <1>7, <1>8

LEMMA StoreNextInv == StoreInv /\ [StoreNext]_storeVars => StoreInv'
<1> SUFFICES ASSUME StoreInv, [StoreNext]_storeVars PROVE StoreInv'  OBVIOUS
<1>1. CASE UNCHANGED storeVars
    BY <1>1 DEF storeVars, StoreInv, StoreTypeOK, UsedInv, Closed, TimeInv, ApprovedInv,
               OneSessionPerChallenge, ApprovalCooldown, RecentApprovals
<1>2. ASSUME NEW c \in ChallengeIds, NEW t \in Tokens, NEW d \in Dids, NEW v \in Devices,
             NEW ttl \in 1..MaxSessionTTL, Approve(c, t, d, v, now + ttl)
      PROVE  StoreInv'
  <2>1. now + ttl \in Int  BY TimeAssumption DEF StoreInv, StoreTypeOK
  <2> QED  BY <1>2, <2>1, ApproveInv
<1>3. ASSUME NEW c \in ChallengeIds, Reject(c) \/ Issue(c) \/ Poll(c)  PROVE StoreInv'
    BY <1>3, RejectInv, IssueInv, PollInv
<1>4. ASSUME NEW t \in Tokens, Revoke(t)  PROVE StoreInv'
    BY <1>4, RevokeInv
<1>5. CASE Sweep \/ Restart \/ Tick
    BY <1>5, SweepInv, RestartInv, TickInv
<1> QED  BY <1>1, <1>2, <1>3, <1>4, <1>5 DEF StoreNext, StoreStep

(***************************************************************************)
(* What the store never undoes: a challenge that was issued, an answer to  *)
(* a challenge, a token that was drawn, a session that is over.            *)
(***************************************************************************)
Lasting ==
  /\ \A c \in ChallengeIds :
       /\ challenges[c].status # "unused" => challenges'[c].status # "unused"
       /\ Closed(c) => Closed(c)' /\ challenges'[c].session = challenges[c].session
  /\ \A t \in Tokens :
       /\ sessions[t].place # "unused" => sessions'[t].place # "unused"
       /\ Dead(t) => Dead(t)'

LEMMA StoreLasting ==
  ASSUME StoreInv, [StoreNext]_storeVars
  PROVE  Lasting
<1> USE DEF StoreInv, StoreTypeOK, Lasting, Closed, Dead, ActiveSession, InMap, Past
<1>1. CASE UNCHANGED storeVars
    BY <1>1 DEF storeVars
<1>2. ASSUME NEW c \in ChallengeIds, NEW t \in Tokens, NEW d \in Dids, NEW v \in Devices,
             NEW expires \in Int, Approve(c, t, d, v, expires)
      PROVE  Lasting
    BY <1>2 DEF Approve, PendingChallenge, ChallengeRecord
<1>3. ASSUME NEW c \in ChallengeIds, Reject(c) \/ Issue(c) \/ Poll(c)  PROVE Lasting
    BY <1>3 DEF Reject, Issue, Poll, ChallengeRecord
<1>4. ASSUME NEW t \in Tokens, Revoke(t)  PROVE Lasting
  <2>1. /\ sessions'[t].place = sessions[t].place /\ sessions'[t].revoked
        /\ \A u \in Tokens \ {t} : sessions'[u] = sessions[u]
        /\ UNCHANGED <<now, challenges>>
      BY <1>4 DEF Revoke, SessionRecord
  <2> QED  BY <2>1
<1>5. CASE Sweep
  <2>1. \A t \in Tokens :
          \/ sessions'[t] = sessions[t]
          \/ sessions[t].place = "map" /\ sessions'[t].place = "swept"
      BY <1>5, SweptType DEF Sweep, PrunableSession
  <2>2. \A c \in ChallengeIds :
          \/ challenges'[c] = challenges[c]
          \/ /\ challenges'[c].status = "gone"
             /\ challenges'[c].session = challenges[c].session
      BY <1>5, GoneType DEF Sweep
  <2> QED  BY <1>5, <2>1, <2>2 DEF Sweep
<1>6. CASE Restart
  <2>1. \A t \in Tokens :
          \/ sessions'[t] = sessions[t]
          \/ sessions'[t].place = "lost"
      BY <1>6 DEF Restart, Forgotten
  <2>2. \A c \in ChallengeIds :
          \/ challenges'[c] = challenges[c]
          \/ /\ challenges'[c].status = "gone"
             /\ challenges'[c].session = challenges[c].session
      BY <1>6, GoneType DEF Restart
  <2> QED  BY <1>6, <2>1, <2>2 DEF Restart
<1>7. CASE Tick
    BY <1>7 DEF Tick, SessionRecord
<1>8. ASSUME NEW c \in ChallengeIds, NEW t \in Tokens, NEW d \in Dids, NEW v \in Devices,
             NEW ttl \in 1..MaxSessionTTL, Approve(c, t, d, v, now + ttl)
      PROVE  Lasting
  <2>1. now + ttl \in Int  BY TimeAssumption
  <2> QED  BY <1>2, <1>8, <2>1
<1> HIDE DEF StoreInv, StoreTypeOK, Lasting, Closed, Dead, ActiveSession, InMap, Past
<1> QED  BY <1>1, <1>3, <1>4, <1>5, <1>6, <1>7, <1>8 DEF StoreNext, StoreStep

(* Every step of the tab and the relay is one of the store or leaves it.   *)
LEMMA NextIsStoreNext ==
  ASSUME TypeOK, [Next]_vars, \A k \in Calls : calls[k].kind = "poll" => calls[k].challenge # None
  PROVE  [StoreNext]_storeVars
<1>1. ASSUME NEW k \in Calls, ServeStart(k)  PROVE StoreNext
    BY <1>1 DEF ServeStart, StoreNext
<1>2. ASSUME NEW k \in Calls, ServePoll(k)  PROVE StoreNext
    BY <1>2 DEF ServePoll, StoreNext, TypeOK, CallRecord
<1>3. ASSUME NEW k \in Calls, ServeRevoke(k)  PROVE StoreNext \/ UNCHANGED storeVars
    BY <1>3 DEF ServeRevoke, StoreNext, ActiveSession, InMap
<1>4. CASE RelayStep
    BY <1>4 DEF RelayStep, StoreNext
<1>5. ASSUME NEW k \in Calls, UserStep(k) \/ ServeMe(k) \/ FailCall(k) \/ Receive(k)
      PROVE  UNCHANGED storeVars
    BY <1>5 DEF UserStep, StartLoad, StartLogin, PollLogin, RevokeSession, ReloadTab, ServeMe,
                FailCall, Receive, ReceiveRestore, FinishLoad, ReceiveStart, ReceivePoll,
                ReceiveLogin, ReceiveRevoke
<1>6. CASE OpenLoginPage \/ UNCHANGED vars
    BY <1>6 DEF OpenLoginPage, vars, storeVars
<1> QED  BY <1>1, <1>2, <1>3, <1>4, <1>5, <1>6 DEF Next, Serve

-----------------------------------------------------------------------------
(* The tab.                                                                *)

(***************************************************************************)
(* What is known of a handler that waits: its challenge was issued; a late *)
(* question is about a session that is over; the answer to /me is the      *)
(* session of the cookie it was asked with; a login asks with the session  *)
(* of its challenge, unless that is over.                                  *)
(***************************************************************************)
CallInv(call) ==
  /\ call.challenge # None => challenges[call.challenge].status # "unused"
  /\ call.kind \in {"poll", "pollme"} => call.challenge # None
  /\ call.kind = "load" /\ call.pc = "served" =>
       call.answer \in {"ok", "unauthenticated", "error"}
  /\ call.late => call.cookie \in Tokens /\ Dead(call.cookie)
  /\ call.kind \in {"load", "pollme"} /\ call.token # None =>
       call.token = call.cookie /\ ~call.late
  /\ LET t == challenges[call.challenge].session
     IN  /\ call.kind = "pollme" =>
              Closed(call.challenge) /\ t \in Tokens /\ (call.cookie = t \/ Dead(t))
         /\ call.kind = "poll" /\ call.answer = "approved" =>
              Closed(call.challenge) /\ t \in Tokens /\ (call.token = t \/ Dead(t))

TabInv ==
  /\ StoreInv
  /\ TypeOK
  /\ lifecycle.challenge # None => challenges[lifecycle.challenge].status # "unused"
  /\ \A k \in Calls : CallInv(calls[k])

Kinds == {"load", "start", "poll", "pollme", "revoke"}
Answers == {"ok", "unauthenticated", "error", "not_found",
            "pending", "approved", "rejected", "expired"}

LEMMA RequestFields ==
  ASSUME StoreTypeOK, NEW kind \in Kinds, NEW c \in ChallengeIds \union {None},
         NEW jar \in Tokens \union {None}
  PROVE  LET r == Request(kind, c, jar)
         IN  /\ r \in CallRecord
             /\ r.kind = kind /\ r.pc = "sent" /\ r.cookie = jar /\ r.challenge = c
             /\ r.answer = "none" /\ r.token = None
             /\ r.late <=> jar # None /\ sessions[jar].revoked
<1>1. (jar # None /\ sessions[jar].revoked) \in BOOLEAN
    BY DEF StoreTypeOK, SessionRecord
<1> QED  BY <1>1 DEF Request, CallRecord, Kinds

LEMMA AnsweredFields ==
  ASSUME NEW call \in CallRecord, NEW answer \in Answers, NEW t \in Tokens \union {None}
  PROVE  LET r == Answered(call, answer, t)
         IN  /\ r \in CallRecord
             /\ r.kind = call.kind /\ r.pc = "served" /\ r.cookie = call.cookie
             /\ r.challenge = call.challenge /\ r.late = call.late
             /\ r.answer = answer /\ r.token = t
  BY ZenonT(30) DEF Answered, CallRecord, Answers

LEMMA IdleInv == Idle \in CallRecord /\ CallInv(Idle)
  BY DEF Idle, CallRecord, CallInv

(* A revoked session is over, so a late request asks about a dead one.     *)
LEMMA RequestInv ==
  ASSUME StoreInv, NEW kind \in Kinds \ {"pollme"}, NEW c \in ChallengeIds \union {None},
         NEW jar \in Tokens \union {None},
         c # None => challenges[c].status # "unused", kind = "poll" => c # None
  PROVE  CallInv(Request(kind, c, jar))
<1> DEFINE r == Request(kind, c, jar)
<1>1. /\ r.kind = kind /\ r.pc = "sent" /\ r.cookie = jar /\ r.challenge = c
      /\ r.answer = "none" /\ r.token = None
      /\ r.late <=> jar # None /\ sessions[jar].revoked
    BY RequestFields DEF StoreInv, Kinds
<1>2. \A t \in Tokens : sessions[t].revoked => Dead(t)
    BY DEF StoreInv, UsedInv, Dead, ActiveSession
<1> HIDE DEF r
<1> QED  BY <1>1, <1>2 DEF CallInv, Kinds, r

LEMMA CallLasting ==
  ASSUME Lasting, NEW call \in CallRecord, CallInv(call)
  PROVE  CallInv(call)'
  BY NoneAssumption DEF Lasting, CallInv, CallRecord

(* One handler moves, the others wait.                                     *)
LEMMA OneCallMoves ==
  ASSUME TypeOK, \A j \in Calls : CallInv(calls[j]), Lasting,
         NEW k \in Calls, NEW r \in CallRecord, CallInv(r)',
         calls' = [calls EXCEPT ![k] = r]
  PROVE  calls' \in [Calls -> CallRecord] /\ (\A j \in Calls : CallInv(calls[j]))'
<1>1. calls' \in [Calls -> CallRecord]  BY DEF TypeOK
<1>2. ASSUME NEW j \in Calls  PROVE CallInv(calls[j])'
  <2>1. CASE j = k
    <3>1. calls'[j] = r  BY <2>1 DEF TypeOK
    <3> QED  BY <3>1 DEF CallInv
  <2>2. CASE j # k
    <3> PICK call \in CallRecord : call = calls[j]  BY DEF TypeOK
    <3>1. CallInv(call)'  BY CallLasting
    <3>2. calls'[j] = call  BY <2>2 DEF TypeOK
    <3> QED  BY <3>1, <3>2 DEF CallInv
  <2> QED  BY <2>1, <2>2
<1> QED  BY <1>1, <1>2

LEMMA StatesTyped ==
  /\ PublicState \in SessionState /\ ErrorState \in SessionState /\ NoLogin \in SessionState
  /\ PublicState.challenge = None /\ ErrorState.challenge = None
  /\ \A c \in ChallengeIds \union {None} :
       PendingState(c) \in SessionState /\ PendingState(c).challenge = c
  /\ \A t \in Tokens \union {None} :
       SessionStateOf(t) \in SessionState /\ SessionStateOf(t).challenge = None
  BY DEF PublicState, ErrorState, NoLogin, PendingState, SessionStateOf, StateOf, SessionState

(* The invariant after a step that moves handler k to r.                   *)
LEMMA CallStep ==
  ASSUME TabInv, StoreInv', Lasting,
         NEW k \in Calls, NEW r \in CallRecord, CallInv(r)',
         calls' = [calls EXCEPT ![k] = r],
         cookie' \in Tokens \union {None}, page' \in Tokens \union {None},
         route' \in {"login", "page"}, clicks' \in 0..MaxClicks,
         loginState' \in SessionState, lifecycle' \in SessionState,
         lifecycle'.challenge # None => challenges'[lifecycle'.challenge].status # "unused"
  PROVE  TabInv'
<1>1. calls' \in [Calls -> CallRecord] /\ (\A j \in Calls : CallInv(calls[j]))'
    BY OneCallMoves DEF TabInv
<1>2. TypeOK'  BY <1>1 DEF TypeOK, StoreInv
<1> QED  BY <1>1, <1>2 DEF TabInv

LEMMA TabTypes ==
  ASSUME TabInv, NEW k \in Calls
  PROVE  /\ calls[k] \in CallRecord /\ CallInv(calls[k])
         /\ calls[k].kind \in Kinds \union {"none"}
         /\ calls[k].challenge \in ChallengeIds \union {None}
         /\ calls[k].cookie \in Tokens \union {None}
         /\ calls[k].token \in Tokens \union {None}
         /\ cookie \in Tokens \union {None} /\ page \in Tokens \union {None}
         /\ lifecycle.challenge \in ChallengeIds \union {None}
  BY DEF TabInv, TypeOK, CallRecord, SessionState, Kinds

(* The lifecycle's challenge stays issued.                                 *)
LEMMA LifecycleLasting ==
  ASSUME TabInv, Lasting, UNCHANGED lifecycle
  PROVE  /\ lifecycle' \in SessionState
         /\ lifecycle'.challenge # None => challenges'[lifecycle'.challenge].status # "unused"
  BY DEF TabInv, TypeOK, SessionState, Lasting

LEMMA ClickType ==
  ASSUME TabInv, Click
  PROVE  clicks' \in 0..MaxClicks
  BY ClickAssumption DEF TabInv, TypeOK, Click

LEMMA UserInv ==
  ASSUME TabInv, StoreInv', Lasting, NEW k \in Calls, UserStep(k)
  PROVE  TabInv'
<1> USE TabTypes
<1>1. CASE StartLoad(k) \/ RevokeSession(k) \/ StartLogin(k) \/ PollLogin(k)
  <2>1. PICK kind \in Kinds \ {"pollme"}, c \in ChallengeIds \union {None},
             jar \in Tokens \union {None} :
          /\ calls' = [calls EXCEPT ![k] = Request(kind, c, jar)]
          /\ c # None => challenges[c].status # "unused"
          /\ kind = "poll" => c # None
    <3>1. CASE StartLoad(k)
      <4>1. calls' = [calls EXCEPT ![k] = Request("load", None, cookie)]
          BY <3>1 DEF StartLoad, TabInv
      <4>2. "load" \in Kinds \ {"pollme"}  BY DEF Kinds
      <4> WITNESS "load" \in Kinds \ {"pollme"}, None \in ChallengeIds \union {None},
                  cookie \in Tokens \union {None}
      <4> QED  BY <4>1
    <3>2. CASE RevokeSession(k)
      <4>1. calls' = [calls EXCEPT ![k] = Request("revoke", None, cookie)]
          BY <3>2 DEF RevokeSession, TabInv
      <4>2. "revoke" \in Kinds \ {"pollme"}  BY DEF Kinds
      <4> WITNESS "revoke" \in Kinds \ {"pollme"}, None \in ChallengeIds \union {None},
                  cookie \in Tokens \union {None}
      <4> QED  BY <4>1
    <3>3. CASE StartLogin(k)
      <4>1. calls' = [calls EXCEPT ![k] = Request("start", None, None)]
          BY <3>3 DEF StartLogin, TabInv
      <4>2. "start" \in Kinds \ {"pollme"}  BY DEF Kinds
      <4> WITNESS "start" \in Kinds \ {"pollme"}, None \in ChallengeIds \union {None},
                  None \in Tokens \union {None}
      <4> QED  BY <4>1
    <3>4. CASE PollLogin(k)
      <4>1. /\ calls' = [calls EXCEPT ![k] = Request("poll", lifecycle.challenge, cookie)]
            /\ lifecycle.challenge # None /\ challenges[lifecycle.challenge].status # "unused"
          BY <3>4 DEF PollLogin, TabInv
      <4>2. "poll" \in Kinds \ {"pollme"}  BY DEF Kinds
      <4> WITNESS "poll" \in Kinds \ {"pollme"}, lifecycle.challenge \in ChallengeIds \union {None},
                  cookie \in Tokens \union {None}
      <4> QED  BY <4>1
    <3> QED  BY <1>1, <3>1, <3>2, <3>3, <3>4
  <2>2. PICK r \in CallRecord : r = Request(kind, c, jar)
      BY RequestFields DEF TabInv, StoreInv
  <2>3. CallInv(r)
      BY <2>1, <2>2, RequestInv DEF TabInv
  <2>4. CallInv(r)'  BY <2>3, CallLasting
  <2>5. /\ UNCHANGED <<cookie, lifecycle, loginState, page>>
        /\ route' \in {"login", "page"} /\ Click
      BY <1>1 DEF StartLoad, RevokeSession, StartLogin, PollLogin, Handle, TabInv, TypeOK
  <2>6. loginState' \in SessionState  BY <2>5 DEF TabInv, TypeOK
  <2> QED  BY <2>1, <2>2, <2>4, <2>5, <2>6, CallStep, LifecycleLasting, ClickType
<1>2. CASE ReloadTab(k)
  <2>0. "load" \in Kinds \ {"pollme"}  BY DEF Kinds
  <2>1. PICK r \in CallRecord : r = Request("load", None, cookie)
    <3>1. Request("load", None, cookie) \in CallRecord
        BY <2>0, RequestFields DEF TabInv, StoreInv
    <3> QED  BY <3>1
  <2>2. CallInv(r)'
    <3>1. CallInv(r)  BY <2>0, <2>1, RequestInv DEF TabInv
    <3> QED  BY <3>1, CallLasting
  <2>3. CallInv(Idle)'  BY IdleInv, CallLasting
  <2>4. calls' = [j \in Calls |-> IF j = k THEN r ELSE Idle]
      BY <1>2, <2>1 DEF ReloadTab
  <2>5. ASSUME NEW j \in Calls  PROVE CallInv(calls[j])'
    <3>1. CASE j = k  BY <2>2, <2>4, <3>1 DEF CallInv
    <3>2. CASE j # k
      <4>1. calls'[j] = Idle  BY <2>4, <3>2
      <4> QED  BY <4>1, <2>3 DEF CallInv
    <3> QED  BY <3>1, <3>2
  <2>6. calls' \in [Calls -> CallRecord]  BY <2>4, IdleInv
  <2>7. TypeOK' /\ lifecycle'.challenge = None
      BY <1>2, <2>6, StatesTyped, ClickType DEF ReloadTab, TypeOK, TabInv, StoreInv
  <2> QED  BY <2>5, <2>7 DEF TabInv
<1> QED  BY <1>1, <1>2 DEF UserStep

(* The facts a step that only moves handler k has to show.                 *)
LEMMA CallStepOnly ==
  ASSUME TabInv, StoreInv', Lasting,
         NEW k \in Calls, NEW r \in CallRecord, CallInv(r)',
         calls' = [calls EXCEPT ![k] = r],
         UNCHANGED <<cookie, lifecycle, loginState, page, route, clicks>>
  PROVE  TabInv'
<1>1. loginState' \in SessionState /\ route' \in {"login", "page"} /\ clicks' \in 0..MaxClicks
    BY DEF TabInv, TypeOK
<1> QED  BY <1>1, TabTypes, LifecycleLasting, CallStep

LEMMA ServeInv ==
  ASSUME TabInv, StoreInv', Lasting, NEW k \in Calls, Serve(k) \/ FailCall(k)
  PROVE  TabInv'
<1> PICK call \in CallRecord : call = calls[k]  BY TabTypes
<1>0. /\ CallInv(call) /\ CallInv(call)'
      /\ call.cookie \in Tokens \union {None} /\ call.challenge \in ChallengeIds \union {None}
    BY TabTypes, CallLasting
<1>1. CASE ServeMe(k)
  <2> DEFINE answer == IF ActiveSession(call.cookie) THEN "ok" ELSE "unauthenticated"
             t == IF ActiveSession(call.cookie) THEN call.cookie ELSE None
  <2>0. Answered(call, answer, t) = IF ActiveSession(call.cookie)
                                    THEN Answered(call, "ok", call.cookie)
                                    ELSE Answered(call, "unauthenticated", None)
      OBVIOUS
  <2>1. /\ calls' = [calls EXCEPT ![k] = Answered(call, answer, t)]
        /\ t # None => t = call.cookie /\ ActiveSession(t)
        /\ t \in Tokens \union {None} /\ answer \in Answers /\ answer \in {"ok", "unauthenticated"}
    <3>1. calls' = [calls EXCEPT ![k] = Answered(call, answer, t)]
        BY <1>1, <2>0 DEF ServeMe
    <3>2. t # None => t = call.cookie /\ ActiveSession(t)  OBVIOUS
    <3>3. t \in Tokens \union {None}  BY <1>0
    <3>4. answer \in Answers /\ answer \in {"ok", "unauthenticated"}  BY DEF Answers
    <3> QED  BY <3>1, <3>2, <3>3, <3>4
  <2> HIDE DEF answer, t
  <2>2. PICK r \in CallRecord : r = Answered(call, answer, t)
      BY <2>1, AnsweredFields
  <2>3. /\ r.kind = call.kind /\ r.pc = "served" /\ r.cookie = call.cookie
        /\ r.challenge = call.challenge /\ r.late = call.late
        /\ r.answer = answer /\ r.token = t
      BY <2>1, <2>2, AnsweredFields
  <2>4. call.kind \in {"load", "pollme"}  BY <1>1 DEF ServeMe
  <2>5. CallInv(r)
      BY <1>0, <2>1, <2>3, <2>4 DEF CallInv, Dead
  <2>6. CallInv(r)'  BY <2>5, CallLasting
  <2> QED  BY <1>1, <2>1, <2>2, <2>6, CallStepOnly DEF ServeMe
<1>2. CASE ServeStart(k)
  <2>1. PICK c \in ChallengeIds :
          /\ Issue(c)
          /\ calls' = [calls EXCEPT ![k] = [Answered(call, "ok", None) EXCEPT !.challenge = c]]
      BY <1>2 DEF ServeStart
  <2>2. PICK a \in CallRecord : a = Answered(call, "ok", None)
      BY AnsweredFields DEF Answers
  <2>3. /\ a.kind = call.kind /\ a.cookie = call.cookie /\ a.late = call.late
        /\ a.answer = "ok" /\ a.token = None
      BY <2>2, AnsweredFields DEF Answers
  <2>4. PICK r \in CallRecord : r = [a EXCEPT !.challenge = c]
      BY DEF CallRecord
  <2>5. /\ r.kind = "start" /\ r.cookie = call.cookie /\ r.late = call.late
        /\ r.challenge = c /\ r.answer = "ok"
      BY <1>2, <2>3, <2>4 DEF CallRecord, ServeStart
  <2>6. challenges'[c].status = "pending"
      BY <2>1 DEF Issue, TabInv, StoreInv, StoreTypeOK
  <2>7. CallInv(r)'
      BY <1>0, <2>5, <2>6 DEF CallInv
  <2> QED  BY <1>2, <2>1, <2>2, <2>4, <2>7, CallStepOnly DEF ServeStart
<1>3. CASE ServePoll(k)
  <2> PICK c \in ChallengeIds : c = call.challenge
      BY <1>0, <1>3 DEF CallInv, ServePoll
  <2> DEFINE status == challenges'[c].status
             answer == IF status = "gone" THEN "not_found" ELSE status
  <2>1. /\ Poll(c) /\ call.kind = "poll"
        /\ calls' = [calls EXCEPT ![k] = Answered(call, answer, PollCookie(c))]
      BY <1>3 DEF ServePoll
  <2>2. answer \in Answers /\ PollCookie(c) \in Tokens \union {None}
    <3>1. status # "unused"  BY <1>0, NoneAssumption DEF CallInv
    <3>2. challenges'[c] \in ChallengeRecord  BY DEF StoreInv, StoreTypeOK
    <3>3. challenges[c] \in ChallengeRecord  BY DEF TabInv, StoreInv, StoreTypeOK
    <3> QED  BY <3>1, <3>2, <3>3 DEF ChallengeRecord, Answers, PollCookie
  <2>3. status = "approved" =>
          \E t \in Tokens : /\ t = challenges'[c].session
                            /\ Closed(c)' /\ (PollCookie(c) = t \/ Dead(t)')
    <3> SUFFICES ASSUME status = "approved"
                 PROVE  \E t \in Tokens : /\ t = challenges'[c].session
                                          /\ Closed(c)' /\ (PollCookie(c) = t \/ Dead(t)')
        OBVIOUS
    <3>1. challenges' = challenges
        BY <2>1 DEF Poll, TabInv, StoreInv, StoreTypeOK, ChallengeRecord
    <3>2. /\ challenges[c].status = "approved" /\ challenges[c].session \in Tokens
          /\ sessions[challenges[c].session].place # "unused"
        BY <3>1 DEF TabInv, StoreInv, ApprovedInv
    <3>3. PICK t \in Tokens : t = challenges[c].session  BY <3>2
    <3>4. PollCookie(c) = t \/ Dead(t)  BY <3>2, <3>3 DEF PollCookie, Dead
    <3>5. Dead(t) => Dead(t)'  BY DEF Lasting
    <3>6. challenges'[c].session = t /\ Closed(c)'  BY <3>1, <3>2, <3>3 DEF Closed
    <3> QED  BY <3>4, <3>5, <3>6
  <2>4. PICK r \in CallRecord :
          /\ r = Answered(call, answer, PollCookie(c))
          /\ r.kind = "poll" /\ r.cookie = call.cookie /\ r.challenge = c
          /\ r.late = call.late /\ r.answer = answer /\ r.token = PollCookie(c)
      BY <2>1, <2>2, AnsweredFields
  <2>5. CallInv(r)'
    <3> HIDE DEF status
    <3>1. r.answer = "approved" => status = "approved"  BY <2>4
    <3>2. /\ challenges'[r.challenge].status # "unused" /\ r.challenge # None
          /\ r.late => r.cookie \in Tokens /\ Dead(r.cookie)'
        BY <1>0, <2>4, NoneAssumption DEF CallInv
    <3>3. ASSUME r.answer = "approved"
          PROVE  (LET t == challenges[r.challenge].session
                  IN  Closed(r.challenge) /\ t \in Tokens /\ (r.token = t \/ Dead(t)))'
      <4>1. PICK t \in Tokens : /\ t = challenges'[r.challenge].session
                                /\ Closed(r.challenge)' /\ (r.token = t \/ Dead(t)')
          BY <2>3, <2>4, <3>1, <3>3
      <4> QED  BY <4>1 DEF Dead, ActiveSession, InMap, Past
    <3> QED  BY <2>4, <3>2, <3>3 DEF CallInv
  <2> QED  BY <1>3, <2>1, <2>4, <2>5, CallStepOnly DEF ServePoll
<1>4. CASE ServeRevoke(k)
  <2> DEFINE answer == IF ActiveSession(call.cookie) THEN "ok" ELSE "unauthenticated"
             t == IF ActiveSession(call.cookie) THEN call.cookie ELSE None
  <2>1. /\ calls' = [calls EXCEPT ![k] = Answered(call, answer, t)]
        /\ t \in Tokens \union {None} /\ answer \in Answers
    <3>1. calls' = [calls EXCEPT ![k] = Answered(call, answer, t)]
        BY <1>4 DEF ServeRevoke
    <3>2. t \in Tokens \union {None}  BY <1>0
    <3>3. answer \in Answers  BY DEF Answers
    <3> QED  BY <3>1, <3>2, <3>3
  <2> HIDE DEF answer, t
  <2>2. PICK r \in CallRecord : r = Answered(call, answer, t)
      BY <2>1, AnsweredFields
  <2>3. /\ r.kind = "revoke" /\ r.cookie = call.cookie
        /\ r.challenge = call.challenge /\ r.late = call.late
      BY <1>4, <2>1, <2>2, AnsweredFields DEF ServeRevoke
  <2>4. CallInv(r)'  BY <1>0, <2>3 DEF CallInv
  <2> QED  BY <1>4, <2>1, <2>2, <2>4, CallStepOnly DEF ServeRevoke
<1>5. CASE FailCall(k)
  <2>1. PICK r \in CallRecord : r = Answered(call, "error", None)
      BY AnsweredFields DEF Answers
  <2>2. /\ r.kind = call.kind /\ r.cookie = call.cookie /\ r.challenge = call.challenge
        /\ r.late = call.late /\ r.answer = "error" /\ r.token = None
      BY <2>1, AnsweredFields DEF Answers
  <2>3. CallInv(r)'  BY <1>0, <2>2 DEF CallInv
  <2>4. calls' = [calls EXCEPT ![k] = r]  BY <1>5, <2>1 DEF FailCall
  <2> QED  BY <1>5, <2>3, <2>4, CallStepOnly DEF FailCall
<1> QED  BY <1>1, <1>2, <1>3, <1>4, <1>5 DEF Serve

LEMMA ReceiveInv ==
  ASSUME TabInv, StoreInv', Lasting, NEW k \in Calls, Receive(k)
  PROVE  TabInv'
<1> PICK call \in CallRecord : call = calls[k]  BY TabTypes
<1>0. /\ CallInv(call) /\ CallInv(call)'
      /\ call.challenge \in ChallengeIds \union {None}
      /\ call.token \in Tokens \union {None} /\ cookie \in Tokens \union {None}
      /\ page \in Tokens \union {None} /\ route \in {"login", "page"}
      /\ clicks \in 0..MaxClicks /\ loginState \in SessionState /\ lifecycle \in SessionState
    BY TabTypes, CallLasting DEF TabInv, TypeOK
<1>i. Idle \in CallRecord /\ CallInv(Idle)'
    BY IdleInv, CallLasting
<1>1. CASE ReceiveRestore(k)
  <2>1. PICK r \in CallRecord : r = [call EXCEPT !.pc = "restored"]
      BY ZenonT(30) DEF CallRecord
  <2>2. /\ r.kind = call.kind /\ r.cookie = call.cookie /\ r.challenge = call.challenge
        /\ r.late = call.late /\ r.answer = call.answer /\ r.token = call.token
        /\ r.pc = "restored"
      BY <2>1 DEF CallRecord
  <2>3. CallInv(r)'  BY <1>0, <2>2 DEF CallInv
  <2>4. call.answer \in {"ok", "unauthenticated", "error"}
      BY <1>0, <1>1 DEF CallInv, ReceiveRestore
  <2>5. lifecycle' \in {SessionStateOf(call.token), PublicState, ErrorState}
      BY <1>1, <2>4 DEF ReceiveRestore
  <2>6. lifecycle' \in SessionState /\ lifecycle'.challenge = None
      BY <1>0, <2>5, StatesTyped
  <2>7. calls' = [calls EXCEPT ![k] = r]  BY <1>1, <2>1 DEF ReceiveRestore
  <2> QED  BY <1>0, <1>1, <2>3, <2>6, <2>7, CallStep DEF ReceiveRestore
<1>2. CASE FinishLoad(k)
  <2>1. page' \in Tokens \union {None}  BY <1>0, <1>2 DEF FinishLoad
  <2> QED  BY <1>0, <1>2, <1>i, <2>1, LifecycleLasting, CallStep DEF FinishLoad
<1>3. CASE ReceiveStart(k)
  <2>1. CASE call.answer = "ok"
    <3>1. lifecycle' = PendingState(call.challenge) /\ loginState' = lifecycle'
        BY <1>3, <2>1 DEF ReceiveStart
    <3>2. lifecycle' \in SessionState /\ lifecycle'.challenge = call.challenge
        BY <1>0, <3>1, StatesTyped
    <3>3. lifecycle'.challenge # None => challenges'[lifecycle'.challenge].status # "unused"
        BY <1>0, <3>2 DEF CallInv
    <3> QED  BY <1>0, <1>3, <1>i, <3>1, <3>2, <3>3, CallStep DEF ReceiveStart
  <2>2. CASE call.answer # "ok"
      BY <1>0, <1>3, <1>i, <2>2, LifecycleLasting, CallStep DEF ReceiveStart
  <2> QED  BY <2>1, <2>2
<1>4. CASE ReceivePoll(k)
  <2>0. cookie' \in Tokens \union {None} /\ UNCHANGED <<page, route, clicks>>
      BY <1>0, <1>4 DEF ReceivePoll
  <2>1. CASE call.answer = "approved"
    <3>1. "pollme" \in Kinds /\ StoreTypeOK /\ LoginCookie(k) \in Tokens \union {None}
        BY <1>0 DEF Kinds, TabInv, StoreInv, LoginCookie
    <3>2. PICK r \in CallRecord :
            /\ r = Request("pollme", call.challenge, LoginCookie(k))
            /\ r.kind = "pollme" /\ r.cookie = LoginCookie(k) /\ r.challenge = call.challenge
            /\ r.token = None
            /\ r.late <=> LoginCookie(k) # None /\ sessions[LoginCookie(k)].revoked
        BY <1>0, <3>1, RequestFields
    <3>3. /\ call.kind = "poll" /\ calls' = [calls EXCEPT ![k] = r]
          /\ UNCHANGED <<lifecycle, loginState>>
        BY <1>4, <2>1, <3>2 DEF ReceivePoll
    <3>4. r.late => r.cookie \in Tokens /\ Dead(r.cookie)
        BY <3>1, <3>2 DEF TabInv, StoreInv, UsedInv, Dead, ActiveSession
    <3>5. LET t == challenges[call.challenge].session
          IN  Closed(call.challenge) /\ t \in Tokens /\ (LoginCookie(k) = t \/ Dead(t))
      <4>1. LET t == challenges[call.challenge].session
            IN  Closed(call.challenge) /\ t \in Tokens /\ (call.token = t \/ Dead(t))
          BY <1>0, <2>1, <3>3 DEF CallInv
      <4> QED  BY <4>1, NoneAssumption DEF LoginCookie
    <3>6. CallInv(r)
        BY <1>0, <3>2, <3>3, <3>4, <3>5 DEF CallInv
    <3>7. CallInv(r)'  BY <3>6, CallLasting
    <3> QED  BY <1>0, <2>0, <3>3, <3>7, LifecycleLasting, CallStep
  <2>2. CASE call.answer = "pending"
    <3>1. /\ lifecycle' = StillPending(k) /\ loginState' = lifecycle'
          /\ calls' = [calls EXCEPT ![k] = Idle]
        BY <1>4, <2>2 DEF ReceivePoll
    <3>2. lifecycle' \in SessionState /\ lifecycle'.challenge = lifecycle.challenge
        BY <1>0, <3>1 DEF StillPending, SessionState
    <3>3. lifecycle'.challenge # None => challenges'[lifecycle'.challenge].status # "unused"
        BY <1>0, <3>2 DEF TabInv, Lasting, SessionState
    <3> QED  BY <1>0, <1>i, <2>0, <3>1, <3>2, <3>3, CallStep
  <2>3. CASE call.answer \in {"rejected", "expired"}
    <3>1. /\ lifecycle' = ErrorState /\ loginState' = ErrorState
          /\ calls' = [calls EXCEPT ![k] = Idle]
        BY <1>4, <2>3 DEF ReceivePoll
    <3> QED  BY <1>0, <1>i, <2>0, <3>1, StatesTyped, CallStep
  <2>4. CASE call.answer \in {"not_found", "error"}
    <3>1. UNCHANGED <<lifecycle, loginState>> /\ calls' = [calls EXCEPT ![k] = Idle]
        BY <1>4, <2>4 DEF ReceivePoll
    <3> QED  BY <1>0, <1>i, <2>0, <3>1, LifecycleLasting, CallStep
  <2> QED  BY <1>4, <2>1, <2>2, <2>3, <2>4 DEF ReceivePoll
<1>5. CASE ReceiveLogin(k)
  <2>1. CASE call.answer = "ok"
    <3>1. lifecycle' = SessionStateOf(call.token) /\ loginState' = lifecycle'
        BY <1>5, <2>1 DEF ReceiveLogin
    <3>2. lifecycle' \in SessionState /\ lifecycle'.challenge = None
        BY <1>0, <3>1, StatesTyped
    <3> QED  BY <1>0, <1>5, <1>i, <3>1, <3>2, CallStep DEF ReceiveLogin
  <2>2. CASE call.answer # "ok"
      BY <1>0, <1>5, <1>i, <2>2, LifecycleLasting, CallStep DEF ReceiveLogin
  <2> QED  BY <2>1, <2>2
<1>6. CASE ReceiveRevoke(k)
  <2>0. UNCHANGED <<route, clicks>>  BY <1>6 DEF ReceiveRevoke
  <2>1. CASE call.answer = "ok"
    <3>1. /\ cookie' = None /\ lifecycle' = PublicState /\ loginState' = NoLogin
          /\ page' \in {page, None}
          /\ \/ calls' = [calls EXCEPT ![k] = Idle]
             \/ calls' = [calls EXCEPT ![k] = Request("load", None, None)]
        BY <1>6, <2>1 DEF ReceiveRevoke
    <3>2. "load" \in Kinds \ {"pollme"} /\ StoreTypeOK  BY DEF Kinds, TabInv, StoreInv
    <3>3. PICK r \in CallRecord : r = Request("load", None, None)
        BY <3>2, RequestFields
    <3>4. CallInv(r)'
      <4>1. CallInv(r)  BY <3>2, <3>3, RequestInv DEF TabInv
      <4> QED  BY <4>1, CallLasting
    <3> QED  BY <1>0, <1>i, <2>0, <3>1, <3>3, <3>4, StatesTyped, CallStep
  <2>2. CASE call.answer # "ok"
    <3>1. UNCHANGED <<cookie, lifecycle, loginState, page>> /\ calls' = [calls EXCEPT ![k] = Idle]
        BY <1>6, <2>2 DEF ReceiveRevoke
    <3> QED  BY <1>0, <1>i, <2>0, <3>1, LifecycleLasting, CallStep
  <2> QED  BY <2>1, <2>2
<1> QED  BY <1>1, <1>2, <1>3, <1>4, <1>5, <1>6 DEF Receive

(* Steps that leave the handlers alone.                                    *)
LEMMA OtherInv ==
  ASSUME TabInv, StoreInv', Lasting, OpenLoginPage \/ RelayStep \/ UNCHANGED vars
  PROVE  TabInv'
<1>1. /\ UNCHANGED <<cookie, lifecycle, loginState, calls, clicks>>
      /\ page' \in {page, None} /\ route' \in {route, "login"}
    BY DEF OpenLoginPage, RelayStep, tabVars, vars
<1>2. TypeOK'  BY <1>1 DEF TabInv, TypeOK, StoreInv
<1>3. ASSUME NEW j \in Calls  PROVE CallInv(calls[j])'
  <2> PICK call \in CallRecord : call = calls[j]  BY DEF TabInv, TypeOK
  <2>1. CallInv(call)'  BY CallLasting DEF TabInv
  <2>2. calls'[j] = call  BY <1>1
  <2> QED  BY <2>1, <2>2 DEF CallInv
<1> QED  BY <1>1, <1>2, <1>3, LifecycleLasting DEF TabInv

LEMMA TabNextInv ==
  ASSUME TabInv, [Next]_vars
  PROVE  TabInv' /\ [StoreNext]_storeVars
<1>1. [StoreNext]_storeVars
  <2>1. \A k \in Calls : calls[k].kind = "poll" => calls[k].challenge # None
      BY DEF TabInv, CallInv
  <2> QED  BY <2>1, NextIsStoreNext DEF TabInv
<1>2. StoreInv' /\ Lasting  BY <1>1, StoreNextInv, StoreLasting DEF TabInv
<1>3. TabInv'
    BY <1>2, UserInv, ServeInv, ReceiveInv, OtherInv DEF Next
<1> QED  BY <1>1, <1>3

LEMMA TabInitInv == Init => TabInv
<1> SUFFICES ASSUME Init PROVE TabInv  OBVIOUS
<1>1. StoreInv  BY StoreInitInv DEF Init
<1>2. TypeOK /\ lifecycle.challenge = None
    BY <1>1, StatesTyped, IdleInv, ClickAssumption DEF Init, TypeOK, StoreInv
<1>3. \A k \in Calls : CallInv(calls[k])
    BY IdleInv DEF Init
<1> QED  BY <1>1, <1>2, <1>3 DEF TabInv

-----------------------------------------------------------------------------
(* Theorems.                                                               *)

(* The store, the cookie, the three copies of the session and the waiting  *)
(* handlers keep their types: no handler polls a challenge that was never  *)
(* issued, whatever order answers arrive in.                               *)
THEOREM SessionTypes == Spec => []TypeOK
<1>1. TabInv => TypeOK  BY DEF TabInv
<1> QED  BY <1>1, TabInitInv, TabNextInv, PTL DEF Spec

(* web_session_store.ex:286: the approval cooldown counts every approval,  *)
(* for any limits and any number of devices, as long as the retention is   *)
(* not shorter than the window.                                            *)
THEOREM CooldownHolds == Spec => []ApprovalCooldown
<1>1. TabInv => ApprovalCooldown  BY DEF TabInv, StoreInv
<1> QED  BY <1>1, TabInitInv, TabNextInv, PTL DEF Spec

(* web_session_store.ex:106, 143: a challenge becomes at most one session.  *)
THEOREM ChallengeUsedOnce == Spec => []OneSessionPerChallenge
<1>1. TabInv => OneSessionPerChallenge  BY DEF TabInv, StoreInv
<1> QED  BY <1>1, TabInitInv, TabNextInv, PTL DEF Spec

(* web_session_controller.ex:129: a session that was revoked before a page *)
(* was asked for does not come back with it, for any number of handlers.   *)
THEOREM RevokedStaysRevoked == Spec => []NoRevival
<1>1. TabInv => NoRevival  BY DEF TabInv, CallInv, NoRevival
<1> QED  BY <1>1, TabInitInv, TabNextInv, PTL DEF Spec

(* session_lifecycle.mjs:93: a poll logs in with the approved session.     *)
THEOREM ApprovedSessionWins == Spec => []PollLogsInApproved
<1>1. TabInv => PollLogsInApproved  BY DEF TabInv, CallInv, PollLogsInApproved, Dead
<1> QED  BY <1>1, TabInitInv, TabNextInv, PTL DEF Spec

(* web_session_client.mjs, web_session_controller.ex: whatever the tab's   *)
(* handlers do, in any order, the store sees only its own operations, each *)
(* within its guards.                                                      *)
THEOREM TabUsesStore == Spec => StoreSpec
<1>1. Init => StoreInit  BY DEF Init
<1> QED  BY <1>1, TabInitInv, TabNextInv, PTL DEF Spec, StoreSpec

=============================================================================
