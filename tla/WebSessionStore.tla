-------------------------- MODULE WebSessionStore --------------------------
(***************************************************************************)
(* The relay's store of app-mediated web sessions: login challenges and    *)
(* the sessions that approving one creates.  One GenServer holds both maps *)
(* in memory, so every operation is atomic and a restart forgets them all. *)
(*                                                                         *)
(* A token or a challenge id is drawn from 24 random bytes and never comes *)
(* up twice: an entry that has left a map keeps its record here, marked    *)
(* with how it left, and is not reused.                                    *)
(***************************************************************************)
EXTENDS Integers, FiniteSets

CONSTANTS
  ChallengeIds, Tokens,   \* ids the relay may draw
  Dids, Devices,          \* who approves a login, and from which device
  None,                   \* nil
  MaxActive,              \* @max_active_sessions_per_did
  MaxApprovals,           \* @max_approvals_per_device_per_hour
  ApprovalWindow,         \* @approval_window_seconds
  Retention,              \* @terminal_retention_seconds
  ChallengeTTL,           \* lifetime of a challenge
  MaxSessionTTL,          \* longest lifetime a grant may ask for
  MaxTime                 \* bound on the clock, for model checking

ASSUME NoneAssumption ==
  None \notin ChallengeIds \union Tokens \union Dids \union Devices
ASSUME TokensAssumption == IsFiniteSet(Tokens)   \* 24 random bytes
ASSUME LimitAssumption == MaxActive \in Nat /\ MaxApprovals \in Nat
ASSUME TimeAssumption ==
  /\ ApprovalWindow \in Nat /\ Retention \in Nat
  /\ ChallengeTTL \in Nat /\ MaxSessionTTL \in Nat /\ MaxTime \in Nat

(* A swept session is forgotten by the cooldown: the retention must not be *)
(* shorter than the window the cooldown counts.                            *)
ASSUME RetentionAssumption == Retention >= ApprovalWindow

VARIABLES
  now,          \* the relay's clock
  challenges,   \* id -> status, expiry and the session it was approved into
  sessions      \* token -> session

storeVars == <<now, challenges, sessions>>

-----------------------------------------------------------------------------
ChallengeRecord ==
  [status : {"unused", "pending", "approved", "rejected", "expired", "gone"},
   expires_at : Int, session : Tokens \union {None}]

(* place: where the entry is.  "map" is the only one the relay can see.    *)
SessionRecord ==
  [place : {"unused", "map", "swept", "lost"}, challenge : ChallengeIds \union {None},
   did : Dids \union {None}, device : Devices \union {None},
   created_at : Int, expires_at : Int, revoked : BOOLEAN, revoked_at : Int]

Forgotten(place, c) ==
  [place |-> place, challenge |-> c, did |-> None, device |-> None,
   created_at |-> 0, expires_at |-> 0, revoked |-> FALSE, revoked_at |-> 0]

NoSession == Forgotten("unused", None)

StoreInit ==
  /\ now = 0
  /\ challenges = [c \in ChallengeIds |->
                     [status |-> "unused", expires_at |-> 0, session |-> None]]
  /\ sessions = [t \in Tokens |-> NoSession]

Past(time) == time <= now

InMap(t) == t \in Tokens /\ sessions[t].place = "map"

(* Mutant of ActiveSession: revocation is not looked at.                   *)
UnexpiredSession(t) == InMap(t) /\ ~Past(sessions[t].expires_at)

(* get_active_session: present, not revoked, not expired.                  *)
ActiveSession(t) == InMap(t) /\ ~sessions[t].revoked /\ ~Past(sessions[t].expires_at)

(* Mutant of PendingChallenge: the status is not looked at.                *)
UnexpiredChallenge(c) ==
  challenges[c].status \notin {"unused", "gone"} /\ ~Past(challenges[c].expires_at)

(* get_pending_challenge: the only challenge approve accepts.              *)
PendingChallenge(c) ==
  challenges[c].status = "pending" /\ ~Past(challenges[c].expires_at)

ActiveOf(d) == {t \in Tokens : ActiveSession(t) /\ sessions[t].did = d}

(* enforce_device_approval_cooldown counts what the map still holds.       *)
RecentInMap(d, v) ==
  {t \in Tokens : /\ InMap(t) /\ sessions[t].did = d /\ sessions[t].device = v
                  /\ sessions[t].created_at > now - ApprovalWindow}

-----------------------------------------------------------------------------
Issue(c) ==
  /\ challenges[c].status = "unused"
  /\ challenges' = [challenges EXCEPT ![c] =
       [status |-> "pending", expires_at |-> now + ChallengeTTL, session |-> None]]
  /\ UNCHANGED <<now, sessions>>

(* Expiry is noticed when somebody asks.                                   *)
Poll(c) ==
  /\ challenges' =
       IF challenges[c].status = "pending" /\ Past(challenges[c].expires_at)
       THEN [challenges EXCEPT ![c].status = "expired"] ELSE challenges
  /\ UNCHANGED <<now, sessions>>

Approve(c, t, d, v, expires) ==
  /\ PendingChallenge(c)
  /\ sessions[t].place = "unused"
  /\ expires > now
  /\ Cardinality(ActiveOf(d)) < MaxActive
  /\ Cardinality(RecentInMap(d, v)) < MaxApprovals
  /\ sessions' = [sessions EXCEPT ![t] =
       [place |-> "map", challenge |-> c, did |-> d, device |-> v, created_at |-> now,
        expires_at |-> expires, revoked |-> FALSE, revoked_at |-> 0]]
  /\ challenges' = [challenges EXCEPT ![c].status = "approved", ![c].session = t]
  /\ UNCHANGED now

(* Any challenge in the map, whatever its status.                          *)
Reject(c) ==
  /\ challenges[c].status \notin {"unused", "gone"}
  /\ challenges' = [challenges EXCEPT ![c].status = "rejected"]
  /\ UNCHANGED <<now, sessions>>

Revoke(t) ==
  /\ InMap(t)
  /\ sessions' = [sessions EXCEPT ![t].revoked = TRUE, ![t].revoked_at = now]
  /\ UNCHANGED <<now, challenges>>

Cutoff == now - Retention

PrunableChallenge(c) ==
  challenges[c].status \notin {"unused", "gone"} /\ challenges[c].expires_at < Cutoff

(* Mutant of PrunableSession: no retention.                                *)
EndedSession(t) == InMap(t) /\ ~ActiveSession(t)

PrunableSession(t) ==
  /\ InMap(t)
  /\ \/ sessions[t].revoked /\ sessions[t].revoked_at < Cutoff
     \/ Past(sessions[t].expires_at) /\ sessions[t].expires_at < Cutoff

Gone(entry) == [status |-> "gone", expires_at |-> 0, session |-> entry.session]

Sweep ==
  /\ challenges' = [c \in ChallengeIds |->
       IF PrunableChallenge(c) THEN Gone(challenges[c]) ELSE challenges[c]]
  /\ sessions' = [t \in Tokens |->
       IF PrunableSession(t) THEN [sessions[t] EXCEPT !.place = "swept"] ELSE sessions[t]]
  /\ UNCHANGED now

(* The relay restarts: the maps start empty again.                         *)
Restart ==
  /\ challenges' = [c \in ChallengeIds |->
       IF challenges[c].status = "unused" THEN challenges[c]
       ELSE Gone(challenges[c])]
  /\ sessions' = [t \in Tokens |->
       IF sessions[t].place = "unused" THEN sessions[t]
       ELSE Forgotten("lost", sessions[t].challenge)]
  /\ UNCHANGED now

Tick ==
  /\ now < MaxTime
  /\ now' = now + 1
  /\ UNCHANGED <<challenges, sessions>>

(* What the app, the clock and the timer do, without any browser.          *)
StoreStep ==
  \/ \E c \in ChallengeIds, t \in Tokens, d \in Dids, v \in Devices,
        ttl \in 1..MaxSessionTTL : Approve(c, t, d, v, now + ttl)
  \/ \E c \in ChallengeIds : Reject(c)
  \/ Sweep \/ Restart \/ Tick

StoreNext ==
  \/ StoreStep
  \/ \E c \in ChallengeIds : Issue(c) \/ Poll(c)
  \/ \E t \in Tokens : Revoke(t)

StoreSpec == StoreInit /\ [][StoreNext]_storeVars

-----------------------------------------------------------------------------
StoreTypeOK ==
  /\ now \in Nat
  /\ challenges \in [ChallengeIds -> ChallengeRecord]
  /\ sessions \in [Tokens -> SessionRecord]

(* Approvals of one device for one DID since the relay last started,       *)
(* swept or not, that the cooldown is meant to count.                      *)
RecentApprovals(d, v) ==
  {t \in Tokens : /\ sessions[t].place \in {"map", "swept"}
                  /\ sessions[t].did = d /\ sessions[t].device = v
                  /\ sessions[t].created_at > now - ApprovalWindow}

(* web_session_store.ex:286, 197: a device approves at most MaxApprovals    *)
(* logins for a DID in a window, although the cooldown counts only what    *)
(* the sweep has left and a session may be revoked at once.                *)
ApprovalCooldown ==
  \A d \in Dids, v \in Devices : Cardinality(RecentApprovals(d, v)) <= MaxApprovals

(* web_session_store.ex:106, 143: a challenge is turned into at most one    *)
(* session, also when it is rejected after it was approved, expires while  *)
(* it is being approved, or the relay restarts in between.                 *)
OneSessionPerChallenge ==
  \A s, t \in Tokens :
    (/\ sessions[s].place # "unused" /\ sessions[t].place # "unused"
     /\ sessions[s].challenge = sessions[t].challenge) => s = t

=============================================================================
