-------------------------- MODULE IdentityAnchors --------------------------
(***************************************************************************)
(* The relay's store of one DID's identity anchors: a chain of signed      *)
(* objects, each naming its predecessor, of which one is active.  A        *)
(* rotation or a device change takes effect at once; a recovery waits as   *)
(* `pending` for a grace window in which any enrolled key may veto it,     *)
(* which also freezes the DID.  Recovery may be vouched for by a one-time  *)
(* code instead of a key.                                                  *)
(*                                                                         *)
(* Calls run concurrently.  Each reads first and writes later, in a        *)
(* transaction of its own that takes no lock on what was read, so a call   *)
(* is several steps.  Transactions are atomic: their row locks and unique  *)
(* indexes order them.  What relates the anchors of different DIDs is only *)
(* that a failed promotion ends a batch, which Crash covers.               *)
(*                                                                         *)
(* An anchor's cid is the hash of its body, so a cid is here the position  *)
(* of the body among all signed ones and a predecessor is always earlier.  *)
(***************************************************************************)
EXTENDS Integers, Sequences

CONSTANTS
  Clients,      \* processes serving submit, recover and veto calls
  Crons,        \* processes serving the promote call
  Keys,         \* identity keys, each with the devices it attests
  Codes,        \* recovery codes
  NoKey,
  NoCode,
  Legacy,       \* schema_version < 4: the chain may be recovered by a code
  MaxAnchors,   \* bound: anchors signed
  MaxCrashes    \* bound: calls that die half-way

ASSUME AnchorsAssumption ==
  /\ Clients \intersect Crons = {}
  /\ NoKey \notin Keys
  /\ NoCode \notin Codes
  /\ Legacy \in BOOLEAN
  /\ MaxAnchors \in Nat
  /\ MaxCrashes \in Nat

Procs == Clients \union Crons
Cids  == 1..MaxAnchors

Reasons == {"initial", "rotation", "device_change", "recovery"}

(* `vouched`: it carries a signature by the predecessor's identity key or  *)
(* one of its devices (device_sig or recovery_proof).  Objects that are    *)
(* malformed or not signed by their own key are refused and left out.      *)
Bodies == [reason : Reasons, prev : 0..MaxAnchors, key : Keys, vouched : BOOLEAN]

VARIABLES
  signed,    \* signed[c]: the body whose hash is c
  state,     \* state[c]: the state of row c, "none" when there is none
  due,       \* pending rows whose grace window is over
  frozen,    \* the DID is in identity_account_freezes
  cache,     \* the key in did_accounts, which other parts verify against
  code,      \* code[k]: state of recovery code k
  spent,     \* spent[c]: the code that started recovery c (audit event)
  proc,      \* proc[p]: the call p is serving
  late,      \* history: calls past their freeze check when it was written
  crashes

vars == <<signed, state, due, frozen, cache, code, spent, proc, late, crashes>>

Call(stage, c, k, batch) == [pc |-> stage, cid |-> c, code |-> k, batch |-> batch]

Idle == Call("idle", 0, NoCode, {})

Calls ==
  [pc : {"idle", "link", "write", "veto", "filter", "promote", "sync"},
   cid : 0..MaxAnchors, code : Codes \union {NoCode}, batch : SUBSET Cids]

(***************************************************************************)
(* Every variable has its type, and only a pending row has a grace window: *)
(* promotion and veto clear it.                                            *)
(***************************************************************************)
TypeOK ==
  /\ signed \in Seq(Bodies) /\ Len(signed) <= MaxAnchors
  /\ \A c \in 1..Len(signed) : signed[c].prev < c
  /\ state \in [Cids -> {"none", "pending", "active", "superseded", "vetoed"}]
  /\ due \subseteq {c \in Cids : state[c] = "pending"}
  /\ frozen \in BOOLEAN
  /\ cache \in Keys \union {NoKey}
  /\ code \in [Codes -> {"unset", "active", "used", "revoked"}]
  /\ spent \in [Cids -> Codes \union {NoCode}]
  /\ proc \in [Procs -> Calls]
  /\ late \subseteq Procs
  /\ crashes \in 0..MaxCrashes

Init ==
  /\ signed = <<>>
  /\ state = [c \in Cids |-> "none"]
  /\ due = {}
  /\ frozen = FALSE
  /\ cache = NoKey
  /\ code = [k \in Codes |-> "unset"]
  /\ spent = [c \in Cids |-> NoCode]
  /\ proc = [p \in Procs |-> Idle]
  /\ late = {}
  /\ crashes = 0

-----------------------------------------------------------------------------
Active == {c \in Cids : state[c] = "active"}

Goto(p, stage) == proc' = [proc EXCEPT ![p].pc = stage] /\ UNCHANGED late

Done(p) == proc' = [proc EXCEPT ![p] = Idle] /\ late' = late \ {p}

(* A device signs an anchor that follows the active one it was served.     *)
Sign(body) ==
  /\ Len(signed) < MaxAnchors
  /\ body.prev \in Active \union {0}
  /\ (body.prev = 0) <=> (body.reason = "initial")
  /\ body.vouched => body.prev # 0
  /\ signed' = Append(signed, body)
  /\ UNCHANGED <<state, due, frozen, cache, code, spent, proc, late, crashes>>

-----------------------------------------------------------------------------
(* AnchorStore.submit                                                      *)

Start(p, c, k) ==
  /\ proc[p].pc = "idle"
  /\ ~frozen
  /\ proc' = [proc EXCEPT ![p] = Call("link", c, k, {})]
  /\ UNCHANGED <<signed, state, due, frozen, cache, code, spent, late, crashes>>

Submit(p, c) == Start(p, c, NoCode)

(* Mutant of Recover: the code is read without FOR UPDATE.                 *)
RecoverUnlocked(p, c, k) == code[k] = "active" /\ Start(p, c, k)

(* RecoveryStore.recover: SELECT the code FOR UPDATE, then submit.         *)
Recover(p, c, k) ==
  /\ code[k] = "active"
  /\ \A q \in Procs : proc[q].code # k
  /\ Start(p, c, k)

(* require_chain_link                                                      *)
Linked(c) == signed[c].prev \in Active

(* The decision of dispatch, from one read of the active anchor.           *)
Accepts(c, k) ==
  LET new == signed[c]
      old == signed[new.prev]
  IN CASE new.reason = "initial"       -> new.prev = 0 /\ Active = {}
       [] new.reason = "rotation"      -> Linked(c) /\ new.key # old.key /\ new.vouched
       [] new.reason = "device_change" -> Linked(c) /\ new.key = old.key /\ new.vouched
       [] new.reason = "recovery"      -> /\ Linked(c)
                                          /\ Legacy \/ new.key # old.key
                                          /\ (Legacy /\ k # NoCode) \/ new.vouched

Link(p) ==
  /\ proc[p].pc = "link"
  /\ IF Accepts(proc[p].cid, proc[p].code) THEN Goto(p, "write") ELSE Done(p)
  /\ UNCHANGED <<signed, state, due, frozen, cache, code, spent, crashes>>

(* Mutant of Replaced: whichever row is active by now, as in promote_one.  *)
ReplacedAny(c) == Active

(* The row swap_in_active supersedes: by cid, whatever its state is now.   *)
Replaced(c) == {signed[c].prev}

(* Mutant of Insertable: no identity_anchors_one_active_per_did.           *)
InsertableTwice(c, rest) == state[c] = "none"

(* Row c can be inserted as active beside the active rows in `rest`: the   *)
(* unique indexes on (did, anchor_cid) and on did where active.            *)
Insertable(c, rest) == state[c] = "none" /\ rest = {}

(* insert_active and swap_in_active; a conflict rolls back.  Under a code  *)
(* (recover) the outer transaction rolls the swap back, but the key is     *)
(* already in the cache.                                                   *)
WriteActive(p) ==
  LET c == proc[p].cid
  IN /\ proc[p].pc = "write"
     /\ signed[c].reason # "recovery"
     /\ IF ~Insertable(c, Active \ Replaced(c))
        THEN Done(p) /\ UNCHANGED <<state, cache>>
        ELSE IF proc[p].code # NoCode
        THEN Done(p) /\ cache' = signed[c].key /\ UNCHANGED state
        ELSE /\ state' = [d \in Cids |-> IF d = c THEN "active"
                                         ELSE IF d \in Replaced(c) THEN "superseded"
                                         ELSE state[d]]
             /\ Goto(p, "sync")
             /\ UNCHANGED cache
     /\ UNCHANGED <<signed, due, frozen, code, spent, crashes>>

(* insert_pending_recovery; under a code the same transaction marks the    *)
(* code used.                                                              *)
WritePending(p) ==
  LET c == proc[p].cid
      k == proc[p].code
  IN /\ proc[p].pc = "write"
     /\ signed[c].reason = "recovery"
     /\ IF state[c] # "none"
        THEN UNCHANGED <<state, code, spent>>
        ELSE /\ state' = [state EXCEPT ![c] = "pending"]
             /\ spent' = [spent EXCEPT ![c] = k]
             /\ code' = [x \in Codes |-> IF x = k THEN "used" ELSE code[x]]
     /\ Done(p)
     /\ UNCHANGED <<signed, due, frozen, cache, crashes>>

(* sync_cache, after the transaction: did_accounts takes the key.          *)
Sync(p) ==
  /\ proc[p].pc = "sync"
  /\ cache' = signed[proc[p].cid].key
  /\ IF proc[p].batch = {} THEN Done(p) ELSE Goto(p, "promote")
  /\ UNCHANGED <<signed, state, due, frozen, code, spent, crashes>>

-----------------------------------------------------------------------------
(* Recovery: codes, the grace window, promotion and veto.                  *)

(* RecoveryStore.configure revokes the active codes and stores new ones;   *)
(* it waits for a recover call that has locked one of them.  Whoever holds *)
(* the key in the cache may call it.                                       *)
Configure(new) ==
  /\ cache # NoKey
  /\ new # {} /\ \A k \in new : code[k] = "unset"
  /\ \A p \in Procs : proc[p].code = NoCode
  /\ code' = [k \in Codes |-> IF k \in new THEN "active"
                              ELSE IF code[k] = "active" THEN "revoked" ELSE code[k]]
  /\ UNCHANGED <<signed, state, due, frozen, cache, spent, proc, late, crashes>>

(* Time passes grace_until.                                                *)
GraceElapses(c) ==
  /\ state[c] = "pending"
  /\ due' = due \union {c}
  /\ UNCHANGED <<signed, state, frozen, cache, code, spent, proc, late, crashes>>

(* promote_due reads the pending rows that are due ...                     *)
ReadDue(p) ==
  /\ proc[p].pc = "idle"
  /\ due # {}
  /\ proc' = [proc EXCEPT ![p] = Call("filter", 0, NoCode, due)]
  /\ UNCHANGED <<signed, state, due, frozen, cache, code, spent, late, crashes>>

(* Mutant of SkipFrozen: the freeze is not looked up.                      *)
SkipNothing(p) ==
  /\ proc[p].pc = "filter"
  /\ Goto(p, "promote")
  /\ UNCHANGED <<signed, state, due, frozen, cache, code, spent, crashes>>

(* ... drops those of a frozen DID ...                                     *)
SkipFrozen(p) ==
  /\ proc[p].pc = "filter"
  /\ IF frozen THEN Done(p) ELSE Goto(p, "promote")
  /\ UNCHANGED <<signed, state, due, frozen, cache, code, spent, crashes>>

(* ... and promotes the rest one by one, whatever their rows have become.  *)
PromoteOne(p) ==
  \E c \in proc[p].batch :
    /\ proc[p].pc = "promote"
    /\ state' = [d \in Cids |-> IF d = c THEN "active"
                                ELSE IF d \in Active THEN "superseded" ELSE state[d]]
    /\ due' = due \ {c}
    /\ proc' = [proc EXCEPT ![p] = Call("sync", c, NoCode, @.batch \ {c})]
    /\ UNCHANGED <<signed, frozen, cache, code, spent, late, crashes>>

(* AnchorStore.veto: the row is pending and the DID not frozen.  A key     *)
(* that may sign exists whenever there is a pending row.                   *)
Veto(p, c) ==
  /\ proc[p].pc = "idle"
  /\ ~frozen
  /\ state[c] = "pending"
  /\ proc' = [proc EXCEPT ![p] = Call("veto", c, NoCode, {})]
  /\ UNCHANGED <<signed, state, due, frozen, cache, code, spent, late, crashes>>

PastCheck ==
  {p \in Procs : \/ proc[p].pc \in {"link", "write", "promote"}
                 \/ proc[p].pc = "sync" /\ proc[p].batch # {}}

(* Mutant of DoVeto: grace_until is kept.                                  *)
DoVetoKeepGrace(p) ==
  /\ proc[p].pc = "veto"
  /\ state' = [state EXCEPT ![proc[p].cid] = "vetoed"]
  /\ frozen' = TRUE
  /\ proc' = [proc EXCEPT ![p] = Idle]
  /\ UNCHANGED <<signed, due, cache, code, spent, late, crashes>>

(* do_veto, whatever the row has become; the freeze is inserted once.      *)
DoVeto(p) ==
  /\ proc[p].pc = "veto"
  /\ state' = [state EXCEPT ![proc[p].cid] = "vetoed"]
  /\ due' = due \ {proc[p].cid}
  /\ frozen' = TRUE
  /\ late' = IF frozen THEN late ELSE PastCheck
  /\ proc' = [proc EXCEPT ![p] = Idle]
  /\ UNCHANGED <<signed, cache, code, spent, crashes>>

(* The call dies: its node, its connection, or a statement that raises (a  *)
(* collision on the one-active index is no changeset error).  An open      *)
(* transaction rolls back and unlocks its code; nobody finishes the rest.  *)
Crash(p) ==
  /\ crashes < MaxCrashes
  /\ proc[p].pc # "idle"
  /\ crashes' = crashes + 1
  /\ Done(p)
  /\ UNCHANGED <<signed, state, due, frozen, cache, code, spent>>

-----------------------------------------------------------------------------
Step(p) ==
  \/ Link(p) \/ WriteActive(p) \/ WritePending(p) \/ Sync(p)
  \/ SkipFrozen(p) \/ PromoteOne(p) \/ DoVeto(p)

Next ==
  \/ \E body \in Bodies : Sign(body)
  \/ \E new \in SUBSET Codes : Configure(new)
  \/ \E c \in Cids : GraceElapses(c)
  \/ \E p \in Clients, c \in 1..Len(signed) :
       Submit(p, c) \/ Veto(p, c) \/ \E k \in Codes : Recover(p, c, k)
  \/ \E p \in Crons : ReadDue(p)
  \/ \E p \in Procs : Step(p) \/ Crash(p)

Spec == Init /\ [][Next]_vars

-----------------------------------------------------------------------------
(* Properties.                                                             *)

(***************************************************************************)
(* "At most one active anchor per DID", whichever submissions, promotions  *)
(* and vetoes overlap.                                                     *)
(***************************************************************************)
OneActive == \A c, d \in Active : c = d

Rows == {c \in Cids : state[c] \in {"active", "superseded"}}

(* walk_chain from row c: the rows passed, and 0 when genesis is reached.  *)
WalkChain(c) ==
  LET walk[d \in 0..MaxAnchors] ==
        IF d = 0 THEN {0} ELSE IF d \in Rows THEN {d} \union walk[signed[d].prev] ELSE {}
  IN walk[c]

(* get_chain does not answer :invalid_chain.                               *)
ChainServed ==
  frozen \/ \A c \in Active : WalkChain(c) = Rows \union {0}

(* The rows this step promotes follow the anchor that is active.           *)
PromotesInOrder ==
  \A c \in Cids : state[c] \notin {"none", "active"} /\ state'[c] = "active" =>
                    signed[c].prev \in Active

(***************************************************************************)
(* Submissions that race each other, promotions or vetoes never break the  *)
(* chain get_chain serves.  Only promote_one can, and only when the row it *)
(* promotes does not follow the active anchor: a recovery that a rotation  *)
(* has overtaken, or one that an overlapping promote call has promoted     *)
(* before and that has been superseded since.                              *)
(***************************************************************************)
ChainKept == [][ChainServed /\ PromotesInOrder => ChainServed']_vars

(***************************************************************************)
(* A freeze is final: once the calls that had passed their freeze check    *)
(* when the veto was written are over, no anchor becomes active any more.  *)
(***************************************************************************)
FreezeHolds == [][frozen /\ late = {} => Active' \subseteq Active]_vars

(***************************************************************************)
(* "One-time" recovery codes: a code starts at most one recovery, however  *)
(* many calls present it at once, and is used up exactly when it has.      *)
(***************************************************************************)
CodeUsedOnce ==
  \A k \in Codes :
    /\ (code[k] = "used") <=> (\E c \in Cids : spent[c] = k)
    /\ \A c, d \in Cids : spent[c] = k /\ spent[d] = k => c = d

=============================================================================
