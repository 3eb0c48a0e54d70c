------------------------- MODULE OpStoreWriteProofs -------------------------
(***************************************************************************)
(* Proofs about what enters the operation log: operation ids, authors,     *)
(* revisions and reactions, for any set of requests.                       *)
(***************************************************************************)
EXTENDS OpStoreProofs

(* Verified and not rolled back: what Verify decided still binds.          *)
Decided == {"verified"} \union Reserved \union {"committed"}

(* The committed row q is below r's, or r has no log id yet.               *)
Before(q, r) == id[r] = 0 \/ id[q] < id[r]

(***************************************************************************)
(* The unique index on op_id admits one entry at a time.                   *)
(***************************************************************************)
IndexUnique ==
  \A r, q \in Requests :
    /\ pc[r] \in {"written", "committed"}
    /\ pc[q] \in {"written", "committed"}
    /\ Req[r].op_id = Req[q].op_id
    => r = q

(***************************************************************************)
(* Only requests that need no lock append without having been verified.    *)
(***************************************************************************)
LockKept == \A r \in Requests : pc[r] \in {"locked", "verified"} => TakesLock(r)

(***************************************************************************)
(* An advisory lock has one holder, and rows written under one lock have   *)
(* their ids in the order of the commits.                                  *)
(***************************************************************************)
LockExclusive ==
  \A r, q \in Requests :
    /\ TakesLock(r) /\ TakesLock(q) /\ LockKey(r) = LockKey(q)
    /\ pc[r] \in Locked
    => /\ pc[q] \in Locked => r = q
       /\ pc[r] \in Reserved /\ pc[q] = "committed" => id[q] < id[r]

(***************************************************************************)
(* What Verify found out about a mutation stays true.                      *)
(***************************************************************************)
AuthorChecked ==
  \A r \in Requests : pc[r] \in Decided /\ IsMutation(r) =>
    \E q \in Committed :
      /\ SameEntity(r, q)
      /\ Req[q].op_type = "insert"
      /\ Req[q].author = Req[r].author
      /\ Before(q, r)

RevisionChecked ==
  \A r \in Requests : pc[r] \in Decided /\ IsMutation(r) /\ Req[r].prev # NoRevision =>
    \E p \in Committed :
      /\ SameEntity(r, p)
      /\ Req[p].op_id = Req[r].prev
      /\ Before(p, r)
      /\ \A q \in Committed :
           IsMutation(q) /\ SameEntity(r, q) => ~(id[p] < id[q] /\ Before(q, r))

ReactionChecked ==
  \A q \in Requests : pc[q] \in Decided /\ IsReactionInsert(q) =>
    \A r \in Committed : SameReaction(r, q) /\ r # q /\ Before(r, q) =>
      \E d \in Committed :
        SameEntity(r, d) /\ Req[d].op_type = "delete" /\ Before(d, q)

WriteInv ==
  IndexUnique /\ LockKept /\ LockExclusive /\ AuthorChecked /\ RevisionChecked /\ ReactionChecked

-----------------------------------------------------------------------------
(* The kinds of step, as far as they matter here.                          *)

(* r goes where no decision binds it: it waits, is refused or rolled back. *)
Retreats(r) ==
  /\ id' = id
  /\ pc[r] # "committed"
  /\ \E s \in {"refused", "admitted", "opened", "failed"} : pc' = [pc EXCEPT ![r] = s]

(* r's row is in the heap, then in the index, where it has no rival.       *)
Writes(r) ==
  /\ id' = id
  /\ pc[r] \in Reserved
  /\ \E s \in {"inserted", "written"} :
       /\ pc' = [pc EXCEPT ![r] = s]
       /\ s = "written" => \A q \in Requests \ {r} : Req[q].op_id = Req[r].op_id =>
                             pc[q] \notin {"written", "committed"}

(***************************************************************************)
(* Every step is of one of these kinds.                                    *)
(***************************************************************************)
LEMMA StepKinds ==
  ASSUME TypeOK, [Next]_vars
  PROVE  \/ UNCHANGED <<pc, id>>
         \/ \E r \in Requests : \/ Retreats(r) \/ AcquireLock(r) \/ Verify(r)
                                \/ ReserveId(r) \/ Writes(r) \/ Commit(r)
<1>1. ASSUME NEW r \in Requests, Refuse(r) \/ Admit(r) \/ Abort(r) \/ OpenPublication(r)
      PROVE  Retreats(r)
  BY <1>1 DEF Refuse, Admit, Abort, OpenPublication, Retreats, Open, Locked, Reserved
<1>2. ASSUME NEW r \in Requests, InsertRow(r) PROVE Writes(r)
  BY <1>2 DEF InsertRow, Writes, Reserved
<1>3. ASSUME NEW r \in Requests, IndexRow(r) PROVE Writes(r) \/ Retreats(r)
  BY <1>3 DEF IndexRow, Writes, Retreats, Reserved
<1>4. CASE \E c \in Consumers : Delta(c) \/ BoardDelta(c)
  BY <1>4 DEF Delta, BoardDelta, Deliver
<1> QED
  BY <1>1, <1>2, <1>3, <1>4 DEF Next, Append, vars

(***************************************************************************)
(* What the steps do to the rows.                                          *)
(***************************************************************************)
LEMMA Effects ==
  ASSUME TypeOK, NEW r \in Requests
  PROVE  /\ Retreats(r) => Committed' = Committed
         /\ AcquireLock(r) => Committed' = Committed /\ id' = id
         /\ Verify(r) => Committed' = Committed /\ id' = id
         /\ ReserveId(r) => /\ Committed' = Committed
                            /\ id'[r] = seq + 1
                            /\ \A q \in Requests : id[q] <= seq
                            /\ \A q \in Requests : q # r => id'[q] = id[q]
         /\ Writes(r) => Committed' = Committed
         /\ Commit(r) => Committed' = Committed \union {r} /\ id' = id
  BY DEF TypeOK, Retreats, AcquireLock, Verify, ReserveId, Writes, Commit, Committed,
         ReadyToAppend, Reserved

-----------------------------------------------------------------------------
(***************************************************************************)
(* The index keeps its entries unique.                                     *)
(***************************************************************************)
LEMMA NextIndexUnique == TypeOK /\ IndexUnique /\ [Next]_vars => IndexUnique'
<1> SUFFICES ASSUME TypeOK, IndexUnique, [Next]_vars PROVE IndexUnique'
  OBVIOUS
<1> USE DEF TypeOK, IndexUnique
<1>1. CASE UNCHANGED <<pc, id>>
  BY <1>1
<1>2. ASSUME NEW r \in Requests, Retreats(r) PROVE IndexUnique'
  BY <1>2 DEF Retreats
<1>3. ASSUME NEW r \in Requests, AcquireLock(r) \/ Verify(r) \/ ReserveId(r) PROVE IndexUnique'
  BY <1>3 DEF AcquireLock, Verify, ReserveId
<1>4. ASSUME NEW r \in Requests, Writes(r) PROVE IndexUnique'
  BY <1>4 DEF Writes
<1>5. ASSUME NEW r \in Requests, Commit(r) PROVE IndexUnique'
  BY <1>5 DEF Commit
<1> QED
  BY <1>1, <1>2, <1>3, <1>4, <1>5, StepKinds

(***************************************************************************)
(* A lock is taken by one request at a time, held until the transaction    *)
(* ends, and the log id is reserved while it is held.                      *)
(***************************************************************************)
LEMMA NextLocks ==
  TypeOK /\ LockKept /\ LockExclusive /\ [Next]_vars => LockKept' /\ LockExclusive'
<1> SUFFICES ASSUME TypeOK, LockKept, LockExclusive, [Next]_vars
             PROVE  LockKept' /\ LockExclusive'
  OBVIOUS
<1> USE DEF TypeOK, LockKept, LockExclusive, Locked, Reserved
<1>1. CASE UNCHANGED <<pc, id>>
  BY <1>1
<1>2. ASSUME NEW r \in Requests, Retreats(r) PROVE LockKept' /\ LockExclusive'
  BY <1>2 DEF Retreats
<1>3. ASSUME NEW r \in Requests, AcquireLock(r) PROVE LockKept' /\ LockExclusive'
  BY <1>3 DEF AcquireLock
<1>4. ASSUME NEW r \in Requests, Verify(r) PROVE LockKept' /\ LockExclusive'
  BY <1>4 DEF Verify
<1>5. ASSUME NEW r \in Requests, ReserveId(r) PROVE LockKept' /\ LockExclusive'
  BY <1>5, Effects DEF ReserveId, ReadyToAppend, Committed
<1>6. ASSUME NEW r \in Requests, Writes(r) PROVE LockKept' /\ LockExclusive'
  BY <1>6 DEF Writes
<1>7. ASSUME NEW r \in Requests, Commit(r) PROVE LockKept' /\ LockExclusive'
  BY <1>7 DEF Commit
<1> QED
  BY <1>1, <1>2, <1>3, <1>4, <1>5, <1>6, <1>7, StepKinds

(***************************************************************************)
(* A request whose decision binds after a step was decided by that step or *)
(* before it, and then nothing but its own reservation moves its row.      *)
(***************************************************************************)
LEMMA DecidedBefore ==
  ASSUME IInv, [Next]_vars, NEW r \in Requests, pc'[r] \in Decided, TakesLock(r)
  PROVE  \/ pc[r] \in Decided
         \/ /\ Verify(r) /\ pc[r] = "locked" /\ id[r] = 0 /\ id' = id /\ Committed' = Committed
            /\ IF IsMutation(r) THEN MutationAllowed(r) ELSE ~ActiveReactionExists(r)
<1> USE DEF IInv, TypeOK, Decided, Reserved
<1>1. CASE UNCHANGED <<pc, id>>
  BY <1>1
<1>2. ASSUME NEW q \in Requests, Retreats(q) PROVE pc[r] \in Decided
  BY <1>2 DEF Retreats
<1>3. ASSUME NEW q \in Requests, AcquireLock(q) \/ ReserveId(q) \/ Writes(q) \/ Commit(q)
      PROVE pc[r] \in Decided
  BY <1>3 DEF AcquireLock, ReserveId, Writes, Commit
<1>4. ASSUME NEW q \in Requests, Verify(q), pc[r] \notin Decided
      PROVE  /\ Verify(r) /\ pc[r] = "locked" /\ id[r] = 0 /\ id' = id /\ Committed' = Committed
             /\ IF IsMutation(r) THEN MutationAllowed(r) ELSE ~ActiveReactionExists(r)
  <2>1. q = r
    BY <1>4 DEF Verify
  <2>2. pc[r] = "locked" /\ id[r] = 0
    BY <1>4, <2>1 DEF Verify, IdsOrdered, HasRow
  <2> QED
    BY <1>4, <2>1, <2>2, Effects DEF Verify
<1> QED
  BY <1>1, <1>2, <1>3, <1>4, StepKinds

(***************************************************************************)
(* Rows of the log keep their ids, a reserved id is above all of them, and *)
(* so what was below a request stays below it.                             *)
(***************************************************************************)
LEMMA BeforeKept ==
  ASSUME IInv, [Next]_vars, NEW q \in Committed, NEW r \in Requests, q # r
  PROVE  /\ q \in Committed' /\ q \in Requests /\ id'[q] = id[q]
         /\ Before(q, r) => Before(q, r)'
         /\ id[r] # 0 => id'[r] = id[r]
<1>1. q \in Requests /\ pc[q] = "committed" /\ TypeOK /\ id[q] \in Nat
  BY DEF Committed, IInv, TypeOK
<1>2. CASE UNCHANGED <<pc, id>>
  BY <1>1, <1>2 DEF Committed, Before
<1>3. ASSUME NEW s \in Requests,
             Retreats(s) \/ AcquireLock(s) \/ Verify(s) \/ Writes(s) \/ Commit(s)
      PROVE  id' = id /\ q \in Committed'
  BY <1>1, <1>3, Effects DEF Retreats, Writes
<1>4. ASSUME NEW s \in Requests, ReserveId(s)
      PROVE  /\ q \in Committed' /\ id'[q] = id[q]
             /\ Before(q, r) => Before(q, r)'
             /\ id[r] # 0 => id'[r] = id[r]
  <2>1. s # q /\ id[s] = 0
    BY <1>1, <1>4 DEF ReserveId, ReadyToAppend, IInv, IdsOrdered, HasRow, Reserved
  <2>2. q \in Committed' /\ id'[q] = id[q] /\ id'[s] = seq + 1 /\ id[q] <= seq
    BY <1>1, <1>4, <2>1, Effects
  <2>3. CASE r = s
    BY <1>1, <2>1, <2>2, <2>3 DEF Before, TypeOK
  <2>4. CASE r # s
    <3>1. id'[r] = id[r]
      BY <1>1, <1>4, <2>4, Effects
    <3> QED
      BY <2>2, <3>1 DEF Before
  <2> QED
    BY <2>3, <2>4
<1> QED
  BY <1>1, <1>2, <1>3, <1>4, StepKinds DEF Before

(***************************************************************************)
(* The creator a mutation was checked against stays in the log, below it.  *)
(***************************************************************************)
LEMMA NextAuthorChecked == IInv /\ AuthorChecked /\ [Next]_vars => AuthorChecked'
<1> SUFFICES ASSUME IInv, AuthorChecked, [Next]_vars,
                    NEW r \in Requests, pc'[r] \in Decided, IsMutation(r)
             PROVE  \E q \in Committed' :
                      /\ SameEntity(r, q)
                      /\ Req[q].op_type = "insert"
                      /\ Req[q].author = Req[r].author
                      /\ Before(q, r)'
  BY DEF AuthorChecked
<1>1. \E q \in Committed :
        /\ SameEntity(r, q)
        /\ Req[q].op_type = "insert"
        /\ Req[q].author = Req[r].author
        /\ Before(q, r)
  <2>1. CASE pc[r] \in Decided
    BY <2>1 DEF AuthorChecked
  <2>2. CASE pc[r] \notin Decided
    <3>1. MutationAllowed(r) /\ id[r] = 0
      BY <2>2, DecidedBefore DEF TakesLock
    <3> QED
      BY <3>1 DEF MutationAllowed, CreateOp, Before
  <2> QED
    BY <2>1, <2>2
<1>2. PICK q \in Committed :
        /\ SameEntity(r, q)
        /\ Req[q].op_type = "insert"
        /\ Req[q].author = Req[r].author
        /\ Before(q, r)
  BY <1>1
<1>3. q # r
  BY <1>2 DEF IsMutation
<1> QED
  BY <1>2, <1>3, BeforeKept

(***************************************************************************)
(* Who commits under a lock that r has held since it was decided has a     *)
(* higher id than r.                                                       *)
(***************************************************************************)
LEMMA CommitsAbove ==
  ASSUME IInv, LockKept, LockExclusive, [Next]_vars,
         NEW r \in Requests, pc[r] \in Decided, TakesLock(r),
         NEW q \in Committed', q \notin Committed, q # r, TakesLock(q), LockKey(q) = LockKey(r)
  PROVE  id[r] # 0 /\ id' = id /\ id[r] < id[q]
<1>1. Commit(q)
  <2>1. ASSUME NEW s \in Requests, Commit(s) PROVE q = s
    BY <2>1, Effects DEF IInv
  <2> QED
    BY <2>1, StepKinds, Effects DEF IInv, Committed
<1>2. q \in Requests /\ pc[q] = "written" /\ id' = id
  BY <1>1 DEF Commit, Committed
<1>3. pc[r] = "committed"
  BY <1>2 DEF LockExclusive, Decided, Locked, Reserved
<1>4. id[r] # 0
  BY <1>3 DEF IInv, IdsOrdered, HasRow
<1> QED
  BY <1>2, <1>3, <1>4 DEF LockExclusive, Locked, Reserved

(***************************************************************************)
(* No mutation comes between a web edit and the revision it names.         *)
(***************************************************************************)
LEMMA NextRevisionChecked ==
  IInv /\ LockKept /\ LockExclusive /\ RevisionChecked /\ [Next]_vars => RevisionChecked'
<1> SUFFICES ASSUME IInv, LockKept, LockExclusive, RevisionChecked, [Next]_vars,
                    NEW r \in Requests, pc'[r] \in Decided, IsMutation(r),
                    Req[r].prev # NoRevision
             PROVE  \E p \in Committed' :
                      /\ SameEntity(r, p)
                      /\ Req[p].op_id = Req[r].prev
                      /\ Before(p, r)'
                      /\ \A q \in Committed' : IsMutation(q) /\ SameEntity(r, q) =>
                           ~(id'[p] < id'[q] /\ Before(q, r)')
  BY DEF RevisionChecked
<1>1. TakesLock(r)
  BY DEF TakesLock
<1>2. PICK p \in Committed :
        /\ SameEntity(r, p)
        /\ Req[p].op_id = Req[r].prev
        /\ Before(p, r)
        /\ \A q \in Committed : IsMutation(q) /\ SameEntity(r, q) =>
             ~(id[p] < id[q] /\ Before(q, r))
  <2>1. CASE pc[r] \in Decided
    BY <2>1 DEF RevisionChecked
  <2>2. CASE pc[r] \notin Decided
    <3>1. MutationAllowed(r) /\ id[r] = 0
      BY <1>1, <2>2, DecidedBefore
    <3>2. PICK p \in LatestOp(r) : Req[p].op_id = Req[r].prev
      BY <3>1 DEF MutationAllowed
    <3>3. p \in Committed /\ SameEntity(r, p) /\ \A q \in Committed : SameEntity(r, q) => id[q] <= id[p]
      BY <3>2 DEF LatestOp
    <3>4. \A q \in Committed : id[q] \in Nat
      BY DEF Committed, IInv, TypeOK
    <3> QED
      BY <3>1, <3>2, <3>3, <3>4 DEF Before
  <2> QED
    BY <2>1, <2>2
<1>3. pc[r] = "committed" => p # r
  BY <1>2 DEF Before, IInv, IdsOrdered, HasRow, TypeOK
<1>4. p # r
  BY <1>2, <1>3 DEF Committed
<1>5. p \in Committed' /\ id'[p] = id[p] /\ Before(p, r)'
  BY <1>2, <1>4, BeforeKept
<1>6. ASSUME NEW q \in Committed', IsMutation(q), SameEntity(r, q), q # r
      PROVE  ~(id'[p] < id'[q] /\ Before(q, r)')
  <2>1. CASE q \in Committed
    BY <1>2, <1>5, <1>6, <2>1, BeforeKept DEF Before
  <2>2. CASE q \notin Committed
    <3>1. LockKey(q) = LockKey(r) /\ TakesLock(q)
      BY <1>6 DEF LockKey, SameEntity, TakesLock
    <3>2. CASE pc[r] \in Decided
      <4>1. id[r] # 0 /\ id' = id /\ id[r] < id[q]
        BY <1>1, <1>6, <2>2, <3>1, <3>2, CommitsAbove
      <4>2. id[r] \in Nat /\ id[q] \in Nat
        BY DEF IInv, TypeOK, Committed
      <4> QED
        BY <4>1, <4>2 DEF Before
    <3>3. CASE pc[r] \notin Decided
      BY <1>1, <2>2, <3>3, DecidedBefore
    <3> QED
      BY <3>2, <3>3
  <2> QED
    BY <2>1, <2>2
<1>7. ASSUME r \in Committed' PROVE ~Before(r, r)'
  <2>1. id'[r] # 0 /\ id'[r] \in Nat
    BY <1>7, NextTypeOK, NextIdsOrdered DEF IInv, IdsOrdered, HasRow, Committed, TypeOK
  <2> QED
    BY <2>1 DEF Before
<1> QED
  BY <1>2, <1>5, <1>6, <1>7

(***************************************************************************)
(* An earlier reaction to the same target was deleted before r's row.      *)
(***************************************************************************)
LEMMA NextReactionChecked ==
  IInv /\ LockKept /\ LockExclusive /\ ReactionChecked /\ [Next]_vars => ReactionChecked'
<1> SUFFICES ASSUME IInv, LockKept, LockExclusive, ReactionChecked, [Next]_vars,
                    NEW q \in Requests, pc'[q] \in Decided, IsReactionInsert(q),
                    NEW r \in Committed', SameReaction(r, q), r # q, Before(r, q)'
             PROVE  \E d \in Committed' :
                      SameEntity(r, d) /\ Req[d].op_type = "delete" /\ Before(d, q)'
  BY DEF ReactionChecked
<1>1. TakesLock(q) /\ TakesLock(r) /\ LockKey(r) = LockKey(q) /\ r \in Requests
  BY DEF TakesLock, LockKey, SameReaction, IsReactionInsert, IsMutation, Committed
<1>2. r \in Committed
  <2>1. ASSUME r \notin Committed, pc[q] \in Decided PROVE FALSE
    <3>1. id[q] # 0 /\ id' = id /\ id[q] < id[r]
      BY <1>1, <2>1, CommitsAbove
    <3>2. id[r] \in Nat /\ id[q] \in Nat
      BY <1>1 DEF IInv, TypeOK
    <3> QED
      BY <3>1, <3>2 DEF Before
  <2> QED
    BY <1>1, <2>1, DecidedBefore
<1>3. PICK d \in Committed : SameEntity(r, d) /\ Req[d].op_type = "delete" /\ Before(d, q)
  <2>1. CASE pc[q] \in Decided
    <3>1. Before(r, q)
      BY <1>2, BeforeKept DEF Before
    <3> QED
      BY <1>2, <2>1, <3>1 DEF ReactionChecked
  <2>2. CASE pc[q] \notin Decided
    <3>1. ~ActiveReactionExists(q) /\ id[q] = 0
      BY <1>1, <2>2, DecidedBefore DEF IsReactionInsert, IsMutation
    <3>2. ~ReactionActive(r)
      BY <1>2, <3>1 DEF ActiveReactionExists, SameReaction
    <3> QED
      BY <3>1, <3>2 DEF ReactionActive, LatestOp, Before
  <2> QED
    BY <2>1, <2>2
<1>4. d # q
  BY <1>3 DEF IsReactionInsert
<1> QED
  BY <1>3, <1>4, BeforeKept

-----------------------------------------------------------------------------
(***************************************************************************)
(* WriteInv is an invariant of the operation log.                          *)
(***************************************************************************)
LEMMA WriteInductive == Spec => []WriteInv
<1>1. Init => WriteInv
  BY DEF Init, WriteInv, IndexUnique, LockKept, LockExclusive, AuthorChecked,
         RevisionChecked, ReactionChecked, Decided, Locked, Reserved
<1>2. IInv /\ WriteInv /\ [Next]_vars => WriteInv'
  BY NextIndexUnique, NextLocks, NextAuthorChecked, NextRevisionChecked,
     NextReactionChecked DEF WriteInv, IInv
<1> QED
  BY <1>1, <1>2, Inductive, PTL DEF Spec

(***************************************************************************)
(* However often and through whichever endpoint a call is repeated, its    *)
(* op_id enters the log at most once.                                      *)
(***************************************************************************)
THEOREM OpIdUniqueHolds == Spec => []OpIdUnique
<1>1. WriteInv => OpIdUnique
  BY DEF WriteInv, IndexUnique, OpIdUnique, Committed
<1> QED
  BY <1>1, WriteInductive, PTL

(***************************************************************************)
(* Every mutation in the log follows an insert of its entity by its own    *)
(* author's DID.                                                           *)
(***************************************************************************)
THEOREM MutationByCreatorHolds == Spec => []MutationByCreator
<1>1. IInv /\ WriteInv => MutationByCreator
  BY DEF IInv, IdsOrdered, HasRow, WriteInv, AuthorChecked, MutationByCreator, Committed,
         Decided, Before
<1> QED
  BY <1>1, Inductive, WriteInductive, PTL

(***************************************************************************)
(* Web edits are a compare-and-swap: revisions never fork.                 *)
(***************************************************************************)
THEOREM NoLostUpdateHolds == Spec => []NoLostUpdate
<1>1. IInv /\ WriteInv => NoLostUpdate
  BY DEF IInv, IdsOrdered, HasRow, WriteInv, RevisionChecked, NoLostUpdate, Committed,
         Decided, Before
<1> QED
  BY <1>1, Inductive, WriteInductive, PTL

(***************************************************************************)
(* A reaction is replaced only after it was deleted.                       *)
(***************************************************************************)
THEOREM ReactionReplacedHolds == Spec => []ReactionReplacedOnlyAfterDelete
<1>1. IInv /\ WriteInv => ReactionReplacedOnlyAfterDelete
  <2> SUFFICES ASSUME IInv, WriteInv, NEW r \in Committed, NEW q \in Committed,
                      SameReaction(r, q), id[r] < id[q]
               PROVE  \E d \in Committed :
                        SameEntity(r, d) /\ Req[d].op_type = "delete" /\ id[d] < id[q]
    BY DEF ReactionReplacedOnlyAfterDelete
  <2>1. q \in Requests /\ pc[q] \in Decided /\ IsReactionInsert(q) /\ id[q] # 0
    BY DEF Committed, Decided, SameReaction, IInv, IdsOrdered, HasRow
  <2>2. r # q /\ Before(r, q)
    BY DEF Before, IInv, TypeOK, Committed
  <2> QED
    BY <2>1, <2>2 DEF WriteInv, ReactionChecked, Before
<1> QED
  BY <1>1, Inductive, WriteInductive, PTL
=============================================================================
