------------------------------ MODULE OpStore ------------------------------
(***************************************************************************)
(* The relay's operation log: the `ops` table behind POST /api/v1/ops, the *)
(* WebAuthn publication endpoint and the two delta endpoints.              *)
(*                                                                         *)
(* Every write is a database transaction that runs concurrently with all   *)
(* others.  What PostgreSQL contributes is modelled as far as the code     *)
(* relies on it: `id` is a bigserial whose value is reserved when the row  *)
(* is built, a transaction gets its xid when it first writes a row, rows   *)
(* become visible at commit, a unique index waits for a transaction that   *)
(* is still in progress, and an advisory lock lasts until its transaction  *)
(* ends.                                                                   *)
(*                                                                         *)
(* A request is one call of a client; Req[r] is what it carries.  A client *)
(* that repeats a call is two requests with one op_id.                     *)
(***************************************************************************)
EXTENDS Integers, FiniteSets

CONSTANTS
  Requests,     \* calls made to the relay
  Req,          \* Req[r]: the operation that call r carries
  Equivalent,   \* pairs of author DIDs bound by a completed migration
  Protected,    \* boards whose read policy is not public
  Consumers,    \* readers of a delta endpoint
  Scope,        \* Scope[c]: "public", or the board whose delta c reads
  PageLimit,    \* rows in a page (the `limit` parameter, at most 500)
  ScanBatch,    \* rows a board scan reads at a time (500)
  FirstXid,     \* first transaction id given out in a behaviour
  XidModulus    \* 2^32: a row keeps the low 32 bits of its xid

NoRevision == "no-revision"

(***************************************************************************)
(* Entity kinds whose updates and deletes only their author may make.      *)
(***************************************************************************)
AuthoredTypes == {"thread", "post", "comment", "reaction"}

Operation(o) ==
  /\ o.path \in {"sync", "web"}
  /\ o.op_type \in {"insert", "update", "delete"}

ASSUME OpStoreAssumption ==
  /\ IsFiniteSet(Requests)
  /\ \A r \in Requests : Operation(Req[r])
  /\ PageLimit \in Nat \ {0}
  /\ ScanBatch \in Nat \ {0}
  /\ FirstXid \in Nat \ {0}
  /\ XidModulus \in Nat \ {0}

VARIABLES
  pc,         \* pc[r]: how far request r has come
  seq,        \* last value of the bigserial behind ops.id
  nextXid,    \* next transaction id (xid8)
  id,         \* id[r]: the log id reserved for r, 0 before
  xid,        \* xid[r]: the xid of r's transaction, 0 before it writes
  cursor,     \* cursor[c]: the next_cursor consumer c has stored
  delivered   \* delivered[c]: the requests whose op c has been served

vars == <<pc, seq, nextXid, id, xid, cursor, delivered>>

(***************************************************************************)
(* The stages of a request.  "opened" is a web publication whose own row   *)
(* is inserted; from "locked" on the advisory lock is held; "inserted" is  *)
(* in the heap, "written" also in the unique index.                        *)
(***************************************************************************)
Waiting  == {"idle", "admitted"}
Reserved == {"reserved", "inserted", "written"}
Locked   == {"locked", "verified"} \union Reserved
Open     == {"opened"} \union Locked
Over     == {"committed", "refused", "failed"}
Stages   == Waiting \union Open \union Over

TypeOK ==
  /\ pc \in [Requests -> Stages]
  /\ seq \in Nat
  /\ nextXid \in Nat \ {0}
  /\ id \in [Requests -> 0..seq]
  /\ xid \in [Requests -> 0..(nextXid - 1)]
  /\ cursor \in [Consumers -> 0..seq]
  /\ delivered \in [Consumers -> SUBSET Requests]

Init ==
  /\ pc = [r \in Requests |-> "idle"]
  /\ seq = 0
  /\ nextXid = FirstXid
  /\ id = [r \in Requests |-> 0]
  /\ xid = [r \in Requests |-> 0]
  /\ cursor = [c \in Consumers |-> 0]
  /\ delivered = [c \in Consumers |-> {}]

-----------------------------------------------------------------------------
(* What a query can see: the rows of committed transactions.               *)

Committed == {r \in Requests : pc[r] = "committed"}

SameEntity(r, q) == Req[r].etype = Req[q].etype /\ Req[r].eid = Req[q].eid

(* Updates and deletes that go through append_author_mutation.             *)
IsMutation(r) ==
  /\ Req[r].op_type \in {"update", "delete"}
  /\ Req[r].path = "web" \/ Req[r].etype \in AuthoredTypes

IsReactionInsert(r) == Req[r].etype = "reaction" /\ Req[r].op_type = "insert"

SameReaction(r, q) ==
  /\ IsReactionInsert(r)
  /\ IsReactionInsert(q)
  /\ Req[r].author = Req[q].author
  /\ Req[r].target = Req[q].target

(* Some committed operation already has r's op_id.                         *)
Exists(r) == \E q \in Committed : Req[q].op_id = Req[r].op_id

(* The lowest-id committed insert of r's entity.                           *)
CreateOp(r) ==
  {q \in Committed :
     /\ SameEntity(r, q)
     /\ Req[q].op_type = "insert"
     /\ \A p \in Committed :
          SameEntity(r, p) /\ Req[p].op_type = "insert" => id[q] <= id[p]}

(* The highest-id committed operation on r's entity.                       *)
LatestOp(r) ==
  {q \in Committed :
     /\ SameEntity(r, q)
     /\ \A p \in Committed : SameEntity(r, p) => id[p] <= id[q]}

ReactionActive(r) == \A q \in LatestOp(r) : Req[q].op_type # "delete"

ActiveReactionExists(r) ==
  \E q \in Committed : SameReaction(r, q) /\ ReactionActive(q)

-----------------------------------------------------------------------------
(* Accepting an operation.                                                 *)

(* A gate of the endpoint turns the request down (bad fields, unverified   *)
(* DID, rate limit, signature, posting policy, lock, ...), or a read of    *)
(* the pre-checks does: nothing is written.                                *)
Refuse(r) ==
  /\ pc[r] = "idle"
  /\ pc' = [pc EXCEPT ![r] = "refused"]
  /\ UNCHANGED <<seq, nextXid, id, xid, cursor, delivered>>

(* All gates pass.  Both pre-checks read committed state without a lock,   *)
(* so both may be stale by the time the row is written.  The sync endpoint *)
(* accepts a DID bound to the author's by a migration; the web one does    *)
(* not.                                                                    *)
Admit(r) ==
  /\ pc[r] = "idle"
  /\ ~Exists(r)
  /\ IsMutation(r) =>
       \E q \in CreateOp(r) :
         \/ Req[q].author = Req[r].author
         \/ Req[r].path = "sync" /\ <<Req[q].author, Req[r].author>> \in Equivalent
  /\ pc' = [pc EXCEPT ![r] = "admitted"]
  /\ UNCHANGED <<seq, nextXid, id, xid, cursor, delivered>>

(* A transaction gets its xid with the first row it writes.                *)
TakeXid(r) ==
  IF xid[r] = 0
  THEN xid' = [xid EXCEPT ![r] = nextXid] /\ nextXid' = nextXid + 1
  ELSE UNCHANGED <<xid, nextXid>>

(* The web publication inserts its own row before it appends to the log,   *)
(* so its transaction has an xid before it has a log id.  The primary key  *)
(* on operation_id makes a concurrent publication of the same id wait.     *)
OpenPublication(r) ==
  LET rivals == {q \in Requests \ {r} :
                   Req[q].path = "web" /\ Req[q].op_id = Req[r].op_id}
  IN /\ pc[r] = "admitted"
     /\ Req[r].path = "web"
     /\ \A q \in rivals : pc[q] \notin Open
     /\ TakeXid(r)
     /\ pc' = [pc EXCEPT ![r] = IF \E q \in rivals : pc[q] = "committed"
                                THEN "failed" ELSE "opened"]
     /\ UNCHANGED <<seq, id, cursor, delivered>>

(* Mutant of LockKey: always the client's entity id.                       *)
LockKeyByEntity(r) == <<"entity", Req[r].etype, Req[r].eid>>

(* The key of the advisory lock: the entity for a mutation, the semantic   *)
(* target (not the client's entity id) for a reaction.                     *)
LockKey(r) ==
  IF IsMutation(r) THEN <<"entity", Req[r].etype, Req[r].eid>>
                   ELSE <<"reaction", Req[r].author, Req[r].target>>

TakesLock(r) == IsMutation(r) \/ IsReactionInsert(r)

ReadyToAppend(r) == pc[r] = IF Req[r].path = "web" THEN "opened" ELSE "admitted"

(* Mutant of AcquireLock: session-level locks, which outlive a transaction.*)
AcquireSessionLock(r) ==
  /\ ReadyToAppend(r)
  /\ TakesLock(r)
  /\ \A q \in Requests \ {r} :
       ~(TakesLock(q) /\ pc[q] \in Locked \union {"committed"} /\ LockKey(q) = LockKey(r))
  /\ pc' = [pc EXCEPT ![r] = "locked"]
  /\ UNCHANGED <<seq, nextXid, id, xid, cursor, delivered>>

AcquireLock(r) ==
  /\ ReadyToAppend(r)
  /\ TakesLock(r)
  /\ \A q \in Requests \ {r} :
       ~(TakesLock(q) /\ pc[q] \in Locked /\ LockKey(q) = LockKey(r))
  /\ pc' = [pc EXCEPT ![r] = "locked"]
  /\ UNCHANGED <<seq, nextXid, id, xid, cursor, delivered>>

(* Mutants of MutationAllowed: no revision check; no author check.         *)
MutationAnyRevision(r) == \E q \in CreateOp(r) : Req[q].author = Req[r].author

MutationAnyAuthor(r) ==
  Req[r].prev = NoRevision \/ \E q \in LatestOp(r) : Req[q].op_id = Req[r].prev

(* verify_original_author compares DIDs exactly; the revision is compared  *)
(* only when the caller supplies one, which only the web endpoint does.    *)
MutationAllowed(r) ==
  /\ \E q \in CreateOp(r) : Req[q].author = Req[r].author
  /\ \/ Req[r].prev = NoRevision
     \/ \E q \in LatestOp(r) : Req[q].op_id = Req[r].prev

(* The decision taken under the lock; a refusal rolls back.                *)
Verify(r) ==
  LET allowed == IF IsMutation(r) THEN MutationAllowed(r)
                                  ELSE ~ActiveReactionExists(r)
  IN /\ pc[r] = "locked"
     /\ pc' = [pc EXCEPT ![r] = IF allowed THEN "verified" ELSE "failed"]
     /\ UNCHANGED <<seq, nextXid, id, xid, cursor, delivered>>

(* Mutant of ReserveId: the sequence is read but not advanced.             *)
ReserveStaleId(r) ==
  /\ IF TakesLock(r) THEN pc[r] = "verified" ELSE ReadyToAppend(r)
  /\ id' = [id EXCEPT ![r] = seq + 1]
  /\ pc' = [pc EXCEPT ![r] = "reserved"]
  /\ UNCHANGED <<seq, nextXid, xid, cursor, delivered>>

(* INSERT INTO ops: nextval() gives the row its id ...                     *)
ReserveId(r) ==
  /\ IF TakesLock(r) THEN pc[r] = "verified" ELSE ReadyToAppend(r)
  /\ seq' = seq + 1
  /\ id' = [id EXCEPT ![r] = seq + 1]
  /\ pc' = [pc EXCEPT ![r] = "reserved"]
  /\ UNCHANGED <<nextXid, xid, cursor, delivered>>

(* ... the row goes into the heap, stamped with the transaction's xid ...  *)
InsertRow(r) ==
  /\ pc[r] = "reserved"
  /\ TakeXid(r)
  /\ pc' = [pc EXCEPT ![r] = "inserted"]
  /\ UNCHANGED <<seq, id, cursor, delivered>>

(* Mutant of IndexRow: the index on op_id is not unique.                   *)
IndexRowPlain(r) ==
  /\ pc[r] = "inserted"
  /\ pc' = [pc EXCEPT ![r] = "written"]
  /\ UNCHANGED <<seq, nextXid, id, xid, cursor, delivered>>

(* ... and into ops_op_id_index, which waits for an in-progress rival and  *)
(* fails (rolling back) when a rival has committed.                        *)
IndexRow(r) ==
  LET rivals == {q \in Requests \ {r} : Req[q].op_id = Req[r].op_id}
  IN /\ pc[r] = "inserted"
     /\ \A q \in rivals : pc[q] # "written"
     /\ pc' = [pc EXCEPT ![r] = IF \E q \in rivals : pc[q] = "committed"
                                THEN "failed" ELSE "written"]
     /\ UNCHANGED <<seq, nextXid, id, xid, cursor, delivered>>

Commit(r) ==
  /\ pc[r] = "written"
  /\ pc' = [pc EXCEPT ![r] = "committed"]
  /\ UNCHANGED <<seq, nextXid, id, xid, cursor, delivered>>

(* A later step of the transaction fails (federation enqueue), or the      *)
(* connection or the node dies: rolled back, the reserved id is lost.      *)
Abort(r) ==
  /\ pc[r] \in Open
  /\ pc' = [pc EXCEPT ![r] = "failed"]
  /\ UNCHANGED <<seq, nextXid, id, xid, cursor, delivered>>

-----------------------------------------------------------------------------
(* Serving the log.                                                        *)

(* Transactions that hold an xid and have not ended.                       *)
InProgress == {q \in Requests : pc[q] \in Open /\ xid[q] # 0}

(* `xmin::text::xid8`: the row's 32-bit xid with no epoch.                 *)
RowXmin(r) == xid[r] % XidModulus

(* The row's xmin is below pg_snapshot_xmin: below the next xid and below  *)
(* every xid in progress.                                                  *)
Settled(r) ==
  /\ RowXmin(r) < nextXid
  /\ \A q \in InProgress : RowXmin(r) < xid[q]

(* Mutant of Servable: the naive `WHERE id > cursor`.                      *)
ServableNaive(c) == {r \in Committed : id[r] > cursor[c]}

(* Rows after the cursor and below the lowest unsettled id.                *)
Servable(c) ==
  {r \in Committed :
     /\ id[r] > cursor[c]
     /\ \A q \in Committed : ~Settled(q) => id[r] < id[q]}

FirstRows(S, n) == {r \in S : Cardinality({q \in S : id[q] <= id[r]}) <= n}

PublicOp(r) == Req[r].board \notin Protected

(* Mutant of Deliver: the cursor moves to the last row the reader may see. *)
DeliverVisible(c, scanned, visible) ==
  \E last \in scanned \intersect visible :
    /\ \A r \in scanned \intersect visible : id[r] <= id[last]
    /\ cursor' = [cursor EXCEPT ![c] = id[last]]
    /\ delivered' = [delivered EXCEPT ![c] = @ \union (scanned \intersect visible)]
    /\ UNCHANGED <<pc, seq, nextXid, id, xid>>

(* Store the page: the cursor moves to the last row scanned, visible or    *)
(* not.                                                                    *)
Deliver(c, scanned, visible) ==
  \E last \in scanned :
    /\ \A r \in scanned : id[r] <= id[last]
    /\ cursor' = [cursor EXCEPT ![c] = id[last]]
    /\ delivered' = [delivered EXCEPT ![c] = @ \union (scanned \intersect visible)]
    /\ UNCHANGED <<pc, seq, nextXid, id, xid>>

(* GET /api/v1/ops/delta                                                   *)
Delta(c) ==
  /\ Scope[c] = "public"
  /\ Deliver(c, FirstRows(Servable(c), PageLimit), {r \in Requests : PublicOp(r)})

(* GET the delta of one board: scan a batch of the global log until the    *)
(* page is full.  A scan of several batches is several of these steps.     *)
OfBoard(b) == {r \in Requests : Req[r].board = b}

BoardScan(c) ==
  LET batch == FirstRows(Servable(c), ScanBatch)
  IN {r \in batch :
        Cardinality({q \in batch \intersect OfBoard(Scope[c]) : id[q] < id[r]})
          < PageLimit}

BoardDelta(c) ==
  /\ Scope[c] # "public"
  /\ Deliver(c, BoardScan(c), OfBoard(Scope[c]))

-----------------------------------------------------------------------------
Append(r) ==
  \/ OpenPublication(r)
  \/ AcquireLock(r)
  \/ Verify(r)
  \/ ReserveId(r)
  \/ InsertRow(r)
  \/ IndexRow(r)
  \/ Commit(r)

Next ==
  \/ \E r \in Requests : Refuse(r) \/ Admit(r) \/ Append(r) \/ Abort(r)
  \/ \E c \in Consumers : Delta(c) \/ BoardDelta(c)

Spec == Init /\ [][Next]_vars

(***************************************************************************)
(* A transaction that can take its next step does (statement timeouts end  *)
(* one that cannot), and a consumer keeps polling.  Nothing obliges a      *)
(* client to send a request or a transaction to fail.                      *)
(***************************************************************************)
Fairness ==
  /\ \A r \in Requests : WF_vars(Append(r))
  /\ \A c \in Consumers : WF_vars(Delta(c)) /\ WF_vars(BoardDelta(c))

FairSpec == Spec /\ Fairness

-----------------------------------------------------------------------------
(* Properties.                                                             *)

Visible(c) ==
  IF Scope[c] = "public" THEN {r \in Requests : PublicOp(r)}
                         ELSE OfBoard(Scope[c])

(***************************************************************************)
(* What the settle guard of OpStore.list really gives: while xids have not *)
(* wrapped, a visible operation at or below a consumer's cursor has been   *)
(* served to it, unless an operation with a higher log id but a LOWER xid  *)
(* was served first.  Ids and xids are taken at different moments, so the  *)
(* exception is real (NoGapSkipped).                                       *)
(***************************************************************************)
GapOnlyByInversion ==
  nextXid <= XidModulus =>
    \A c \in Consumers : \A r \in Committed \intersect Visible(c) :
      id[r] <= cursor[c] =>
        \/ r \in delivered[c]
        \/ \E s \in Committed :
             id[r] < id[s] /\ id[s] <= cursor[c] /\ xid[s] < xid[r]

(***************************************************************************)
(* The promise in the comment of OpStore.list: the served window "is       *)
(* monotonic and never skips a gap".                                       *)
(***************************************************************************)
NoGapSkipped ==
  \A c \in Consumers : \A r \in Committed \intersect Visible(c) :
    id[r] <= cursor[c] => r \in delivered[c]

(***************************************************************************)
(* NoGapSkipped with the id/xid inversion taken out: whenever ids and xids *)
(* of the log agree in order, no visible operation is skipped.  The cast   *)
(* `xmin::text::xid8` breaks even this once xids pass 2^32.                *)
(***************************************************************************)
GapFreeWhenOrdersAgree ==
  (\A r, s \in Committed : id[r] < id[s] => xid[r] < xid[s]) => NoGapSkipped

(***************************************************************************)
(* An op_id enters the log at most once, however often a client repeats    *)
(* the call and through whichever endpoint (ops_op_id_index).              *)
(***************************************************************************)
OpIdUnique ==
  \A r, q \in Committed : Req[r].op_id = Req[q].op_id => r = q

(***************************************************************************)
(* Every update or delete in the log follows an insert of its entity by    *)
(* the same DID (append_author_mutation).                                  *)
(***************************************************************************)
MutationByCreator ==
  \A r \in Committed : IsMutation(r) =>
    \E q \in Committed :
      /\ SameEntity(r, q)
      /\ Req[q].op_type = "insert"
      /\ Req[q].author = Req[r].author
      /\ id[q] < id[r]

(***************************************************************************)
(* The compare-and-swap of append_author_mutation: an edit that names the  *)
(* revision it replaces follows that revision with no other edit of the    *)
(* entity between the two, so no edit is lost and revisions never fork.    *)
(***************************************************************************)
NoLostUpdate ==
  \A r \in Committed : IsMutation(r) /\ Req[r].prev # NoRevision =>
    \E p \in Committed :
      /\ SameEntity(r, p)
      /\ Req[p].op_id = Req[r].prev
      /\ id[p] < id[r]
      /\ \A q \in Committed :
           IsMutation(q) /\ SameEntity(r, q) => ~(id[p] < id[q] /\ id[q] < id[r])

(***************************************************************************)
(* Of two reactions of one author to one target the earlier was deleted    *)
(* before the later entered the log (append_reaction_insert), even when    *)
(* two devices react at once under different entity ids.                   *)
(***************************************************************************)
ReactionReplacedOnlyAfterDelete ==
  \A r, q \in Committed : SameReaction(r, q) /\ id[r] < id[q] =>
    \E d \in Committed :
      SameEntity(r, d) /\ Req[d].op_type = "delete" /\ id[d] < id[q]

(***************************************************************************)
(* Advisory locks and index waits never block each other for good: every   *)
(* admitted request is answered.                                           *)
(***************************************************************************)
RequestsAnswered ==
  \A r \in Requests : pc[r] = "admitted" ~> pc[r] \in Over

(***************************************************************************)
(* Holding rows back never stalls the log: every consumer's cursor passes  *)
(* every committed operation, also where none of a page is visible to it.  *)
(***************************************************************************)
ConsumersCatchUp ==
  \A r \in Requests, c \in Consumers :
    pc[r] = "committed" ~> cursor[c] >= id[r]
=============================================================================
