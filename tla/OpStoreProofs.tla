--------------------------- MODULE OpStoreProofs ---------------------------
(***************************************************************************)
(* Proofs about the operation log, for any set of requests and consumers.  *)
(***************************************************************************)
EXTENDS OpStore, FiniteSetTheorems, TLAPS

(***************************************************************************)
(* What the two delta endpoints have in common: the scanned rows are       *)
(* servable, and a servable row below a scanned one is scanned too.        *)
(***************************************************************************)
Prefix(c, S) ==
  /\ S \subseteq Servable(c)
  /\ \A r \in S, q \in Servable(c) : id[q] < id[r] => q \in S

(***************************************************************************)
(* The inductive invariant behind GapOnlyByInversion.  A row still in      *)
(* flight counts too: if a cursor has passed it, a row with a higher id    *)
(* was served whose xid is lower, or r has no xid yet (and will get a      *)
(* higher one).                                                            *)
(***************************************************************************)
HasRow(r) == pc[r] \in Reserved \union {"committed"}

IdsOrdered ==
  /\ \A r \in Requests : HasRow(r) => id[r] # 0
  /\ \A r, q \in Requests : id[r] = id[q] /\ id[r] # 0 => r = q
  /\ \A r \in Requests : ~HasRow(r) /\ pc[r] # "failed" => id[r] = 0
  /\ \A r \in Requests : pc[r] \in {"inserted", "written", "committed"} => xid[r] # 0

Overtaken(c, r) ==
  \E s \in Committed :
    /\ id[r] < id[s]
    /\ id[s] <= cursor[c]
    /\ xid[r] = 0 \/ xid[s] < xid[r]

NoRowLost ==
  nextXid <= XidModulus =>
    \A c \in Consumers, r \in Requests :
      HasRow(r) /\ r \in Visible(c) /\ id[r] <= cursor[c]
        => r \in delivered[c] \/ Overtaken(c, r)

IInv == TypeOK /\ IdsOrdered /\ NoRowLost

-----------------------------------------------------------------------------
(***************************************************************************)
(* Initially nothing is reserved, no xid is given and no cursor has moved. *)
(***************************************************************************)
LEMMA InitTypeOK == Init => TypeOK
  BY OpStoreAssumption DEF Init, TypeOK, Stages, Waiting

(***************************************************************************)
(* Every step keeps ids within the sequence, xids below the next one and   *)
(* cursors within the ids given out.                                       *)
(***************************************************************************)
LEMMA NextTypeOK == TypeOK /\ [Next]_vars => TypeOK'
<1> SUFFICES ASSUME TypeOK, [Next]_vars PROVE TypeOK'
  OBVIOUS
<1> USE DEF TypeOK, Stages, Waiting, Open, Locked, Reserved, Over
<1>1. ASSUME NEW r \in Requests, Refuse(r) \/ Admit(r) PROVE TypeOK'
  BY <1>1 DEF Refuse, Admit
<1>2. ASSUME NEW r \in Requests, Append(r) PROVE TypeOK'
  <2>1. CASE OpenPublication(r)
    BY <2>1 DEF OpenPublication, TakeXid
  <2>2. CASE AcquireLock(r)
    BY <2>2 DEF AcquireLock
  <2>3. CASE Verify(r)
    BY <2>3 DEF Verify
  <2>4. CASE ReserveId(r)
    BY <2>4 DEF ReserveId
  <2>5. CASE InsertRow(r)
    BY <2>5 DEF InsertRow, TakeXid
  <2>6. CASE IndexRow(r)
    BY <2>6 DEF IndexRow
  <2>7. CASE Commit(r)
    BY <2>7 DEF Commit
  <2> QED
    BY <1>2, <2>1, <2>2, <2>3, <2>4, <2>5, <2>6, <2>7 DEF Append
<1>3. ASSUME NEW r \in Requests, Abort(r) PROVE TypeOK'
  BY <1>3 DEF Abort
<1>4. ASSUME NEW c \in Consumers, NEW S, NEW V, S \subseteq Requests, Deliver(c, S, V)
      PROVE TypeOK'
  BY <1>4 DEF Deliver
<1>5. ASSUME NEW c \in Consumers, Delta(c) \/ BoardDelta(c) PROVE TypeOK'
  <2>1. FirstRows(Servable(c), PageLimit) \subseteq Requests
    BY DEF FirstRows, Servable, Committed
  <2>2. BoardScan(c) \subseteq Requests
    BY DEF BoardScan, FirstRows, Servable, Committed
  <2> QED
    BY <1>4, <1>5, <2>1, <2>2 DEF Delta, BoardDelta
<1>6. CASE UNCHANGED vars
  BY <1>6 DEF vars
<1> QED
  BY <1>1, <1>2, <1>3, <1>5, <1>6 DEF Next

(***************************************************************************)
(* The type invariant holds of every behaviour of the operation log.       *)
(***************************************************************************)
THEOREM TypeCorrect == Spec => []TypeOK
  BY InitTypeOK, NextTypeOK, PTL DEF Spec

-----------------------------------------------------------------------------
(***************************************************************************)
(* Log ids are never shared, and every row in the log has an id and an     *)
(* xid.                                                                    *)
(***************************************************************************)
LEMMA NextIdsOrdered == TypeOK /\ IdsOrdered /\ [Next]_vars => IdsOrdered'
<1> SUFFICES ASSUME TypeOK, IdsOrdered, [Next]_vars PROVE IdsOrdered'
  OBVIOUS
<1> USE DEF TypeOK, IdsOrdered, HasRow, Reserved
<1>1. ASSUME NEW r \in Requests, Refuse(r) \/ Admit(r) PROVE IdsOrdered'
  BY <1>1 DEF Refuse, Admit
<1>2. ASSUME NEW r \in Requests, Append(r) PROVE IdsOrdered'
  <2>1. CASE OpenPublication(r)
    BY <2>1 DEF OpenPublication, TakeXid
  <2>2. CASE AcquireLock(r)
    BY <2>2 DEF AcquireLock, ReadyToAppend
  <2>3. CASE Verify(r)
    BY <2>3 DEF Verify
  <2>4. CASE ReserveId(r)
    BY <2>4 DEF ReserveId, ReadyToAppend
  <2>5. CASE InsertRow(r)
    BY <2>5 DEF InsertRow, TakeXid
  <2>6. CASE IndexRow(r)
    BY <2>6 DEF IndexRow
  <2>7. CASE Commit(r)
    BY <2>7 DEF Commit
  <2> QED
    BY <1>2, <2>1, <2>2, <2>3, <2>4, <2>5, <2>6, <2>7 DEF Append
<1>3. ASSUME NEW r \in Requests, Abort(r) PROVE IdsOrdered'
  BY <1>3 DEF Abort
<1>4. ASSUME NEW c \in Consumers, Delta(c) \/ BoardDelta(c) PROVE IdsOrdered'
  BY <1>4 DEF Delta, BoardDelta, Deliver
<1>5. CASE UNCHANGED vars
  BY <1>5 DEF vars
<1> QED
  BY <1>1, <1>2, <1>3, <1>4, <1>5 DEF Next

(***************************************************************************)
(* Taking the first n rows of a set takes a prefix of it.                  *)
(***************************************************************************)
LEMMA FirstRowsPrefix ==
  ASSUME TypeOK, NEW S \in SUBSET Requests, NEW n \in Nat,
         NEW r \in FirstRows(S, n), NEW q \in S, id[q] < id[r]
  PROVE  q \in FirstRows(S, n)
<1> DEFINE Below(t) == {u \in S : id[u] <= id[t]}
<1>1. Below(q) \subseteq Below(r)
  BY DEF FirstRows, TypeOK
<1>2. IsFiniteSet(Below(r))
  <2>1. Below(r) \subseteq Requests
    OBVIOUS
  <2> QED
    BY <2>1, OpStoreAssumption, FS_Subset
<1>3. Cardinality(Below(q)) <= Cardinality(Below(r))
  BY <1>1, <1>2, FS_Subset
<1>4. Cardinality(Below(r)) <= n
  BY DEF FirstRows
<1>5. Cardinality(Below(q)) \in Nat /\ Cardinality(Below(r)) \in Nat
  BY <1>1, <1>2, FS_Subset, FS_CardinalityType
<1> QED
  BY <1>3, <1>4, <1>5 DEF FirstRows

(***************************************************************************)
(* Both delta endpoints scan a prefix of the servable rows.                *)
(***************************************************************************)
LEMMA DeltaPrefix ==
  ASSUME TypeOK, NEW c \in Consumers
  PROVE  Prefix(c, FirstRows(Servable(c), PageLimit))
<1>1. Servable(c) \in SUBSET Requests
  BY DEF Servable, Committed
<1> QED
  BY <1>1, FirstRowsPrefix, OpStoreAssumption DEF Prefix, FirstRows

(***************************************************************************)
(* A board page: the scan stops where the page is full, at the last row.   *)
(***************************************************************************)
LEMMA BoardScanPrefix ==
  ASSUME TypeOK, NEW c \in Consumers
  PROVE  Prefix(c, BoardScan(c))
<1> DEFINE batch == FirstRows(Servable(c), ScanBatch)
           Hits(t) == {u \in batch \intersect OfBoard(Scope[c]) : id[u] < id[t]}
<1>1. Servable(c) \in SUBSET Requests
  BY DEF Servable, Committed
<1>2. BoardScan(c) = {t \in batch : Cardinality(Hits(t)) < PageLimit}
  BY DEF BoardScan
<1>3. batch \subseteq Servable(c)
  BY DEF FirstRows
<1>4. ASSUME NEW r \in BoardScan(c), NEW q \in Servable(c), id[q] < id[r]
      PROVE  q \in BoardScan(c)
  <2>1. r \in batch /\ Cardinality(Hits(r)) < PageLimit
    BY <1>2
  <2>2. q \in batch
    BY <1>1, <1>4, <2>1, FirstRowsPrefix, OpStoreAssumption
  <2>3. Hits(q) \subseteq Hits(r)
    BY <1>1, <1>3, <1>4, <2>1, <2>2 DEF TypeOK
  <2>4. IsFiniteSet(Hits(r))
    <3>1. Hits(r) \subseteq Requests
      BY <1>1, <1>3
    <3> QED
      BY <3>1, OpStoreAssumption, FS_Subset
  <2>5. /\ Cardinality(Hits(q)) <= Cardinality(Hits(r))
        /\ Cardinality(Hits(q)) \in Nat
        /\ Cardinality(Hits(r)) \in Nat
    BY <2>3, <2>4, FS_Subset, FS_CardinalityType
  <2> QED
    BY <1>2, <2>1, <2>2, <2>5, OpStoreAssumption
<1> QED
  BY <1>2, <1>3, <1>4 DEF Prefix

-----------------------------------------------------------------------------
(***************************************************************************)
(* Storing a page keeps NoRowLost: a row the new cursor passes is on the   *)
(* page, or it is still in flight, and then the last row of the page is    *)
(* settled and so has the lower xid.                                       *)
(***************************************************************************)
LEMMA DeliverNoRowLost ==
  ASSUME TypeOK, IdsOrdered, NoRowLost,
         NEW c \in Consumers, NEW S, Prefix(c, S), Deliver(c, S, Visible(c))
  PROVE  NoRowLost'
<1>1. S \subseteq Committed /\ S \subseteq Requests
  BY DEF Prefix, Servable, Committed
<1>2. PICK last \in S :
        /\ \A r \in S : id[r] <= id[last]
        /\ cursor' = [cursor EXCEPT ![c] = id[last]]
        /\ delivered' = [delivered EXCEPT ![c] = @ \union (S \intersect Visible(c))]
        /\ UNCHANGED <<pc, seq, nextXid, id, xid>>
  BY DEF Deliver
<1>3. last \in Servable(c) /\ last \in Requests /\ pc[last] = "committed"
  BY <1>1 DEF Prefix, Committed
<1>4. Committed' = Committed /\ \A d : Visible(d)' = Visible(d)
  BY <1>2 DEF Committed, Visible, PublicOp, OfBoard
<1> SUFFICES ASSUME nextXid <= XidModulus,
                    NEW d \in Consumers, NEW r \in Requests,
                    HasRow(r), r \in Visible(d), id[r] <= cursor'[d]
             PROVE  r \in delivered'[d] \/ Overtaken(d, r)'
  BY <1>2, <1>4 DEF NoRowLost, HasRow
<1>5. CASE id[r] <= cursor[d]
  <2>1. r \in delivered[d] \/ Overtaken(d, r)
    BY <1>5 DEF NoRowLost
  <2>2. delivered[d] \subseteq delivered'[d]
    BY <1>2 DEF TypeOK
  <2>3. cursor[d] <= cursor'[d]
    BY <1>2, <1>3 DEF TypeOK, Servable
  <2>4. ASSUME Overtaken(d, r) PROVE Overtaken(d, r)'
    <3>1. PICK s \in Committed : /\ id[r] < id[s]
                                 /\ id[s] <= cursor[d]
                                 /\ xid[r] = 0 \/ xid[s] < xid[r]
      BY <2>4 DEF Overtaken
    <3>2. s \in Requests
      BY DEF Committed
    <3>3. id[s] <= cursor'[d]
      BY <1>2, <1>3, <2>3, <3>1, <3>2 DEF TypeOK
    <3> QED
      BY <1>2, <1>4, <3>1, <3>3 DEF Overtaken
  <2> QED
    BY <2>1, <2>2, <2>4
<1>6. CASE ~(id[r] <= cursor[d])
  <2>1. d = c /\ cursor'[c] = id[last]
    BY <1>2, <1>6 DEF TypeOK
  <2>2. id[r] > cursor[c] /\ id[r] <= id[last]
    BY <1>6, <2>1 DEF TypeOK
  <2>3. \A q \in Committed : ~Settled(q) => id[last] < id[q]
    BY <1>3 DEF Servable
  <2>4. CASE pc[r] = "committed"
    <3>1. r \in Servable(c)
      BY <1>3, <2>2, <2>3, <2>4 DEF Servable, Committed, TypeOK
    <3>2. r \in S
      BY <1>3, <2>2, <3>1 DEF Prefix, TypeOK, IdsOrdered, HasRow
    <3> QED
      BY <1>2, <2>1, <3>2 DEF TypeOK
  <2>5. CASE pc[r] # "committed"
    <3>1. id[r] < id[last]
      BY <1>3, <2>2, <2>5 DEF TypeOK, IdsOrdered, HasRow
    <3>2. Settled(last)
      BY <1>1, <1>3, <2>3 DEF TypeOK
    <3>3. xid[r] = 0 \/ r \in InProgress
      BY <2>5 DEF InProgress, HasRow, Open, Locked, Reserved
    <3>4. RowXmin(last) = xid[last]
      BY <1>3, OpStoreAssumption, SMTT(30) DEF RowXmin, TypeOK
    <3>5. xid[r] = 0 \/ xid[last] < xid[r]
      BY <3>2, <3>3, <3>4 DEF Settled
    <3>6. last \in Committed
      BY <1>1
    <3> QED
      BY <1>2, <1>4, <2>1, <3>1, <3>5, <3>6, <1>3 DEF Overtaken, TypeOK
  <2> QED
    BY <2>4, <2>5
<1> QED
  BY <1>5, <1>6

(***************************************************************************)
(* A step of a request keeps NoRowLost: a new id is above every cursor, a  *)
(* new xid above every xid given out, and committed rows stay.             *)
(***************************************************************************)
LEMMA RequestNoRowLost ==
  ASSUME TypeOK, IdsOrdered, NoRowLost, NEW r \in Requests,
         UNCHANGED <<cursor, delivered>>,
         /\ \A q \in Requests \ {r} : pc'[q] = pc[q] /\ id'[q] = id[q] /\ xid'[q] = xid[q]
         /\ pc[r] # "committed"
         /\ HasRow(r)' => (HasRow(r) /\ id'[r] = id[r]) \/ id'[r] = seq + 1
         /\ xid'[r] = xid[r] \/ (xid[r] = 0 /\ xid'[r] = nextXid)
         /\ nextXid' \in Nat /\ nextXid <= nextXid'
  PROVE  NoRowLost'
<1>1. \A d : Visible(d)' = Visible(d)
  BY DEF Visible, PublicOp, OfBoard
<1>2. Committed \subseteq Committed'
  BY DEF Committed
<1> SUFFICES ASSUME nextXid' <= XidModulus,
                    NEW d \in Consumers, NEW q \in Requests,
                    HasRow(q)', q \in Visible(d), id'[q] <= cursor[d]
             PROVE  q \in delivered[d] \/ Overtaken(d, q)'
  BY <1>1 DEF NoRowLost
<1>3. HasRow(q) /\ id'[q] = id[q]
  BY DEF HasRow, TypeOK
<1>4. nextXid <= XidModulus
  BY OpStoreAssumption DEF TypeOK
<1>5. q \in delivered[d] \/ Overtaken(d, q)
  BY <1>3, <1>4 DEF NoRowLost
<1>6. ASSUME Overtaken(d, q) PROVE Overtaken(d, q)'
  <2>1. PICK s \in Committed : /\ id[q] < id[s]
                               /\ id[s] <= cursor[d]
                               /\ xid[q] = 0 \/ xid[s] < xid[q]
    BY <1>6 DEF Overtaken
  <2>2. s \in Requests /\ s # r
    BY DEF Committed
  <2>3. id'[s] = id[s] /\ xid'[s] = xid[s] /\ xid[s] < nextXid
    BY <2>2 DEF TypeOK
  <2>4. xid'[q] = 0 \/ xid'[s] < xid'[q]
    BY <2>1, <2>2, <2>3 DEF TypeOK
  <2> QED
    BY <1>2, <1>3, <2>1, <2>3, <2>4 DEF Overtaken
<1> QED
  BY <1>5, <1>6

(***************************************************************************)
(* Every step of the log keeps NoRowLost.                                  *)
(***************************************************************************)
LEMMA NextNoRowLost == IInv /\ [Next]_vars => NoRowLost'
<1> SUFFICES ASSUME TypeOK, IdsOrdered, NoRowLost, [Next]_vars PROVE NoRowLost'
  BY DEF IInv
<1>1. ASSUME NEW r \in Requests, Refuse(r) \/ Admit(r) \/ Append(r) \/ Abort(r)
      PROVE  NoRowLost'
  <2> DEFINE Others == \A q \in Requests \ {r} :
                         pc'[q] = pc[q] /\ id'[q] = id[q] /\ xid'[q] = xid[q]
             Row == HasRow(r)' => (HasRow(r) /\ id'[r] = id[r]) \/ id'[r] = seq + 1
             Xid == /\ xid'[r] = xid[r] \/ (xid[r] = 0 /\ xid'[r] = nextXid)
                    /\ nextXid' \in Nat /\ nextXid <= nextXid'
             Step == /\ UNCHANGED <<cursor, delivered>>
                     /\ Others
                     /\ pc[r] # "committed"
                     /\ Row
                     /\ Xid
  <2> USE DEF TypeOK, HasRow, Reserved
  <2>1. CASE Refuse(r) \/ Admit(r)
    <3>1. Step
      BY <2>1 DEF Refuse, Admit
    <3> QED
      BY <3>1, RequestNoRowLost
  <2>2. CASE OpenPublication(r)
    <3>1. Step
      BY <2>2 DEF OpenPublication, TakeXid
    <3> QED
      BY <3>1, RequestNoRowLost
  <2>3. CASE AcquireLock(r) \/ Verify(r)
    <3>1. Step
      BY <2>3 DEF AcquireLock, ReadyToAppend, Verify
    <3> QED
      BY <3>1, RequestNoRowLost
  <2>4. CASE ReserveId(r)
    <3>1. Step
      BY <2>4 DEF ReserveId, ReadyToAppend
    <3> QED
      BY <3>1, RequestNoRowLost
  <2>5. CASE InsertRow(r)
    <3>1. Step
      BY <2>5 DEF InsertRow, TakeXid
    <3> QED
      BY <3>1, RequestNoRowLost
  <2>6. CASE IndexRow(r) \/ Commit(r)
    <3>1. Step
      BY <2>6 DEF IndexRow, Commit
    <3> QED
      BY <3>1, RequestNoRowLost
  <2>7. CASE Abort(r)
    <3>1. Step
      BY <2>7 DEF Abort, Open, Locked
    <3> QED
      BY <3>1, RequestNoRowLost
  <2> QED
    BY <1>1, <2>1, <2>2, <2>3, <2>4, <2>5, <2>6, <2>7 DEF Append
<1>2. ASSUME NEW c \in Consumers, Delta(c) PROVE NoRowLost'
  <2>1. PICK S : S = FirstRows(Servable(c), PageLimit)
    OBVIOUS
  <2>2. Prefix(c, S)
    BY <2>1, DeltaPrefix
  <2>3. Deliver(c, S, Visible(c))
    BY <1>2, <2>1 DEF Delta, Visible
  <2> QED
    BY <2>2, <2>3, DeliverNoRowLost
<1>3. ASSUME NEW c \in Consumers, BoardDelta(c) PROVE NoRowLost'
  <2>1. PICK S : S = BoardScan(c)
    OBVIOUS
  <2>2. Prefix(c, S)
    BY <2>1, BoardScanPrefix
  <2>3. Deliver(c, S, Visible(c))
    BY <1>3, <2>1 DEF BoardDelta, Visible
  <2> QED
    BY <2>2, <2>3, DeliverNoRowLost
<1>4. CASE UNCHANGED vars
  BY <1>4 DEF vars, NoRowLost, HasRow, Visible, PublicOp, OfBoard, Overtaken, Committed
<1> QED
  BY <1>1, <1>2, <1>3, <1>4 DEF Next

(***************************************************************************)
(* The inductive invariant holds of every behaviour.                       *)
(***************************************************************************)
LEMMA Inductive == Spec => []IInv
<1>1. Init => IInv
  <2> SUFFICES ASSUME Init PROVE IInv
    OBVIOUS
  <2>1. TypeOK
    BY InitTypeOK
  <2>2. IdsOrdered
    BY DEF Init, IdsOrdered, HasRow, Reserved
  <2>3. NoRowLost
    BY DEF Init, NoRowLost, HasRow, Reserved
  <2> QED
    BY <2>1, <2>2, <2>3 DEF IInv
<1>2. IInv /\ [Next]_vars => IInv'
  BY NextTypeOK, NextIdsOrdered, NextNoRowLost DEF IInv
<1> QED
  BY <1>1, <1>2, PTL DEF Spec

(***************************************************************************)
(* The settle guard of OpStore.list loses a row only by an inversion of    *)
(* ids and xids: for any requests, consumers, page and batch sizes.        *)
(***************************************************************************)
THEOREM GapOnlyByInversionHolds == Spec => []GapOnlyByInversion
<1>1. IInv => GapOnlyByInversion
  <2> SUFFICES ASSUME IInv, nextXid <= XidModulus,
                      NEW c \in Consumers, NEW r \in Committed, r \in Visible(c),
                      id[r] <= cursor[c]
               PROVE  \/ r \in delivered[c]
                      \/ \E s \in Committed :
                           id[r] < id[s] /\ id[s] <= cursor[c] /\ xid[s] < xid[r]
    BY DEF GapOnlyByInversion
  <2>1. r \in Requests /\ HasRow(r) /\ xid[r] # 0
    BY DEF IInv, IdsOrdered, Committed, HasRow
  <2>2. r \in delivered[c] \/ Overtaken(c, r)
    BY <2>1 DEF IInv, NoRowLost
  <2> QED
    BY <2>1, <2>2 DEF Overtaken
<1> QED
  BY <1>1, Inductive, PTL

(***************************************************************************)
(* Corollary, the reading the comments of OpStore.list have in mind: were  *)
(* ids and xids always taken in the same order, and xids not wrapped, no   *)
(* visible row would be skipped.                                           *)
(***************************************************************************)
THEOREM GapFreeBeforeWrap == Spec => [](nextXid <= XidModulus => GapFreeWhenOrdersAgree)
<1>1. IInv /\ GapOnlyByInversion => (nextXid <= XidModulus => GapFreeWhenOrdersAgree)
  <2> SUFFICES ASSUME IInv, GapOnlyByInversion, nextXid <= XidModulus,
                      \A r, s \in Committed : id[r] < id[s] => xid[r] < xid[s],
                      NEW c \in Consumers, NEW r \in Committed \intersect Visible(c),
                      id[r] <= cursor[c]
               PROVE  r \in delivered[c]
    BY DEF GapFreeWhenOrdersAgree, NoGapSkipped
  <2>1. \A s \in Committed : ~(xid[s] < xid[r] /\ xid[r] < xid[s])
    BY DEF IInv, TypeOK, Committed
  <2> QED
    BY <2>1 DEF GapOnlyByInversion
<1> QED
  BY <1>1, Inductive, GapOnlyByInversionHolds, PTL
=============================================================================
