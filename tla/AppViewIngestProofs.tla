------------------------ MODULE AppViewIngestProofs ------------------------
(***************************************************************************)
(* Proofs about the AppView's ingest, for any log, page size and number of *)
(* crashes.  TypeOK holds however the poller and a rebuild interleave; the *)
(* other properties need the careful operator of CarefulSpec.              *)
(***************************************************************************)
EXTENDS AppViewIngest, TLAPS

Stages == {"idle", "reset", "drain", "fetch", "graph", "deletions", "inserts", "put"}

LEMMA AtType ==
  ASSUME NEW stage \in Stages, NEW from \in 0..MaxLog
  PROVE  /\ At(stage, from) \in JobStates
         /\ At(stage, from).pc = stage /\ At(stage, from).from = from
         /\ At(stage, from).next = 0
  BY AppViewAssumption DEF At, JobStates, Stages

LEMMA GotoType ==
  ASSUME job \in [Jobs -> JobStates], NEW j \in Jobs, NEW stage \in Stages, Goto(j, stage)
  PROVE  /\ job' \in [Jobs -> JobStates] /\ job'[j].pc = stage
         /\ job'[j].from = job[j].from /\ job'[j].next = job[j].next
         /\ job'[j].tombs = job[j].tombs /\ job'[j].pos = job[j].pos
         /\ \A i \in Jobs \ {j} : job'[i] = job[i]
  BY DEF Goto, JobStates, Stages

(* A step that moves one job.                                              *)
LEMMA MoveType ==
  ASSUME TypeOK, NEW j \in Jobs, NEW b \in JobStates, job' = [job EXCEPT ![j] = b],
         b.next <= Len(log), UNCHANGED log
  PROVE  job' \in [Jobs -> JobStates] /\ \A i \in Jobs : job'[i].next <= Len(log')
  BY DEF TypeOK

LEMMA GraphAfterType ==
  ASSUME TypeOK, NEW i \in 1..Len(log)
  PROVE  GraphAfter(i) \in [Keys -> 0..MaxLog]
<1>1. graph \in [Keys -> 0..MaxLog] /\ i \in 0..MaxLog /\ 0 \in 0..MaxLog
    BY AppViewAssumption DEF TypeOK
<1>2. /\ [graph EXCEPT ![log[i].on] = i] \in [Keys -> 0..MaxLog]
      /\ [graph EXCEPT ![log[i].on] = 0] \in [Keys -> 0..MaxLog]
    BY <1>1
<1> QED  BY <1>1, <1>2 DEF GraphAfter

(* What Fetch puts into the job's hands.                                   *)
Fetched(j) ==
  LET next == IF job[j].from + PageLimit < Len(log) THEN job[j].from + PageLimit ELSE Len(log)
  IN  [pc |-> "graph", from |-> job[j].from, next |-> next, more |-> next < Len(log),
       tombs |-> removed, pos |-> job[j].from + 1]

LEMMA FetchedType ==
  ASSUME TypeOK, NEW j \in Jobs
  PROVE  /\ Fetched(j) \in JobStates /\ Fetched(j).next <= Len(log)
         /\ Fetched(j).pc = "graph" /\ Fetched(j).from = job[j].from
         /\ Fetched(j).tombs = removed /\ Fetched(j).pos = job[j].from + 1
         /\ job[j].from <= Len(log) => Fetched(j).from <= Fetched(j).next
         /\ Fetched(j).next =
              IF job[j].from + PageLimit < Len(log) THEN job[j].from + PageLimit ELSE Len(log)
<1>1. job[j].from \in 0..MaxLog /\ Len(log) \in 0..MaxLog /\ removed \subseteq Entities
    BY DEF TypeOK, JobStates
<1> DEFINE next == IF job[j].from + PageLimit < Len(log) THEN job[j].from + PageLimit ELSE Len(log)
<1>2. /\ next \in 0..MaxLog /\ next <= Len(log) /\ (next < Len(log)) \in BOOLEAN
      /\ job[j].from + 1 \in 0..(MaxLog + 1)
      /\ job[j].from <= Len(log) => job[j].from <= next
    BY <1>1, AppViewAssumption, SMTT(20)
<1>3. Fetched(j) = [pc |-> "graph", from |-> job[j].from, next |-> next,
                    more |-> next < Len(log), tombs |-> removed, pos |-> job[j].from + 1]
    BY DEF Fetched
<1> HIDE DEF next
<1>4. Fetched(j) \in JobStates
    BY <1>1, <1>2, <1>3 DEF JobStates
<1> QED  BY <1>2, <1>3, <1>4 DEF next

LEMMA TypeStep ==
  ASSUME TypeOK, Service \/ Rebuild \/ UNCHANGED vars
  PROVE  TypeOK'
<1> USE AppViewAssumption
<1>i. Idle \in JobStates /\ Idle.next = 0 /\ Idle.pc = "idle"
    BY AtType DEF Idle, Stages
<1>j. job \in [Jobs -> JobStates] /\ \A j \in Jobs : job[j].next <= Len(log)
    BY DEF TypeOK
<1>1. ASSUME NEW op \in Op, Publish(op)  PROVE TypeOK'
    BY <1>1, SMTT(20) DEF Publish, TypeOK, JobStates
<1>2. ASSUME NEW e \in Entities, RemovePost(e)  PROVE TypeOK'
    BY <1>2 DEF RemovePost, TypeOK
<1>3. CASE Poll
  <2>1. job' \in [Jobs -> JobStates] /\ \A j \in Jobs : job'[j].next = job[j].next
      BY <1>3, <1>j, GotoType DEF Poll, Jobs, Stages
  <2> QED  BY <1>3, <2>1 DEF Poll, TypeOK
<1>4. CASE Truncate
  <2>1. job' \in [Jobs -> JobStates] /\ \A j \in Jobs : job'[j].next = job[j].next
      BY <1>4, <1>j, GotoType DEF Truncate, Jobs, Stages
  <2>2. /\ rows' \in [1..MaxLog -> {"none", "live", "deleted"}]
        /\ graph' \in [Keys -> 0..MaxLog] /\ upTo' \in [1..MaxLog -> 0..MaxLog]
      BY <1>4 DEF Truncate
  <2> QED  BY <1>4, <2>1, <2>2 DEF Truncate, TypeOK
<1>5. CASE ResetCursor
  <2>1. job' \in [Jobs -> JobStates] /\ \A j \in Jobs : job'[j].next = job[j].next
      BY <1>5, <1>j, GotoType DEF ResetCursor, Jobs, Stages
  <2>2. cursor' = 0 /\ UNCHANGED <<log, removed, rows, graph, crashes, upTo>>
      BY <1>5 DEF ResetCursor
  <2>3. Len(log) \in Nat /\ 0 \in 0..Len(log)  BY DEF TypeOK
  <2>4. \A j \in Jobs : job'[j].next <= Len(log')  BY <1>j, <2>1, <2>2
  <2> QED  BY <2>1, <2>2, <2>3, <2>4 DEF TypeOK
<1>6. ASSUME NEW j \in Jobs, Crash(j)  PROVE TypeOK'
  <2>1. job' \in [Jobs -> JobStates] /\ \A i \in Jobs : job'[i].next <= Len(log')
      BY <1>6, <1>i, MoveType DEF Crash, TypeOK
  <2> QED  BY <1>6, <2>1 DEF Crash, TypeOK
<1>7. ASSUME NEW j \in Jobs, ReadCursor(j)  PROVE TypeOK'
  <2>1. At("fetch", cursor) \in JobStates /\ At("fetch", cursor).next = 0
      BY AtType DEF TypeOK, Stages
  <2>2. job' \in [Jobs -> JobStates] /\ \A i \in Jobs : job'[i].next <= Len(log')
      BY <1>7, <2>1, MoveType DEF ReadCursor, TypeOK
  <2> QED  BY <1>7, <2>2 DEF ReadCursor, TypeOK
<1>8. ASSUME NEW j \in Jobs, Fetch(j)  PROVE TypeOK'
  <2>1. job' = [job EXCEPT ![j] = Fetched(j)]
      BY <1>8 DEF Fetch, Fetched
  <2>2. job' \in [Jobs -> JobStates] /\ \A i \in Jobs : job'[i].next <= Len(log')
      BY <1>8, <2>1, FetchedType, MoveType DEF Fetch
  <2> QED  BY <1>8, <2>2 DEF Fetch, TypeOK
<1>9. ASSUME NEW j \in Jobs, FoldGraph(j)  PROVE TypeOK'
  <2>1. CASE job[j].pos \in Page(j)
    <3>1. job[j].pos \in 1..Len(log) /\ job[j].pos + 1 \in 0..(MaxLog + 1)
        BY <2>1, SMTT(20) DEF Page, TypeOK, JobStates
    <3>2. graph' \in [Keys -> 0..MaxLog]
        BY <1>9, <2>1, <3>1, GraphAfterType DEF FoldGraph
    <3>3. job' \in [Jobs -> JobStates] /\ \A i \in Jobs : job'[i].next = job[i].next
      <4>1. job' = [job EXCEPT ![j].pos = job[j].pos + 1]
          BY <1>9, <2>1 DEF FoldGraph
      <4> QED  BY <1>j, <3>1, <4>1, ZenonT(30) DEF JobStates
    <3> QED  BY <1>9, <3>2, <3>3 DEF FoldGraph, TypeOK
  <2>2. CASE job[j].pos \notin Page(j)
    <3>1. Goto(j, "deletions") /\ UNCHANGED graph
        BY <1>9, <2>2 DEF FoldGraph
    <3>2. job' \in [Jobs -> JobStates] /\ \A i \in Jobs : job'[i].next = job[i].next
        BY <1>j, <3>1, GotoType DEF Stages
    <3> QED  BY <1>9, <3>1, <3>2 DEF FoldGraph, TypeOK
  <2> QED  BY <2>1, <2>2
<1>10. ASSUME NEW j \in Jobs, FoldDeletions(j)  PROVE TypeOK'
  <2>1. job' \in [Jobs -> JobStates] /\ \A i \in Jobs : job'[i].next = job[i].next
      BY <1>10, <1>j, GotoType DEF FoldDeletions, Stages
  <2>2. rows' \in [1..MaxLog -> {"none", "live", "deleted"}]
      BY <1>10 DEF FoldDeletions, TypeOK
  <2> QED  BY <1>10, <2>1, <2>2 DEF FoldDeletions, TypeOK
<1>11. ASSUME NEW j \in Jobs, FoldInserts(j)  PROVE TypeOK'
  <2>1. job' \in [Jobs -> JobStates] /\ \A i \in Jobs : job'[i].next = job[i].next
      BY <1>11, <1>j, GotoType DEF FoldInserts, Stages
  <2>2. rows' \in [1..MaxLog -> {"none", "live", "deleted"}]
      BY <1>11 DEF FoldInserts, TypeOK
  <2>3. upTo' \in [1..MaxLog -> 0..MaxLog]
      BY <1>11, <1>j DEF FoldInserts, TypeOK, JobStates
  <2> QED  BY <1>11, <2>1, <2>2, <2>3 DEF FoldInserts, TypeOK
<1>12. ASSUME NEW j \in Jobs, PutCursor(j)  PROVE TypeOK'
  <2>1. cursor' \in 0..Len(log)
      BY <1>12, <1>j DEF PutCursor, TypeOK, JobStates
  <2>2. At("drain", 0) \in JobStates /\ At("drain", 0).next = 0
      BY AtType DEF Stages
  <2>3. PICK b \in {Idle, At("drain", 0)} : job' = [job EXCEPT ![j] = b]
      BY <1>12 DEF PutCursor
  <2>4. job' \in [Jobs -> JobStates] /\ \A i \in Jobs : job'[i].next <= Len(log')
      BY <1>12, <1>i, <2>2, <2>3, MoveType DEF PutCursor, TypeOK
  <2> QED  BY <1>12, <2>1, <2>4 DEF PutCursor, TypeOK
<1>13. CASE UNCHANGED vars
    BY <1>13 DEF vars, TypeOK
<1>14. "poller" \in Jobs /\ "rebuild" \in Jobs  BY DEF Jobs
<1> QED  BY <1>1, <1>2, <1>3, <1>4, <1>5, <1>6, <1>7, <1>8, <1>9, <1>10, <1>11, <1>12, <1>13, <1>14
         DEF Service, Rebuild, Drain

LEMMA TypeInit == Init => TypeOK
<1> SUFFICES ASSUME Init PROVE TypeOK  OBVIOUS
<1>1. Idle \in JobStates /\ Idle.next = 0
    BY AtType, AppViewAssumption DEF Idle, Stages
<1> QED  BY <1>1, AppViewAssumption DEF Init, TypeOK

-----------------------------------------------------------------------------
(* The invariant of the careful operator.                                  *)

(* v is what replaying the first n operations leaves for key k.            *)
IsLast(m, n, k) ==
  m \in 1..n /\ log[m].on = k /\ \A q \in 1..n : log[q].on = k => q <= m
InForce(v, n, k) ==
  \/ v # 0 /\ IsLast(v, n, k) /\ log[v].kind = "set"
  \/ v = 0 /\ \A m \in 1..n : IsLast(m, n, k) => log[m].kind # "set"

Written(k, a, b) == \E m \in a..b : log[m].on = k

(* The first n operations have their rows, and deletes of later pages hide.*)
Folded(n) ==
  \A i \in 1..n : log[i].kind = "content" => rows[i] # "none" \/ log[i].on \in removed
Hidden(n) ==
  \A i, d \in 1..n :
    /\ log[i].kind = "content" /\ log[d].kind = "delete"
    /\ log[d].on = log[i].on /\ upTo[i] < d
    => rows[i] # "live"

PageEnd(c) == IF c + PageLimit < Len(log) THEN c + PageLimit ELSE Len(log)

Exclusive == \A i, j \in Jobs : i # j => job[i].pc = "idle" \/ job[j].pc = "idle"

RowsInv == \A i \in 1..MaxLog : rows[i] # "none" => i <= Len(log)

ResetInv ==
  \A j \in Jobs : job[j].pc = "reset" =>
    (\A i \in 1..MaxLog : rows[i] = "none") /\ (\A k \in Keys : graph[k] = 0)

(* What a repeated page may find already done is done again by the page.   *)
CursorInv ==
  (\A j \in Jobs : job[j].pc # "reset") =>
    /\ Folded(cursor) /\ Hidden(cursor)
    /\ \A k \in Keys : InForce(graph[k], cursor, k) \/ Written(k, cursor + 1, PageEnd(cursor))

(* The page in the hands of a job begins at the cursor, and what is done   *)
(* of it at each stage.                                                    *)
JobInv(j) ==
  /\ job[j].pc \in {"fetch", "graph", "deletions", "inserts", "put"} => job[j].from = cursor
  /\ job[j].pc \in {"graph", "deletions", "inserts", "put"} =>
       /\ job[j].from <= job[j].next /\ job[j].next <= job[j].from + PageLimit
       /\ job[j].tombs \subseteq removed
  /\ job[j].pc = "graph" =>
       /\ job[j].from < job[j].pos /\ job[j].pos <= job[j].next + 1
       /\ \A k \in Keys :
            InForce(graph[k], job[j].pos - 1, k) \/ Written(k, job[j].pos, job[j].next)
  /\ job[j].pc \in {"deletions", "inserts", "put"} =>
       \A k \in Keys : InForce(graph[k], job[j].next, k)
  /\ job[j].pc = "inserts" =>
       \A i \in 1..Len(log) : rows[i] = "live" => log[i].on \notin Gone(j)
  /\ job[j].pc = "put" => Folded(job[j].next) /\ Hidden(job[j].next)

FoldInv ==
  /\ TypeOK
  /\ Exclusive
  /\ RowsInv
  /\ ResetInv
  /\ CursorInv
  /\ \A j \in Jobs : JobInv(j)

-----------------------------------------------------------------------------
LEMMA InForceSkip ==
  ASSUME NEW v, NEW n \in Nat, NEW k, InForce(v, n, k), log[n + 1].on # k
  PROVE  InForce(v, n + 1, k)
<1>1. \A m : IsLast(m, n + 1, k) <=> IsLast(m, n, k)
  <2> SUFFICES ASSUME NEW m  PROVE IsLast(m, n + 1, k) <=> IsLast(m, n, k)
      OBVIOUS
  <2>1. 1..(n + 1) = (1..n) \union {n + 1}  OBVIOUS
  <2> QED  BY <2>1 DEF IsLast
<1>2. 1..n \subseteq 1..(n + 1)  OBVIOUS
<1>3. CASE v # 0 /\ IsLast(v, n, k) /\ log[v].kind = "set"
    BY <1>1, <1>3 DEF InForce
<1>4. CASE v = 0 /\ \A m \in 1..n : IsLast(m, n, k) => log[m].kind # "set"
  <2>1. \A m \in 1..(n + 1) : IsLast(m, n + 1, k) => log[m].kind # "set"
      BY <1>1, <1>4 DEF IsLast
  <2> QED  BY <1>4, <2>1 DEF InForce
<1> QED  BY <1>3, <1>4 DEF InForce

LEMMA InForceWrite ==
  ASSUME NEW n \in Nat, NEW k, log[n + 1].on = k
  PROVE  /\ log[n + 1].kind = "set" => InForce(n + 1, n + 1, k)
         /\ log[n + 1].kind # "set" => InForce(0, n + 1, k)
<1>1. IsLast(n + 1, n + 1, k)  BY DEF IsLast
<1>2. \A m : IsLast(m, n + 1, k) => m = n + 1  BY DEF IsLast
<1> QED  BY <1>1, <1>2 DEF InForce

(* Only one job works, before and after a careful step.                    *)
LEMMA ExclusiveStep ==
  ASSUME Exclusive, Careful, NEW j \in Jobs, \A i \in Jobs \ {j} : job'[i] = job[i]
  PROVE  Exclusive'
  BY DEF Exclusive, Careful

(* A job that is idle or about to read the cursor holds no page.           *)
LEMMA EmptyHands ==
  ASSUME NEW j, job[j].pc \in {"idle", "drain", "reset"}
  PROVE  JobInv(j)
  BY DEF JobInv

LEMMA FoldInit == Init => FoldInv
<1> SUFFICES ASSUME Init PROVE FoldInv  OBVIOUS
<1>1. \A j \in Jobs : job[j].pc = "idle"
    BY AtType, AppViewAssumption DEF Init, Idle, Stages
<1>2. Exclusive /\ RowsInv /\ ResetInv
    BY <1>1 DEF Init, Exclusive, RowsInv, ResetInv
<1>3. CursorInv
  <2>1. \A n, k : InForce(0, 0, k)  BY DEF InForce
  <2>2. Folded(0) /\ Hidden(0)  BY DEF Folded, Hidden
  <2> QED  BY <2>1, <2>2 DEF CursorInv, Init
<1> QED  BY <1>1, <1>2, <1>3, TypeInit, EmptyHands DEF FoldInv

-----------------------------------------------------------------------------
(* How the parts of the invariant carry over to the next state.            *)

LEMMA InForceFrame ==
  ASSUME NEW v, NEW n \in Nat, NEW k, InForce(v, n, k), \A m \in 1..n : log'[m] = log[m]
  PROVE  InForce(v, n, k)'
<1>1. \A m : IsLast(m, n, k) <=> IsLast(m, n, k)'
    BY DEF IsLast
<1> QED  BY <1>1 DEF InForce, IsLast

LEMMA WrittenFrame ==
  ASSUME NEW k, NEW a \in Nat \ {0}, NEW b \in Nat, NEW c \in Nat, Written(k, a, b), b <= c,
         \A m \in 1..b : log'[m] = log[m]
  PROVE  Written(k, a, c)'
  BY DEF Written

LEMMA FoldedFrame ==
  ASSUME NEW n \in Nat, Folded(n), \A m \in 1..n : log'[m] = log[m],
         \A m \in 1..n : rows[m] # "none" => rows'[m] # "none", removed \subseteq removed'
  PROVE  Folded(n)'
  BY DEF Folded

LEMMA HiddenFrame ==
  ASSUME NEW n \in Nat, Hidden(n), \A m \in 1..n : log'[m] = log[m],
         \A m \in 1..n : rows'[m] = "live" => rows[m] = "live",
         \A m \in 1..n : upTo'[m] = upTo[m]
  PROVE  Hidden(n)'
  BY DEF Hidden

(* The cursor's part of the next state, from copies of its values.         *)
LEMMA CursorPrime ==
  ASSUME NEW c, c = cursor', NEW e, e = PageEnd(c)', Folded(c)', Hidden(c)',
         \A k \in Keys : \E v : v = graph'[k] /\ (InForce(v, c, k)' \/ Written(k, c + 1, e)')
  PROVE  CursorInv'
<1>1. Folded(cursor)'  BY DEF Folded
<1>2. Hidden(cursor)'  BY DEF Hidden
<1>3. ASSUME NEW k \in Keys
      PROVE  (InForce(graph[k], cursor, k) \/ Written(k, cursor + 1, PageEnd(cursor)))'
  <2>1. PICK v : v = graph'[k] /\ (InForce(v, c, k)' \/ Written(k, c + 1, e)')
      OBVIOUS
  <2>2. CASE InForce(v, c, k)'
      BY <2>1, <2>2 DEF InForce, IsLast
  <2>3. CASE Written(k, c + 1, e)'
      BY <2>1, <2>3 DEF Written, PageEnd
  <2> QED  BY <2>1, <2>2, <2>3
<1> QED  BY <1>1, <1>2, <1>3 DEF CursorInv

LEMMA PageEndType ==
  ASSUME TypeOK
  PROVE  /\ cursor \in Nat /\ cursor <= Len(log) /\ Len(log) \in Nat
         /\ PageEnd(cursor) \in Nat /\ cursor <= PageEnd(cursor) /\ PageEnd(cursor) <= Len(log)
  BY AppViewAssumption DEF TypeOK, PageEnd

(* A step that leaves the cursor, the log's past and the graph alone.      *)
LEMMA CursorFrame ==
  ASSUME TypeOK, CursorInv, UNCHANGED <<cursor, graph>>, \A j \in Jobs : job[j].pc # "reset",
         Len(log) <= Len(log'), Len(log') \in Nat, \A m \in 1..Len(log) : log'[m] = log[m],
         \A m \in 1..cursor : rows[m] # "none" => rows'[m] # "none",
         \A m \in 1..cursor : rows'[m] = "live" => rows[m] = "live",
         \A m \in 1..cursor : upTo'[m] = upTo[m],
         removed \subseteq removed'
  PROVE  CursorInv'
<1> USE AppViewAssumption
<1>1. PICK c : c = cursor  OBVIOUS
<1>2. c \in Nat /\ c <= Len(log) /\ Len(log) \in Nat /\ \A m \in 1..c : log'[m] = log[m]
    BY <1>1, PageEndType
<1>3. PICK e : e = PageEnd(c)'  OBVIOUS
<1>4. PICK d : d = PageEnd(c)  OBVIOUS
<1>5. d \in Nat /\ e \in Nat /\ d <= e /\ d <= Len(log)
    BY <1>2, <1>3, <1>4 DEF PageEnd
<1>6. Folded(c) /\ Hidden(c)
    BY <1>1 DEF CursorInv
<1>7. Folded(c)'  BY <1>1, <1>2, <1>6, FoldedFrame
<1>8. Hidden(c)'  BY <1>1, <1>2, <1>6, HiddenFrame
<1>9. ASSUME NEW k \in Keys
      PROVE  \E v : v = graph'[k] /\ (InForce(v, c, k)' \/ Written(k, c + 1, e)')
  <2>1. PICK v : v = graph[k]  OBVIOUS
  <2>2. InForce(v, c, k) \/ Written(k, c + 1, d)
      BY <1>1, <1>4, <2>1 DEF CursorInv
  <2>3. CASE InForce(v, c, k)
      BY <1>2, <2>1, <2>3, InForceFrame
  <2>4. CASE Written(k, c + 1, d)
    <3>1. \A m \in 1..d : log'[m] = log[m]  BY <1>2, <1>5
    <3> QED  BY <1>2, <1>5, <2>1, <2>4, <3>1, WrittenFrame
  <2> QED  BY <2>2, <2>3, <2>4
<1> QED  BY <1>1, <1>3, <1>7, <1>8, <1>9, CursorPrime

(* A job that keeps its page, while the log grows or posts are removed.    *)
LEMMA JobFrame ==
  ASSUME TypeOK, RowsInv, NEW j \in Jobs, JobInv(j), UNCHANGED <<job, cursor, graph, rows, upTo>>,
         Len(log) <= Len(log'), Len(log') \in Nat, Len(log') <= MaxLog,
         \A m \in 1..Len(log) : log'[m] = log[m], removed \subseteq removed'
  PROVE  JobInv(j)'
<1> USE AppViewAssumption
<1>1. PICK b : b = job[j]  OBVIOUS
<1>2. /\ b.from \in Nat /\ b.next \in Nat /\ b.next <= Len(log) /\ b.pos \in Nat
      /\ Len(log) \in Nat /\ \A m \in 1..b.next : log'[m] = log[m]
    BY <1>1 DEF TypeOK, JobStates
<1>3. b.pc = "graph" => \A k \in Keys :
         (InForce(graph[k], b.pos - 1, k) \/ Written(k, b.pos, b.next))'
  <2> SUFFICES ASSUME b.pc = "graph", NEW k \in Keys
               PROVE  (InForce(graph[k], b.pos - 1, k) \/ Written(k, b.pos, b.next))'
      OBVIOUS
  <2>1. PICK v : v = graph[k]  OBVIOUS
  <2>2. /\ InForce(v, b.pos - 1, k) \/ Written(k, b.pos, b.next)
        /\ b.from < b.pos /\ b.pos <= b.next + 1
      BY <1>1, <2>1 DEF JobInv
  <2>3. b.pos - 1 \in Nat /\ \A m \in 1..(b.pos - 1) : log'[m] = log[m]
      BY <1>2, <2>2
  <2>4. InForce(v, b.pos - 1, k)' \/ Written(k, b.pos, b.next)'
      BY <1>2, <2>2, <2>3, InForceFrame, WrittenFrame
  <2> QED  BY <2>1, <2>4 DEF InForce, IsLast
<1>4. b.pc \in {"deletions", "inserts", "put"} => \A k \in Keys : InForce(graph[k], b.next, k)'
  <2> SUFFICES ASSUME b.pc \in {"deletions", "inserts", "put"}, NEW k \in Keys
               PROVE  InForce(graph[k], b.next, k)'
      OBVIOUS
  <2>1. PICK v : v = graph[k]  OBVIOUS
  <2>2. InForce(v, b.next, k)  BY <1>1, <2>1 DEF JobInv
  <2>3. InForce(v, b.next, k)'  BY <1>2, <2>2, InForceFrame
  <2> QED  BY <2>1, <2>3 DEF InForce, IsLast
<1>5. b.pc = "inserts" => (\A i \in 1..Len(log) : rows[i] = "live" => log[i].on \notin Gone(j))'
  <2>1. Page(j)' = Page(j) /\ Page(j) \subseteq 1..Len(log)
      BY <1>1, <1>2 DEF Page
  <2>2. \A i \in Page(j) : Tombstone(j, i)' = Tombstone(j, i) /\ log'[i] = log[i]
      BY <1>1, <1>2, <2>1 DEF Tombstone
  <2>3. Gone(j)' = Gone(j)
    <3>1. {n \in Page(j) : log[n].kind = "delete" \/ Tombstone(j, n)}'
            = {n \in Page(j) : log[n].kind = "delete" \/ Tombstone(j, n)}
        BY <2>1, <2>2
    <3> QED  BY <2>1, <2>2, <3>1 DEF Gone
  <2>4. \A i \in 1..Len(log') : rows'[i] = "live" => i \in 1..Len(log) /\ log'[i] = log[i]
      BY <1>2 DEF RowsInv
  <2> QED  BY <1>1, <2>3, <2>4 DEF JobInv
<1>6. b.pc = "put" => Folded(b.next)' /\ Hidden(b.next)'
    BY <1>1, <1>2, FoldedFrame, HiddenFrame DEF JobInv
<1>7. /\ b.pc \in {"fetch", "graph", "deletions", "inserts", "put"} => b.from = cursor
      /\ b.pc \in {"graph", "deletions", "inserts", "put"} =>
           /\ b.from <= b.next /\ b.next <= b.from + PageLimit
           /\ b.tombs \subseteq removed'
      /\ b.pc = "graph" => b.from < b.pos /\ b.pos <= b.next + 1
    BY <1>1 DEF JobInv
<1>8. b = job'[j] /\ cursor' = cursor  BY <1>1
<1> QED  BY <1>3, <1>4, <1>5, <1>6, <1>7, <1>8 DEF JobInv, InForce, IsLast, Written, Folded, Hidden

-----------------------------------------------------------------------------
(* One step of the careful operator at a time.                             *)

LEMMA Others ==
  ASSUME Exclusive, Careful, NEW j \in Jobs, \A i \in Jobs \ {j} : job'[i] = job[i],
         job[j].pc # "idle" \/ job'[j].pc # "idle"
  PROVE  /\ Exclusive'
         /\ \A i \in Jobs \ {j} : job[i].pc = "idle" /\ job'[i].pc = "idle" /\ JobInv(i)'
<1>1. Exclusive'  BY ExclusiveStep
<1>2. \A i \in Jobs \ {j} : job[i].pc = "idle" /\ job'[i].pc = "idle"
    BY DEF Exclusive, Careful
<1> QED  BY <1>1, <1>2 DEF JobInv

LEMMA PublishStep ==
  ASSUME FoldInv, NEW op \in Op, Publish(op), TypeOK'
  PROVE  FoldInv'
<1>1. /\ Len(log) <= Len(log') /\ Len(log') \in Nat /\ Len(log') <= MaxLog
      /\ \A m \in 1..Len(log) : log'[m] = log[m]
    BY AppViewAssumption DEF FoldInv, TypeOK, Publish
<1>2. UNCHANGED <<removed, rows, graph, cursor, job, upTo>>
    BY DEF Publish
<1>3. CursorInv'
  <2>1. CASE \A j \in Jobs : job[j].pc # "reset"
      BY <1>1, <1>2, <2>1, CursorFrame DEF FoldInv
  <2>2. CASE ~\A j \in Jobs : job[j].pc # "reset"
      BY <1>2, <2>2 DEF CursorInv
  <2> QED  BY <2>1, <2>2
<1>4. \A j \in Jobs : JobInv(j)'
    BY <1>1, <1>2, JobFrame DEF FoldInv
<1>5. Exclusive' /\ RowsInv' /\ ResetInv'
    BY <1>1, <1>2, PageEndType DEF FoldInv, Exclusive, RowsInv, ResetInv
<1> QED  BY <1>3, <1>4, <1>5 DEF FoldInv

LEMMA RemoveStep ==
  ASSUME FoldInv, NEW e \in Entities, RemovePost(e), TypeOK'
  PROVE  FoldInv'
<1>1. UNCHANGED <<log, rows, graph, cursor, job, upTo>> /\ removed \subseteq removed'
    BY DEF RemovePost
<1>2. Len(log) \in Nat /\ Len(log) <= MaxLog
    BY DEF FoldInv, TypeOK
<1>3. CursorInv'
  <2>1. CASE \A j \in Jobs : job[j].pc # "reset"
      BY <1>1, <1>2, <2>1, CursorFrame DEF FoldInv
  <2>2. CASE ~\A j \in Jobs : job[j].pc # "reset"
      BY <1>1, <2>2 DEF CursorInv
  <2> QED  BY <2>1, <2>2
<1>4. \A j \in Jobs : JobInv(j)'
    BY <1>1, <1>2, JobFrame DEF FoldInv
<1>5. Exclusive' /\ RowsInv' /\ ResetInv'
    BY <1>1, <1>2 DEF FoldInv, Exclusive, RowsInv, ResetInv
<1> QED  BY <1>3, <1>4, <1>5 DEF FoldInv

(* A step of a job that leaves the projections and the cursor alone.       *)
LEMMA MoveStep ==
  ASSUME FoldInv, TypeOK', Careful, NEW j \in Jobs,
         UNCHANGED <<log, removed, rows, graph, cursor, upTo>>,
         \A i \in Jobs \ {j} : job'[i] = job[i],
         job[j].pc # "reset", job'[j].pc # "reset",
         job[j].pc # "idle" \/ job'[j].pc # "idle", JobInv(j)'
  PROVE  FoldInv'
<1>1. /\ Exclusive'
      /\ \A i \in Jobs \ {j} : job[i].pc = "idle" /\ job'[i].pc = "idle" /\ JobInv(i)'
    BY Others DEF FoldInv
<1>2. CursorInv'
    BY <1>1, PageEndType, CursorFrame DEF FoldInv
<1>3. RowsInv' /\ ResetInv'
    BY <1>1 DEF FoldInv, RowsInv, ResetInv
<1> QED  BY <1>1, <1>2, <1>3 DEF FoldInv

LEMMA PollStep ==
  ASSUME FoldInv, TypeOK', Careful, Poll
  PROVE  FoldInv'
<1>1. "poller" \in Jobs /\ job \in [Jobs -> JobStates]
    BY DEF Jobs, FoldInv, TypeOK
<1>2. /\ job'["poller"].pc = "drain" /\ job["poller"].pc = "idle"
      /\ \A i \in Jobs \ {"poller"} : job'[i] = job[i]
    BY <1>1, GotoType DEF Poll, Stages
<1>3. JobInv("poller")'  BY <1>2 DEF JobInv
<1> QED  BY <1>1, <1>2, <1>3, MoveStep DEF Poll

LEMMA CrashStep ==
  ASSUME FoldInv, TypeOK', Careful, NEW j \in Jobs, Crash(j)
  PROVE  FoldInv'
<1>1. job \in [Jobs -> JobStates]  BY DEF FoldInv, TypeOK
<1>2. Idle.pc = "idle"  BY AtType, AppViewAssumption DEF Idle, Stages
<1>3. job'[j].pc = "idle" /\ \A i \in Jobs \ {j} : job'[i] = job[i]
    BY <1>1, <1>2 DEF Crash
<1>4. job[j].pc # "reset" /\ job[j].pc # "idle"
    BY <1>3 DEF Careful, Crash
<1>5. JobInv(j)'  BY <1>3 DEF JobInv
<1> QED  BY <1>3, <1>4, <1>5, MoveStep DEF Crash

LEMMA ReadCursorStep ==
  ASSUME FoldInv, TypeOK', Careful, NEW j \in Jobs, ReadCursor(j)
  PROVE  FoldInv'
<1>1. job \in [Jobs -> JobStates] /\ cursor \in 0..MaxLog
    BY AppViewAssumption DEF FoldInv, TypeOK
<1>2. At("fetch", cursor).pc = "fetch" /\ At("fetch", cursor).from = cursor
    BY <1>1, AtType DEF Stages
<1>3. /\ job'[j].pc = "fetch" /\ job'[j].from = cursor'
      /\ \A i \in Jobs \ {j} : job'[i] = job[i]
    BY <1>1, <1>2 DEF ReadCursor
<1>4. JobInv(j)'  BY <1>3 DEF JobInv
<1> QED  BY <1>3, <1>4, MoveStep DEF ReadCursor

LEMMA FetchStep ==
  ASSUME FoldInv, TypeOK', Careful, NEW j \in Jobs, Fetch(j)
  PROVE  FoldInv'
<1>1. job' = [job EXCEPT ![j] = Fetched(j)] /\ job[j].pc = "fetch"
    BY DEF Fetch, Fetched
<1>2. job \in [Jobs -> JobStates] /\ TypeOK /\ job[j].from = cursor /\ CursorInv
    BY <1>1 DEF FoldInv, TypeOK, JobInv
<1>3. /\ job'[j].pc = "graph" /\ job'[j].from = cursor /\ job'[j].tombs = removed
      /\ job'[j].pos = cursor + 1 /\ job'[j].next = PageEnd(cursor)
      /\ \A i \in Jobs \ {j} : job'[i] = job[i]
    BY <1>1, <1>2, FetchedType DEF PageEnd
<1>4. UNCHANGED <<log, removed, rows, graph, cursor, upTo>>
    BY DEF Fetch
<1>5. \A i \in Jobs : job[i].pc # "reset"
  <2>1. \A i \in Jobs \ {j} : job[i].pc = "idle"
      BY <1>1 DEF FoldInv, Exclusive
  <2> QED  BY <1>1, <2>1
<1>6. PICK c, e : c = cursor /\ e = PageEnd(cursor)  OBVIOUS
<1>7. c \in Nat /\ e \in Nat /\ c <= e /\ e <= c + PageLimit
    BY <1>2, <1>6, PageEndType, AppViewAssumption DEF PageEnd
<1>8. \A k \in Keys : InForce(graph[k], c, k) \/ Written(k, c + 1, e)
    BY <1>2, <1>5, <1>6 DEF CursorInv
<1>9. \A k \in Keys : (InForce(graph[k], c, k) \/ Written(k, c + 1, e))'
    BY <1>4, <1>8 DEF InForce, IsLast, Written
<1>10. PICK b : b = job'[j]  OBVIOUS
<1>11. /\ b.pc = "graph" /\ b.from = c /\ b.tombs = removed' /\ b.pos = c + 1 /\ b.next = e
       /\ cursor' = c
    BY <1>3, <1>4, <1>6, <1>10
<1>12. b.pos - 1 = c  BY <1>7, <1>11
<1>13. JobInv(j)'
  <2>1. \A k \in Keys : (InForce(graph[k], b.pos - 1, k) \/ Written(k, b.pos, b.next))'
      BY <1>9, <1>11, <1>12 DEF InForce, IsLast, Written
  <2>2. b.from < b.pos /\ b.pos <= b.next + 1 /\ b.from <= b.next /\ b.next <= b.from + PageLimit
      BY <1>7, <1>11
  <2> QED  BY <1>10, <1>11, <2>1, <2>2 DEF JobInv, InForce, IsLast, Written
<1> QED  BY <1>1, <1>3, <1>4, <1>13, MoveStep

LEMMA TruncateStep ==
  ASSUME FoldInv, TypeOK', Careful, Truncate
  PROVE  FoldInv'
<1>1. "rebuild" \in Jobs /\ job \in [Jobs -> JobStates]
    BY DEF Jobs, FoldInv, TypeOK
<1>2. job'["rebuild"].pc = "reset" /\ \A i \in Jobs \ {"rebuild"} : job'[i] = job[i]
    BY <1>1, GotoType DEF Truncate, Stages
<1>3. /\ Exclusive'
      /\ \A i \in Jobs \ {"rebuild"} : job'[i].pc = "idle" /\ JobInv(i)'
    BY <1>1, <1>2, Others DEF FoldInv
<1>4. JobInv("rebuild")'  BY <1>2 DEF JobInv
<1>5. (\A i \in 1..MaxLog : rows'[i] = "none") /\ \A k \in Keys : graph'[k] = 0
    BY DEF Truncate
<1>6. RowsInv' /\ ResetInv' /\ CursorInv'
    BY <1>1, <1>2, <1>5 DEF RowsInv, ResetInv, CursorInv
<1> QED  BY <1>3, <1>4, <1>6 DEF FoldInv

LEMMA ResetCursorStep ==
  ASSUME FoldInv, TypeOK', Careful, ResetCursor
  PROVE  FoldInv'
<1>1. "rebuild" \in Jobs /\ job \in [Jobs -> JobStates]
    BY DEF Jobs, FoldInv, TypeOK
<1>2. /\ job["rebuild"].pc = "reset" /\ job'["rebuild"].pc = "drain"
      /\ \A i \in Jobs \ {"rebuild"} : job'[i] = job[i]
    BY <1>1, GotoType DEF ResetCursor, Stages
<1>3. /\ Exclusive'
      /\ \A i \in Jobs \ {"rebuild"} : job'[i].pc = "idle" /\ JobInv(i)'
    BY <1>1, <1>2, Others DEF FoldInv
<1>4. JobInv("rebuild")'  BY <1>2 DEF JobInv
<1>5. (\A i \in 1..MaxLog : rows'[i] = "none") /\ \A k \in Keys : graph'[k] = 0
    BY <1>1, <1>2 DEF FoldInv, ResetInv, ResetCursor
<1>6. RowsInv' /\ ResetInv'
    BY <1>2, <1>3, <1>5 DEF RowsInv, ResetInv
<1>7. CursorInv'
  <2>1. Folded(0)' /\ Hidden(0)'  BY DEF Folded, Hidden
  <2>2. \A k \in Keys : InForce(0, 0, k)'  BY DEF InForce
  <2>3. PICK e : e = PageEnd(0)'  OBVIOUS
  <2>4. cursor' = 0  BY DEF ResetCursor
  <2> QED  BY <1>5, <2>1, <2>2, <2>3, <2>4, CursorPrime
<1> QED  BY <1>3, <1>4, <1>6, <1>7 DEF FoldInv

(* What follow and profile operation i does to each key.                   *)
LEMMA GraphAfterKey ==
  ASSUME TypeOK, NEW i \in 1..Len(log), NEW k \in Keys
  PROVE  /\ log[i].on # k => GraphAfter(i)[k] = graph[k]
         /\ log[i].on = k => GraphAfter(i)[k] = IF log[i].kind = "set" THEN i ELSE 0
<1>1. log[i] \in Op /\ graph \in [Keys -> 0..MaxLog]
    BY DEF TypeOK
<1>2. log[i].on = k => log[i].kind \in {"set", "unset"}
    BY <1>1, KindsAssumption DEF Op
<1> QED  BY <1>1, <1>2 DEF GraphAfter

LEMMA FoldGraphStep ==
  ASSUME FoldInv, TypeOK', Careful, NEW j \in Jobs, FoldGraph(j)
  PROVE  FoldInv'
<1> USE AppViewAssumption
<1>1. /\ job[j].pc = "graph" /\ UNCHANGED <<log, removed, rows, cursor, upTo>>
      /\ job \in [Jobs -> JobStates] /\ TypeOK
    BY DEF FoldGraph, FoldInv, TypeOK
<1>2. PICK b, c : b = job[j] /\ c = cursor  OBVIOUS
<1>3. /\ b.pc = "graph" /\ b.from = c /\ b.from <= b.next /\ b.next <= b.from + PageLimit
      /\ b.tombs \subseteq removed /\ b.from < b.pos /\ b.pos <= b.next + 1
      /\ b.from \in Nat /\ b.pos \in Nat \ {0} /\ b.next \in Nat /\ b.next <= Len(log)
      /\ Len(log) \in Nat
    BY <1>1, <1>2, SMTT(20) DEF FoldInv, TypeOK, JobStates, JobInv
<1>4. \A k \in Keys : InForce(graph[k], b.pos - 1, k) \/ Written(k, b.pos, b.next)
    BY <1>1, <1>2 DEF FoldInv, JobInv
<1>5. CASE b.pos \in Page(j)
  <2>1. b.pos \in 1..Len(log) /\ b.pos <= b.next /\ c + 1 <= b.pos
      BY <1>2, <1>3, <1>5 DEF Page
  <2>2. graph' = GraphAfter(b.pos) /\ job' = [job EXCEPT ![j].pos = b.pos + 1]
      BY <1>2, <1>5 DEF FoldGraph
  <2>3. /\ job'[j].pc = "graph" /\ job'[j].from = c /\ job'[j].next = b.next
        /\ job'[j].tombs = b.tombs /\ job'[j].pos = b.pos + 1
        /\ \A i \in Jobs \ {j} : job'[i] = job[i]
      BY <1>1, <1>2, <1>3, <2>2 DEF JobStates
  <2>4. ASSUME NEW k \in Keys
        PROVE  \E v : v = graph'[k] /\ (InForce(v, b.pos, k)' \/ Written(k, b.pos + 1, b.next)')
    <3>1. PICK v : v = graph'[k]  OBVIOUS
    <3>2. CASE log[b.pos].on = k
      <4>1. v = IF log[b.pos].kind = "set" THEN b.pos ELSE 0
          BY <1>1, <2>1, <2>2, <3>1, <3>2, GraphAfterKey
      <4>2. b.pos - 1 \in Nat /\ (b.pos - 1) + 1 = b.pos  BY <1>3
      <4>3. InForce(v, b.pos, k)
          BY <3>2, <4>1, <4>2, InForceWrite
      <4> QED  BY <1>1, <1>3, <3>1, <4>3, InForceFrame
    <3>3. CASE log[b.pos].on # k
      <4>1. v = graph[k]
          BY <1>1, <2>1, <2>2, <3>1, <3>3, GraphAfterKey
      <4>2. b.pos - 1 \in Nat /\ (b.pos - 1) + 1 = b.pos  BY <1>3
      <4>3. CASE InForce(v, b.pos - 1, k)
        <5>1. InForce(v, b.pos, k)  BY <3>3, <4>2, <4>3, InForceSkip
        <5> QED  BY <1>1, <1>3, <3>1, <5>1, InForceFrame
      <4>4. CASE Written(k, b.pos, b.next)
        <5>1. Written(k, b.pos + 1, b.next)'
            BY <1>1, <1>3, <3>3, <4>4 DEF Written
        <5> QED  BY <3>1, <5>1
      <4> QED  BY <1>4, <4>1, <4>3, <4>4
    <3> QED  BY <3>2, <3>3
  <2>5. /\ Exclusive'
        /\ \A i \in Jobs \ {j} : job[i].pc = "idle" /\ job'[i].pc = "idle" /\ JobInv(i)'
      BY <1>1, <2>3, Others DEF FoldInv
  <2>6. RowsInv' /\ ResetInv'
      BY <1>1, <2>3, <2>5 DEF FoldInv, RowsInv, ResetInv
  <2>7. CursorInv'
    <3>1. PICK e : e = PageEnd(c)'  OBVIOUS
    <3>2. e = PageEnd(cursor) /\ e \in Nat /\ b.next <= e
        BY <1>1, <1>2, <1>3, <3>1 DEF PageEnd
    <3>3. \A i \in Jobs : job[i].pc # "reset"  BY <1>1, <2>5
    <3>4. Folded(c)' /\ Hidden(c)'
        BY <1>1, <1>2, <3>3 DEF FoldInv, CursorInv, Folded, Hidden
    <3>5. ASSUME NEW k \in Keys
          PROVE  \E v : v = graph'[k] /\ (InForce(v, c, k)' \/ Written(k, c + 1, e)')
      <4>1. PICK v : v = graph'[k]  OBVIOUS
      <4>2. CASE log[b.pos].on = k
        <5>1. Written(k, c + 1, e)'
            BY <1>1, <1>3, <2>1, <3>2, <4>2 DEF Written
        <5> QED  BY <4>1, <5>1
      <4>3. CASE log[b.pos].on # k
        <5>1. v = graph[k]
            BY <1>1, <2>1, <2>2, <4>1, <4>3, GraphAfterKey
        <5>2. InForce(v, c, k) \/ Written(k, c + 1, e)
            BY <1>2, <3>2, <3>3, <5>1 DEF FoldInv, CursorInv
        <5>3. InForce(v, c, k)' \/ Written(k, c + 1, e)'
            BY <1>1, <1>3, <5>2, InForceFrame DEF Written
        <5> QED  BY <4>1, <5>3
      <4> QED  BY <4>2, <4>3
    <3> QED  BY <1>1, <1>2, <3>1, <3>4, <3>5, CursorPrime
  <2>8. JobInv(j)'
    <3>1. PICK d : d = job'[j]  OBVIOUS
    <3>2. d.pos - 1 = b.pos /\ d.pos = b.pos + 1 /\ d.next = b.next /\ d.pc = "graph"
        BY <1>3, <2>3, <3>1
    <3>3. \A k \in Keys : (InForce(graph[k], d.pos - 1, k) \/ Written(k, d.pos, d.next))'
      <4> SUFFICES ASSUME NEW k \in Keys
                   PROVE  (InForce(graph[k], d.pos - 1, k) \/ Written(k, d.pos, d.next))'
          OBVIOUS
      <4>1. PICK v : v = graph'[k] /\ (InForce(v, b.pos, k)' \/ Written(k, b.pos + 1, b.next)')
          BY <2>4
      <4> QED  BY <3>2, <4>1 DEF InForce, IsLast, Written
    <3>4. /\ d.from = c /\ cursor' = c /\ d.from <= d.next /\ d.next <= d.from + PageLimit
          /\ d.tombs \subseteq removed' /\ d.from < d.pos /\ d.pos <= d.next + 1
        BY <1>1, <1>2, <1>3, <2>1, <2>3, <3>1, SMTT(20)
    <3> QED  BY <3>1, <3>2, <3>3, <3>4 DEF JobInv, InForce, IsLast, Written
  <2> QED  BY <2>5, <2>6, <2>7, <2>8 DEF FoldInv
<1>6. CASE b.pos \notin Page(j)
  <2>1. Goto(j, "deletions") /\ UNCHANGED graph
      BY <1>2, <1>6 DEF FoldGraph
  <2>2. b.pos - 1 = b.next
      BY <1>2, <1>3, <1>6 DEF Page
  <2>3. /\ job'[j].pc = "deletions" /\ job'[j].from = c /\ job'[j].next = b.next
        /\ job'[j].tombs = b.tombs /\ \A i \in Jobs \ {j} : job'[i] = job[i]
      BY <1>1, <1>2, <1>3, <2>1, GotoType DEF Stages
  <2>4. ASSUME NEW k \in Keys PROVE InForce(graph[k], b.next, k)
    <3>1. ~Written(k, b.pos, b.next)  BY <1>3, <2>2 DEF Written
    <3> QED  BY <1>4, <2>2, <3>1
  <2>5. PICK d : d = job'[j]  OBVIOUS
  <2>6. \A k \in Keys : InForce(graph[k], d.next, k)'
      BY <1>1, <2>1, <2>3, <2>4, <2>5 DEF InForce, IsLast
  <2>7. JobInv(j)'
    <3>1. /\ d.from = c /\ cursor' = c /\ d.from <= d.next /\ d.next <= d.from + PageLimit
          /\ d.tombs \subseteq removed' /\ d.pc = "deletions"
        BY <1>1, <1>2, <1>3, <2>3, <2>5
    <3> QED  BY <2>5, <2>6, <3>1 DEF JobInv, InForce, IsLast
  <2> QED  BY <1>1, <2>1, <2>3, <2>7, MoveStep
<1> QED  BY <1>5, <1>6

(* What every stage with a page in hand knows of the page.                 *)
LEMMA InHand ==
  ASSUME FoldInv, NEW j \in Jobs, NEW b, b = job[j], b.pc \in {"deletions", "inserts", "put"}
  PROVE  /\ b.from = cursor /\ b.from <= b.next /\ b.next <= b.from + PageLimit
         /\ b.tombs \subseteq removed /\ \A k \in Keys : InForce(graph[k], b.next, k)
         /\ b.from \in Nat /\ b.next \in Nat /\ b.next <= Len(log) /\ Len(log) \in Nat
         /\ Len(log) <= MaxLog /\ Page(j) = (b.from + 1)..b.next
         /\ Folded(b.from) /\ Hidden(b.from)
<1>1. \A i \in Jobs : job[i].pc # "reset"
  <2>1. \A i \in Jobs \ {j} : job[i].pc = "idle"  BY DEF FoldInv, Exclusive
  <2> QED  BY <2>1
<1>2. /\ b.from \in Nat /\ b.next \in Nat /\ b.next <= Len(log) /\ Len(log) \in Nat
      /\ Len(log) <= MaxLog
    BY AppViewAssumption DEF FoldInv, TypeOK, JobStates
<1>3. /\ b.from = cursor /\ b.from <= b.next /\ b.next <= b.from + PageLimit
      /\ b.tombs \subseteq removed /\ \A k \in Keys : InForce(graph[k], b.next, k)
    BY DEF FoldInv, JobInv
<1>4. Folded(b.from) /\ Hidden(b.from)
    BY <1>1, <1>3 DEF FoldInv, CursorInv
<1> QED  BY <1>2, <1>3, <1>4 DEF Page

LEMMA FoldDeletionsStep ==
  ASSUME FoldInv, TypeOK', Careful, NEW j \in Jobs, FoldDeletions(j)
  PROVE  FoldInv'
<1>1. /\ job[j].pc = "deletions" /\ UNCHANGED <<log, removed, graph, cursor, upTo>>
      /\ job \in [Jobs -> JobStates] /\ TypeOK
    BY DEF FoldDeletions, FoldInv, TypeOK
<1>2. PICK b : b = job[j]  OBVIOUS
<1>3. /\ b.from = cursor /\ b.from <= b.next /\ b.next <= b.from + PageLimit
      /\ b.tombs \subseteq removed /\ \A k \in Keys : InForce(graph[k], b.next, k)
      /\ Len(log) \in Nat /\ Len(log) <= MaxLog
    BY <1>1, <1>2, InHand
<1>4. /\ job'[j].pc = "inserts" /\ job'[j].from = b.from /\ job'[j].next = b.next
      /\ job'[j].tombs = b.tombs /\ \A i \in Jobs \ {j} : job'[i] = job[i]
    BY <1>1, <1>2, GotoType DEF FoldDeletions, Stages
<1>5. /\ Exclusive'
      /\ \A i \in Jobs \ {j} : job[i].pc = "idle" /\ job'[i].pc = "idle" /\ JobInv(i)'
    BY <1>1, <1>4, Others DEF FoldInv
<1>6. \A i \in 1..MaxLog :
        /\ rows'[i] = "live" => rows[i] = "live" /\ log[i].on \notin Gone(j)
        /\ rows[i] # "none" <=> rows'[i] # "none"
    BY DEF FoldDeletions
<1>7. RowsInv' /\ ResetInv'
    BY <1>1, <1>4, <1>5, <1>6 DEF FoldInv, RowsInv, ResetInv
<1>8. CursorInv'
  <2>1. \A m \in 1..cursor : m \in 1..MaxLog  BY <1>1, <1>3, PageEndType, AppViewAssumption
  <2>2. \A i \in Jobs : job[i].pc # "reset"  BY <1>1, <1>5
  <2> QED  BY <1>1, <1>3, <1>6, <2>1, <2>2, CursorFrame DEF FoldInv
<1>9. JobInv(j)'
  <2>1. Gone(j)' = Gone(j)
      BY <1>1, <1>2, <1>4 DEF Gone, Page, Tombstone
  <2>2. (\A i \in 1..Len(log) : rows[i] = "live" => log[i].on \notin Gone(j))'
      BY <1>1, <1>3, <1>6, <2>1, AppViewAssumption
  <2>3. PICK d : d = job'[j]  OBVIOUS
  <2>4. \A k \in Keys : InForce(graph[k], d.next, k)'
      BY <1>1, <1>3, <1>4, <2>3 DEF InForce, IsLast
  <2>5. /\ d.pc = "inserts" /\ d.from = cursor' /\ d.from <= d.next
        /\ d.next <= d.from + PageLimit /\ d.tombs \subseteq removed'
      BY <1>1, <1>3, <1>4, <2>3
  <2> QED  BY <2>2, <2>3, <2>4, <2>5 DEF JobInv, InForce, IsLast
<1> QED  BY <1>5, <1>7, <1>8, <1>9 DEF FoldInv

LEMMA FoldInsertsStep ==
  ASSUME FoldInv, TypeOK', Careful, NEW j \in Jobs, FoldInserts(j)
  PROVE  FoldInv'
<1> USE AppViewAssumption
<1>1. /\ job[j].pc = "inserts" /\ UNCHANGED <<log, removed, graph, cursor>>
      /\ job \in [Jobs -> JobStates] /\ TypeOK
    BY DEF FoldInserts, FoldInv, TypeOK
<1>2. PICK b : b = job[j]  OBVIOUS
<1>3. /\ b.from = cursor /\ b.from <= b.next /\ b.next <= b.from + PageLimit
      /\ b.tombs \subseteq removed /\ \A k \in Keys : InForce(graph[k], b.next, k)
      /\ b.from \in Nat /\ b.next \in Nat /\ b.next <= Len(log) /\ Len(log) \in Nat
      /\ Len(log) <= MaxLog /\ Page(j) = (b.from + 1)..b.next
      /\ Folded(b.from) /\ Hidden(b.from)
    BY <1>1, <1>2, InHand
<1>4. /\ job'[j].pc = "put" /\ job'[j].from = b.from /\ job'[j].next = b.next
      /\ job'[j].tombs = b.tombs /\ \A i \in Jobs \ {j} : job'[i] = job[i]
    BY <1>1, <1>2, GotoType DEF FoldInserts, Stages
<1>5. /\ Exclusive'
      /\ \A i \in Jobs \ {j} : job[i].pc = "idle" /\ job'[i].pc = "idle" /\ JobInv(i)'
    BY <1>1, <1>4, Others DEF FoldInv
<1>6. PICK new : new = {i \in Page(j) : log[i].kind = "content" /\ ~Tombstone(j, i)}
    OBVIOUS
<1>7. \A i \in 1..MaxLog :
        /\ rows'[i] = IF i \in new THEN "live" ELSE rows[i]
        /\ upTo'[i] = IF i \in new THEN b.next ELSE upTo[i]
    BY <1>2, <1>6 DEF FoldInserts
<1>8. \A i \in new : i \in 1..Len(log) /\ b.from < i /\ i <= b.next
    BY <1>3, <1>6
<1>9. RowsInv' /\ ResetInv'
    BY <1>1, <1>4, <1>5, <1>7, <1>8 DEF FoldInv, RowsInv, ResetInv
<1>10. CursorInv'
  <2>1. \A m \in 1..cursor : m \in 1..MaxLog /\ m \notin new  BY <1>3, <1>8
  <2>2. \A i \in Jobs : job[i].pc # "reset"  BY <1>1, <1>5
  <2> QED  BY <1>1, <1>3, <1>7, <2>1, <2>2, CursorFrame DEF FoldInv
<1>11. \A i \in Page(j) : log[i].kind = "content" /\ i \notin new =>
         log[i].on \in b.tombs /\ log[i].on \in Gone(j)
    BY <1>2, <1>6 DEF Tombstone, Gone
<1>12. Folded(b.next)'
  <2> SUFFICES ASSUME NEW i \in 1..b.next, log[i].kind = "content"
               PROVE  rows'[i] # "none" \/ log[i].on \in removed
      BY <1>1 DEF Folded
  <2>1. CASE i \in 1..b.from
    <3>1. i \in 1..MaxLog /\ (rows[i] # "none" \/ log[i].on \in removed)
        BY <1>3, <2>1 DEF Folded
    <3> QED  BY <1>7, <3>1
  <2>2. CASE i \notin 1..b.from
    <3>1. i \in Page(j) /\ i \in 1..MaxLog  BY <1>3, <2>2
    <3> QED  BY <1>3, <1>7, <1>11, <3>1
  <2> QED  BY <2>1, <2>2
<1>13. Hidden(b.next)'
  <2> SUFFICES ASSUME NEW i \in 1..b.next, NEW d \in 1..b.next, log[i].kind = "content",
                      log[d].kind = "delete", log[d].on = log[i].on, upTo'[i] < d
               PROVE  rows'[i] # "live"
      BY <1>1 DEF Hidden
  <2>1. i \in 1..MaxLog /\ i \in 1..Len(log)  BY <1>3
  <2>2. i \notin new  BY <1>3, <1>7, <2>1
  <2>3. rows'[i] = rows[i] /\ upTo[i] < d  BY <1>7, <2>1, <2>2
  <2>4. rows[i] = "live" => log[i].on \notin Gone(j)
      BY <1>1, <2>1 DEF FoldInv, JobInv
  <2>5. CASE d \in Page(j)
    <3>1. log[d].on \in Gone(j)  BY <2>5 DEF Gone
    <3> QED  BY <2>3, <2>4, <3>1
  <2>6. CASE i \in Page(j)
      BY <1>11, <2>2, <2>3, <2>4, <2>6
  <2>7. CASE d \notin Page(j) /\ i \notin Page(j)
    <3>1. d \in 1..b.from /\ i \in 1..b.from  BY <1>3, <2>7
    <3> QED  BY <1>3, <2>3, <3>1 DEF Hidden
  <2> QED  BY <2>5, <2>6, <2>7
<1>14. JobInv(j)'
  <2>1. PICK d : d = job'[j]  OBVIOUS
  <2>2. Folded(d.next)' /\ Hidden(d.next)'
      BY <1>4, <1>12, <1>13, <2>1 DEF Folded, Hidden
  <2>3. \A k \in Keys : InForce(graph[k], d.next, k)'
      BY <1>1, <1>3, <1>4, <2>1 DEF InForce, IsLast
  <2>4. /\ d.pc = "put" /\ d.from = cursor' /\ d.from <= d.next
        /\ d.next <= d.from + PageLimit /\ d.tombs \subseteq removed'
      BY <1>1, <1>3, <1>4, <2>1
  <2> QED  BY <2>1, <2>2, <2>3, <2>4 DEF JobInv, InForce, IsLast, Folded, Hidden
<1> QED  BY <1>5, <1>9, <1>10, <1>14 DEF FoldInv

LEMMA PutCursorStep ==
  ASSUME FoldInv, TypeOK', Careful, NEW j \in Jobs, PutCursor(j)
  PROVE  FoldInv'
<1>1. /\ job[j].pc = "put" /\ UNCHANGED <<log, removed, rows, graph, upTo>>
      /\ job \in [Jobs -> JobStates] /\ TypeOK
    BY DEF PutCursor, FoldInv, TypeOK
<1>2. PICK b : b = job[j]  OBVIOUS
<1>3. /\ b.from = cursor /\ b.from <= b.next /\ \A k \in Keys : InForce(graph[k], b.next, k)
      /\ b.from \in Nat /\ b.next \in Nat
    BY <1>1, <1>2, InHand
<1>4. cursor' = b.next
    BY <1>2, <1>3 DEF PutCursor
<1>5. PICK d \in {Idle, At("drain", 0)} : job' = [job EXCEPT ![j] = d]
    BY DEF PutCursor
<1>6. d.pc \in {"idle", "drain"}
    BY AtType, AppViewAssumption DEF Idle, Stages
<1>7. job'[j].pc \in {"idle", "drain"} /\ \A i \in Jobs \ {j} : job'[i] = job[i]
    BY <1>1, <1>5, <1>6
<1>8. /\ Exclusive'
      /\ \A i \in Jobs \ {j} : job[i].pc = "idle" /\ job'[i].pc = "idle" /\ JobInv(i)'
    BY <1>1, <1>7, Others DEF FoldInv
<1>9. RowsInv' /\ ResetInv'
    BY <1>1, <1>7, <1>8 DEF FoldInv, RowsInv, ResetInv
<1>10. JobInv(j)'  BY <1>7 DEF JobInv
<1>11. CursorInv'
  <2>1. PICK n, e : n = b.next /\ e = PageEnd(n)'  OBVIOUS
  <2>2. Folded(n) /\ Hidden(n)  BY <1>1, <1>2, <2>1 DEF FoldInv, JobInv
  <2>3. Folded(n)' /\ Hidden(n)'  BY <1>1, <2>2 DEF Folded, Hidden
  <2>4. ASSUME NEW k \in Keys PROVE \E v : v = graph'[k] /\ InForce(v, n, k)'
    <3>1. PICK v : v = graph[k]  OBVIOUS
    <3>2. InForce(v, n, k)  BY <1>3, <2>1, <3>1
    <3>3. InForce(v, n, k)'  BY <1>1, <3>2 DEF InForce, IsLast
    <3> QED  BY <1>1, <3>1, <3>3
  <2> QED  BY <1>4, <2>1, <2>3, <2>4, CursorPrime
<1> QED  BY <1>8, <1>9, <1>10, <1>11 DEF FoldInv

LEMMA FoldStep ==
  ASSUME FoldInv, CarefulNext \/ UNCHANGED vars
  PROVE  FoldInv'
<1>1. TypeOK'
    BY TypeStep DEF FoldInv, CarefulNext
<1>2. CASE UNCHANGED vars
  <2>1. \A j \in Jobs : JobInv(j)'
      BY <1>2, PageEndType, JobFrame, AppViewAssumption DEF FoldInv, vars, TypeOK
  <2>2. Exclusive' /\ RowsInv' /\ ResetInv'
      BY <1>2 DEF FoldInv, vars, Exclusive, RowsInv, ResetInv
  <2>3. CursorInv'
    <3>1. CASE \A j \in Jobs : job[j].pc # "reset"
        BY <1>2, <3>1, PageEndType, CursorFrame DEF FoldInv, vars
    <3>2. CASE ~\A j \in Jobs : job[j].pc # "reset"
        BY <1>2, <3>2 DEF CursorInv, vars
    <3> QED  BY <3>1, <3>2
  <2> QED  BY <1>1, <2>1, <2>2, <2>3 DEF FoldInv
<1>3. CASE CarefulNext
  <2>1. Careful  BY <1>3 DEF CarefulNext
  <2>2. ASSUME NEW j \in Jobs, Drain(j) PROVE FoldInv'
      BY <1>1, <2>1, <2>2, ReadCursorStep, FetchStep, FoldGraphStep, FoldDeletionsStep,
         FoldInsertsStep, PutCursorStep DEF Drain
  <2>3. "poller" \in Jobs /\ "rebuild" \in Jobs  BY DEF Jobs
  <2>4. CASE Service
      BY <1>1, <2>1, <2>2, <2>3, <2>4, PublishStep, RemoveStep, PollStep, CrashStep DEF Service
  <2>5. CASE Rebuild
      BY <1>1, <2>1, <2>2, <2>3, <2>5, TruncateStep, ResetCursorStep, CrashStep DEF Rebuild
  <2> QED  BY <1>3, <2>4, <2>5 DEF CarefulNext
<1> QED  BY <1>2, <1>3

-----------------------------------------------------------------------------
(***************************************************************************)
(* Types hold, and a page never reaches past the log, however the poller,  *)
(* a rebuild and crashes interleave (Ingest.Job, Rebuilder).               *)
(***************************************************************************)
THEOREM IngestTypes == Spec => []TypeOK
<1>1. TypeOK /\ [Service \/ Rebuild]_vars => TypeOK'
    BY TypeStep
<1> QED  BY TypeInit, <1>1, PTL DEF Spec

(* The invariant that the three properties rest on: what is done of the    *)
(* page in hand at every stage of the fold, and below the cursor.          *)
THEOREM FoldInvariant == CarefulSpec => []FoldInv
<1>1. FoldInv /\ [CarefulNext]_vars => FoldInv'
    BY FoldStep
<1> QED  BY FoldInit, <1>1, PTL DEF CarefulSpec

(***************************************************************************)
(* Nothing at or below the persisted cursor is missing from the feed       *)
(* (CursorStore.put after the fold, Rebuilder's reset before its drain).   *)
(***************************************************************************)
THEOREM NothingLost == CarefulSpec => []NoOpLost
<1>1. FoldInv => NoOpLost
    BY DEF FoldInv, CursorInv, Folded, NoOpLost, Quiet
<1> QED  BY <1>1, FoldInvariant, PTL

(***************************************************************************)
(* A delete in a later page than its content hides it (mark_deleted), for  *)
(* every log and page size.                                                *)
(***************************************************************************)
THEOREM LaterDeleteHides == CarefulSpec => []DeleteInLaterPageHides
<1>1. FoldInv => DeleteInLaterPageHides
    BY DEF FoldInv, JobInv, Hidden, DeleteInLaterPageHides
<1> QED  BY <1>1, FoldInvariant, PTL

(***************************************************************************)
(* The graph and the directory are the replay of the log (fold_follow,     *)
(* fold_profile), whatever half pages crashes left behind.                 *)
(***************************************************************************)
THEOREM GraphIsReplay == CarefulSpec => []GraphMatchesLog
<1>1. ASSUME FoldInv, NEW j \in Jobs, job[j].pc = "put", NEW k \in Keys
      PROVE  LET writes == {i \in 1..job[j].next : log[i].on = k}
                 last == {i \in writes : \A n \in writes : n <= i}
             IN  graph[k] = IF \E i \in last : log[i].kind = "set"
                            THEN CHOOSE i \in last : TRUE ELSE 0
  <2> DEFINE writes == {i \in 1..job[j].next : log[i].on = k}
             last == {i \in writes : \A n \in writes : n <= i}
  <2>1. InForce(graph[k], job[j].next, k)  BY <1>1 DEF FoldInv, JobInv
  <2>2. \A i : i \in last <=> IsLast(i, job[j].next, k)  BY DEF IsLast
  <2>3. \A i, n \in last : i = n  BY <1>1 DEF FoldInv, TypeOK, JobStates
  <2> DEFINE w == CHOOSE i \in last : TRUE
  <2> HIDE DEF last
  <2>4. (\E i \in last : TRUE) => w \in last
      OBVIOUS
  <2> HIDE DEF w
  <2>5. ASSUME graph[k] # 0, IsLast(graph[k], job[j].next, k), log[graph[k]].kind = "set"
        PROVE  graph[k] = IF \E i \in last : log[i].kind = "set" THEN w ELSE 0
    <3>1. graph[k] \in last  BY <2>2, <2>5
    <3>2. w = graph[k]  BY <2>3, <2>4, <3>1
    <3> QED  BY <2>5, <3>1, <3>2
  <2>6. ASSUME graph[k] = 0,
               \A m \in 1..job[j].next : IsLast(m, job[j].next, k) => log[m].kind # "set"
        PROVE  graph[k] = IF \E i \in last : log[i].kind = "set" THEN w ELSE 0
    <3>1. ~\E i \in last : log[i].kind = "set"  BY <2>2, <2>6 DEF IsLast
    <3> QED  BY <2>6, <3>1
  <2>7. graph[k] = IF \E i \in last : log[i].kind = "set" THEN w ELSE 0
      BY <2>1, <2>5, <2>6 DEF InForce
  <2> QED  BY <2>7 DEF last, w
<1>2. FoldInv => GraphMatchesLog
    BY <1>1 DEF GraphMatchesLog
<1> QED  BY <1>2, FoldInvariant, PTL

=============================================================================
