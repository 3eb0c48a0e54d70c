--------------------------- MODULE AppViewIngest ---------------------------
(***************************************************************************)
(* The AppView's ingest: a job pulls pages of the relay's op delta from a  *)
(* persisted cursor and folds them into disposable projections (feed_items,*)
(* the follow graph, the actor directory).  The poller runs the job over   *)
(* and over; a release task can truncate the projections and run it from   *)
(* cursor 0 while the poller is alive.  No step spans a transaction, so a  *)
(* crash may come between any two.                                         *)
(*                                                                         *)
(* The relay is modelled by what the delta endpoint serves: a log that     *)
(* only grows, and host moderation removals, which are applied to a page   *)
(* when it is served (Moderation.overlay_ops).  An operation is            *)
(*   content, delete    on an entity of the feed,                          *)
(*   set, unset         on a follow edge or an actor profile,              *)
(*   rejected           one that fails verification or poisons the fold.   *)
(***************************************************************************)
EXTENDS Integers, Sequences

CONSTANTS
  Entities,     \* feed entities (entity_id with its author_did)
  Keys,         \* follow edges and actor directory entries
  PageLimit,    \* operations in a page
  MaxLog,       \* bound: operations the relay publishes
  MaxCrashes    \* bound: crashes, failed fetches and drains cut short

Op == [kind : {"content", "delete"}, on : Entities]
        \union [kind : {"set", "unset"}, on : Keys]
        \union [kind : {"rejected"}, on : {"none"}]

(* Feed entities and keys of the graph are of different entity types.      *)
ASSUME KindsAssumption == Keys \intersect (Entities \union {"none"}) = {}
ASSUME AppViewAssumption ==
  /\ PageLimit \in Nat \ {0}
  /\ MaxLog \in Nat
  /\ MaxCrashes \in Nat

Jobs == {"poller", "rebuild"}    \* who drains: the service, the release task

VARIABLES
  log,       \* the relay's log: log[i] has log_id i
  removed,   \* entities removed by a moderator of the relay's host
  rows,      \* rows[i]: the feed_items row of log_id i
  graph,     \* graph[k]: log_id of the set in force, 0 when absent
  cursor,    \* the persisted ingest cursor
  job,       \* job[j]: what job j is doing and the page in its hands
  crashes,
  upTo       \* history: last log_id of the page that last wrote row i

vars == <<log, removed, rows, graph, cursor, job, crashes, upTo>>

At(stage, from) ==
  [pc |-> stage, from |-> from, next |-> 0, more |-> FALSE, tombs |-> {}, pos |-> 0]

Idle == At("idle", 0)

JobStates ==
  [pc : {"idle", "reset", "drain", "fetch", "graph", "deletions", "inserts", "put"},
   from : 0..MaxLog, next : 0..MaxLog, more : BOOLEAN,
   tombs : SUBSET Entities, pos : 0..(MaxLog + 1)]

(***************************************************************************)
(* Every variable has its type; a page never reaches past the log.         *)
(***************************************************************************)
TypeOK ==
  /\ log \in Seq(Op) /\ Len(log) <= MaxLog
  /\ removed \subseteq Entities
  /\ rows \in [1..MaxLog -> {"none", "live", "deleted"}]
  /\ graph \in [Keys -> 0..MaxLog]
  /\ cursor \in 0..Len(log)
  /\ job \in [Jobs -> JobStates]
  /\ \A j \in Jobs : job[j].next <= Len(log)
  /\ crashes \in 0..MaxCrashes
  /\ upTo \in [1..MaxLog -> 0..MaxLog]

Init ==
  /\ log = <<>>
  /\ removed = {}
  /\ rows = [i \in 1..MaxLog |-> "none"]
  /\ graph = [k \in Keys |-> 0]
  /\ cursor = 0
  /\ job = [j \in Jobs |-> Idle]
  /\ crashes = 0
  /\ upTo = [i \in 1..MaxLog |-> 0]

-----------------------------------------------------------------------------
(* The relay.                                                              *)

Publish(op) ==
  /\ Len(log) < MaxLog
  /\ log' = Append(log, op)
  /\ UNCHANGED <<removed, rows, graph, cursor, job, crashes, upTo>>

(* remove_post_from_board; there is no un-remove.  What else the action    *)
(* writes (audit row, report states) never reaches the AppView.            *)
RemovePost(e) ==
  /\ removed' = removed \union {e}
  /\ UNCHANGED <<log, rows, graph, cursor, job, crashes, upTo>>

-----------------------------------------------------------------------------
(* A job.                                                                  *)

Goto(j, stage) == job' = [job EXCEPT ![j].pc = stage]

(* :poll                                                                   *)
Poll ==
  /\ job["poller"].pc = "idle"
  /\ Goto("poller", "drain")
  /\ UNCHANGED <<log, removed, rows, graph, cursor, crashes, upTo>>

(* Rebuilder.run: TRUNCATE, then the cursor, then a drain.                 *)
Truncate ==
  /\ job["rebuild"].pc = "idle"
  /\ rows' = [i \in 1..MaxLog |-> "none"]
  /\ graph' = [k \in Keys |-> 0]
  /\ upTo' = [i \in 1..MaxLog |-> 0]
  /\ Goto("rebuild", "reset")
  /\ UNCHANGED <<log, removed, cursor, crashes>>

(* Mutant of ResetCursor: only the tables are cleared.                     *)
KeepCursor ==
  /\ job["rebuild"].pc = "reset"
  /\ Goto("rebuild", "drain")
  /\ UNCHANGED <<log, removed, rows, graph, cursor, crashes, upTo>>

ResetCursor ==
  /\ job["rebuild"].pc = "reset"
  /\ cursor' = 0
  /\ Goto("rebuild", "drain")
  /\ UNCHANGED <<log, removed, rows, graph, crashes, upTo>>

ReadCursor(j) ==
  /\ job[j].pc = "drain"
  /\ job' = [job EXCEPT ![j] = At("fetch", cursor)]
  /\ UNCHANGED <<log, removed, rows, graph, cursor, crashes, upTo>>

(* Mutant of Fetch: the next cursor is computed, not read off the page.    *)
FetchComputed(j) ==
  /\ job[j].pc = "fetch"
  /\ job' = [job EXCEPT ![j] =
               [pc |-> "graph", from |-> @.from, next |-> @.from + PageLimit,
                more |-> @.from + PageLimit < Len(log), tombs |-> removed,
                pos |-> MaxLog + 1]]
  /\ UNCHANGED <<log, removed, rows, graph, cursor, crashes, upTo>>

(* The page the relay serves after job[j].from, removals applied to it as  *)
(* they stand now.                                                         *)
Fetch(j) ==
  LET from == job[j].from
      next == IF from + PageLimit < Len(log) THEN from + PageLimit ELSE Len(log)
  IN /\ job[j].pc = "fetch"
     /\ job' = [job EXCEPT ![j] =
                  [pc |-> "graph", from |-> from, next |-> next,
                   more |-> next < Len(log), tombs |-> removed, pos |-> from + 1]]
     /\ UNCHANGED <<log, removed, rows, graph, cursor, crashes, upTo>>

Page(j) == (job[j].from + 1)..job[j].next

(* Operation i of j's page was served as a moderation tombstone.           *)
Tombstone(j, i) == log[i].kind \in {"content", "delete"} /\ log[i].on \in job[j].tombs

(* Mutant of GraphAfter: an upsert that does nothing on conflict.          *)
GraphFirstWins(i) ==
  CASE log[i].kind = "set"   -> [graph EXCEPT ![log[i].on] = IF @ = 0 THEN i ELSE @]
    [] log[i].kind = "unset" -> [graph EXCEPT ![log[i].on] = 0]
    [] OTHER                 -> graph

(* fold_follow and fold_profile: the last write of a key wins.  (Backfill  *)
(* of home timelines is a best-effort cache and left out.)                 *)
GraphAfter(i) ==
  CASE log[i].kind = "set"   -> [graph EXCEPT ![log[i].on] = i]
    [] log[i].kind = "unset" -> [graph EXCEPT ![log[i].on] = 0]
    [] OTHER                 -> graph

(* The follow and profile operations of the page, one at a time in order.  *)
FoldGraph(j) ==
  LET i == job[j].pos
  IN /\ job[j].pc = "graph"
     /\ IF i \in Page(j)
        THEN graph' = GraphAfter(i) /\ job' = [job EXCEPT ![j].pos = i + 1]
        ELSE Goto(j, "deletions") /\ UNCHANGED graph
     /\ UNCHANGED <<log, removed, rows, cursor, crashes, upTo>>

(* Mutant of FoldDeletions: the old bug, deletes hide nothing.             *)
FoldNoDeletions(j) ==
  /\ job[j].pc = "deletions"
  /\ Goto(j, "inserts")
  /\ UNCHANGED <<log, removed, rows, graph, cursor, crashes, upTo>>

(* Entities that a delete of the page names or a tombstone covers.         *)
Gone(j) == {log[i].on : i \in {n \in Page(j) : log[n].kind = "delete" \/ Tombstone(j, n)}}

(* mark_deleted: every live row of those entities.                         *)
FoldDeletions(j) ==
  /\ job[j].pc = "deletions"
  /\ rows' = [i \in 1..MaxLog |->
                IF rows[i] = "live" /\ log[i].on \in Gone(j) THEN "deleted" ELSE rows[i]]
  /\ Goto(j, "inserts")
  /\ UNCHANGED <<log, removed, graph, cursor, crashes, upTo>>

(* insert_all with on_conflict replace: a row is written not deleted, also *)
(* over one that was.                                                      *)
FoldInserts(j) ==
  LET new == {i \in Page(j) : log[i].kind = "content" /\ ~Tombstone(j, i)}
  IN /\ job[j].pc = "inserts"
     /\ rows' = [i \in 1..MaxLog |-> IF i \in new THEN "live" ELSE rows[i]]
     /\ upTo' = [i \in 1..MaxLog |-> IF i \in new THEN job[j].next ELSE upTo[i]]
     /\ Goto(j, "put")
     /\ UNCHANGED <<log, removed, graph, cursor, crashes>>

(* Mutants of PutCursor: one past the page; never another page.            *)
PutCursorPast(j) ==
  /\ job[j].pc = "put"
  /\ cursor' = IF job[j].next < Len(log) THEN job[j].next + 1 ELSE job[j].next
  /\ Goto(j, "idle")
  /\ UNCHANGED <<log, removed, rows, graph, crashes, upTo>>

PutCursorStuck(j) ==
  /\ job[j].pc = "put"
  /\ cursor' = IF job[j].more THEN cursor ELSE job[j].next
  /\ Goto(j, "idle")
  /\ UNCHANGED <<log, removed, rows, graph, crashes, upTo>>

(* CursorStore.put comes last, so a crash before it repeats the page.      *)
PutCursor(j) ==
  LET moved == job[j].next > job[j].from
  IN /\ job[j].pc = "put"
     /\ cursor' = IF moved THEN job[j].next ELSE cursor
     /\ job' = [job EXCEPT ![j] =
                  IF moved /\ job[j].more THEN At("drain", 0) ELSE Idle]
     /\ UNCHANGED <<log, removed, rows, graph, crashes, upTo>>

(* The job dies, the relay does not answer, or max_pages (100,000) is used *)
(* up; the poller polls again, a rebuild has to be started again by hand.  *)
Crash(j) ==
  /\ crashes < MaxCrashes
  /\ job[j].pc # "idle"
  /\ crashes' = crashes + 1
  /\ job' = [job EXCEPT ![j] = Idle]
  /\ UNCHANGED <<log, removed, rows, graph, cursor, upTo>>

-----------------------------------------------------------------------------
Drain(j) ==
  \/ ReadCursor(j)
  \/ Fetch(j)
  \/ FoldGraph(j)
  \/ FoldDeletions(j)
  \/ FoldInserts(j)
  \/ PutCursor(j)

(* The running service, and the release task.                              *)
Service ==
  \/ \E op \in Op : Publish(op)
  \/ \E e \in Entities : RemovePost(e)
  \/ Poll
  \/ Drain("poller")
  \/ Crash("poller")

Rebuild ==
  \/ Truncate
  \/ ResetCursor
  \/ Drain("rebuild")
  \/ Crash("rebuild")

Spec == Init /\ [][Service \/ Rebuild]_vars

ServiceSpec == Init /\ [][Service]_vars

(***************************************************************************)
(* A careful operator: the release task runs only while the poller is not  *)
(* in the middle of a drain, and does not die between its TRUNCATE and its *)
(* reset of the cursor.  The poller reschedules itself after every drain,  *)
(* whatever its result, and a drain that has started goes on.  Crashes     *)
(* stop (MaxCrashes); nobody has to publish, moderate or start a rebuild.  *)
(***************************************************************************)
Careful ==
  /\ \A i, j \in Jobs : i # j => job[i].pc = "idle" \/ job'[j].pc = "idle"
  /\ \A j \in Jobs : job[j].pc = "reset" => job'[j].pc # "idle"

CarefulNext ==
  \/ Service /\ Careful
  \/ Rebuild /\ Careful

CarefulSpec ==
  /\ Init
  /\ [][CarefulNext]_vars
  /\ WF_vars(Poll /\ Careful)
  /\ WF_vars(ResetCursor /\ Careful)
  /\ \A j \in Jobs : WF_vars(Drain(j) /\ Careful)

-----------------------------------------------------------------------------
(* Properties.                                                             *)

Quiet == \A j \in Jobs : job[j].pc = "idle"

(***************************************************************************)
(* Nothing is skipped: whenever no job is running (one may have crashed    *)
(* just before), every content operation at or below the persisted cursor  *)
(* has its row, unless a moderator removed the entity.  This is why        *)
(* CursorStore.put comes after the fold, and what "reproduces the same     *)
(* state as incremental ingest" asks of a rebuild.                         *)
(***************************************************************************)
NoOpLost ==
  Quiet => \A i \in 1..cursor :
             log[i].kind = "content" => rows[i] # "none" \/ log[i].on \in removed

(***************************************************************************)
(* An author's delete hides the content (mark_deleted) once a page that    *)
(* carries the delete but not the content has been folded, whatever pages  *)
(* were folded twice in between.                                           *)
(***************************************************************************)
DeleteInLaterPageHides ==
  \A j \in Jobs : job[j].pc = "put" =>
    \A i, d \in 1..job[j].next :
      /\ log[i].kind = "content"
      /\ log[d].kind = "delete"
      /\ log[d].on = log[i].on
      /\ upTo[i] < d
      => rows[i] # "live"

(***************************************************************************)
(* The test "a signed author delete hides the original murmur from every   *)
(* read path": once both are folded, content with a later delete is hidden.*)
(***************************************************************************)
DeleteHides ==
  \A i, d \in 1..cursor :
    /\ log[i].kind = "content"
    /\ log[d].kind = "delete"
    /\ log[d].on = log[i].on
    /\ i < d
    /\ Quiet
    => rows[i] # "live"

(***************************************************************************)
(* When a page is done the follow graph and the actor directory are what   *)
(* replaying the log up to the end of the page gives (last write wins),    *)
(* although a crash may have left the effects of half a page behind.       *)
(***************************************************************************)
GraphMatchesLog ==
  \A j \in Jobs : job[j].pc = "put" =>
    \A k \in Keys :
      LET writes == {i \in 1..job[j].next : log[i].on = k}
          last == {i \in writes : \A n \in writes : n <= i}
      IN graph[k] = IF \E i \in last : log[i].kind = "set"
                    THEN CHOOSE i \in last : TRUE ELSE 0

(***************************************************************************)
(* Every published operation is folded in the end, poison ones passed.     *)
(***************************************************************************)
CatchesUp == \A n \in 1..MaxLog : (Len(log) >= n) ~> (cursor >= n)

=============================================================================
