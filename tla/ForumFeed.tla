----------------------------- MODULE ForumFeed -----------------------------
(***************************************************************************)
(* What a reader of the web forum sees of one board: operations built by   *)
(* the app or by the web publication endpoint, routed by the AppView to    *)
(* the board feed and to thread feeds, and folded by the browser into      *)
(* threads, replies, likes and notifications.  The AppView is taken to     *)
(* have folded the whole log, every delete in a later page than what it    *)
(* deletes (AppViewIngest is about how it gets there, and about the rest). *)
(*                                                                         *)
(* Entity ids are random, so an id is inserted once.  Titles, texts, times *)
(* and the order in which threads are listed are left out, and so a feed   *)
(* is a set of log ids: the browser sorts what it is served by log id.     *)
(***************************************************************************)
EXTENDS Naturals, Sequences, FiniteSets, Functions

CONSTANTS
  Threads, Posts, Reactions,  \* entity ids
  Dids,                       \* authors
  Me,                         \* the reader's own DID
  None,                       \* null
  Limit,                      \* rows of a feed page (50)
  MaxReadIds,                 \* MAX_READ_IDS (1000)
  MaxEvents                   \* bound on operations and actions, for model checking

ASSUME MeAssumption == Me \in Dids
ASSUME FeedAssumption ==
  Limit \in Nat \ {0} /\ MaxReadIds \in Nat \ {0} /\ MaxEvents \in Nat
ASSUME IdsAssumption ==
  /\ None \notin Threads \union Posts \union Reactions
  /\ Threads \intersect Posts = {}
  /\ (Threads \union Posts) \intersect Reactions = {}

VARIABLES
  log,       \* accepted operations; the index is the log id and the revision
  removed,   \* posts removed by moderators
  locked,    \* threads locked by moderators
  read,      \* ids of read notifications, oldest first (localStorage)
  actions    \* moderator and reader actions so far

vars == <<log, removed, locked, read, actions>>

-----------------------------------------------------------------------------
(* parent: the thread of a post, the target of a reaction.  path: who      *)
(* builds the payload, the app or the relay's web publication.             *)
Op ==
  [entity_type : {"thread", "post", "reaction"}, op_type : {"insert", "update", "delete"},
   entity_id : Threads \union Posts \union Reactions, author_did : Dids,
   parent : Threads \union Posts \union {None}, parentPost : Posts \union {None},
   path : {"app", "web"}]

OpsOf(e) == {i \in 1..Len(log) : log[i].entity_id = e}
InsertOf(e) == {i \in OpsOf(e) : log[i].op_type = "insert"}
Inserted(e) == InsertOf(e) # {}
Latest(S) == CHOOSE i \in S : \A j \in S : j <= i

Init ==
  /\ log = <<>>
  /\ removed = {}
  /\ locked = {}
  /\ read = <<>>
  /\ actions = 0

-----------------------------------------------------------------------------
(* Publication.  The app and the web endpoint write different payloads.    *)

(* payload.boardId of the AppView's row: the app's edits carry none.       *)
OnBoard(i) == ~(log[i].path = "app" /\ log[i].op_type = "update"
                 /\ log[i].entity_type # "reaction")

(* payload.threadId: the app names the thread in the inserts of threads    *)
(* and posts, the web endpoint writes the operation's parent.              *)
ThreadOf(i) ==
  CASE log[i].path = "web" /\ log[i].op_type = "insert" -> log[i].parent
    [] log[i].path = "app" /\ log[i].op_type = "insert" ->
         CASE log[i].entity_type = "thread" -> log[i].entity_id
           [] log[i].entity_type = "post"   -> log[i].parent
           [] OTHER                         -> None
    [] OTHER -> None

Publish(type, e, who, what, p, pp, by) ==
  /\ Len(log) + actions < MaxEvents
  /\ log' = Append(log, [entity_type |-> type, op_type |-> what, entity_id |-> e,
                         author_did |-> who, parent |-> p, parentPost |-> pp, path |-> by])
  /\ UNCHANGED <<removed, locked, read, actions>>

CreateThread(t, who, by) ==
  ~Inserted(t) /\ Publish("thread", t, who, "insert", None, None, by)

(* Only the app answers a post of a thread.                                *)
CreatePost(p, who, t, pp, by) ==
  /\ ~Inserted(p) /\ Inserted(t)
  /\ pp = None \/ (by = "app" /\ \E i \in InsertOf(pp) : log[i].parent = t)
  /\ Publish("post", p, who, "insert", t, pp, by)

(* The relay holds one active reaction of an author for a target; the web  *)
(* reacts to posts only.                                                   *)
CreateReaction(r, who, target, by) ==
  /\ ~Inserted(r) /\ Inserted(target)
  /\ by = "web" => target \in Posts
  /\ ~\E q \in Reactions : \E i \in InsertOf(q) :
       /\ log[i].author_did = who /\ log[i].parent = target
       /\ log[Latest(OpsOf(q))].op_type # "delete"
  /\ Publish("reaction", r, who, "insert", target, None, by)

(* An edit or a delete, by the author of the entity.  The app repeats the  *)
(* target of a reaction it changes; the web edits threads and posts.       *)
Mutate(e, what, by) ==
  \E i \in InsertOf(e) :
    /\ by = "web" => log[i].entity_type # "reaction"
    /\ Publish(log[i].entity_type, e, log[i].author_did, what,
               IF log[i].entity_type = "reaction" THEN log[i].parent ELSE None, None, by)

-----------------------------------------------------------------------------
(* The AppView's feeds.                                                    *)

(* Mutant of Live: the rows of a deleted entity are still served.          *)
LiveItself(i) == log[i].op_type # "delete"

(* A row is served unless a delete of its entity was folded after it.      *)
Live(i) ==
  /\ log[i].op_type # "delete"
  /\ ~\E d \in OpsOf(log[i].entity_id) : d > i /\ log[d].op_type = "delete"

BoardRows == {i \in 1..Len(log) : Live(i) /\ OnBoard(i)}

(* for_board: the newest Limit rows.                                       *)
BoardFeed ==
  LET rows == BoardRows
  IN  {i \in rows : Cardinality({j \in rows : j > i}) < Limit}

(* The rows that name the thread, or react to it or to one of its posts,   *)
(* deleted ones included.                                                  *)
ThreadRows(t) ==
  LET replies == {log[i].entity_id :
                    i \in {n \in 1..Len(log) : log[n].op_type # "delete"
                             /\ ThreadOf(n) = t /\ log[n].entity_type = "post"}}
  IN  {i \in 1..Len(log) : Live(i) /\
        \/ ThreadOf(i) = t
        \/ log[i].entity_type = "reaction" /\ log[i].parent \in {t} \union replies}

(* Mutant of ThreadFeed: the newest rows, as for_board.                    *)
NewestThreadFeed(t) ==
  LET rows == ThreadRows(t)
  IN  {i \in rows : Cardinality({j \in rows : j > i}) < Limit}

(* for_thread: the oldest Limit rows.                                      *)
ThreadFeed(t) ==
  LET rows == ThreadRows(t)
  IN  {i \in rows : Cardinality({j \in rows : j < i}) < Limit}

-----------------------------------------------------------------------------
(* buildThreadsFromFeed: maps filled in the order of the log ids.          *)

Put(f, k, v) == [x \in DOMAIN f \union {k} |-> IF x = k THEN v ELSE f[x]]
Drop(f, K) == [x \in DOMAIN f \ K |-> f[x]]

EmptyMap == [x \in {} |-> None]
EmptyMaps == [threads |-> EmptyMap, posts |-> EmptyMap, reactions |-> EmptyMap]

FoldThread(maps, i) ==
  LET t == log[i].entity_id
  IN  CASE log[i].op_type = "insert" ->
             [maps EXCEPT !.threads = Put(@, t, i)]
        [] log[i].op_type = "update" ->
             IF t \in DOMAIN maps.threads THEN [maps EXCEPT !.threads[t] = i] ELSE maps
        [] log[i].op_type = "delete" ->
             [maps EXCEPT !.threads = Drop(@, {t}),
                          !.posts = Drop(@, {p \in DOMAIN @ : @[p].thread = t})]

FoldPost(maps, i) ==
  LET p == log[i].entity_id
  IN  CASE log[i].op_type = "insert" ->
             [maps EXCEPT !.posts = Put(@, p, [thread |-> log[i].parent, revision |-> i])]
        [] log[i].op_type = "update" ->
             IF p \in DOMAIN maps.posts THEN [maps EXCEPT !.posts[p].revision = i] ELSE maps
        [] log[i].op_type = "delete" -> [maps EXCEPT !.posts = Drop(@, {p})]

(* Mutant of FoldReaction: a reaction that is taken back is kept.          *)
FoldEveryReaction(maps, i) ==
  [maps EXCEPT !.reactions = Put(@, log[i].entity_id, log[i].parent)]

FoldReaction(maps, i) ==
  LET r == log[i].entity_id
  IN  IF log[i].op_type = "delete" THEN [maps EXCEPT !.reactions = Drop(@, {r})]
      ELSE [maps EXCEPT !.reactions = Put(@, r, log[i].parent)]

FoldItem(maps, i) ==
  CASE log[i].entity_type = "thread"   -> FoldThread(maps, i)
    [] log[i].entity_type = "post"     -> FoldPost(maps, i)
    [] log[i].entity_type = "reaction" -> FoldReaction(maps, i)

(* Mutant of OrderedItems: items are taken as the board feed has them.     *)
ArrivingItems(n) == Len(log) + 1 - n

(* The n-th log id in the order of the fold, whether the feed has it or    *)
(* not: by ascending log id.                                               *)
OrderedItems(n) == n

FoldItems(feed) ==
  LET maps[n \in 0..Len(log)] ==
        IF n = 0 THEN EmptyMaps
        ELSE IF OrderedItems(n) \in feed THEN FoldItem(maps[n - 1], OrderedItems(n))
        ELSE maps[n - 1]
  IN  maps[Len(log)]

Likes(maps, e) == Cardinality({r \in DOMAIN maps.reactions : maps.reactions[r] = e})

(* A thread as listed: its revision, its posts and the likes of each.      *)
BuildThreads(feed) ==
  LET maps == FoldItems(feed)
      Of(t) == {p \in DOMAIN maps.posts : maps.posts[p].thread = t}
  IN  [t \in DOMAIN maps.threads |->
         [revision |-> maps.threads[t], likes |-> Likes(maps, t),
          posts |-> [p \in Of(t) |-> [revision |-> maps.posts[p].revision,
                                      likes |-> Likes(maps, p), removed |-> FALSE]],
          locked |-> FALSE]]

(* Mutant of ApplyModeration: what the host removed is only counted.       *)
ApplyLocks(threads) == [t \in DOMAIN threads |-> [threads[t] EXCEPT !.locked = t \in locked]]

(* applyModerationStateToThreads                                           *)
ApplyModeration(threads) ==
  [t \in DOMAIN threads |->
     [threads[t] EXCEPT
        !.locked = t \in locked,
        !.posts = [p \in DOMAIN @ |-> [@[p] EXCEPT !.removed = p \in removed]]]]

BoardPage == ApplyModeration(BuildThreads(BoardFeed))
ThreadPage(t) == ApplyModeration(BuildThreads(ThreadFeed(t)))

-----------------------------------------------------------------------------
(* projectWebReplyNotifications and its read store.                        *)

(* Mutant of SeenIn: parents are looked up while the board feed is walked, *)
(* newest first.                                                           *)
SeenBefore(feed, e, n) ==
  {i \in feed : i >= n /\ log[i].op_type = "insert" /\ log[i].entity_id = e}

(* Inserts are collected from the whole feed before replies are judged.    *)
SeenIn(feed, e, n) == {i \in feed : log[i].op_type = "insert" /\ log[i].entity_id = e}

Mine(S) == \E i \in S : log[i].author_did = Me

ReplyType(feed, n) ==
  CASE Mine(SeenIn(feed, log[n].parentPost, n)) -> "reply_to_post"
    [] Mine(SeenIn(feed, log[n].parent, n))     -> "reply_to_thread"
    [] OTHER                                    -> "none"

(* Replies of others to the reader, by post id.                            *)
Notifications ==
  LET feed == BoardFeed
      replies == {n \in feed : /\ log[n].entity_type = "post" /\ log[n].op_type = "insert"
                               /\ log[n].author_did # Me
                               /\ ReplyType(feed, n) # "none"}
  IN  {log[n].entity_id : n \in replies}

(* A Set keeps the place of an id it already has.                          *)
AddId(ids, n) == IF n \in Range(ids) THEN ids ELSE Append(ids, n)

(* Mutant of Bounded: the oldest ids are kept.                             *)
BoundedOldest(ids) ==
  IF Len(ids) <= MaxReadIds THEN ids ELSE SubSeq(ids, 1, MaxReadIds)

(* Mutant of Bounded: the store grows for ever.                            *)
AllIds(ids) == ids

(* slice(-MAX_READ_IDS)                                                    *)
Bounded(ids) ==
  IF Len(ids) <= MaxReadIds THEN ids ELSE SubSeq(ids, Len(ids) - MaxReadIds + 1, Len(ids))

Act == Len(log) + actions < MaxEvents /\ actions' = actions + 1

MarkRead(n) ==
  /\ Act
  /\ n \in Notifications
  /\ read' = Bounded(AddId(read, n))
  /\ UNCHANGED <<log, removed, locked>>

(* The ids that are not in the store are added in the order shown.         *)
MarkAllRead(fresh) ==
  /\ Act
  /\ Range(fresh) = Notifications \ Range(read)
  /\ read' = Bounded(read \o fresh)
  /\ UNCHANGED <<log, removed, locked>>

-----------------------------------------------------------------------------
(* Moderators.                                                             *)

RemovePost(p) ==
  /\ Act
  /\ Inserted(p)
  /\ removed' = removed \union {p}
  /\ UNCHANGED <<log, locked, read>>

LockThread(t) ==
  /\ Act
  /\ Inserted(t)
  /\ locked' = locked \union {t}
  /\ UNCHANGED <<log, removed, read>>

UnlockThread(t) ==
  /\ Act
  /\ t \in locked
  /\ locked' = locked \ {t}
  /\ UNCHANGED <<log, removed, read>>

-----------------------------------------------------------------------------
Author ==
  \E who \in Dids, by \in {"app", "web"} :
    \/ \E t \in Threads : CreateThread(t, who, by)
    \/ \E p \in Posts, t \in Threads, pp \in Posts \union {None} :
         CreatePost(p, who, t, pp, by)
    \/ \E r \in Reactions, target \in Threads \union Posts :
         CreateReaction(r, who, target, by)

Owner ==
  \E e \in Threads \union Posts \union Reactions, what \in {"update", "delete"},
     by \in {"app", "web"} : Mutate(e, what, by)

Orders(S) == {s \in [1..Cardinality(S) -> S] : IsInjective(s)}

Reader ==
  \/ \E n \in Posts : MarkRead(n)
  \/ \E fresh \in Orders(Notifications \ Range(read)) : MarkAllRead(fresh)

Moderator ==
  \/ \E p \in Posts : RemovePost(p)
  \/ \E t \in Threads : LockThread(t) \/ UnlockThread(t)

Next == Author \/ Owner \/ Reader \/ Moderator

Spec == Init /\ [][Next]_vars

-----------------------------------------------------------------------------
TypeOK ==
  /\ log \in Seq(Op)
  /\ removed \subseteq Posts
  /\ locked \subseteq Threads
  /\ read \in Seq(Posts) /\ Len(read) <= MaxReadIds /\ IsInjective(read)
  /\ actions \in Nat /\ Len(log) + actions <= MaxEvents

LiveEntities(E) == {e \in E : Inserted(e) /\ \A i \in OpsOf(e) : log[i].op_type # "delete"}

(* forum_data_adapter.mjs:789, timeline.ex:340: while the rows of a board   *)
(* fit in one feed page, the page lists the threads that are not deleted,  *)
(* each with the replies that are not, and counts a like for every         *)
(* reaction that is active, whoever edited or deleted what and where.      *)
PageMatchesLog ==
  Cardinality(BoardRows) <= Limit =>
    LET page == BoardPage
        Active(e) == {r \in Reactions :
                        \E i \in InsertOf(r) : log[i].parent = e
                          /\ log[Latest(OpsOf(r))].op_type # "delete"}
    IN  /\ DOMAIN page = LiveEntities(Threads)
        /\ \A t \in DOMAIN page :
             /\ DOMAIN page[t].posts =
                  {p \in LiveEntities(Posts) : \E i \in InsertOf(p) : log[i].parent = t}
             /\ page[t].likes = Cardinality(Active(t))
             /\ \A p \in DOMAIN page[t].posts :
                  page[t].posts[p].likes = Cardinality(Active(p))

(* forum_data_adapter.mjs:796, forum_page_renderers.mjs:520: the revision    *)
(* the page gives an owner's edit is the entity's latest, also when the    *)
(* feed is cut off at its limit, unless the app has edited it since.       *)
StaleOnlyByAppEdit ==
  LET page == BoardPage
      Fresh(e, rev) == \A i \in OpsOf(e) : i > rev => log[i].path = "app"
                                                      /\ log[i].op_type = "update"
  IN  \A t \in DOMAIN page :
        /\ Fresh(t, page[t].revision)
        /\ \A p \in DOMAIN page[t].posts : Fresh(p, page[t].posts[p].revision)

(* forum_data_adapter.mjs:789-880, folder.ex:377: it makes no difference    *)
(* whether the AppView hides what was deleted or the browser folds the     *)
(* deletes itself.                                                         *)
DeletesEitherSide ==
  LET all == {i \in 1..Len(log) : OnBoard(i) \/ log[i].op_type = "delete"}
  IN  BuildThreads(all) = BuildThreads(BoardRows)

(* web_notifications.mjs:4: a reply to the reader that the feed shows       *)
(* together with what it answers is notified, and nothing else is: not the *)
(* reader's own posts, not a deleted reply.                                *)
NotifiesReplies ==
  LET InFeed(e) == \E i \in InsertOf(e) : i \in BoardFeed
      By(e, me) == \E i \in InsertOf(e) : (log[i].author_did = Me) = me
      Answers(p, e) == \E i \in InsertOf(p) : e \in {log[i].parent, log[i].parentPost}
  IN  \A p \in Posts :
        p \in Notifications <=>
          /\ InFeed(p) /\ By(p, FALSE)
          /\ \E e \in Threads \union Posts : Answers(p, e) /\ InFeed(e) /\ By(e, TRUE)

(* web_notifications.mjs:83-97: a notification the reader opens is read     *)
(* afterwards, and one that was read is forgotten only when the store is   *)
(* full.                                                                   *)
ReadSticks ==
  [][ /\ \A n \in Posts : MarkRead(n) => n \in Range(read')
      /\ Range(read) \subseteq Range(read') \/ Len(read') = MaxReadIds ]_vars

(* moderation_model.mjs:124: a removed reply is masked on every page that   *)
(* shows it, whatever its author does to it afterwards, and a locked       *)
(* thread is shown locked.                                                 *)
ModerationShown ==
  \A page \in {BoardPage} \union {ThreadPage(t) : t \in Threads} :
    \A t \in DOMAIN page :
      /\ page[t].locked <=> t \in locked
      /\ \A p \in DOMAIN page[t].posts : page[t].posts[p].removed <=> p \in removed

(* timeline.ex:291, forum_data_adapter.mjs:159: a thread that the app has    *)
(* made and nobody has deleted opens, however many rows it has grown: its  *)
(* own row is the oldest of its feed.                                      *)
AppThreadOpens ==
  \A t \in LiveEntities(Threads) :
    (\E i \in InsertOf(t) : log[i].path = "app") => t \in DOMAIN ThreadPage(t)

(* forum_data_adapter.test.mjs:330, "loads thread detail from the AppView   *)
(* thread feed": a thread that the board page links to opens.              *)
LinkedThreadOpens == \A t \in DOMAIN BoardPage : t \in DOMAIN ThreadPage(t)

=============================================================================
