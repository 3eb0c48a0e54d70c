-------------------------- MODULE ForumFeedProofs --------------------------
(***************************************************************************)
(* Proofs about ForumFeed.  The log is well formed (LogInv), what the      *)
(* browser folds out of any feed has a closed form (MapsOf), and the       *)
(* promises of the board page follow from the two.                         *)
(***************************************************************************)
EXTENDS ForumFeed, SetInduction, FiniteSetTheorems

-----------------------------------------------------------------------------
(* The inductive invariant.                                                *)

(* An id says what kind of entity it names; a post is written in a thread. *)
Kinds ==
  \A i \in 1..Len(log) :
    /\ log[i].entity_type = "thread" => log[i].entity_id \in Threads
    /\ log[i].entity_type = "post" => log[i].entity_id \in Posts
    /\ log[i].entity_type = "reaction" => log[i].entity_id \in Reactions
    /\ log[i].op_type = "insert" /\ log[i].entity_type = "post" => log[i].parent \in Threads

(* The insert of an entity is the only one and comes before its other rows.*)
InsertFirst ==
  \A i, j \in 1..Len(log) :
    log[i].op_type = "insert" /\ log[j].entity_id = log[i].entity_id
      => i = j \/ (i < j /\ log[j].op_type # "insert")

(* Every row follows the insert of its entity; a reaction keeps its target.*)
HasInsert ==
  \A j \in 1..Len(log) : \E i \in 1..Len(log) :
    /\ log[i].op_type = "insert" /\ log[i].entity_id = log[j].entity_id
    /\ log[j].entity_type = "reaction" => log[j].parent = log[i].parent

LogInv == Kinds /\ InsertFirst /\ HasInsert

FeedInv == TypeOK /\ LogInv

-----------------------------------------------------------------------------
(* What an appended operation must satisfy to keep the log well formed.    *)
LEMMA PublishKeepsInv ==
  ASSUME FeedInv,
         NEW type, NEW e, NEW who, NEW what, NEW p, NEW pp, NEW by,
         Publish(type, e, who, what, p, pp, by),
         [entity_type |-> type, op_type |-> what, entity_id |-> e, author_did |-> who,
          parent |-> p, parentPost |-> pp, path |-> by] \in Op,
         type = "thread" => e \in Threads,
         type = "post" => e \in Posts,
         type = "reaction" => e \in Reactions,
         what = "insert" /\ type = "post" => p \in Threads,
         what = "insert" => ~Inserted(e),
         what # "insert" =>
           \E i \in InsertOf(e) : type = "reaction" => p = log[i].parent
  PROVE  FeedInv'
<1> DEFINE op == [entity_type |-> type, op_type |-> what, entity_id |-> e, author_did |-> who,
                  parent |-> p, parentPost |-> pp, path |-> by]
           N == Len(log)
<1>0. /\ log \in Seq(Op) /\ op \in Op /\ N \in Nat
      /\ log' = Append(log, op)
      /\ Len(log') = N + 1
      /\ \A i \in 1..N : log'[i] = log[i]
      /\ log'[N + 1] = op
      /\ \A i \in 1..Len(log') : i \in 1..N \/ i = N + 1
      /\ \A i \in 1..N : i \in 1..Len(log') /\ i < N + 1
      /\ N + 1 \in 1..Len(log')
  BY DEF FeedInv, TypeOK, Publish
<1>o. /\ op.entity_type = type /\ op.op_type = what /\ op.entity_id = e /\ op.parent = p
  OBVIOUS
<1> HIDE DEF op, N
<1>1. TypeOK'
  <2>1. log' \in Seq(Op)
    BY <1>0
  <2>2. Len(log') + actions' <= MaxEvents
    BY <1>0, FeedAssumption DEF FeedInv, TypeOK, Publish, N
  <2> QED
    BY <2>1, <2>2 DEF FeedInv, TypeOK, Publish
<1>2. Kinds'
  BY <1>0, <1>o DEF FeedInv, LogInv, Kinds, N
<1>3. InsertFirst'
  <2> SUFFICES ASSUME NEW i \in 1..Len(log'), NEW j \in 1..Len(log'),
                      log'[i].op_type = "insert", log'[j].entity_id = log'[i].entity_id
               PROVE  i = j \/ (i < j /\ log'[j].op_type # "insert")
    BY Zenon DEF InsertFirst
  <2>1. CASE i \in 1..N /\ j \in 1..N
    BY <2>1, <1>0 DEF FeedInv, LogInv, InsertFirst, N
  <2>2. CASE i \in 1..N /\ j = N + 1
    <3>1. Inserted(e)
      BY <2>2, <1>0, <1>o DEF Inserted, InsertOf, OpsOf, N
    <3> QED
      BY <2>2, <3>1, <1>0, <1>o
  <2>3. CASE i = N + 1 /\ j \in 1..N
    <3>1. PICK k \in 1..N : log[k].op_type = "insert" /\ log[k].entity_id = e
      BY SMTT(30), <2>3, <1>0, <1>o DEF FeedInv, LogInv, HasInsert, N
    <3>2. Inserted(e)
      BY <3>1 DEF Inserted, InsertOf, OpsOf, N
    <3> QED
      BY <2>3, <3>2, <1>0, <1>o
  <2> QED
    BY <2>1, <2>2, <2>3, <1>0
<1>4. HasInsert'
  <2> SUFFICES ASSUME NEW j \in 1..Len(log')
               PROVE  \E i \in 1..Len(log') :
                        /\ log'[i].op_type = "insert" /\ log'[i].entity_id = log'[j].entity_id
                        /\ log'[j].entity_type = "reaction" => log'[j].parent = log'[i].parent
    BY Zenon DEF HasInsert
  <2>1. CASE j \in 1..N
    <3>1. PICK i \in 1..N :
            /\ log[i].op_type = "insert" /\ log[i].entity_id = log[j].entity_id
            /\ log[j].entity_type = "reaction" => log[j].parent = log[i].parent
      BY <2>1 DEF FeedInv, LogInv, HasInsert, N
    <3> QED
      BY <2>1, <3>1, <1>0
  <2>2. CASE j = N + 1 /\ what = "insert"
    BY <2>2, <1>0, <1>o
  <2>3. CASE j = N + 1 /\ what # "insert"
    <3>1. PICK i \in 1..N : /\ log[i].op_type = "insert" /\ log[i].entity_id = e
                            /\ type = "reaction" => p = log[i].parent
      BY <2>3 DEF InsertOf, OpsOf, N
    <3> QED
      BY <2>3, <3>1, <1>0, <1>o
  <2> QED
    BY <2>1, <2>2, <2>3, <1>0
<1> QED
  BY <1>1, <1>2, <1>3, <1>4 DEF FeedInv, LogInv

LEMMA AuthorKeepsInv == FeedInv /\ Author => FeedInv'
<1> SUFFICES ASSUME FeedInv, NEW who \in Dids, NEW by \in {"app", "web"},
                    \/ \E t \in Threads : CreateThread(t, who, by)
                    \/ \E p \in Posts, t \in Threads, pp \in Posts \union {None} :
                         CreatePost(p, who, t, pp, by)
                    \/ \E r \in Reactions, target \in Threads \union Posts :
                         CreateReaction(r, who, target, by)
             PROVE  FeedInv'
  BY Zenon DEF Author
<1>1. ASSUME NEW t \in Threads, CreateThread(t, who, by)
      PROVE  FeedInv'
  <2>1. ~Inserted(t) /\ Publish("thread", t, who, "insert", None, None, by)
    BY <1>1 DEF CreateThread
  <2>2. [entity_type |-> "thread", op_type |-> "insert", entity_id |-> t, author_did |-> who,
         parent |-> None, parentPost |-> None, path |-> by] \in Op
    BY DEF Op
  <2> QED
    BY <2>1, <2>2, PublishKeepsInv
<1>2. ASSUME NEW p \in Posts, NEW t \in Threads, NEW pp \in Posts \union {None},
             CreatePost(p, who, t, pp, by)
      PROVE  FeedInv'
  <2>1. ~Inserted(p) /\ Publish("post", p, who, "insert", t, pp, by)
    BY <1>2 DEF CreatePost
  <2>2. [entity_type |-> "post", op_type |-> "insert", entity_id |-> p, author_did |-> who,
         parent |-> t, parentPost |-> pp, path |-> by] \in Op
    BY DEF Op
  <2> QED
    BY <2>1, <2>2, PublishKeepsInv
<1>3. ASSUME NEW r \in Reactions, NEW target \in Threads \union Posts,
             CreateReaction(r, who, target, by)
      PROVE  FeedInv'
  <2>1. ~Inserted(r) /\ Publish("reaction", r, who, "insert", target, None, by)
    BY <1>3 DEF CreateReaction
  <2>2. [entity_type |-> "reaction", op_type |-> "insert", entity_id |-> r, author_did |-> who,
         parent |-> target, parentPost |-> None, path |-> by] \in Op
    BY DEF Op
  <2> QED
    BY <2>1, <2>2, PublishKeepsInv
<1> QED
  BY <1>1, <1>2, <1>3

LEMMA OwnerKeepsInv == FeedInv /\ Owner => FeedInv'
<1> SUFFICES ASSUME FeedInv,
                    NEW e \in Threads \union Posts \union Reactions,
                    NEW what \in {"update", "delete"}, NEW by \in {"app", "web"},
                    Mutate(e, what, by)
             PROVE  FeedInv'
  BY Zenon DEF Owner
<1>1. PICK i \in InsertOf(e) :
        Publish(log[i].entity_type, e, log[i].author_did, what,
                IF log[i].entity_type = "reaction" THEN log[i].parent ELSE None, None, by)
  BY DEF Mutate
<1> DEFINE type == log[i].entity_type
           p == IF type = "reaction" THEN log[i].parent ELSE None
<1>2. i \in 1..Len(log) /\ log[i] \in Op /\ log[i].entity_id = e
  BY DEF InsertOf, OpsOf, FeedInv, TypeOK
<1>3. /\ type = "thread" => e \in Threads
      /\ type = "post" => e \in Posts
      /\ type = "reaction" => e \in Reactions
  BY <1>2 DEF FeedInv, LogInv, Kinds
<1>4. [entity_type |-> type, op_type |-> what, entity_id |-> e, author_did |-> log[i].author_did,
       parent |-> p, parentPost |-> None, path |-> by] \in Op
  BY <1>2 DEF Op
<1>5. \E k \in InsertOf(e) : type = "reaction" => p = log[k].parent
  OBVIOUS
<1>6. Publish(type, e, log[i].author_did, what, p, None, by)
  BY <1>1
<1>7. what # "insert"
  OBVIOUS
<1> HIDE DEF type, p
<1> QED
  BY <1>3, <1>4, <1>5, <1>6, <1>7, PublishKeepsInv

LEMMA ModeratorKeepsInv == FeedInv /\ Moderator => FeedInv'
<1> SUFFICES ASSUME FeedInv, Moderator
             PROVE  FeedInv'
  OBVIOUS
<1>1. /\ UNCHANGED <<log, read>> /\ Act
      /\ removed' \subseteq Posts /\ locked' \subseteq Threads
  BY DEF Moderator, RemovePost, LockThread, UnlockThread, FeedInv, TypeOK
<1>2. actions' \in Nat /\ Len(log') + actions' <= MaxEvents
  BY <1>1, FeedAssumption DEF Act, FeedInv, TypeOK
<1> QED
  BY <1>1, <1>2 DEF FeedInv, TypeOK, LogInv, Kinds, InsertFirst, HasInsert

-----------------------------------------------------------------------------
(* The read store.                                                         *)

(* Bounded keeps an injective sequence injective and within its limit,     *)
(* always keeps the id added last, and drops ids only from a full store.   *)
LEMMA BoundedFacts ==
  ASSUME NEW ids \in Seq(Posts), IsInjective(ids)
  PROVE  /\ Bounded(ids) \in Seq(Posts)
         /\ Len(Bounded(ids)) <= MaxReadIds
         /\ IsInjective(Bounded(ids))
         /\ Bounded(ids) = ids \/ Len(Bounded(ids)) = MaxReadIds
         /\ Len(ids) > 0 => ids[Len(ids)] \in Range(Bounded(ids))
<1>1. CASE Len(ids) <= MaxReadIds
  BY <1>1 DEF Bounded, Range
<1>2. CASE ~(Len(ids) <= MaxReadIds)
  <2> DEFINE m == Len(ids) - MaxReadIds
             b == Bounded(ids)
  <2>1. /\ b = SubSeq(ids, m + 1, Len(ids)) /\ m \in Nat /\ m + MaxReadIds = Len(ids)
        /\ Len(ids) \in Nat /\ MaxReadIds \in Nat /\ MaxReadIds > 0
    BY <1>2, FeedAssumption DEF Bounded
  <2>2. b \in Seq(Posts) /\ Len(b) = MaxReadIds /\ DOMAIN b = 1..MaxReadIds
    BY <2>1
  <2>3. \A k \in 1..MaxReadIds : b[k] = ids[m + k] /\ m + k \in DOMAIN ids
    BY <2>1
  <2> HIDE DEF b, m
  <2>4. IsInjective(b)
    <3> SUFFICES ASSUME NEW x \in 1..MaxReadIds, NEW y \in 1..MaxReadIds, b[x] = b[y]
                 PROVE  x = y
      BY <2>2, Zenon DEF IsInjective
    <3>1. m + x = m + y
      BY <2>3, Zenon DEF IsInjective
    <3> QED
      BY <3>1, <2>1
  <2>5. ids[Len(ids)] \in Range(b)
    <3>1. MaxReadIds \in 1..MaxReadIds
      BY <2>1
    <3>2. b[MaxReadIds] = ids[Len(ids)]
      BY <3>1, <2>1, <2>3
    <3> QED
      BY <3>1, <3>2, <2>2 DEF Range
  <2> QED
    BY <2>2, <2>4, <2>5, <2>1 DEF b
<1> QED
  BY <1>1, <1>2

(* Ids that are not in the store yet can be appended to it.                *)
LEMMA AppendFresh ==
  ASSUME NEW ids \in Seq(Posts), IsInjective(ids),
         NEW fresh \in Seq(Posts), IsInjective(fresh),
         Range(fresh) \intersect Range(ids) = {}
  PROVE  /\ ids \o fresh \in Seq(Posts)
         /\ IsInjective(ids \o fresh)
         /\ Range(ids) \subseteq Range(ids \o fresh)
<1> DEFINE cat == ids \o fresh
           m == Len(ids)
           k == Len(fresh)
<1>1. /\ m \in Nat /\ k \in Nat /\ cat \in Seq(Posts) /\ DOMAIN cat = 1..(m + k)
      /\ DOMAIN ids = 1..m /\ DOMAIN fresh = 1..k
  OBVIOUS
<1>2. \A i \in 1..m : cat[i] = ids[i] /\ i \in 1..(m + k)
  OBVIOUS
<1>3. \A i \in 1..(m + k) : i \notin 1..m => cat[i] = fresh[i - m] /\ i - m \in 1..k
  OBVIOUS
<1> HIDE DEF cat, m, k
<1>4. IsInjective(cat)
  <2> SUFFICES ASSUME NEW x \in 1..(m + k), NEW y \in 1..(m + k), cat[x] = cat[y]
               PROVE  x = y
    BY <1>1, Zenon DEF IsInjective
  <2>1. CASE x \in 1..m /\ y \in 1..m
    BY <2>1, <1>1, <1>2, Zenon DEF IsInjective
  <2>2. CASE x \notin 1..m /\ y \notin 1..m
    <3>1. x - m = y - m
      BY <2>2, <1>1, <1>3, Zenon DEF IsInjective
    <3> QED
      BY <3>1, <1>1
  <2>3. \A i \in 1..m, j \in 1..k : ids[i] # fresh[j]
    BY <1>1 DEF Range
  <2> QED
    BY <2>1, <2>2, <2>3, <1>2, <1>3
<1>5. Range(ids) \subseteq Range(cat)
  BY <1>1, <1>2 DEF Range
<1> QED
  BY <1>1, <1>4, <1>5 DEF cat

(* Log ids are finitely many.                                              *)
LEMMA RowsFinite ==
  ASSUME FeedInv, NEW S, S \subseteq 1..Len(log)
  PROVE  IsFiniteSet(S) /\ Cardinality(S) \in Nat
<1>1. Len(log) \in Int /\ 1 \in Int
  BY DEF FeedInv, TypeOK
<1>2. IsFiniteSet(1..Len(log))
  BY <1>1, FS_Interval, Zenon
<1>3. IsFiniteSet(S)
  BY <1>2, FS_Subset
<1> QED
  BY <1>3, FS_CardinalityType

(* Notifications are finitely many posts.                                  *)
LEMMA NotificationsFinite ==
  ASSUME FeedInv
  PROVE  Notifications \in SUBSET Posts /\ IsFiniteSet(Notifications)
<1> DEFINE replies == {n \in BoardFeed : /\ log[n].entity_type = "post"
                                         /\ log[n].op_type = "insert"
                                         /\ log[n].author_did # Me
                                         /\ ReplyType(BoardFeed, n) # "none"}
<1>1. Notifications = {log[n].entity_id : n \in replies}
  BY DEF Notifications
<1>2. replies \subseteq 1..Len(log)
  BY DEF BoardFeed, BoardRows
<1>3. IsFiniteSet(replies)
  BY <1>2, RowsFinite
<1>4. Notifications \in SUBSET Posts
  BY <1>1, <1>2 DEF FeedInv, LogInv, Kinds
<1>5. IsFiniteSet(Notifications)
  <2> DEFINE f == [n \in replies |-> log[n].entity_id]
  <2> HIDE DEF replies
  <2>1. f \in Surjection(replies, Notifications)
    BY <1>1 DEF Surjection
  <2> HIDE DEF f
  <2> QED
    BY <2>1, <1>3, FS_Surjection
<1> QED
  BY <1>4, <1>5

(* MarkRead and MarkAllRead store an injective, bounded sequence of posts, *)
(* keep what was read unless the store is full, and keep the post opened.  *)
LEMMA ReaderStep ==
  ASSUME FeedInv, Reader
  PROVE  /\ UNCHANGED <<log, removed, locked>> /\ Act
         /\ read' \in Seq(Posts) /\ Len(read') <= MaxReadIds /\ IsInjective(read')
         /\ Range(read) \subseteq Range(read') \/ Len(read') = MaxReadIds
<1>0. read \in Seq(Posts) /\ IsInjective(read)
  BY DEF FeedInv, TypeOK
<1>1. ASSUME NEW n \in Posts, MarkRead(n)
      PROVE  \E ids \in Seq(Posts) : /\ IsInjective(ids) /\ Range(read) \subseteq Range(ids)
                                     /\ read' = Bounded(ids)
  <2>1. read' = Bounded(AddId(read, n))
    BY <1>1 DEF MarkRead
  <2>2. CASE n \in Range(read)
    BY <1>0, <2>1, <2>2 DEF AddId
  <2>3. CASE n \notin Range(read)
    <3>1. AddId(read, n) = read \o <<n>>
      BY <2>3, <1>0 DEF AddId
    <3>2. /\ <<n>> \in Seq(Posts) /\ IsInjective(<<n>>)
          /\ Range(<<n>>) \intersect Range(read) = {}
      BY <2>3 DEF IsInjective, Range
    <3> QED
      BY <3>1, <3>2, <2>1, <1>0, AppendFresh
  <2> QED
    BY <2>2, <2>3
<1>2. ASSUME NEW fresh \in Orders(Notifications \ Range(read)), MarkAllRead(fresh)
      PROVE  \E ids \in Seq(Posts) : /\ IsInjective(ids) /\ Range(read) \subseteq Range(ids)
                                     /\ read' = Bounded(ids)
  <2> DEFINE S == Notifications \ Range(read)
  <2>1. S \in SUBSET Posts /\ IsFiniteSet(S)
    BY NotificationsFinite, FS_Subset
  <2>2. Cardinality(S) \in Nat
    BY <2>1, FS_CardinalityType
  <2>3. fresh \in [1..Cardinality(S) -> S] /\ IsInjective(fresh)
    BY DEF Orders
  <2>4. /\ Range(fresh) = S
        /\ read' = Bounded(read \o fresh)
    BY <1>2 DEF MarkAllRead
  <2>5. S \intersect Range(read) = {}
    OBVIOUS
  <2> HIDE DEF S
  <2>6. fresh \in Seq(Posts)
    BY <2>1, <2>2, <2>3
  <2> QED
    BY <1>0, <2>3, <2>4, <2>5, <2>6, AppendFresh
<1>3. PICK ids \in Seq(Posts) : /\ IsInjective(ids) /\ Range(read) \subseteq Range(ids)
                                /\ read' = Bounded(ids)
  BY <1>1, <1>2, Zenon DEF Reader
<1>4. UNCHANGED <<log, removed, locked>> /\ Act
  BY DEF Reader, MarkRead, MarkAllRead
<1> QED
  BY <1>3, <1>4, BoundedFacts

LEMMA ReaderKeepsInv == FeedInv /\ Reader => FeedInv'
<1> SUFFICES ASSUME FeedInv, Reader
             PROVE  FeedInv'
  OBVIOUS
<1>1. /\ UNCHANGED <<log, removed, locked>> /\ Act
      /\ read' \in Seq(Posts) /\ Len(read') <= MaxReadIds /\ IsInjective(read')
  BY ReaderStep
<1>2. actions' \in Nat /\ Len(log') + actions' <= MaxEvents
  BY <1>1, FeedAssumption DEF Act, FeedInv, TypeOK
<1> QED
  BY <1>1, <1>2 DEF FeedInv, TypeOK, LogInv, Kinds, InsertFirst, HasInsert

-----------------------------------------------------------------------------
(* The log is well formed in every reachable state: what the later proofs  *)
(* use of the publication rules of the relay and of the app.               *)
THEOREM FeedInvariant == Spec => []FeedInv
<1>1. Init => FeedInv
  <2> SUFFICES ASSUME Init
               PROVE  FeedInv
    OBVIOUS
  <2>1. TypeOK
    BY FeedAssumption DEF Init, TypeOK, IsInjective
  <2>2. 1..Len(log) = {}
    BY DEF Init
  <2> QED
    BY <2>1, <2>2 DEF FeedInv, LogInv, Kinds, InsertFirst, HasInsert
<1>2. FeedInv /\ [Next]_vars => FeedInv'
  <2>1. FeedInv /\ UNCHANGED vars => FeedInv'
    BY DEF FeedInv, TypeOK, LogInv, Kinds, InsertFirst, HasInsert, vars
  <2> QED
    BY <2>1, AuthorKeepsInv, OwnerKeepsInv, ReaderKeepsInv, ModeratorKeepsInv DEF Next
<1> QED
  BY <1>1, <1>2, PTL DEF Spec

(* Every variable has its type; the read store holds no id twice and never *)
(* more than MAX_READ_IDS (web_notifications.mjs:92).                      *)
THEOREM FeedTypes == Spec => []TypeOK
<1>1. FeedInv => TypeOK
  BY DEF FeedInv
<1> QED
  BY <1>1, FeedInvariant, PTL

(* A notification the reader opens is read afterwards, and one that was    *)
(* read is forgotten only when the store is full.                          *)
THEOREM ReadStays == Spec => ReadSticks
<1> DEFINE Kept == /\ \A n \in Posts : MarkRead(n) => n \in Range(read')
                   /\ Range(read) \subseteq Range(read') \/ Len(read') = MaxReadIds
<1>1. FeedInv /\ [Next]_vars => [Kept]_vars
  <2> SUFFICES ASSUME FeedInv, Next
               PROVE  Kept
    OBVIOUS
  <2>0. read \in Seq(Posts) /\ IsInjective(read)
    BY DEF FeedInv, TypeOK
  <2>1. ASSUME NEW n \in Posts, MarkRead(n)
        PROVE  n \in Range(read')
    <3>1. read' = Bounded(AddId(read, n))
      BY <2>1 DEF MarkRead
    <3>2. CASE n \notin Range(read)
      <4> DEFINE ids == read \o <<n>>
      <4>1. AddId(read, n) = ids
        BY <3>2, <2>0 DEF AddId
      <4>2. /\ <<n>> \in Seq(Posts) /\ IsInjective(<<n>>)
            /\ Range(<<n>>) \intersect Range(read) = {}
        BY <3>2 DEF IsInjective, Range
      <4>3. ids \in Seq(Posts) /\ IsInjective(ids)
        BY <4>2, <2>0, AppendFresh
      <4>4. Len(ids) > 0 /\ ids[Len(ids)] = n
        BY <2>0
      <4> HIDE DEF ids
      <4> QED
        BY <3>1, <4>1, <4>3, <4>4, BoundedFacts
    <3>3. CASE n \in Range(read)
      <4>1. read' = Bounded(read) /\ Len(read) <= MaxReadIds
        BY <3>1, <3>3 DEF AddId, FeedInv, TypeOK
      <4>2. read' = read
        BY <4>1 DEF Bounded
      <4> QED
        BY <4>2, <3>3
    <3> QED
      BY <3>2, <3>3
  <2>2. Range(read) \subseteq Range(read') \/ Len(read') = MaxReadIds
    <3>1. CASE Reader
      BY <3>1, ReaderStep
    <3>2. CASE Author \/ Owner \/ Moderator
      <4>1. read' = read
        BY <3>2 DEF Author, Owner, Moderator, CreateThread, CreatePost, CreateReaction,
                    Mutate, Publish, RemovePost, LockThread, UnlockThread
      <4> QED
        BY <4>1
    <3> QED
      BY <3>1, <3>2 DEF Next
  <2> QED
    BY <2>1, <2>2
<1> QED
  BY <1>1, FeedInvariant, PTL DEF Spec, ReadSticks

-----------------------------------------------------------------------------
(* The fold in closed form.  G is a set of log ids.                        *)

DeletedIn(G, e, i) ==
  \E d \in G : d > i /\ log[d].entity_id = e /\ log[d].op_type = "delete"

ShownIn(G, e) == {j \in G : log[j].entity_id = e /\ log[j].op_type # "delete"}

ParentOf(e) == log[CHOOSE i \in InsertOf(e) : TRUE].parent

(* Threads and posts whose insert is in G with no later delete of theirs,  *)
(* nor, for a post, of its thread.                                         *)
ThreadsIn(G) ==
  {t \in Threads : \E i \in G : /\ log[i].entity_id = t /\ log[i].op_type = "insert"
                                /\ ~DeletedIn(G, t, i)}
PostsIn(G) ==
  {p \in Posts : \E i \in G : /\ log[i].entity_id = p /\ log[i].op_type = "insert"
                              /\ ~DeletedIn(G, p, i) /\ ~DeletedIn(G, ParentOf(p), i)}

(* Reactions with a row in G that no later row takes back.                 *)
ReactionsIn(G) ==
  {r \in Reactions : \E i \in G : /\ log[i].entity_id = r /\ log[i].op_type # "delete"
                                  /\ ~DeletedIn(G, r, i)}

ThreadMap(G) == [t \in ThreadsIn(G) |-> Latest(ShownIn(G, t))]
PostMap(G) ==
  [p \in PostsIn(G) |-> [thread |-> ParentOf(p), revision |-> Latest(ShownIn(G, p))]]
ReactionMap(G) == [r \in ReactionsIn(G) |-> ParentOf(r)]

MapsOf(G) == [posts |-> PostMap(G), reactions |-> ReactionMap(G), threads |-> ThreadMap(G)]

(* The greatest of a set of numbers is the one that was added last.        *)
LEMMA LatestAdded ==
  ASSUME NEW n \in Nat, NEW S \in SUBSET (1..(n - 1))
  PROVE  Latest(S \union {n}) = n
<1>1. \A j \in S \union {n} : j <= n
  OBVIOUS
<1>2. \A i \in S \union {n} : (\A j \in S \union {n} : j <= i) => i = n
  OBVIOUS
<1> QED
  BY <1>1, <1>2 DEF Latest

(* A reaction's rows name the parent its insert names.                     *)
LEMMA ParentOfInsert ==
  ASSUME FeedInv, NEW i \in 1..Len(log)
  PROVE  log[i].op_type = "insert" \/ log[i].entity_type = "reaction"
           => ParentOf(log[i].entity_id) = log[i].parent
<1> DEFINE e == log[i].entity_id
<1>0. PICK k \in 1..Len(log) :
        /\ log[k].op_type = "insert" /\ log[k].entity_id = e
        /\ log[i].entity_type = "reaction" => log[i].parent = log[k].parent
  BY DEF FeedInv, LogInv, HasInsert
<1>1. \A j \in InsertOf(e) : j = k
  BY <1>0 DEF InsertOf, OpsOf, FeedInv, LogInv, InsertFirst
<1>2. k \in InsertOf(e)
  BY <1>0 DEF InsertOf, OpsOf
<1>3. ParentOf(e) = log[k].parent
  BY <1>1, <1>2 DEF ParentOf
<1>4. log[i].op_type = "insert" => i = k
  BY <1>1 DEF InsertOf, OpsOf
<1> QED
  BY <1>0, <1>3, <1>4

(* What one more row changes: n is later than all of G.                    *)
LEMMA AddedDelete ==
  ASSUME FeedInv, NEW n \in 1..Len(log), NEW G \in SUBSET (1..(n - 1)),
         NEW H, H = G \union {n}, NEW x
  PROVE  /\ \A i \in G :
              DeletedIn(H, x, i) <=> \/ DeletedIn(G, x, i)
                                     \/ log[n].entity_id = x /\ log[n].op_type = "delete"
         /\ ~DeletedIn(H, x, n)
<1>1. n \in Nat /\ ~(n > n) /\ \A i \in G : n > i /\ ~(i > n)
  BY DEF FeedInv, TypeOK
<1> QED
  BY <1>1, Zenon DEF DeletedIn

LEMMA AddedShown ==
  ASSUME FeedInv, NEW n \in 1..Len(log), NEW G \in SUBSET (1..(n - 1)),
         NEW H, H = G \union {n}, NEW x
  PROVE  Latest(ShownIn(H, x)) = IF log[n].entity_id = x /\ log[n].op_type # "delete"
                                 THEN n ELSE Latest(ShownIn(G, x))
<1>1. CASE log[n].entity_id = x /\ log[n].op_type # "delete"
  <2>1. ShownIn(H, x) = ShownIn(G, x) \union {n} /\ ShownIn(G, x) \in SUBSET (1..(n - 1))
    BY <1>1 DEF ShownIn
  <2>2. n \in Nat
    BY DEF FeedInv, TypeOK
  <2>3. Latest(ShownIn(G, x) \union {n}) = n
    BY <2>1, <2>2, LatestAdded
  <2> QED
    BY <1>1, <2>1, <2>3
<1>2. CASE ~(log[n].entity_id = x /\ log[n].op_type # "delete")
  <2>1. ShownIn(H, x) = ShownIn(G, x)
    BY <1>2 DEF ShownIn
  <2> QED
    BY <1>2, <2>1
<1> QED
  BY <1>1, <1>2

(* The kind of a row's entity, from its type.                              *)
LEMMA KindOf ==
  ASSUME FeedInv, NEW i \in 1..Len(log)
  PROVE  /\ log[i].entity_type \in {"thread", "post", "reaction"}
         /\ log[i].op_type \in {"insert", "update", "delete"}
         /\ log[i].entity_type = "thread" <=> log[i].entity_id \in Threads
         /\ log[i].entity_type = "post" <=> log[i].entity_id \in Posts
         /\ log[i].entity_type = "reaction" <=> log[i].entity_id \in Reactions
<1>1. log[i] \in Op
  BY DEF FeedInv, TypeOK
<1>2. /\ log[i].entity_type \in {"thread", "post", "reaction"}
      /\ log[i].op_type \in {"insert", "update", "delete"}
  BY <1>1 DEF Op
<1> QED
  BY <1>2, IdsAssumption DEF FeedInv, LogInv, Kinds

(* The members of each map after one more row.                             *)
LEMMA ThreadsAdded ==
  ASSUME FeedInv, NEW n \in 1..Len(log), NEW G \in SUBSET (1..(n - 1)),
         NEW H, H = G \union {n}
  PROVE  ThreadsIn(H) =
           IF log[n].entity_type = "thread"
           THEN CASE log[n].op_type = "insert" -> ThreadsIn(G) \union {log[n].entity_id}
                  [] log[n].op_type = "update" -> ThreadsIn(G)
                  [] log[n].op_type = "delete" -> ThreadsIn(G) \ {log[n].entity_id}
           ELSE ThreadsIn(G)
<1> DEFINE e == log[n].entity_id
<1>0. n \notin G
  OBVIOUS
<1>1. ASSUME NEW t \in Threads
      PROVE  t \in ThreadsIn(H) <=> \/ t \in ThreadsIn(G) /\ ~(e = t /\ log[n].op_type = "delete")
                                    \/ t = e /\ log[n].op_type = "insert"
  <2>1. ASSUME NEW i \in G
        PROVE  DeletedIn(H, t, i) <=> \/ DeletedIn(G, t, i)
                                      \/ e = t /\ log[n].op_type = "delete"
    BY AddedDelete
  <2>2. ~DeletedIn(H, t, n)
    BY AddedDelete
  <2> QED
    BY <2>1, <2>2 DEF ThreadsIn
<1>2. ThreadsIn(H) \subseteq Threads /\ ThreadsIn(G) \subseteq Threads
  BY DEF ThreadsIn
<1>3. /\ log[n].op_type \in {"insert", "update", "delete"}
      /\ log[n].entity_type = "thread" <=> e \in Threads
  BY KindOf
<1> HIDE DEF e
<1>4. CASE log[n].entity_type # "thread"
  BY <1>1, <1>2, <1>3, <1>4
<1>5. CASE log[n].entity_type = "thread" /\ log[n].op_type = "insert"
  BY <1>1, <1>2, <1>3, <1>5 DEF e
<1>6. CASE log[n].entity_type = "thread" /\ log[n].op_type = "update"
  BY <1>1, <1>2, <1>3, <1>6
<1>7. CASE log[n].entity_type = "thread" /\ log[n].op_type = "delete"
  BY <1>1, <1>2, <1>3, <1>7 DEF e
<1> QED
  BY <1>3, <1>4, <1>5, <1>6, <1>7

LEMMA PostsAdded ==
  ASSUME FeedInv, NEW n \in 1..Len(log), NEW G \in SUBSET (1..(n - 1)),
         NEW H, H = G \union {n}
  PROVE  PostsIn(H) =
           IF log[n].entity_type = "thread" /\ log[n].op_type = "delete"
           THEN {p \in PostsIn(G) : ParentOf(p) # log[n].entity_id}
           ELSE IF log[n].entity_type = "post"
           THEN CASE log[n].op_type = "insert" -> PostsIn(G) \union {log[n].entity_id}
                  [] log[n].op_type = "update" -> PostsIn(G)
                  [] log[n].op_type = "delete" -> PostsIn(G) \ {log[n].entity_id}
           ELSE PostsIn(G)
<1> DEFINE e == log[n].entity_id
<1>1. ASSUME NEW p \in Posts
      PROVE  p \in PostsIn(H) <=>
               \/ p \in PostsIn(G) /\ ~(log[n].op_type = "delete" /\ e \in {p, ParentOf(p)})
               \/ p = e /\ log[n].op_type = "insert"
  <2>1. ASSUME NEW i \in G, NEW x
        PROVE  DeletedIn(H, x, i) <=> \/ DeletedIn(G, x, i)
                                      \/ e = x /\ log[n].op_type = "delete"
    BY AddedDelete
  <2>2. \A x : ~DeletedIn(H, x, n)
    BY AddedDelete
  <2> QED
    BY <2>1, <2>2 DEF PostsIn
<1>2. PostsIn(H) \subseteq Posts /\ PostsIn(G) \subseteq Posts
  BY DEF PostsIn
<1>3. ASSUME NEW p \in PostsIn(G)
      PROVE  ParentOf(p) \in Threads
  <2>1. PICK i \in G : log[i].entity_id = p /\ log[i].op_type = "insert"
    BY DEF PostsIn
  <2>2. i \in 1..Len(log)
    BY DEF FeedInv, TypeOK
  <2>3. log[i].parent \in Threads
    BY <1>2, <2>1, <2>2, KindOf DEF FeedInv, LogInv, Kinds
  <2> QED
    BY <2>1, <2>2, <2>3, ParentOfInsert
<1>4. /\ log[n].op_type \in {"insert", "update", "delete"}
      /\ log[n].entity_type \in {"thread", "post", "reaction"}
      /\ log[n].entity_type = "thread" <=> e \in Threads
      /\ log[n].entity_type = "post" <=> e \in Posts
      /\ log[n].entity_type = "reaction" <=> e \in Reactions
  BY KindOf
<1>5. CASE log[n].entity_type = "thread"
  <2>1. e \notin Posts
    BY <1>4, <1>5
  <2> HIDE DEF e
  <2>2. CASE log[n].op_type = "delete"
    <3>1. PostsIn(H) = {p \in PostsIn(G) : ParentOf(p) # e}
      BY <1>1, <1>2, <2>1, <2>2
    <3> QED
      BY <3>1, <1>5, <2>2 DEF e
  <2>3. CASE log[n].op_type # "delete"
    <3>1. PostsIn(H) = PostsIn(G)
      BY <1>1, <1>2, <2>1, <2>3
    <3> QED
      BY <3>1, <1>5, <2>3
  <2> QED
    BY <2>2, <2>3
<1>6. CASE log[n].entity_type = "post"
  <2>1. e \in Posts /\ e \notin Threads
    BY <1>4, <1>6
  <2>2. \A p \in PostsIn(G) : e # ParentOf(p)
    BY <1>3, <2>1
  <2> HIDE DEF e
  <2>3. CASE log[n].op_type = "insert"
    <3>1. PostsIn(H) = PostsIn(G) \union {e}
      BY <1>1, <1>2, <2>1, <2>3
    <3> QED
      BY <3>1, <1>6, <2>3 DEF e
  <2>4. CASE log[n].op_type = "update"
    <3>1. PostsIn(H) = PostsIn(G)
      BY <1>1, <1>2, <2>4
    <3> QED
      BY <3>1, <1>6, <2>4
  <2>5. CASE log[n].op_type = "delete"
    <3>1. PostsIn(H) = PostsIn(G) \ {e}
      BY <1>1, <1>2, <2>2, <2>5
    <3> QED
      BY <3>1, <1>6, <2>5 DEF e
  <2> QED
    BY <1>4, <2>3, <2>4, <2>5
<1>7. CASE log[n].entity_type = "reaction"
  <2>1. e \notin Posts /\ e \notin Threads
    BY <1>4, <1>7
  <2>2. \A p \in PostsIn(G) : e # ParentOf(p)
    BY <1>3, <2>1
  <2> HIDE DEF e
  <2>3. \A p \in Posts : p \in PostsIn(H) <=> p \in PostsIn(G)
    BY <1>1, <2>1, <2>2
  <2>4. PostsIn(H) = PostsIn(G)
    BY <1>2, <2>3
  <2> QED
    BY <2>4, <1>7
<1> QED
  BY <1>4, <1>5, <1>6, <1>7

LEMMA ReactionsAdded ==
  ASSUME FeedInv, NEW n \in 1..Len(log), NEW G \in SUBSET (1..(n - 1)),
         NEW H, H = G \union {n}
  PROVE  ReactionsIn(H) =
           IF log[n].entity_type = "reaction"
           THEN IF log[n].op_type = "delete" THEN ReactionsIn(G) \ {log[n].entity_id}
                ELSE ReactionsIn(G) \union {log[n].entity_id}
           ELSE ReactionsIn(G)
<1> DEFINE e == log[n].entity_id
<1>1. ASSUME NEW r \in Reactions
      PROVE  r \in ReactionsIn(H) <=>
               \/ r \in ReactionsIn(G) /\ ~(e = r /\ log[n].op_type = "delete")
               \/ r = e /\ log[n].op_type # "delete"
  <2>1. ASSUME NEW i \in G
        PROVE  DeletedIn(H, r, i) <=> \/ DeletedIn(G, r, i)
                                      \/ e = r /\ log[n].op_type = "delete"
    BY AddedDelete
  <2>2. ~DeletedIn(H, r, n)
    BY AddedDelete
  <2> QED
    BY <2>1, <2>2 DEF ReactionsIn
<1>2. ReactionsIn(H) \subseteq Reactions /\ ReactionsIn(G) \subseteq Reactions
  BY DEF ReactionsIn
<1>3. log[n].entity_type = "reaction" <=> e \in Reactions
  BY KindOf
<1> HIDE DEF e
<1>4. ReactionsIn(H) =
           IF log[n].entity_type = "reaction"
           THEN IF log[n].op_type = "delete" THEN ReactionsIn(G) \ {e}
                ELSE ReactionsIn(G) \union {e}
           ELSE ReactionsIn(G)
  BY <1>1, <1>2, <1>3
<1> QED
  BY <1>4 DEF e

(* Each map after one more row is what the fold makes of it.               *)
LEMMA ThreadMapAdded ==
  ASSUME FeedInv, NEW n \in 1..Len(log), NEW G \in SUBSET (1..(n - 1)),
         NEW H, H = G \union {n}
  PROVE  LET e == log[n].entity_id
             f == ThreadMap(G)
         IN  /\ log[n].entity_type # "thread" => ThreadMap(H) = f
             /\ log[n].entity_type = "thread" =>
                  /\ log[n].op_type = "insert" => ThreadMap(H) = Put(f, e, n)
                  /\ log[n].op_type = "update" =>
                       ThreadMap(H) = IF e \in DOMAIN f THEN [f EXCEPT ![e] = n] ELSE f
                  /\ log[n].op_type = "delete" => ThreadMap(H) = Drop(f, {e})
<1> DEFINE e == log[n].entity_id
           f == ThreadMap(G)
           h == ThreadMap(H)
           op == log[n].op_type
<1>1. /\ f = [t \in ThreadsIn(G) |-> Latest(ShownIn(G, t))] /\ DOMAIN f = ThreadsIn(G)
      /\ h = [t \in ThreadsIn(H) |-> Latest(ShownIn(H, t))] /\ DOMAIN h = ThreadsIn(H)
  BY DEF ThreadMap
<1>2. \A t : Latest(ShownIn(H, t)) = IF e = t /\ op # "delete" THEN n ELSE Latest(ShownIn(G, t))
  BY AddedShown
<1>3. ThreadsIn(H) =
           IF log[n].entity_type = "thread"
           THEN CASE op = "insert" -> ThreadsIn(G) \union {e}
                  [] op = "update" -> ThreadsIn(G)
                  [] op = "delete" -> ThreadsIn(G) \ {e}
           ELSE ThreadsIn(G)
  BY ThreadsAdded
<1>4. log[n].entity_type = "thread" <=> e \in Threads
  BY KindOf
<1>5. ThreadsIn(G) \subseteq Threads
  BY DEF ThreadsIn
<1> HIDE DEF e, f, h, op
<1>6. CASE log[n].entity_type # "thread"
  <2>1. ThreadsIn(H) = ThreadsIn(G) /\ e \notin ThreadsIn(G)
    BY <1>3, <1>4, <1>5, <1>6
  <2>2. \A t \in ThreadsIn(G) : Latest(ShownIn(H, t)) = Latest(ShownIn(G, t))
    BY <1>2, <2>1
  <2>3. h = f
    BY <1>1, <2>1, <2>2
  <2> QED
    BY <2>3, <1>6 DEF f, h
<1>7. CASE log[n].entity_type = "thread" /\ op = "insert"
  <2>1. ThreadsIn(H) = ThreadsIn(G) \union {e}
    BY <1>3, <1>7
  <2>2. h = Put(f, e, n)
    BY <1>1, <1>2, <1>7, <2>1 DEF Put
  <2> QED
    BY <2>2, <1>7 DEF e, f, h, op
<1>8. CASE log[n].entity_type = "thread" /\ op = "update"
  <2>1. ThreadsIn(H) = ThreadsIn(G)
    BY <1>3, <1>8
  <2>2. h = IF e \in DOMAIN f THEN [f EXCEPT ![e] = n] ELSE f
    BY <1>1, <1>2, <1>8, <2>1
  <2> QED
    BY <2>2, <1>8 DEF e, f, h, op
<1>9. CASE log[n].entity_type = "thread" /\ op = "delete"
  <2>1. ThreadsIn(H) = ThreadsIn(G) \ {e}
    BY <1>3, <1>9
  <2>2. h = Drop(f, {e})
    BY <1>1, <1>2, <1>9, <2>1 DEF Drop
  <2> QED
    BY <2>2, <1>9 DEF e, f, h, op
<1> QED
  BY <1>6, <1>7, <1>8, <1>9 DEF op

LEMMA PostMapAdded ==
  ASSUME FeedInv, NEW n \in 1..Len(log), NEW G \in SUBSET (1..(n - 1)),
         NEW H, H = G \union {n}
  PROVE  LET e == log[n].entity_id
             f == PostMap(G)
         IN  /\ log[n].entity_type = "thread" =>
                  PostMap(H) = IF log[n].op_type = "delete"
                               THEN Drop(f, {p \in DOMAIN f : f[p].thread = e}) ELSE f
             /\ log[n].entity_type = "post" =>
                  /\ log[n].op_type = "insert" =>
                       PostMap(H) = Put(f, e, [thread |-> log[n].parent, revision |-> n])
                  /\ log[n].op_type = "update" =>
                       PostMap(H) = IF e \in DOMAIN f THEN [f EXCEPT ![e].revision = n] ELSE f
                  /\ log[n].op_type = "delete" => PostMap(H) = Drop(f, {e})
             /\ log[n].entity_type = "reaction" => PostMap(H) = f
<1> DEFINE e == log[n].entity_id
           f == PostMap(G)
           h == PostMap(H)
           op == log[n].op_type
           type == log[n].entity_type
<1>1. /\ f = [p \in PostsIn(G) |-> [thread |-> ParentOf(p), revision |-> Latest(ShownIn(G, p))]]
      /\ h = [p \in PostsIn(H) |-> [thread |-> ParentOf(p), revision |-> Latest(ShownIn(H, p))]]
      /\ DOMAIN f = PostsIn(G) /\ DOMAIN h = PostsIn(H)
  BY DEF PostMap
<1>2. \A p : Latest(ShownIn(H, p)) = IF e = p /\ op # "delete" THEN n ELSE Latest(ShownIn(G, p))
  BY AddedShown
<1>3. PostsIn(H) =
           IF type = "thread" /\ op = "delete" THEN {p \in PostsIn(G) : ParentOf(p) # e}
           ELSE IF type = "post"
           THEN CASE op = "insert" -> PostsIn(G) \union {e}
                  [] op = "update" -> PostsIn(G)
                  [] op = "delete" -> PostsIn(G) \ {e}
           ELSE PostsIn(G)
  BY PostsAdded
<1>4. type = "post" <=> e \in Posts
  BY KindOf
<1>5. PostsIn(G) \subseteq Posts
  BY DEF PostsIn
<1>6. type = "post" /\ op = "insert" => ParentOf(e) = log[n].parent
  BY ParentOfInsert
<1> HIDE DEF e, f, h, op, type
<1>7. CASE type # "post" /\ ~(type = "thread" /\ op = "delete")
  <2>1. PostsIn(H) = PostsIn(G) /\ e \notin PostsIn(G)
    BY <1>3, <1>4, <1>5, <1>7
  <2>2. \A p \in PostsIn(G) : Latest(ShownIn(H, p)) = Latest(ShownIn(G, p))
    BY <1>2, <2>1
  <2>3. h = f
    BY <1>1, <2>1, <2>2
  <2> QED
    BY <2>3, <1>7 DEF e, f, h, op, type
<1>8. CASE type = "thread" /\ op = "delete"
  <2> DEFINE K == {p \in DOMAIN f : f[p].thread = e}
  <2>1. PostsIn(H) = {p \in PostsIn(G) : ParentOf(p) # e}
    BY <1>3, <1>8
  <2>2. \A p \in PostsIn(G) : Latest(ShownIn(H, p)) = Latest(ShownIn(G, p))
    BY <1>2, <1>8
  <2>3. PostsIn(H) = DOMAIN f \ K
    BY <1>1, <2>1
  <2>4. h = [p \in DOMAIN f \ K |-> f[p]]
    BY <1>1, <2>1, <2>2, <2>3
  <2>5. h = Drop(f, K)
    BY <2>4 DEF Drop
  <2> QED
    BY <2>5, <1>8 DEF e, f, h, op, type
<1>9. CASE type = "post" /\ op = "insert"
  <2>1. PostsIn(H) = PostsIn(G) \union {e}
    BY <1>3, <1>9
  <2>2. h = Put(f, e, [thread |-> log[n].parent, revision |-> n])
    BY <1>1, <1>2, <1>6, <1>9, <2>1 DEF Put
  <2> QED
    BY <2>2, <1>9 DEF e, f, h, op, type
<1>10. CASE type = "post" /\ op = "update"
  <2>1. PostsIn(H) = PostsIn(G)
    BY <1>3, <1>10
  <2>2. h = IF e \in DOMAIN f THEN [f EXCEPT ![e].revision = n] ELSE f
    <3>1. CASE e \in PostsIn(G)
      <4>1. [f[e] EXCEPT !.revision = n] = [thread |-> ParentOf(e), revision |-> n]
        BY <1>1, <3>1
      <4>2. h = [f EXCEPT ![e] = [thread |-> ParentOf(e), revision |-> n]]
        BY <1>1, <1>2, <1>10, <2>1, <3>1
      <4> QED
        BY <4>1, <4>2, <3>1, <1>1
    <3>2. CASE e \notin PostsIn(G)
      BY <1>1, <1>2, <2>1, <3>2
    <3> QED
      BY <3>1, <3>2
  <2> QED
    BY <2>2, <1>10 DEF e, f, h, op, type
<1>11. CASE type = "post" /\ op = "delete"
  <2>1. PostsIn(H) = PostsIn(G) \ {e}
    BY <1>3, <1>11
  <2>2. h = Drop(f, {e})
    BY <1>1, <1>2, <1>11, <2>1 DEF Drop
  <2> QED
    BY <2>2, <1>11 DEF e, f, h, op, type
<1>12. op \in {"insert", "update", "delete"}
  BY KindOf DEF op
<1> QED
  BY <1>7, <1>8, <1>9, <1>10, <1>11, <1>12

LEMMA ReactionMapAdded ==
  ASSUME FeedInv, NEW n \in 1..Len(log), NEW G \in SUBSET (1..(n - 1)),
         NEW H, H = G \union {n}
  PROVE  LET e == log[n].entity_id
             f == ReactionMap(G)
         IN  /\ log[n].entity_type # "reaction" => ReactionMap(H) = f
             /\ log[n].entity_type = "reaction" =>
                  ReactionMap(H) = IF log[n].op_type = "delete" THEN Drop(f, {e})
                                   ELSE Put(f, e, log[n].parent)
<1>1. ReactionsIn(H) =
           IF log[n].entity_type = "reaction"
           THEN IF log[n].op_type = "delete" THEN ReactionsIn(G) \ {log[n].entity_id}
                ELSE ReactionsIn(G) \union {log[n].entity_id}
           ELSE ReactionsIn(G)
  BY ReactionsAdded
<1>2. log[n].entity_type = "reaction" => ParentOf(log[n].entity_id) = log[n].parent
  BY ParentOfInsert
<1> QED
  BY <1>1, <1>2 DEF ReactionMap, Put, Drop

(* Folding the next row into the closed form gives the closed form.        *)
LEMMA FoldStep ==
  ASSUME FeedInv, NEW n \in 1..Len(log), NEW G \in SUBSET (1..(n - 1)),
         NEW H, H = G \union {n}
  PROVE  FoldItem(MapsOf(G), n) = MapsOf(H)
<1> DEFINE e == log[n].entity_id
           op == log[n].op_type
           type == log[n].entity_type
           m == MapsOf(G)
<1>0. /\ type \in {"thread", "post", "reaction"}
      /\ op \in {"insert", "update", "delete"}
  BY KindOf
<1>1. /\ m = [posts |-> PostMap(G), reactions |-> ReactionMap(G), threads |-> ThreadMap(G)]
      /\ MapsOf(H) = [posts |-> PostMap(H), reactions |-> ReactionMap(H),
                      threads |-> ThreadMap(H)]
  BY DEF MapsOf
<1>t. /\ type # "thread" => ThreadMap(H) = ThreadMap(G)
      /\ type = "thread" =>
           /\ op = "insert" => ThreadMap(H) = Put(ThreadMap(G), e, n)
           /\ op = "update" => ThreadMap(H) = IF e \in DOMAIN ThreadMap(G)
                                              THEN [ThreadMap(G) EXCEPT ![e] = n]
                                              ELSE ThreadMap(G)
           /\ op = "delete" => ThreadMap(H) = Drop(ThreadMap(G), {e})
  BY ThreadMapAdded
<1>p. /\ type = "thread" =>
           PostMap(H) = IF op = "delete"
                        THEN Drop(PostMap(G), {p \in DOMAIN PostMap(G) : PostMap(G)[p].thread = e})
                        ELSE PostMap(G)
      /\ type = "post" =>
           /\ op = "insert" =>
                PostMap(H) = Put(PostMap(G), e, [thread |-> log[n].parent, revision |-> n])
           /\ op = "update" => PostMap(H) = IF e \in DOMAIN PostMap(G)
                                            THEN [PostMap(G) EXCEPT ![e].revision = n]
                                            ELSE PostMap(G)
           /\ op = "delete" => PostMap(H) = Drop(PostMap(G), {e})
      /\ type = "reaction" => PostMap(H) = PostMap(G)
  BY PostMapAdded
<1>r. /\ type # "reaction" => ReactionMap(H) = ReactionMap(G)
      /\ type = "reaction" =>
           ReactionMap(H) = IF op = "delete" THEN Drop(ReactionMap(G), {e})
                            ELSE Put(ReactionMap(G), e, log[n].parent)
  BY ReactionMapAdded
<1>m. /\ m.threads = ThreadMap(G) /\ m.posts = PostMap(G) /\ m.reactions = ReactionMap(G)
  BY <1>1
<1> SUFFICES FoldItem(m, n) = MapsOf(H)
  OBVIOUS
<1>mt. ASSUME NEW x
       PROVE  [m EXCEPT !.threads = x]
                = [posts |-> PostMap(G), reactions |-> ReactionMap(G), threads |-> x]
  BY <1>1
<1>mp. ASSUME NEW x
       PROVE  [m EXCEPT !.posts = x]
                = [posts |-> x, reactions |-> ReactionMap(G), threads |-> ThreadMap(G)]
  BY <1>1
<1>mr. ASSUME NEW x
       PROVE  [m EXCEPT !.reactions = x]
                = [posts |-> PostMap(G), reactions |-> x, threads |-> ThreadMap(G)]
  BY <1>1
<1>mm. ASSUME NEW x, NEW y
       PROVE  [m EXCEPT !.threads = x, !.posts = y]
                = [posts |-> y, reactions |-> ReactionMap(G), threads |-> x]
  <2>1. [m EXCEPT !.threads = x, !.posts = y] = [[m EXCEPT !.threads = x] EXCEPT !.posts = y]
    OBVIOUS
  <2>2. [[posts |-> PostMap(G), reactions |-> ReactionMap(G), threads |-> x] EXCEPT !.posts = y]
          = [posts |-> y, reactions |-> ReactionMap(G), threads |-> x]
    OBVIOUS
  <2> QED
    BY <1>mt, <2>1, <2>2
<1> HIDE DEF m, e, op, type
<1>2. CASE type = "thread"
  <2>0. FoldItem(m, n) = FoldThread(m, n)
    BY <1>2 DEF FoldItem, e, op, type
  <2>1. CASE op = "insert"
    <3>1. FoldThread(m, n) = [m EXCEPT !.threads = Put(m.threads, e, n)]
      BY <2>1 DEF FoldThread, e, op, type
    <3> QED
      BY <1>2, <2>0, <2>1, <3>1, <1>1, <1>m, <1>mt, <1>t, <1>p, <1>r
  <2>2. CASE op = "update"
    <3>1. FoldThread(m, n) = IF e \in DOMAIN m.threads
                             THEN [m EXCEPT !.threads = [m.threads EXCEPT ![e] = n]] ELSE m
      BY <2>2 DEF FoldThread, e, op, type
    <3> QED
      BY <1>2, <2>0, <2>2, <3>1, <1>1, <1>m, <1>mt, <1>t, <1>p, <1>r, ZenonT(40)
  <2>3. CASE op = "delete"
    <3> DEFINE x == Drop(ThreadMap(G), {e})
               y == Drop(PostMap(G), {p \in DOMAIN PostMap(G) : PostMap(G)[p].thread = e})
    <3>1. FoldThread(m, n) = [m EXCEPT !.threads = x, !.posts = y]
      BY <2>3, <1>m DEF FoldThread, e, op, type
    <3>2. ThreadMap(H) = x /\ PostMap(H) = y /\ ReactionMap(H) = ReactionMap(G)
      BY <1>2, <2>3, <1>t, <1>p, <1>r
    <3> HIDE DEF x, y
    <3> QED
      BY <2>0, <3>1, <3>2, <1>1, <1>mm
  <2> QED
    BY <1>0, <2>1, <2>2, <2>3
<1>3. CASE type = "post"
  <2>0. FoldItem(m, n) = FoldPost(m, n)
    BY <1>3 DEF FoldItem, e, op, type
  <2>1. CASE op = "insert"
    <3>1. FoldPost(m, n) =
            [m EXCEPT !.posts = Put(m.posts, e, [thread |-> log[n].parent, revision |-> n])]
      BY <2>1 DEF FoldPost, e, op, type
    <3> QED
      BY <1>3, <2>0, <2>1, <3>1, <1>1, <1>m, <1>mp, <1>t, <1>p, <1>r
  <2>2. CASE op = "update"
    <3>1. FoldPost(m, n) =
            IF e \in DOMAIN m.posts THEN [m EXCEPT !.posts = [m.posts EXCEPT ![e].revision = n]] ELSE m
      BY <2>2 DEF FoldPost, e, op, type
    <3> QED
      BY <1>3, <2>0, <2>2, <3>1, <1>1, <1>m, <1>mp, <1>t, <1>p, <1>r, ZenonT(40)
  <2>3. CASE op = "delete"
    <3>1. FoldPost(m, n) = [m EXCEPT !.posts = Drop(m.posts, {e})]
      BY <2>3 DEF FoldPost, e, op, type
    <3> QED
      BY <1>3, <2>0, <2>3, <3>1, <1>1, <1>m, <1>mp, <1>t, <1>p, <1>r
  <2> QED
    BY <1>0, <2>1, <2>2, <2>3
<1>4. CASE type = "reaction"
  <2>0. FoldItem(m, n) = FoldReaction(m, n)
    BY <1>4 DEF FoldItem, e, op, type
  <2>1. FoldReaction(m, n) = IF op = "delete" THEN [m EXCEPT !.reactions = Drop(m.reactions, {e})]
                             ELSE [m EXCEPT !.reactions = Put(m.reactions, e, log[n].parent)]
    BY DEF FoldReaction, e, op, type
  <2> QED
    BY <1>4, <2>0, <2>1, <1>1, <1>m, <1>mr, <1>t, <1>p, <1>r
<1> QED
  BY <1>0, <1>2, <1>3, <1>4

(* The rows of a feed up to n.                                             *)
LEMMA FeedPrefix ==
  ASSUME NEW N \in Nat, NEW feed \in SUBSET (1..N)
  PROVE  /\ {i \in feed : i <= 0} = {}
         /\ {i \in feed : i <= N} = feed
         /\ \A n \in 1..N :
              /\ {i \in feed : i <= n - 1} \in SUBSET (1..(n - 1))
              /\ {i \in feed : i <= n} =
                   IF n \in feed THEN {i \in feed : i <= n - 1} \union {n}
                   ELSE {i \in feed : i <= n - 1}
<1>0. \A i \in feed : i \in Nat /\ i > 0 /\ ~(i <= 0) /\ i <= N
  OBVIOUS
<1>1. {i \in feed : i <= 0} = {} /\ {i \in feed : i <= N} = feed
  BY <1>0, Zenon
<1>2. ASSUME NEW n \in 1..N
      PROVE  /\ {i \in feed : i <= n - 1} \in SUBSET (1..(n - 1))
             /\ {i \in feed : i <= n} =
                  IF n \in feed THEN {i \in feed : i <= n - 1} \union {n}
                  ELSE {i \in feed : i <= n - 1}
  <2>1. \A i \in feed : i <= n - 1 => i \in 1..(n - 1)
    BY <1>0
  <2>2. n <= n /\ \A i \in feed : i <= n <=> i <= n - 1 \/ i = n
    BY <1>0
  <2> QED
    BY <2>1, <2>2, Zenon
<1> QED
  BY <1>1, <1>2

(* The maps buildThreadsFromFeed fills from any feed are the closed form:  *)
(* they depend on which rows are served and not on how they are folded.    *)
THEOREM FoldClosedForm ==
  ASSUME FeedInv, NEW feed \in SUBSET (1..Len(log))
  PROVE  FoldItems(feed) = MapsOf(feed)
<1> DEFINE N == Len(log)
           Upto(n) == {i \in feed : i <= n}
           C(n) == MapsOf(Upto(n))
           c == [n \in 0..N |-> C(n)]
           Fold(g) == [n \in 0..N |->
                         IF n = 0 THEN EmptyMaps
                         ELSE IF n \in feed THEN FoldItem(g[n - 1], n) ELSE g[n - 1]]
           f == CHOOSE g : g = Fold(g)
<1>0. N \in Nat
  BY DEF FeedInv, TypeOK
<1>1. FoldItems(feed) = f[N]
  BY DEF FoldItems, OrderedItems
<1>u. /\ Upto(0) = {} /\ Upto(N) = feed
      /\ \A n \in 1..N : /\ Upto(n - 1) \in SUBSET (1..(n - 1))
                          /\ Upto(n) = IF n \in feed THEN Upto(n - 1) \union {n} ELSE Upto(n - 1)
  BY <1>0, FeedPrefix
<1> HIDE DEF Upto
<1>2. C(0) = EmptyMaps
  <2>1. Upto(0) = {}
    BY <1>u
  <2>2. ThreadsIn({}) = {} /\ PostsIn({}) = {} /\ ReactionsIn({}) = {}
    BY DEF ThreadsIn, PostsIn, ReactionsIn
  <2>3. ThreadMap({}) = EmptyMap /\ PostMap({}) = EmptyMap /\ ReactionMap({}) = EmptyMap
    BY <2>2 DEF ThreadMap, PostMap, ReactionMap, EmptyMap
  <2> QED
    BY <2>1, <2>3 DEF MapsOf, EmptyMaps
<1>3. ASSUME NEW n \in 1..N
      PROVE  C(n) = IF n \in feed THEN FoldItem(C(n - 1), n) ELSE C(n - 1)
  <2>1. CASE n \notin feed
    BY <2>1, <1>u
  <2>2. CASE n \in feed
    BY <2>2, <1>u, FoldStep
  <2> QED
    BY <2>1, <2>2
<1> HIDE DEF C
<1>4. c = Fold(c)
  <2>1. ASSUME NEW n \in 0..N
        PROVE  C(n) = IF n = 0 THEN EmptyMaps
                      ELSE IF n \in feed THEN FoldItem(c[n - 1], n) ELSE c[n - 1]
    <3>1. CASE n = 0
      BY <3>1, <1>2
    <3>2. CASE n # 0
      <4>1. n \in 1..N /\ n - 1 \in 0..N
        BY <1>0, <3>2
      <4>2. c[n - 1] = C(n - 1)
        BY <4>1
      <4> HIDE DEF c
      <4> QED
        BY <3>2, <4>1, <4>2, <1>3
    <3> QED
      BY <3>1, <3>2
  <2> QED
    BY <2>1
<1>5. f = Fold(f)
  <2> HIDE DEF Fold, c
  <2> QED
    BY <1>4
<1>6. \A n \in 0..N : f[n] = C(n)
  <2> DEFINE T == {n \in 0..N : f[n] = C(n)}
  <2> HIDE DEF f
  <2>1. 0 \in T
    <3>1. f[0] = EmptyMaps
      BY <1>0, <1>5
    <3> QED
      BY <1>0, <1>2, <3>1
  <2>2. ASSUME NEW n \in 1..N, n - 1 \in T
        PROVE  n \in T
    <3>1. n \in 0..N /\ n # 0
      BY <1>0
    <3>2. f[n] = IF n \in feed THEN FoldItem(f[n - 1], n) ELSE f[n - 1]
      BY <1>5, <3>1
    <3> QED
      BY <2>2, <3>1, <3>2, <1>3
  <2> HIDE DEF T
  <2>3. \A n \in 0..N : n \in T
    BY <1>0, <2>1, <2>2, IntervalInduction
  <2> QED
    BY <2>3 DEF T
<1>7. N \in 0..N
  BY <1>0
<1> HIDE DEF f
<1> QED
  BY <1>1, <1>6, <1>7, <1>u DEF C

(* The page before moderation.                                             *)
LikesIn(G, e) == Cardinality({r \in ReactionsIn(G) : ParentOf(r) = e})

ThreadIn(G, t) ==
  [revision |-> Latest(ShownIn(G, t)), likes |-> LikesIn(G, t),
   posts |-> [p \in {q \in PostsIn(G) : ParentOf(q) = t} |->
                [revision |-> Latest(ShownIn(G, p)), likes |-> LikesIn(G, p), removed |-> FALSE]],
   locked |-> FALSE]

LEMMA BuiltThreads ==
  ASSUME FeedInv, NEW feed \in SUBSET (1..Len(log))
  PROVE  BuildThreads(feed) = [t \in ThreadsIn(feed) |-> ThreadIn(feed, t)]
<1> DEFINE maps == FoldItems(feed)
           Of(t) == {p \in DOMAIN maps.posts : maps.posts[p].thread = t}
           Listed(t) == [revision |-> maps.threads[t], likes |-> Likes(maps, t),
                         posts |-> [p \in Of(t) |-> [revision |-> maps.posts[p].revision,
                                                     likes |-> Likes(maps, p),
                                                     removed |-> FALSE]],
                         locked |-> FALSE]
<1>1. BuildThreads(feed) = [t \in DOMAIN maps.threads |-> Listed(t)]
  BY DEF BuildThreads
<1>2. /\ maps.threads = ThreadMap(feed) /\ maps.posts = PostMap(feed)
      /\ maps.reactions = ReactionMap(feed)
  BY FoldClosedForm DEF MapsOf
<1>3. DOMAIN maps.threads = ThreadsIn(feed) /\ DOMAIN maps.posts = PostsIn(feed)
  BY <1>2 DEF ThreadMap, PostMap
<1>4. ASSUME NEW e
      PROVE  Likes(maps, e) = LikesIn(feed, e)
  <2>1. {r \in DOMAIN maps.reactions : maps.reactions[r] = e}
          = {r \in ReactionsIn(feed) : ParentOf(r) = e}
    BY <1>2 DEF ReactionMap
  <2> QED
    BY <2>1 DEF Likes, LikesIn
<1>5. \A p \in PostsIn(feed) : /\ maps.posts[p].thread = ParentOf(p)
                               /\ maps.posts[p].revision = Latest(ShownIn(feed, p))
  BY <1>2 DEF PostMap
<1>6. \A t \in ThreadsIn(feed) : maps.threads[t] = Latest(ShownIn(feed, t))
  BY <1>2 DEF ThreadMap
<1> HIDE DEF maps
<1>7. ASSUME NEW t \in ThreadsIn(feed)
      PROVE  Listed(t) = ThreadIn(feed, t)
  <2>1. Of(t) = {q \in PostsIn(feed) : ParentOf(q) = t}
    BY <1>3, <1>5
  <2>2. \A p \in Of(t) : p \in PostsIn(feed)
    BY <2>1
  <2> HIDE DEF Of
  <2>3. [p \in Of(t) |-> [revision |-> maps.posts[p].revision, likes |-> Likes(maps, p),
                          removed |-> FALSE]]
        = [p \in Of(t) |-> [revision |-> Latest(ShownIn(feed, p)), likes |-> LikesIn(feed, p),
                            removed |-> FALSE]]
    BY <1>4, <1>5, <2>2
  <2> QED
    BY <2>1, <2>3, <1>4, <1>6 DEF ThreadIn
<1> HIDE DEF Listed
<1> QED
  BY <1>1, <1>3, <1>7

-----------------------------------------------------------------------------
(* Pages.                                                                  *)

(* What a page shows of a feed: the closed form, marked by moderation.     *)
LEMMA PageShown ==
  ASSUME FeedInv, NEW feed \in SUBSET (1..Len(log)),
         NEW page, page = ApplyModeration(BuildThreads(feed))
  PROVE  /\ DOMAIN page = ThreadsIn(feed)
         /\ \A t \in ThreadsIn(feed) :
              /\ page[t].revision = Latest(ShownIn(feed, t))
              /\ page[t].likes = LikesIn(feed, t)
              /\ page[t].locked = (t \in locked)
              /\ DOMAIN page[t].posts = {p \in PostsIn(feed) : ParentOf(p) = t}
              /\ \A p \in DOMAIN page[t].posts :
                   /\ page[t].posts[p].revision = Latest(ShownIn(feed, p))
                   /\ page[t].posts[p].likes = LikesIn(feed, p)
                   /\ page[t].posts[p].removed = (p \in removed)
<1> DEFINE b == BuildThreads(feed)
           Posts1(t) == [p \in DOMAIN b[t].posts |-> [b[t].posts[p] EXCEPT !.removed = p \in removed]]
           Thread1(t) == [b[t] EXCEPT !.locked = t \in locked, !.posts = Posts1(t)]
<1>1. b = [t \in ThreadsIn(feed) |-> ThreadIn(feed, t)]
  BY BuiltThreads
<1>2. page = [t \in DOMAIN b |-> Thread1(t)]
  BY DEF ApplyModeration
<1> HIDE DEF b
<1>3. ASSUME NEW t \in ThreadsIn(feed)
      PROVE  /\ page[t].revision = Latest(ShownIn(feed, t))
             /\ page[t].likes = LikesIn(feed, t)
             /\ page[t].locked = (t \in locked)
             /\ page[t].posts = Posts1(t)
             /\ b[t].posts = [p \in {q \in PostsIn(feed) : ParentOf(q) = t} |->
                                [revision |-> Latest(ShownIn(feed, p)),
                                 likes |-> LikesIn(feed, p), removed |-> FALSE]]
  <2>1. b[t] = ThreadIn(feed, t) /\ page[t] = Thread1(t)
    BY <1>1, <1>2
  <2> HIDE DEF Posts1
  <2>2. /\ DOMAIN b[t] = {"revision", "likes", "posts", "locked"}
        /\ b[t].revision = Latest(ShownIn(feed, t)) /\ b[t].likes = LikesIn(feed, t)
    BY <2>1 DEF ThreadIn
  <2> QED
    BY <2>1, <2>2 DEF ThreadIn
<1>4. ASSUME NEW t \in ThreadsIn(feed)
      PROVE  /\ DOMAIN page[t].posts = {p \in PostsIn(feed) : ParentOf(p) = t}
             /\ \A p \in DOMAIN page[t].posts :
                   /\ page[t].posts[p].revision = Latest(ShownIn(feed, p))
                   /\ page[t].posts[p].likes = LikesIn(feed, p)
                   /\ page[t].posts[p].removed = (p \in removed)
  <2>1. DOMAIN page[t].posts = {p \in PostsIn(feed) : ParentOf(p) = t}
    BY <1>3
  <2>2. ASSUME NEW p \in DOMAIN page[t].posts
        PROVE  /\ page[t].posts[p].revision = Latest(ShownIn(feed, p))
               /\ page[t].posts[p].likes = LikesIn(feed, p)
               /\ page[t].posts[p].removed = (p \in removed)
    <3> DEFINE S == {q \in PostsIn(feed) : ParentOf(q) = t}
               bp == b[t].posts
    <3>0. bp = [q \in S |-> [revision |-> Latest(ShownIn(feed, q)),
                             likes |-> LikesIn(feed, q), removed |-> FALSE]]
      BY <1>3
    <3>p. page[t].posts = [q \in DOMAIN bp |-> [bp[q] EXCEPT !.removed = q \in removed]]
      BY <1>3
    <3>s. p \in S
      BY <2>1
    <3> HIDE DEF S, bp
    <3>1. bp[p] = [revision |-> Latest(ShownIn(feed, p)),
                   likes |-> LikesIn(feed, p), removed |-> FALSE]
      BY <3>0, <3>s
    <3>2. page[t].posts[p] = [bp[p] EXCEPT !.removed = p \in removed]
      BY <3>0, <3>p, <3>s
    <3> QED
      BY <3>1, <3>2
  <2> QED
    BY <2>1, <2>2
<1>5. DOMAIN page = ThreadsIn(feed)
  BY <1>1, <1>2
<1> QED
  BY <1>3, <1>4, <1>5

LEMMA FeedsAreRows ==
  /\ BoardFeed \in SUBSET BoardRows /\ BoardRows \in SUBSET (1..Len(log))
  /\ BoardFeed \in SUBSET (1..Len(log))
  /\ \A t \in Threads : ThreadFeed(t) \in SUBSET (1..Len(log))
BY DEF BoardFeed, BoardRows, ThreadFeed, ThreadRows

(* A removed reply is masked on every page that shows it, and a locked     *)
(* thread is shown locked, whatever rows the page was built from.          *)
THEOREM ModerationIsShown == Spec => []ModerationShown
<1>1. FeedInv => ModerationShown
  <2> SUFFICES ASSUME FeedInv, NEW feed \in SUBSET (1..Len(log)),
                      NEW page, page = ApplyModeration(BuildThreads(feed)),
                      NEW t \in DOMAIN page
               PROVE  /\ page[t].locked <=> t \in locked
                      /\ \A p \in DOMAIN page[t].posts :
                           page[t].posts[p].removed <=> p \in removed
    BY FeedsAreRows DEF ModerationShown, BoardPage, ThreadPage
  <2>1. t \in ThreadsIn(feed)
    BY PageShown
  <2>2. /\ page[t].locked = (t \in locked)
        /\ \A p \in DOMAIN page[t].posts : page[t].posts[p].removed = (p \in removed)
    BY <2>1, PageShown
  <2> QED
    BY <2>2
<1> QED
  BY <1>1, FeedInvariant, PTL

-----------------------------------------------------------------------------
(* The board feed.                                                         *)

(* The newest rows: with a row, the feed has every later row of the board, *)
(* and while the board fits in a page it has every row.                    *)
LEMMA BoardFeedNewest ==
  ASSUME FeedInv
  PROVE  /\ \A i \in BoardFeed, j \in BoardRows : j > i => j \in BoardFeed
         /\ Cardinality(BoardRows) <= Limit => BoardFeed = BoardRows
<1> DEFINE Later(i) == {j \in BoardRows : j > i}
<1>0. BoardRows \in SUBSET (1..Len(log)) /\ BoardRows \in SUBSET Nat
  BY DEF BoardRows
<1>1. IsFiniteSet(BoardRows) /\ Cardinality(BoardRows) \in Nat
  BY <1>0, RowsFinite
<1>2. \A i : Later(i) \in SUBSET (1..Len(log)) /\ Later(i) \in SUBSET BoardRows
  BY <1>0
<1>3. BoardFeed = {i \in BoardRows : Cardinality(Later(i)) < Limit}
  BY DEF BoardFeed
<1>4. ASSUME NEW i
      PROVE  IsFiniteSet(Later(i)) /\ Cardinality(Later(i)) \in Nat
  <2> HIDE DEF Later
  <2> QED
    BY <1>2, RowsFinite
<1>5. ASSUME NEW i \in BoardFeed, NEW j \in BoardRows, j > i
      PROVE  j \in BoardFeed
  <2>1. i \in BoardRows /\ Cardinality(Later(i)) < Limit
    BY <1>3
  <2>2. Later(j) \subseteq Later(i)
    <3>1. \A k \in BoardRows : k > j => k > i
      BY <1>0, <1>5, <2>1
    <3> QED
      BY <3>1
  <2> HIDE DEF Later
  <2>3. Cardinality(Later(j)) <= Cardinality(Later(i))
    BY <1>4, <2>2, FS_Subset
  <2>4. Cardinality(Later(j)) \in Nat /\ Cardinality(Later(i)) \in Nat
    BY <1>4
  <2>5. Cardinality(Later(j)) < Limit
    BY <2>1, <2>3, <2>4, FeedAssumption
  <2> QED
    BY <1>3, <2>5
<1>6. ASSUME Cardinality(BoardRows) <= Limit, NEW i \in BoardRows
      PROVE  i \in BoardFeed
  <2> DEFINE rest == BoardRows \ {i}
  <2>1. IsFiniteSet(rest) /\ Cardinality(rest) = Cardinality(BoardRows) - 1
    BY <1>1, FS_RemoveElement
  <2>2. Later(i) \subseteq rest
    BY <1>0
  <2> HIDE DEF Later, rest
  <2>3. Cardinality(Later(i)) <= Cardinality(rest)
    BY <2>1, <2>2, FS_Subset
  <2>4. Cardinality(Later(i)) \in Nat
    BY <1>4
  <2>5. Cardinality(Later(i)) < Limit
    BY <1>1, <1>6, <2>1, <2>3, <2>4, FeedAssumption
  <2> QED
    BY <1>3, <2>5
<1> QED
  BY <1>3, <1>5, <1>6

(* No delete is served, so none is folded.                                 *)
LEMMA NothingDeletedIn ==
  ASSUME NEW G \in SUBSET BoardRows, NEW e, NEW i
  PROVE  ~DeletedIn(G, e, i)
BY DEF DeletedIn, BoardRows, Live

(* An insert is on its board, and is served unless its entity was deleted. *)
LEMMA InsertServed ==
  ASSUME FeedInv, NEW i \in 1..Len(log), log[i].op_type = "insert"
  PROVE  i \in BoardRows <=> \A j \in OpsOf(log[i].entity_id) : log[j].op_type # "delete"
<1>1. OnBoard(i)
  BY DEF OnBoard
<1>2. \A j \in OpsOf(log[i].entity_id) : log[j].op_type = "delete" => j > i
  BY DEF OpsOf, FeedInv, TypeOK, LogInv, InsertFirst
<1>3. \A j \in OpsOf(log[i].entity_id) : j \in 1..Len(log)
  BY DEF OpsOf
<1>4. Live(i) <=> \A j \in OpsOf(log[i].entity_id) : log[j].op_type # "delete"
  BY <1>2 DEF Live
<1> QED
  BY <1>1, <1>4 DEF BoardRows

(* The entities whose insert the board serves are the ones not deleted.    *)
LEMMA ServedEntities ==
  ASSUME FeedInv
  PROVE  /\ ThreadsIn(BoardRows) = LiveEntities(Threads)
         /\ PostsIn(BoardRows) = LiveEntities(Posts)
<1>1. \A e, i : ~DeletedIn(BoardRows, e, i)
  BY NothingDeletedIn
<1>2. BoardRows \in SUBSET (1..Len(log))
  BY FeedsAreRows
<1>3. ASSUME NEW e
      PROVE  (\E i \in BoardRows : log[i].entity_id = e /\ log[i].op_type = "insert")
               <=> Inserted(e) /\ \A j \in OpsOf(e) : log[j].op_type # "delete"
  <2>1. \A i \in InsertOf(e) : /\ i \in 1..Len(log) /\ log[i].op_type = "insert"
                               /\ log[i].entity_id = e
    BY DEF InsertOf, OpsOf
  <2>2. ASSUME NEW i \in 1..Len(log), log[i].op_type = "insert", log[i].entity_id = e
        PROVE  i \in InsertOf(e)
    BY <2>2 DEF InsertOf, OpsOf
  <2>3. ASSUME NEW i \in BoardRows, log[i].entity_id = e, log[i].op_type = "insert"
        PROVE  Inserted(e) /\ \A j \in OpsOf(e) : log[j].op_type # "delete"
    BY <1>2, <2>2, <2>3, InsertServed DEF Inserted
  <2>4. ASSUME Inserted(e), \A j \in OpsOf(e) : log[j].op_type # "delete"
        PROVE  \E i \in BoardRows : log[i].entity_id = e /\ log[i].op_type = "insert"
    BY <2>1, <2>4, InsertServed DEF Inserted
  <2> QED
    BY <2>3, <2>4
<1> QED
  BY <1>1, <1>3 DEF ThreadsIn, PostsIn, LiveEntities

(* The greatest row of a nonempty set of rows.                             *)
LEMMA LatestRow ==
  ASSUME FeedInv, NEW S \in SUBSET (1..Len(log)), S # {}
  PROVE  Latest(S) \in S /\ \A j \in S : j <= Latest(S)
<1>1. Len(log) \in Nat
  BY DEF FeedInv, TypeOK
<1>2. S \in SUBSET (0..Len(log))
  BY <1>1
<1>3. \E i \in S : \A j \in S : j <= i
  BY <1>1, <1>2, GreatestElement
<1> QED
  BY <1>3 DEF Latest

(* A reaction is counted while its latest operation is not a delete.       *)
LEMMA ServedReactions ==
  ASSUME FeedInv, NEW r \in Reactions
  PROVE  r \in ReactionsIn(BoardRows) <=>
           Inserted(r) /\ log[Latest(OpsOf(r))].op_type # "delete"
<1>0. OpsOf(r) \in SUBSET (1..Len(log)) /\ BoardRows \in SUBSET (1..Len(log))
  BY FeedsAreRows DEF OpsOf
<1>1. ASSUME r \in ReactionsIn(BoardRows)
      PROVE  Inserted(r) /\ log[Latest(OpsOf(r))].op_type # "delete"
  <2>1. PICK i \in BoardRows : log[i].entity_id = r /\ log[i].op_type # "delete"
    BY <1>1 DEF ReactionsIn
  <2>2. i \in OpsOf(r) /\ Live(i) /\ i \in Nat
    BY <2>1 DEF BoardRows, OpsOf
  <2>3. Inserted(r)
    BY <1>0, <2>1 DEF Inserted, InsertOf, OpsOf, FeedInv, LogInv, HasInsert
  <2> DEFINE k == Latest(OpsOf(r))
  <2>4. k \in OpsOf(r) /\ i <= k
    BY <1>0, <2>2, LatestRow
  <2>5. k \in Nat
    BY <1>0, <2>4
  <2> HIDE DEF k
  <2>6. log[k].op_type # "delete"
    BY <2>1, <2>2, <2>4, <2>5 DEF Live
  <2> QED
    BY <2>3, <2>6 DEF k
<1>2. ASSUME Inserted(r), log[Latest(OpsOf(r))].op_type # "delete"
      PROVE  r \in ReactionsIn(BoardRows)
  <2> DEFINE k == Latest(OpsOf(r))
  <2>1. OpsOf(r) # {}
    BY <1>2 DEF Inserted, InsertOf
  <2>2. k \in OpsOf(r) /\ \A j \in OpsOf(r) : j <= k
    BY <1>0, <2>1, LatestRow
  <2>3. log[k].op_type # "delete"
    BY <1>2
  <2> HIDE DEF k
  <2>4. k \in 1..Len(log) /\ log[k].entity_id = r
    BY <2>2 DEF OpsOf
  <2>5. \A j \in OpsOf(r) : ~(j > k)
    BY <1>0, <2>2, <2>4
  <2>6. OnBoard(k)
    BY <2>4, KindOf DEF OnBoard
  <2>7. k \in BoardRows
    BY <2>3, <2>4, <2>5, <2>6 DEF BoardRows, Live
  <2> QED
    BY <2>3, <2>4, <2>7, NothingDeletedIn DEF ReactionsIn
<1> QED
  BY <1>1, <1>2

(* While the rows of a board fit in one feed page, the page lists the      *)
(* threads and replies that are not deleted and counts the active          *)
(* reactions, for every history of operations from the app and the web.    *)
THEOREM BoardPageMatchesLog == Spec => []PageMatchesLog
<1>1. FeedInv => PageMatchesLog
  <2> DEFINE Active(e) == {r \in Reactions :
                             \E i \in InsertOf(r) : log[i].parent = e
                               /\ log[Latest(OpsOf(r))].op_type # "delete"}
             page == BoardPage
  <2> SUFFICES ASSUME FeedInv, Cardinality(BoardRows) <= Limit
               PROVE  /\ DOMAIN page = LiveEntities(Threads)
                      /\ \A t \in DOMAIN page :
                           /\ DOMAIN page[t].posts =
                                {p \in LiveEntities(Posts) :
                                   \E i \in InsertOf(p) : log[i].parent = t}
                           /\ page[t].likes = Cardinality(Active(t))
                           /\ \A p \in DOMAIN page[t].posts :
                                page[t].posts[p].likes = Cardinality(Active(p))
    BY DEF PageMatchesLog
  <2>1. page = ApplyModeration(BuildThreads(BoardRows))
    BY BoardFeedNewest DEF BoardPage
  <2>2. BoardRows \in SUBSET (1..Len(log))
    BY FeedsAreRows
  <2>3. ASSUME NEW e, NEW x
        PROVE  (\E i \in InsertOf(e) : log[i].parent = x) <=> Inserted(e) /\ ParentOf(e) = x
    <3>1. \A i \in InsertOf(e) : ParentOf(e) = log[i].parent
      BY ParentOfInsert DEF InsertOf, OpsOf
    <3> QED
      BY <3>1 DEF Inserted
  <2>4. ASSUME NEW e
        PROVE  LikesIn(BoardRows, e) = Cardinality(Active(e))
    <3>1. Active(e) = {r \in Reactions : /\ Inserted(r) /\ ParentOf(r) = e
                                         /\ log[Latest(OpsOf(r))].op_type # "delete"}
      BY <2>3
    <3>2. {r \in ReactionsIn(BoardRows) : ParentOf(r) = e} = Active(e)
      BY <3>1, ServedReactions DEF ReactionsIn
    <3> QED
      BY <3>2 DEF LikesIn
  <2> HIDE DEF page, Active
  <2>5. DOMAIN page = LiveEntities(Threads) /\ DOMAIN page = ThreadsIn(BoardRows)
    BY <2>1, <2>2, PageShown, ServedEntities
  <2>6. ASSUME NEW t \in DOMAIN page
        PROVE  /\ DOMAIN page[t].posts =
                     {p \in LiveEntities(Posts) : \E i \in InsertOf(p) : log[i].parent = t}
               /\ page[t].likes = Cardinality(Active(t))
               /\ \A p \in DOMAIN page[t].posts :
                    page[t].posts[p].likes = Cardinality(Active(p))
    <3>1. /\ page[t].likes = LikesIn(BoardRows, t)
          /\ DOMAIN page[t].posts = {p \in PostsIn(BoardRows) : ParentOf(p) = t}
          /\ \A p \in DOMAIN page[t].posts : page[t].posts[p].likes = LikesIn(BoardRows, p)
      BY <2>1, <2>2, <2>5, PageShown
    <3>2. {p \in PostsIn(BoardRows) : ParentOf(p) = t}
            = {p \in LiveEntities(Posts) : \E i \in InsertOf(p) : log[i].parent = t}
      BY <2>3, ServedEntities DEF LiveEntities
    <3> QED
      BY <3>1, <3>2, <2>4
  <2> QED
    BY <2>5, <2>6
<1> QED
  BY <1>1, FeedInvariant, PTL

(* A row that the feed does not have, later than one it has of the same    *)
(* entity, is an edit made in the app.                                     *)
LEMMA HiddenRow ==
  ASSUME FeedInv, NEW e, NEW k \in BoardFeed, log[k].op_type = "insert", log[k].entity_id = e
  PROVE  /\ ShownIn(BoardFeed, e) \in SUBSET (1..Len(log)) /\ k \in ShownIn(BoardFeed, e)
         /\ \A i \in OpsOf(e) : i > Latest(ShownIn(BoardFeed, e)) =>
              log[i].path = "app" /\ log[i].op_type = "update"
<1> DEFINE S == ShownIn(BoardFeed, e)
           rev == Latest(S)
<1>1. S \in SUBSET (1..Len(log)) /\ k \in S /\ S \in SUBSET BoardFeed
  BY FeedsAreRows DEF ShownIn
<1>2. rev \in S /\ \A j \in S : j <= rev
  BY <1>1, LatestRow
<1>3. k \in BoardRows /\ k \in 1..Len(log)
  BY FeedsAreRows
<1>4. \A j \in OpsOf(e) : log[j].op_type # "delete"
  BY <1>3, InsertServed
<1> HIDE DEF rev, S
<1>5. ASSUME NEW i \in OpsOf(e), i > rev
      PROVE  log[i].path = "app" /\ log[i].op_type = "update"
  <2>1. i \in 1..Len(log) /\ log[i].entity_id = e /\ log[i].op_type # "delete"
    BY <1>4 DEF OpsOf
  <2>2. Live(i)
    BY <1>4, <2>1 DEF Live
  <2>3. i \notin S
    BY <1>1, <1>2, <1>5, <2>1
  <2>4. i \notin BoardFeed
    BY <2>1, <2>3 DEF S, ShownIn
  <2>5. i \notin BoardRows
    BY <1>1, <1>2, <1>5, <2>4, BoardFeedNewest
  <2> QED
    BY <2>1, <2>2, <2>5 DEF BoardRows, OnBoard
<1> QED
  BY <1>1, <1>5 DEF S, rev

(* The revision the page gives an owner's edit is the entity's latest,     *)
(* also when the feed is cut off at its limit, unless the app edited it.   *)
THEOREM RevisionsAreFresh == Spec => []StaleOnlyByAppEdit
<1>1. FeedInv => StaleOnlyByAppEdit
  <2> DEFINE page == BoardPage
             Fresh(e, rev) == \A i \in OpsOf(e) : i > rev => log[i].path = "app"
                                                             /\ log[i].op_type = "update"
  <2> SUFFICES ASSUME FeedInv, NEW t \in DOMAIN page
               PROVE  /\ Fresh(t, page[t].revision)
                      /\ \A p \in DOMAIN page[t].posts : Fresh(p, page[t].posts[p].revision)
    BY DEF StaleOnlyByAppEdit
  <2>1. page = ApplyModeration(BuildThreads(BoardFeed)) /\ BoardFeed \in SUBSET (1..Len(log))
    BY FeedsAreRows DEF BoardPage
  <2> HIDE DEF page
  <2>2. t \in ThreadsIn(BoardFeed)
    BY <2>1, PageShown
  <2>3. /\ page[t].revision = Latest(ShownIn(BoardFeed, t))
        /\ DOMAIN page[t].posts = {p \in PostsIn(BoardFeed) : ParentOf(p) = t}
        /\ \A p \in DOMAIN page[t].posts :
             page[t].posts[p].revision = Latest(ShownIn(BoardFeed, p))
    BY <2>1, <2>2, PageShown
  <2>4. Fresh(t, page[t].revision)
    <3>1. PICK k \in BoardFeed : log[k].entity_id = t /\ log[k].op_type = "insert"
      BY <2>2 DEF ThreadsIn
    <3> QED
      BY <2>3, <3>1, HiddenRow
  <2>5. ASSUME NEW p \in DOMAIN page[t].posts
        PROVE  Fresh(p, page[t].posts[p].revision)
    <3>1. PICK k \in BoardFeed : log[k].entity_id = p /\ log[k].op_type = "insert"
      BY <2>3 DEF PostsIn
    <3> QED
      BY <2>3, <3>1, HiddenRow
  <2> QED
    BY <2>4, <2>5
<1> QED
  BY <1>1, FeedInvariant, PTL

-----------------------------------------------------------------------------
(* It makes no difference to the threads a page lists whether the AppView  *)
(* hides what was deleted or the browser folds the deletes itself.         *)
THEOREM DeletesOnEitherSide == Spec => []DeletesEitherSide
<1>1. FeedInv => DeletesEitherSide
  <2> DEFINE all == {i \in 1..Len(log) : OnBoard(i) \/ log[i].op_type = "delete"}
             rows == BoardRows
  <2> SUFFICES ASSUME FeedInv
               PROVE  BuildThreads(all) = BuildThreads(rows)
    BY DEF DeletesEitherSide
  <2>1. all \in SUBSET (1..Len(log)) /\ rows \in SUBSET (1..Len(log)) /\ rows \in SUBSET all
    BY DEF BoardRows
  <2>2. \A i \in 1..Len(log) : log[i].op_type = "delete" => i \in all
    OBVIOUS
  <2>3. ASSUME NEW e, NEW i \in 1..Len(log)
        PROVE  /\ DeletedIn(all, e, i) <=>
                    \E d \in OpsOf(e) : d > i /\ log[d].op_type = "delete"
               /\ ~DeletedIn(rows, e, i)
    BY <2>2, NothingDeletedIn DEF DeletedIn, OpsOf
  <2>4. ASSUME NEW i \in 1..Len(log), log[i].op_type # "delete"
        PROVE  i \in all /\ ~DeletedIn(all, log[i].entity_id, i) <=> i \in rows
    BY <2>3, <2>4 DEF BoardRows, Live
  <2>5. ReactionsIn(all) = ReactionsIn(rows)
    <3>1. ASSUME NEW r
          PROVE  (\E i \in all : /\ log[i].entity_id = r /\ log[i].op_type # "delete"
                                 /\ ~DeletedIn(all, r, i))
                 <=> (\E i \in rows : /\ log[i].entity_id = r /\ log[i].op_type # "delete"
                                      /\ ~DeletedIn(rows, r, i))
      <4> HIDE DEF all, rows
      <4> QED
        BY <2>1, <2>3, <2>4
    <3> HIDE DEF all, rows
    <3> QED
      BY <3>1 DEF ReactionsIn
  <2>6. ASSUME NEW e
        PROVE  LikesIn(all, e) = LikesIn(rows, e)
    BY <2>5 DEF LikesIn
  <2>7. ThreadsIn(all) = ThreadsIn(rows)
    <3>1. ASSUME NEW t
          PROVE  (\E i \in all : /\ log[i].entity_id = t /\ log[i].op_type = "insert"
                                 /\ ~DeletedIn(all, t, i))
                 <=> (\E i \in rows : /\ log[i].entity_id = t /\ log[i].op_type = "insert"
                                      /\ ~DeletedIn(rows, t, i))
      <4> HIDE DEF all, rows
      <4> QED
        BY <2>1, <2>3, <2>4
    <3> HIDE DEF all, rows
    <3> QED
      BY <3>1 DEF ThreadsIn
  <2>8. ASSUME NEW e, \A j \in OpsOf(e) : log[j].op_type # "delete"
        PROVE  ShownIn(all, e) = ShownIn(rows, e)
    <3>1. ASSUME NEW i \in all, log[i].entity_id = e
          PROVE  i \in rows
      BY <2>8, <3>1 DEF BoardRows, Live, OpsOf
    <3> HIDE DEF all, rows
    <3> QED
      BY <2>1, <3>1 DEF ShownIn
  <2>9. ASSUME NEW t \in ThreadsIn(rows)
        PROVE  ThreadIn(all, t) = ThreadIn(rows, t)
    <3>1. \A j \in OpsOf(t) : log[j].op_type # "delete"
      BY ServedEntities DEF LiveEntities
    <3>2. {p \in PostsIn(all) : ParentOf(p) = t} = {p \in PostsIn(rows) : ParentOf(p) = t}
      <4>1. ASSUME NEW p, ParentOf(p) = t
            PROVE  (\E i \in all : /\ log[i].entity_id = p /\ log[i].op_type = "insert"
                                   /\ ~DeletedIn(all, p, i) /\ ~DeletedIn(all, ParentOf(p), i))
                   <=> (\E i \in rows : /\ log[i].entity_id = p /\ log[i].op_type = "insert"
                                        /\ ~DeletedIn(rows, p, i)
                                        /\ ~DeletedIn(rows, ParentOf(p), i))
        <5>1. \A i \in 1..Len(log) : ~DeletedIn(all, t, i)
          BY <2>3, <3>1
        <5> HIDE DEF all, rows
        <5> QED
          BY <2>1, <2>3, <2>4, <4>1, <5>1
      <4> HIDE DEF all, rows
      <4> QED
        BY <4>1 DEF PostsIn
    <3>3. \A p \in PostsIn(rows) : \A j \in OpsOf(p) : log[j].op_type # "delete"
      BY ServedEntities DEF LiveEntities
    <3> DEFINE P == {p \in PostsIn(rows) : ParentOf(p) = t}
               post(G, p) == [revision |-> Latest(ShownIn(G, p)), likes |-> LikesIn(G, p),
                              removed |-> FALSE]
    <3>4. ASSUME NEW p \in P
          PROVE  post(all, p) = post(rows, p)
      BY <2>6, <2>8, <3>3
    <3>5. ThreadIn(rows, t) = [revision |-> Latest(ShownIn(rows, t)), likes |-> LikesIn(rows, t),
                               posts |-> [p \in P |-> post(rows, p)], locked |-> FALSE]
      BY DEF ThreadIn
    <3>6. ThreadIn(all, t) = [revision |-> Latest(ShownIn(all, t)), likes |-> LikesIn(all, t),
                              posts |-> [p \in P |-> post(all, p)], locked |-> FALSE]
      BY <3>2 DEF ThreadIn
    <3> HIDE DEF all, rows, P, post
    <3>7. [p \in P |-> post(rows, p)] = [p \in P |-> post(all, p)]
      BY <3>4
    <3> QED
      BY <2>6, <2>8, <3>1, <3>5, <3>6, <3>7
  <2>10. /\ BuildThreads(all) = [t \in ThreadsIn(all) |-> ThreadIn(all, t)]
         /\ BuildThreads(rows) = [t \in ThreadsIn(rows) |-> ThreadIn(rows, t)]
    BY <2>1, BuiltThreads
  <2> HIDE DEF all, rows
  <2> QED
    BY <2>7, <2>9, <2>10
<1> QED
  BY <1>1, FeedInvariant, PTL

-----------------------------------------------------------------------------
(* A reply to the reader that the feed shows together with what it answers *)
(* is notified, and nothing else is.                                       *)
THEOREM RepliesAreNotified == Spec => []NotifiesReplies
<1>1. FeedInv => NotifiesReplies
  <2> DEFINE InFeed(e) == \E i \in InsertOf(e) : i \in BoardFeed
             By(e, me) == \E i \in InsertOf(e) : (log[i].author_did = Me) = me
             Answers(p, e) == \E i \in InsertOf(p) : e \in {log[i].parent, log[i].parentPost}
  <2> SUFFICES ASSUME FeedInv, NEW p \in Posts
               PROVE  p \in Notifications <=>
                        /\ InFeed(p) /\ By(p, FALSE)
                        /\ \E e \in Threads \union Posts : Answers(p, e) /\ InFeed(e) /\ By(e, TRUE)
    BY DEF NotifiesReplies
  <2>0. BoardFeed \in SUBSET (1..Len(log))
    BY FeedsAreRows
  <2>1. ASSUME NEW e, NEW i \in InsertOf(e), NEW j \in InsertOf(e)
        PROVE  i = j
    BY DEF InsertOf, OpsOf, FeedInv, LogInv, InsertFirst
  <2>2. ASSUME NEW e
        PROVE  \A i : i \in InsertOf(e) <=> /\ i \in 1..Len(log) /\ log[i].entity_id = e
                                            /\ log[i].op_type = "insert"
    BY DEF InsertOf, OpsOf
  <2>3. ASSUME NEW e, NEW n
        PROVE  Mine(SeenIn(BoardFeed, e, n)) <=> InFeed(e) /\ By(e, TRUE)
    <3>1. Mine(SeenIn(BoardFeed, e, n)) <=>
            \E i \in InsertOf(e) : i \in BoardFeed /\ log[i].author_did = Me
      BY <2>0, <2>2 DEF Mine, SeenIn
    <3> QED
      BY <2>1, <3>1
  <2>4. p \in Notifications <=>
          \E n \in InsertOf(p) : /\ n \in BoardFeed /\ log[n].author_did # Me
                                 /\ ReplyType(BoardFeed, n) # "none"
    <3>1. p \in Notifications <=>
            \E n \in BoardFeed : /\ log[n].entity_type = "post" /\ log[n].op_type = "insert"
                                 /\ log[n].author_did # Me
                                 /\ ReplyType(BoardFeed, n) # "none"
                                 /\ log[n].entity_id = p
      BY DEF Notifications
    <3>2. \A n \in BoardFeed : log[n].entity_id = p => log[n].entity_type = "post"
      BY <2>0, KindOf
    <3> QED
      BY <2>0, <2>2, <3>1, <3>2
  <2>5. ASSUME NEW n \in InsertOf(p)
        PROVE  ReplyType(BoardFeed, n) # "none" <=>
                 \E e \in Threads \union Posts :
                   e \in {log[n].parent, log[n].parentPost} /\ InFeed(e) /\ By(e, TRUE)
    <3>1. ReplyType(BoardFeed, n) # "none" <=>
            \/ Mine(SeenIn(BoardFeed, log[n].parentPost, n))
            \/ Mine(SeenIn(BoardFeed, log[n].parent, n))
      BY DEF ReplyType
    <3>2. ASSUME NEW e, InFeed(e), e \in {log[n].parent, log[n].parentPost}
          PROVE  e \in Threads \union Posts
      <4>1. log[n] \in Op
        BY <2>2 DEF FeedInv, TypeOK
      <4>2. e \in Threads \union Posts \union {None}
        BY <3>2, <4>1 DEF Op
      <4>3. InsertOf(None) = {}
        <5>1. \A i \in 1..Len(log) : log[i].entity_id \in Threads \union Posts \union Reactions
          <6> SUFFICES ASSUME NEW i \in 1..Len(log)
                       PROVE  log[i].entity_id \in Threads \union Posts \union Reactions
            OBVIOUS
          <6>1. log[i] \in Op
            BY DEF FeedInv, TypeOK
          <6> QED
            BY <6>1 DEF Op
        <5>2. ASSUME NEW i \in InsertOf(None)
              PROVE  FALSE
          <6>1. i \in 1..Len(log) /\ log[i].entity_id = None
            BY DEF InsertOf, OpsOf
          <6>2. log[i].entity_id \in Threads \union Posts \union Reactions
            BY <5>1, <6>1
          <6> QED
            BY <6>1, <6>2, IdsAssumption
        <5> QED
          BY <5>2
      <4> QED
        BY <3>2, <4>2, <4>3
    <3> HIDE DEF InFeed, By
    <3> QED
      BY <2>3, <3>1, <3>2
  <2> DEFINE Told == \E e \in Threads \union Posts : Answers(p, e) /\ InFeed(e) /\ By(e, TRUE)
  <2>6. ASSUME NEW n \in InsertOf(p)
        PROVE  /\ n \in BoardFeed <=> InFeed(p)
               /\ log[n].author_did # Me <=> By(p, FALSE)
               /\ ReplyType(BoardFeed, n) # "none" <=> Told
    <3>1. InsertOf(p) = {n}
      BY <2>1
    <3>2. \A e : Answers(p, e) <=> e \in {log[n].parent, log[n].parentPost}
      BY <3>1
    <3>3. ReplyType(BoardFeed, n) # "none" <=> Told
      <4> HIDE DEF Answers, InFeed, By
      <4> QED
        BY <2>5, <3>2
    <3>4. /\ n \in BoardFeed <=> InFeed(p)
          /\ log[n].author_did # Me <=> By(p, FALSE)
      BY <3>1
    <3> QED
      BY <3>3, <3>4
  <2>7. InFeed(p) => InsertOf(p) # {}
    OBVIOUS
  <2> HIDE DEF InFeed, By, Told
  <2>8. p \in Notifications <=> InFeed(p) /\ By(p, FALSE) /\ Told
    BY <2>4, <2>6, <2>7
  <2> QED
    BY <2>8 DEF Told
<1> QED
  BY <1>1, FeedInvariant, PTL

-----------------------------------------------------------------------------
(* Replies and reactions come after what they answer.                      *)
ParentsFirst ==
  \A j \in 1..Len(log) :
    log[j].parent # None =>
      \E i \in 1..Len(log) : /\ i < j /\ log[i].op_type = "insert"
                             /\ log[i].entity_id = log[j].parent

(* An appended operation whose parent is there keeps ParentsFirst.         *)
LEMMA PublishKeepsParents ==
  ASSUME FeedInv, ParentsFirst,
         NEW type, NEW e, NEW who, NEW what, NEW p, NEW pp, NEW by,
         Publish(type, e, who, what, p, pp, by),
         p # None => Inserted(p)
  PROVE  ParentsFirst'
<1> DEFINE op == [entity_type |-> type, op_type |-> what, entity_id |-> e, author_did |-> who,
                  parent |-> p, parentPost |-> pp, path |-> by]
           N == Len(log)
<1>1. /\ log \in Seq(Op) /\ N \in Nat
      /\ log' = Append(log, op)
  BY DEF FeedInv, TypeOK, Publish
<1>2. /\ Len(log') = N + 1
      /\ \A i \in 1..N : log'[i] = log[i] /\ i \in 1..Len(log') /\ i < N + 1
      /\ log'[N + 1] = op
      /\ \A i \in 1..Len(log') : i \in 1..N \/ i = N + 1
  BY <1>1
<1>3. op.entity_type = type /\ op.op_type = what /\ op.parent = p
  OBVIOUS
<1> HIDE DEF op, N
<1> SUFFICES ASSUME NEW j \in 1..Len(log'), log'[j].parent # None
             PROVE  \E i \in 1..Len(log') : /\ i < j /\ log'[i].op_type = "insert"
                                            /\ log'[i].entity_id = log'[j].parent
  BY Zenon DEF ParentsFirst
<1>4. CASE j \in 1..N
  <2>1. log'[j] = log[j]
    BY <1>2, <1>4
  <2>2. PICK i \in 1..N : i < j /\ log[i].op_type = "insert" /\ log[i].entity_id = log[j].parent
    BY <1>4, <2>1 DEF ParentsFirst, N
  <2> QED
    BY <1>2, <2>1, <2>2
<1>5. CASE j = N + 1
  <2>1. log'[j].parent = p /\ Inserted(p)
    BY <1>2, <1>3, <1>5
  <2>2. PICK i \in 1..N : log[i].op_type = "insert" /\ log[i].entity_id = p
    BY <2>1 DEF Inserted, InsertOf, OpsOf, N
  <2> QED
    BY <1>2, <1>5, <2>1, <2>2
<1> QED
  BY <1>2, <1>4, <1>5

(* In every reachable state replies and reactions follow what they answer. *)
LEMMA ParentsComeFirst == Spec => []ParentsFirst
<1>1. Init => ParentsFirst
  BY DEF Init, ParentsFirst
<1>2. ASSUME FeedInv, ParentsFirst, [Next]_vars PROVE ParentsFirst'
  <2>1. CASE log' = log
    BY <1>2, <2>1 DEF ParentsFirst
  <2>2. CASE Author
    <3>1. PICK who \in Dids, by \in {"app", "web"} :
            \/ \E t \in Threads : CreateThread(t, who, by)
            \/ \E p \in Posts, t \in Threads, pp \in Posts \union {None} :
                 CreatePost(p, who, t, pp, by)
            \/ \E r \in Reactions, target \in Threads \union Posts :
                 CreateReaction(r, who, target, by)
      BY <2>2, Zenon DEF Author
    <3>2. ASSUME NEW t \in Threads, CreateThread(t, who, by) PROVE ParentsFirst'
      <4>1. Publish("thread", t, who, "insert", None, None, by)
        BY <3>2 DEF CreateThread
      <4> QED
        BY <1>2, <4>1, PublishKeepsParents
    <3>3. ASSUME NEW p \in Posts, NEW t \in Threads, NEW pp \in Posts \union {None},
                 CreatePost(p, who, t, pp, by)
          PROVE  ParentsFirst'
      <4>1. Inserted(t) /\ Publish("post", p, who, "insert", t, pp, by)
        BY <3>3 DEF CreatePost
      <4> QED
        BY <1>2, <4>1, PublishKeepsParents
    <3>4. ASSUME NEW r \in Reactions, NEW target \in Threads \union Posts,
                 CreateReaction(r, who, target, by)
          PROVE  ParentsFirst'
      <4>1. Inserted(target) /\ Publish("reaction", r, who, "insert", target, None, by)
        BY <3>4 DEF CreateReaction
      <4> QED
        BY <1>2, <4>1, PublishKeepsParents
    <3> QED
      BY <3>1, <3>2, <3>3, <3>4
  <2>3. CASE Owner
    <3>1. PICK e \in Threads \union Posts \union Reactions, what \in {"update", "delete"},
               by \in {"app", "web"} : Mutate(e, what, by)
      BY <2>3, Zenon DEF Owner
    <3>2. PICK i \in InsertOf(e) :
            Publish(log[i].entity_type, e, log[i].author_did, what,
                    IF log[i].entity_type = "reaction" THEN log[i].parent ELSE None, None, by)
      BY <3>1 DEF Mutate
    <3> DEFINE type == log[i].entity_type
               p == IF type = "reaction" THEN log[i].parent ELSE None
    <3>3. Publish(type, e, log[i].author_did, what, p, None, by) /\ what # "insert"
      BY <3>2
    <3>4. p # None => Inserted(p)
      BY <1>2 DEF ParentsFirst, Inserted, InsertOf, OpsOf
    <3> HIDE DEF type, p
    <3> QED
      BY <1>2, <3>3, <3>4, PublishKeepsParents
  <2>4. CASE Reader \/ Moderator \/ UNCHANGED vars
    BY <2>1, <2>4 DEF Reader, MarkRead, MarkAllRead, Moderator, RemovePost, LockThread,
                      UnlockThread, vars
  <2> QED
    BY <1>2, <2>2, <2>3, <2>4 DEF Next
<1> QED
  BY <1>1, <1>2, FeedInvariant, PTL DEF Spec

(* Nothing in a thread's feed is older than the thread's insert.           *)
LEMMA ThreadRowsAfter ==
  ASSUME FeedInv, ParentsFirst, NEW t \in Threads, NEW i \in InsertOf(t), NEW j \in ThreadRows(t)
  PROVE  ~(j < i)
<1>0. /\ i \in 1..Len(log) /\ log[i].op_type = "insert" /\ log[i].entity_id = t
      /\ j \in 1..Len(log) /\ t # None
  BY IdsAssumption DEF InsertOf, OpsOf, ThreadRows
<1>1. \A k \in InsertOf(t) : k = i
  BY <1>0 DEF InsertOf, OpsOf, FeedInv, LogInv, InsertFirst
<1>2. ASSUME NEW n \in 1..Len(log), log[n].parent = t PROVE i < n
  BY <1>0, <1>1, <1>2 DEF ParentsFirst, InsertOf, OpsOf
<1>3. ASSUME NEW n \in 1..Len(log), ThreadOf(n) = t
      PROVE  /\ log[n].op_type = "insert"
             /\ log[n].entity_id = t \/ log[n].parent = t
  BY <1>0, <1>3 DEF ThreadOf
<1>4. CASE ThreadOf(j) = t
  <2>1. log[j].op_type = "insert" /\ (log[j].entity_id = t \/ log[j].parent = t)
    BY <1>0, <1>3, <1>4
  <2>2. CASE log[j].entity_id = t
    BY <1>0, <1>1, <2>1, <2>2 DEF InsertOf, OpsOf
  <2>3. CASE log[j].parent = t
    BY <1>0, <1>2, <2>3
  <2> QED
    BY <2>1, <2>2, <2>3
<1>5. CASE log[j].entity_type = "reaction" /\ log[j].parent = t
  BY <1>0, <1>2, <1>5
<1>6. CASE /\ log[j].entity_type = "reaction"
           /\ \E n \in 1..Len(log) : /\ log[n].entity_id = log[j].parent
                                     /\ ThreadOf(n) = t /\ log[n].entity_type = "post"
  <2>1. PICK n \in 1..Len(log) : /\ log[n].entity_id = log[j].parent
                                 /\ ThreadOf(n) = t /\ log[n].entity_type = "post"
    BY <1>6
  <2>2. log[n].op_type = "insert" /\ n \in InsertOf(log[j].parent)
    BY <1>3, <2>1 DEF InsertOf, OpsOf
  <2>3. log[n].entity_id \in Posts
    BY <2>1 DEF FeedInv, LogInv, Kinds
  <2>4. log[n].parent = t
    BY <1>3, <2>1, <2>3, IdsAssumption
  <2>5. i < n
    BY <1>2, <2>1, <2>2, <2>4
  <2>6. \E k \in InsertOf(log[j].parent) : k < j
    BY <1>0, <2>1, <2>3, IdsAssumption DEF ParentsFirst, InsertOf, OpsOf
  <2>7. \A k \in InsertOf(log[j].parent) : k = n
    BY <2>2 DEF InsertOf, OpsOf, FeedInv, LogInv, InsertFirst
  <2>8. n < j
    BY <2>6, <2>7
  <2>9. i \in Int /\ n \in Int /\ j \in Int
    BY <1>0
  <2> QED
    BY <2>5, <2>8, <2>9
<1> QED
  BY <1>4, <1>5, <1>6 DEF ThreadRows

(* A thread that the app has made and nobody has deleted opens, however    *)
(* many replies and reactions it has, and whatever the page size.          *)
THEOREM AppThreadsOpen == Spec => []AppThreadOpens
<1>1. FeedInv /\ ParentsFirst => AppThreadOpens
  <2> SUFFICES ASSUME FeedInv, ParentsFirst, NEW t \in LiveEntities(Threads),
                      NEW i \in InsertOf(t), log[i].path = "app"
               PROVE  t \in DOMAIN ThreadPage(t)
    BY DEF AppThreadOpens
  <2>1. /\ t \in Threads /\ \A j \in OpsOf(t) : log[j].op_type # "delete"
        /\ i \in 1..Len(log) /\ log[i].op_type = "insert" /\ log[i].entity_id = t
    BY DEF LiveEntities, InsertOf, OpsOf
  <2>2. log[i].entity_type = "thread"
    <3>1. log[i] \in Op
      BY <2>1 DEF FeedInv, TypeOK
    <3>2. log[i].entity_type \in {"thread", "post", "reaction"}
      BY <3>1 DEF Op
    <3> QED
      BY <2>1, <3>2, IdsAssumption DEF FeedInv, LogInv, Kinds
  <2>3. i \in ThreadRows(t)
    BY <2>1, <2>2 DEF ThreadRows, ThreadOf, Live
  <2>4. {j \in ThreadRows(t) : j < i} = {}
    BY <2>1, ThreadRowsAfter
  <2>5. Cardinality({j \in ThreadRows(t) : j < i}) < Limit
    BY <2>4, FS_EmptySet, FeedAssumption
  <2>6. i \in ThreadFeed(t)
    BY <2>3, <2>5 DEF ThreadFeed
  <2>7. ThreadFeed(t) \in SUBSET (1..Len(log))
    BY <2>1, FeedsAreRows
  <2>8. ~DeletedIn(ThreadFeed(t), t, i)
    BY <2>1, <2>7 DEF DeletedIn, OpsOf
  <2>9. t \in ThreadsIn(ThreadFeed(t))
    BY <2>1, <2>6, <2>8 DEF ThreadsIn
  <2> QED
    BY <2>7, <2>9, PageShown DEF ThreadPage
<1> QED
  BY <1>1, FeedInvariant, ParentsComeFirst, PTL

=============================================================================
