----------------------------- MODULE MCOpStore -----------------------------
(***************************************************************************)
(* Instances of OpStore for TLC: the calls each run is about.              *)
(***************************************************************************)
EXTENDS OpStore

Sync(op, who, et, e, type) ==
  [path |-> "sync", op_id |-> op, author |-> who, etype |-> et, eid |-> e,
   op_type |-> type, target |-> "none", prev |-> NoRevision, board |-> "none"]

Web(op, who, et, e, type, rev) ==
  [Sync(op, who, et, e, type) EXCEPT !.path = "web", !.prev = rev]

OnBoard(o, b) == [o EXCEPT !.board = b]

React(op, who, e, tgt) == [Sync(op, who, "reaction", e, "insert") EXCEPT !.target = tgt]

NoPairs == {}
NoBoards == {}

-----------------------------------------------------------------------------
(* Direct inserts, a repeated call and a web reply.                        *)
LogRequests == {"note", "note2", "reply", "murmur"}
LogReq ==
  [r \in LogRequests |->
     CASE r = "note"   -> Sync("op1", "alice", "note", "n1", "insert")
       [] r = "note2"  -> Sync("op1", "alice", "note", "n1", "insert")
       [] r = "reply"  -> OnBoard(Web("op2", "bob", "post", "p1", "insert", NoRevision), "b1")
       [] r = "murmur" -> Sync("op3", "bob", "murmur", "m1", "insert")]
LogProtected == {"b1"}
LogScope == [c \in {"appview", "member"} |-> IF c = "appview" THEN "public" ELSE "b1"]

-----------------------------------------------------------------------------
(* One thread edited from several places at once while it is read: two     *)
(* web edits of the same revision on a protected board, an update by a     *)
(* migrated DID, and a second author creating an entity of the same id.    *)
EditRequests == {"create", "edit", "edit2", "migrated", "other"}
EditReq ==
  [r \in EditRequests |->
     CASE r = "create"   -> OnBoard(Sync("op1", "alice", "thread", "t1", "insert"), "b1")
       [] r = "edit"     -> OnBoard(Web("op2", "alice", "thread", "t1", "update", "op1"), "b1")
       [] r = "edit2"    -> OnBoard(Web("op3", "alice", "thread", "t1", "delete", "op1"), "b1")
       [] r = "migrated" -> Sync("op5", "alice2", "thread", "t1", "update")
       [] r = "other"    -> Sync("op6", "bob", "thread", "t1", "insert")]
EditEquivalent == {<<"alice", "alice2">>}

-----------------------------------------------------------------------------
(* One author reacting to one post from two devices and taking the first   *)
(* reaction back.                                                          *)
ReactRequests == {"phone", "laptop", "unreact"}
ReactReq ==
  [r \in ReactRequests |->
     CASE r = "phone"   -> React("op1", "alice", "r1", "p1")
       [] r = "laptop"  -> [React("op2", "alice", "r2", "p1") EXCEPT !.path = "web"]
       [] r = "unreact" -> Sync("op3", "alice", "reaction", "r1", "delete")]

-----------------------------------------------------------------------------
(* Progress: the same contention with the first call repeated through the  *)
(* web endpoint, which opens a publication before it waits for the lock.   *)
(* All of it on a board the public consumer may not see.                   *)
ProgressRequests == ReactRequests \union {"again"}
ProgressReq ==
  [r \in ProgressRequests |->
     OnBoard(IF r = "again" THEN [ReactReq["phone"] EXCEPT !.path = "web"]
                            ELSE ReactReq[r], "b1")]

=============================================================================
