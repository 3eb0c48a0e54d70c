----------------------- MODULE IdentityAnchorsProofs -----------------------
(***************************************************************************)
(* Proofs about the identity anchor store, for any number of clients,      *)
(* promotion jobs, keys, recovery codes and anchors.                       *)
(***************************************************************************)
EXTENDS IdentityAnchors, SetInduction, TLAPS

(***************************************************************************)
(* Calls and rows are about anchors that were signed, and an anchor was    *)
(* signed to follow one that had become active.                            *)
(***************************************************************************)
Known ==
  /\ \A p \in Procs : proc[p].pc \in {"link", "write", "veto", "sync"} =>
                        proc[p].cid \in 1..Len(signed)
  /\ \A p \in Procs : proc[p].batch \subseteq 1..Len(signed)
  /\ \A c \in Cids : state[c] # "none" => c \in 1..Len(signed)
  /\ \A c \in 1..Len(signed) :
       signed[c].prev # 0 => state[signed[c].prev] \notin {"none", "pending"}

(***************************************************************************)
(* A call that presents a code holds the lock on its row: the code is      *)
(* still active and no other call has it.  Only a row can have spent one.  *)
(***************************************************************************)
CodesLocked ==
  /\ \A p \in Procs : proc[p].code # NoCode =>
       /\ code[proc[p].code] = "active"
       /\ proc[p].pc \in {"link", "write"}
       /\ \A q \in Procs : proc[q].code = proc[p].code => q = p
  /\ \A c \in Cids : state[c] = "none" => spent[c] = NoCode

(***************************************************************************)
(* While the DID is frozen, whoever is past the freeze check was so when   *)
(* the freeze was written.                                                 *)
(***************************************************************************)
FreezeSeen == frozen => PastCheck \subseteq late

IInv == TypeOK /\ Known /\ CodesLocked /\ OneActive /\ CodeUsedOnce /\ FreezeSeen

-----------------------------------------------------------------------------
(***************************************************************************)
(* A call is made of its parts.                                            *)
(***************************************************************************)
LEMMA CallParts ==
  \A stage, c, k, b :
    /\ Call(stage, c, k, b).pc = stage
    /\ Call(stage, c, k, b).cid = c
    /\ Call(stage, c, k, b).code = k
    /\ Call(stage, c, k, b).batch = b
  BY DEF Call

Stages == {"idle", "link", "write", "veto", "filter", "promote", "sync"}

(***************************************************************************)
(* Whatever a process is made to serve is a call.                          *)
(***************************************************************************)
LEMMA CallTyped ==
  ASSUME NEW stage \in Stages, NEW c \in 0..MaxAnchors,
         NEW k \in Codes \union {NoCode}, NEW b \in SUBSET Cids
  PROVE  Call(stage, c, k, b) \in Calls
  BY DEF Call, Calls, Stages

(***************************************************************************)
(* The parts of the calls being served.                                    *)
(***************************************************************************)
LEMMA ProcParts ==
  ASSUME TypeOK, NEW p \in Procs
  PROVE  /\ proc[p] \in Calls
         /\ proc[p].pc \in Stages
         /\ proc[p].cid \in 0..MaxAnchors
         /\ proc[p].code \in Codes \union {NoCode}
         /\ proc[p].batch \subseteq Cids
  BY DEF TypeOK, Calls, Stages

(***************************************************************************)
(* A signed anchor is a body whose predecessor was signed before it.       *)
(***************************************************************************)
LEMMA SignedParts ==
  ASSUME TypeOK, NEW c \in 1..Len(signed)
  PROVE  /\ c \in Cids
         /\ signed[c].key \in Keys
         /\ signed[c].prev \in 0..MaxAnchors
  <1>1. signed[c] \in Bodies
    BY DEF TypeOK
  <1>2. c \in Cids
    BY AnchorsAssumption DEF TypeOK, Cids
  <1> QED
    BY <1>1, <1>2 DEF Bodies

(***************************************************************************)
(* A call that ends leaves its process idle and the others alone.          *)
(***************************************************************************)
LEMMA DoneMoves ==
  ASSUME TypeOK, NEW p \in Procs, Done(p)
  PROVE  /\ proc' \in [Procs -> Calls]
         /\ late' \subseteq Procs
         /\ late' = late \ {p}
         /\ proc'[p] = Idle
         /\ \A q \in Procs : q # p => proc'[q] = proc[q]
  <1>1. Idle \in Calls
    BY CallTyped, AnchorsAssumption DEF Idle, Stages
  <1> QED
    BY <1>1 DEF Done, TypeOK

(***************************************************************************)
(* A process that is given a call serves it; the others go on.             *)
(***************************************************************************)
LEMMA CallMoves ==
  ASSUME TypeOK, NEW p \in Procs, NEW stage \in Stages, NEW c \in 0..MaxAnchors,
         NEW k \in Codes \union {NoCode}, NEW b \in SUBSET Cids,
         proc' = [proc EXCEPT ![p] = Call(stage, c, k, b)]
  PROVE  /\ proc' \in [Procs -> Calls]
         /\ proc'[p] = Call(stage, c, k, b)
         /\ \A q \in Procs : q # p => proc'[q] = proc[q]
  BY CallTyped DEF TypeOK

(***************************************************************************)
(* A call that moves to its next stage keeps its other parts.              *)
(***************************************************************************)
LEMMA GotoMoves ==
  ASSUME TypeOK, NEW p \in Procs, NEW stage \in Stages, Goto(p, stage)
  PROVE  /\ proc' \in [Procs -> Calls]
         /\ late' = late
         /\ proc'[p].pc = stage
         /\ proc'[p].cid = proc[p].cid
         /\ proc'[p].code = proc[p].code
         /\ proc'[p].batch = proc[p].batch
         /\ \A q \in Procs : q # p => proc'[q] = proc[q]
  <1>1. [proc[p] EXCEPT !.pc = stage] \in Calls
    BY ProcParts DEF Calls, Stages
  <1>2. proc' = [proc EXCEPT ![p] = [proc[p] EXCEPT !.pc = stage]]
    BY DEF Goto, TypeOK
  <1>3. proc'[p] = [proc[p] EXCEPT !.pc = stage]
    BY <1>2 DEF TypeOK
  <1>4. proc[p] = [pc |-> proc[p].pc, cid |-> proc[p].cid, code |-> proc[p].code, batch |-> proc[p].batch]
    BY ProcParts DEF Calls
  <1>5. /\ proc'[p].pc = stage
        /\ proc'[p].cid = proc[p].cid
        /\ proc'[p].code = proc[p].code
        /\ proc'[p].batch = proc[p].batch
    BY <1>3, <1>4
  <1> QED
    BY <1>1, <1>2, <1>5 DEF Goto, TypeOK

-----------------------------------------------------------------------------
(***************************************************************************)
(* In the initial state nothing is stored and nobody is calling.           *)
(***************************************************************************)
LEMMA InitIInv == Init => IInv
<1> SUFFICES ASSUME Init PROVE IInv
  OBVIOUS
<1> USE AnchorsAssumption DEF Init
<1>1. Idle \in Calls
  BY CallTyped DEF Idle, Stages
<1>2. TypeOK
  <2>1. signed \in Seq(Bodies) /\ Len(signed) = 0
    BY SMT
  <2>2. \A c \in 1..Len(signed) : signed[c].prev < c
    BY <2>1
  <2>3. /\ state \in [Cids -> {"none", "pending", "active", "superseded", "vetoed"}]
        /\ code \in [Codes -> {"unset", "active", "used", "revoked"}]
        /\ spent \in [Cids -> Codes \union {NoCode}]
    OBVIOUS
  <2>4. proc \in [Procs -> Calls]
    BY <1>1
  <2>5. /\ due \subseteq {c \in Cids : state[c] = "pending"}
        /\ frozen \in BOOLEAN
        /\ cache \in Keys \union {NoKey}
        /\ late \subseteq Procs
    BY Zenon
  <2>6. Len(signed) <= MaxAnchors /\ crashes \in 0..MaxCrashes
    BY <2>1
  <2> QED
    BY <2>1, <2>2, <2>3, <2>4, <2>5, <2>6, Zenon DEF TypeOK
<1>3. Idle.pc = "idle" /\ Idle.code = NoCode /\ Idle.batch = {}
  BY CallParts DEF Idle
<1>4. Known /\ CodesLocked /\ FreezeSeen
  BY <1>2, <1>3 DEF Known, CodesLocked, FreezeSeen
<1>5. OneActive /\ CodeUsedOnce
  BY DEF OneActive, Active, CodeUsedOnce
<1> QED
  BY <1>2, <1>4, <1>5 DEF IInv

(***************************************************************************)
(* Every step keeps the types, and a grace window only on pending rows.    *)
(***************************************************************************)
LEMMA NextTypeOK == TypeOK /\ Known /\ [Next]_vars => TypeOK'
<1> SUFFICES ASSUME TypeOK, Known, [Next]_vars PROVE TypeOK'
  OBVIOUS
<1> DEFINE ProcsOK == proc' \in [Procs -> Calls] /\ late' \subseteq Procs
<1> USE AnchorsAssumption
<1>1. ASSUME NEW body \in Bodies, Sign(body) PROVE TypeOK'
  <2>1. signed' = Append(signed, body) /\ Len(signed) < MaxAnchors
    BY <1>1 DEF Sign
  <2>2. signed' \in Seq(Bodies) /\ Len(signed') = Len(signed) + 1
    BY <2>1 DEF TypeOK
  <2>3. body.prev \in 0..Len(signed)
    BY <1>1 DEF Sign, Active, Known, TypeOK, Bodies
  <2>4. \A c \in 1..Len(signed') : signed'[c].prev < c
    BY <2>1, <2>2, <2>3 DEF TypeOK
  <2> QED
    BY <1>1, <2>1, <2>2, <2>4 DEF Sign, TypeOK
<1>2. ASSUME NEW new \in SUBSET Codes, Configure(new) PROVE TypeOK'
  BY <1>2 DEF Configure, TypeOK
<1>3. ASSUME NEW c \in Cids, GraceElapses(c) PROVE TypeOK'
  BY <1>3 DEF GraceElapses, TypeOK
<1>4. ASSUME NEW p \in Clients, NEW c \in 1..Len(signed), NEW k \in Codes \union {NoCode},
             Start(p, c, k)
      PROVE  TypeOK'
  <2>1. c \in 0..MaxAnchors /\ p \in Procs
    BY SignedParts DEF Cids, Procs
  <2>2. proc' \in [Procs -> Calls]
    BY <1>4, <2>1, CallMoves DEF Start, Stages
  <2> QED
    BY <1>4, <2>2 DEF Start, TypeOK
<1>5. ASSUME NEW p \in Clients, NEW c \in 1..Len(signed), Veto(p, c) PROVE TypeOK'
  <2>1. c \in 0..MaxAnchors /\ p \in Procs
    BY SignedParts DEF Cids, Procs
  <2>2. proc' \in [Procs -> Calls]
    BY <1>5, <2>1, CallMoves DEF Veto, Stages
  <2> QED
    BY <1>5, <2>2 DEF Veto, TypeOK
<1>6. ASSUME NEW p \in Crons, ReadDue(p) PROVE TypeOK'
  <2>1. p \in Procs /\ due \in SUBSET Cids /\ 0 \in 0..MaxAnchors
    BY DEF Procs, TypeOK
  <2>2. proc' \in [Procs -> Calls]
    BY <1>6, <2>1, CallMoves DEF ReadDue, Stages
  <2> QED
    BY <1>6, <2>2 DEF ReadDue, TypeOK
<1>7. ASSUME NEW p \in Procs, Done(p) PROVE ProcsOK
  BY <1>7, DoneMoves
<1>8. ASSUME NEW p \in Procs, NEW stage \in Stages, Goto(p, stage) PROVE ProcsOK
  BY <1>8, GotoMoves DEF TypeOK
<1>9. ASSUME NEW p \in Procs, Link(p) PROVE TypeOK'
  <2>1. ProcsOK
    BY <1>9, <1>7, <1>8 DEF Link, Stages
  <2> QED
    BY <1>9, <2>1 DEF Link, TypeOK
<1>10. ASSUME NEW p \in Procs, WriteActive(p) PROVE TypeOK'
  <2>1. proc[p].cid \in Cids /\ signed[proc[p].cid].key \in Keys
    BY <1>10, SignedParts DEF WriteActive, Known
  <2>2. ProcsOK
    BY <1>10, <1>7, <1>8 DEF WriteActive, Stages
  <2>3. CASE state' = state
    BY <1>10, <2>1, <2>2, <2>3 DEF WriteActive, TypeOK
  <2>4. CASE state' # state
    <3> DEFINE c == proc[p].cid
    <3>1. /\ Insertable(c, Active \ Replaced(c))
          /\ cache' = cache
          /\ state' = [d \in Cids |-> IF d = c THEN "active"
                                      ELSE IF d \in Replaced(c) THEN "superseded"
                                      ELSE state[d]]
      BY <1>10, <2>4 DEF WriteActive
    <3>2. state' \in [Cids -> {"none", "pending", "active", "superseded", "vetoed"}]
      BY <3>1 DEF TypeOK
    <3>3. due' = due /\ c \notin due /\ due \intersect Replaced(c) = {}
      <4>1. due' = due /\ c \in 1..Len(signed) /\ state[c] = "none"
        BY <1>10, <3>1 DEF WriteActive, Insertable, Known
      <4>2. 0 \notin Cids
        BY DEF Cids
      <4> QED
        BY <4>1, <4>2 DEF Replaced, Known, TypeOK
    <3>4. due' \subseteq {d \in Cids : state'[d] = "pending"}
      BY <3>1, <3>3 DEF TypeOK
    <3> QED
      BY <1>10, <2>2, <3>1, <3>2, <3>4 DEF WriteActive, TypeOK
  <2> QED
    BY <2>3, <2>4
<1>11. ASSUME NEW p \in Procs, WritePending(p) PROVE TypeOK'
  <2>1. proc[p].code \in Codes \union {NoCode} /\ proc[p].cid \in Cids
    BY <1>11, ProcParts, SignedParts DEF WritePending, Known
  <2>2. ProcsOK
    BY <1>11, <1>7 DEF WritePending
  <2>3. UNCHANGED <<signed, due, frozen, cache, crashes>>
    BY <1>11 DEF WritePending
  <2>4. CASE UNCHANGED <<state, code, spent>>
    BY <2>2, <2>3, <2>4 DEF TypeOK
  <2>5. CASE /\ state[proc[p].cid] = "none"
             /\ state' = [state EXCEPT ![proc[p].cid] = "pending"]
             /\ spent' = [spent EXCEPT ![proc[p].cid] = proc[p].code]
             /\ code' = [x \in Codes |-> IF x = proc[p].code THEN "used" ELSE code[x]]
    <3>1. /\ state' \in [Cids -> {"none", "pending", "active", "superseded", "vetoed"}]
          /\ spent' \in [Cids -> Codes \union {NoCode}]
          /\ code' \in [Codes -> {"unset", "active", "used", "revoked"}]
      BY <2>1, <2>5 DEF TypeOK
    <3>2. due' \subseteq {c \in Cids : state'[c] = "pending"}
      BY <2>3, <2>5 DEF TypeOK
    <3> QED
      BY <2>2, <2>3, <3>1, <3>2 DEF TypeOK
  <2> QED
    BY <1>11, <2>4, <2>5 DEF WritePending
<1>12. ASSUME NEW p \in Procs, Sync(p) PROVE TypeOK'
  <2>1. signed[proc[p].cid].key \in Keys
    BY <1>12, SignedParts DEF Sync, Known
  <2>2. ProcsOK
    BY <1>12, <1>7, <1>8 DEF Sync, Stages
  <2> QED
    BY <1>12, <2>1, <2>2 DEF Sync, TypeOK
<1>13. ASSUME NEW p \in Procs, SkipFrozen(p) PROVE TypeOK'
  <2>1. ProcsOK
    BY <1>13, <1>7, <1>8 DEF SkipFrozen, Stages
  <2> QED
    BY <1>13, <2>1 DEF SkipFrozen, TypeOK
<1>14. ASSUME NEW p \in Procs, PromoteOne(p) PROVE TypeOK'
  <2>1. PICK c \in proc[p].batch :
          /\ state' = [d \in Cids |-> IF d = c THEN "active"
                                      ELSE IF d \in Active THEN "superseded" ELSE state[d]]
          /\ due' = due \ {c}
          /\ proc' = [proc EXCEPT ![p] = Call("sync", c, NoCode, @.batch \ {c})]
          /\ UNCHANGED <<signed, frozen, cache, code, spent, late, crashes>>
    BY <1>14 DEF PromoteOne
  <2>2. c \in Cids /\ c \in 0..MaxAnchors /\ proc[p].batch \ {c} \in SUBSET Cids
    BY <2>1, ProcParts DEF Cids
  <2>3. proc' = [proc EXCEPT ![p] = Call("sync", c, NoCode, proc[p].batch \ {c})]
    BY <2>1 DEF TypeOK
  <2>4. proc' \in [Procs -> Calls]
    BY <2>2, <2>3, CallMoves DEF Stages
  <2> QED
    BY <2>1, <2>2, <2>4 DEF Active, TypeOK
<1>15. ASSUME NEW p \in Procs, DoVeto(p) PROVE TypeOK'
  <2>1. late' \subseteq Procs
    BY <1>15 DEF DoVeto, PastCheck, TypeOK
  <2>2. Idle \in Calls
    BY CallTyped DEF Idle, Stages
  <2> QED
    BY <1>15, <2>1, <2>2 DEF DoVeto, TypeOK
<1>16. ASSUME NEW p \in Procs, Crash(p) PROVE TypeOK'
  <2>1. ProcsOK
    BY <1>16, <1>7 DEF Crash
  <2> QED
    BY <1>16, <2>1 DEF Crash, TypeOK
<1>17. CASE UNCHANGED vars
  BY <1>17 DEF vars, TypeOK
<1> QED
  BY <1>1, <1>2, <1>3, <1>4, <1>5, <1>6, <1>9, <1>10, <1>11, <1>12, <1>13, <1>14, <1>15,
     <1>16, <1>17 DEF Next, Submit, Recover, Step
(***************************************************************************)
(* A row, once there, stays, and what was activated, superseded or vetoed  *)
(* is never pending again.                                                 *)
(***************************************************************************)
LEMMA RowsStay ==
  ASSUME TypeOK, Known, [Next]_vars
  PROVE  /\ \A c \in Cids : state'[c] = "none" => state[c] = "none"
         /\ \A c \in Cids : state'[c] = "pending" => state[c] \in {"none", "pending"}
<1> DEFINE Stay == /\ \A c \in Cids : state'[c] = "none" => state[c] = "none"
                   /\ \A c \in Cids : state'[c] = "pending" => state[c] \in {"none", "pending"}
<1>1. CASE state' = state
  BY <1>1
<1>2. ASSUME NEW p \in Procs, WriteActive(p) PROVE Stay
  BY <1>1, <1>2 DEF WriteActive
<1>3. ASSUME NEW p \in Procs, WritePending(p) PROVE Stay
  BY <1>1, <1>3 DEF WritePending, TypeOK
<1>4. ASSUME NEW p \in Procs, PromoteOne(p) PROVE Stay
  BY <1>4 DEF PromoteOne
<1>5. ASSUME NEW p \in Procs, DoVeto(p) PROVE Stay
  BY <1>5 DEF DoVeto, TypeOK
<1>6. CASE \E p \in Procs : Link(p) \/ Sync(p) \/ SkipFrozen(p) \/ Crash(p)
  BY <1>1, <1>6 DEF Link, Sync, SkipFrozen, Crash
<1>7. CASE \/ \E body \in Bodies : Sign(body)
           \/ \E new \in SUBSET Codes : Configure(new)
           \/ \E c \in Cids : GraceElapses(c)
           \/ \E p \in Crons : ReadDue(p)
  BY <1>1, <1>7 DEF Sign, Configure, GraceElapses, ReadDue
<1>8. CASE \E p \in Clients, c \in 1..Len(signed) :
             Submit(p, c) \/ Veto(p, c) \/ \E k \in Codes : Recover(p, c, k)
  BY <1>1, <1>8 DEF Submit, Recover, Start, Veto
<1> QED
  BY <1>1, <1>2, <1>3, <1>4, <1>5, <1>6, <1>7, <1>8 DEF Next, Step, vars

(***************************************************************************)
(* Every step keeps calls and rows about signed anchors.                   *)
(***************************************************************************)
LEMMA NextKnown == TypeOK /\ Known /\ [Next]_vars => Known'
<1> SUFFICES ASSUME TypeOK, Known, [Next]_vars PROVE Known'
  OBVIOUS
<1> USE AnchorsAssumption
<1> DEFINE CallKnown(x) == /\ x.pc \in {"link", "write", "veto", "sync"} => x.cid \in 1..Len(signed)
                           /\ x.batch \subseteq 1..Len(signed)
<1>0. \A p \in Procs : CallKnown(proc[p])
  BY DEF Known
<1>1. ASSUME NEW body \in Bodies, Sign(body) PROVE Known'
  <2>1. /\ signed' = Append(signed, body)
        /\ signed \in Seq(Bodies)
        /\ body.prev \in Active \union {0}
        /\ state' = state /\ proc' = proc
    BY <1>1 DEF Sign, TypeOK
  <2>2. Len(signed') = Len(signed) + 1 /\ Len(signed) \in Nat
    BY <2>1
  <2>3. \A c \in 1..Len(signed) : c \in 1..Len(signed') /\ signed'[c] = signed[c]
    BY <2>1, <2>2
  <2>4. signed'[Len(signed) + 1] = body
    BY <2>1
  <2>5. \A c \in 1..Len(signed') : c \in 1..Len(signed) \/ c = Len(signed) + 1
    BY <2>2
  <2>6. body.prev # 0 => state[body.prev] = "active"
    BY <2>1 DEF Active
  <2>7. \A c \in 1..Len(signed') :
          signed'[c].prev # 0 => state'[signed'[c].prev] \notin {"none", "pending"}
    BY <2>1, <2>3, <2>4, <2>5, <2>6 DEF Known
  <2> QED
    BY <2>1, <2>3, <2>7 DEF Known
<1>2. ASSUME signed' = signed,
             \A p \in Procs : CallKnown(proc'[p]),
             \A c \in Cids : state[c] = "none" /\ state'[c] # "none" => c \in 1..Len(signed)
      PROVE  Known'
  <2>1. \A c \in 1..Len(signed) : signed[c].prev # 0 => signed[c].prev \in Cids
    BY SignedParts DEF Cids
  <2>2. \A c \in 1..Len(signed) :
          signed[c].prev # 0 => state'[signed[c].prev] \notin {"none", "pending"}
    BY <2>1, RowsStay DEF Known
  <2> QED
    BY <1>2, <2>2 DEF Known
<1>3. CallKnown(Idle)
  BY CallParts DEF Idle
<1>4. ASSUME NEW p \in Procs, Done(p) PROVE \A q \in Procs : CallKnown(proc'[q])
  BY <1>0, <1>3, <1>4, DoneMoves
<1>5. ASSUME NEW p \in Procs, NEW stage \in Stages, Goto(p, stage),
             proc[p].pc \in {"link", "write", "sync"} \/ stage = "promote"
      PROVE  \A q \in Procs : CallKnown(proc'[q])
  <2>1. /\ proc'[p].pc = stage /\ proc'[p].cid = proc[p].cid
        /\ proc'[p].batch = proc[p].batch
        /\ \A q \in Procs : q # p => proc'[q] = proc[q]
    BY <1>5, GotoMoves
  <2>2. CallKnown(proc'[p])
    BY <1>0, <1>5, <2>1
  <2> QED
    BY <1>0, <2>1, <2>2
<1>6. ASSUME NEW p \in Procs, NEW stage \in Stages, NEW c \in 0..MaxAnchors,
             NEW k \in Codes \union {NoCode}, NEW b \in SUBSET (1..Len(signed)),
             stage \in {"link", "veto", "sync"} => c \in 1..Len(signed), stage # "write",
             proc' = [proc EXCEPT ![p] = Call(stage, c, k, b)]
      PROVE  \A q \in Procs : CallKnown(proc'[q])
  <2>1. b \in SUBSET Cids
    BY SignedParts
  <2>2. /\ proc'[p] = Call(stage, c, k, b)
        /\ \A q \in Procs : q # p => proc'[q] = proc[q]
    BY <1>6, <2>1, CallMoves
  <2>3. CallKnown(proc'[p])
    <3>1. proc'[p].pc = stage /\ proc'[p].cid = c /\ proc'[p].batch = b
      BY <2>2 DEF Call
    <3> QED
      BY <1>6, <3>1
  <2> QED
    BY <1>0, <2>2, <2>3
<1>7. CASE \/ \E new \in SUBSET Codes : Configure(new)
           \/ \E c \in Cids : GraceElapses(c)
           \/ UNCHANGED vars
  BY <1>0, <1>2, <1>7 DEF Configure, GraceElapses, vars
<1>8. ASSUME NEW p \in Clients, NEW c \in 1..Len(signed), NEW k \in Codes \union {NoCode},
             Start(p, c, k) \/ Veto(p, c)
      PROVE  Known'
  <2>1. p \in Procs /\ c \in 0..MaxAnchors /\ {} \in SUBSET (1..Len(signed))
    BY SignedParts DEF Procs, Cids
  <2>2. CASE Start(p, c, k)
    <3>1. \A q \in Procs : CallKnown(proc'[q])
      BY <2>1, <2>2, <1>6 DEF Start, Stages
    <3> QED
      BY <2>2, <3>1, <1>2 DEF Start
  <2>3. CASE Veto(p, c)
    <3>1. \A q \in Procs : CallKnown(proc'[q])
      BY <2>1, <2>3, <1>6 DEF Veto, Stages
    <3> QED
      BY <2>3, <3>1, <1>2 DEF Veto
  <2> QED
    BY <1>8, <2>2, <2>3
<1>9. ASSUME NEW p \in Crons, ReadDue(p) PROVE Known'
  <2>1. p \in Procs /\ due \in SUBSET (1..Len(signed)) /\ 0 \in 0..MaxAnchors
    <3>1. \A c \in due : c \in Cids /\ state[c] = "pending"
      BY DEF TypeOK
    <3>2. due \in SUBSET (1..Len(signed))
      BY <3>1 DEF Known
    <3> QED
      BY <3>2 DEF Procs
  <2>2. \A q \in Procs : CallKnown(proc'[q])
    BY <1>9, <2>1, <1>6 DEF ReadDue, Stages
  <2> QED
    BY <1>9, <2>2, <1>2 DEF ReadDue
<1>10. ASSUME NEW p \in Procs, Link(p) \/ Sync(p) \/ SkipFrozen(p) \/ Crash(p) PROVE Known'
  <2>1. \A q \in Procs : CallKnown(proc'[q])
    BY <1>10, <1>4, <1>5 DEF Link, Sync, SkipFrozen, Crash, Stages
  <2> QED
    BY <1>10, <2>1, <1>2 DEF Link, Sync, SkipFrozen, Crash
<1>11. ASSUME NEW p \in Procs, WriteActive(p) PROVE Known'
  <2>1. \A q \in Procs : CallKnown(proc'[q])
    BY <1>11, <1>4, <1>5 DEF WriteActive, Stages
  <2>2. proc[p].cid \in 1..Len(signed)
    BY <1>11 DEF WriteActive, Known
  <2>3. signed[proc[p].cid].prev # 0 => state[signed[proc[p].cid].prev] # "none"
    BY <2>2 DEF Known
  <2>4. 0 \notin Cids
    BY DEF Cids
  <2>5. \A c \in Cids : state[c] = "none" /\ state'[c] # "none" => c = proc[p].cid
    <3>1. CASE state' = state
      BY <3>1
    <3>2. CASE state' # state
      BY <1>11, <2>3, <2>4, <3>2 DEF WriteActive, Replaced
    <3> QED
      BY <3>1, <3>2
  <2> QED
    BY <1>11, <2>1, <2>2, <2>5, <1>2 DEF WriteActive
<1>12. ASSUME NEW p \in Procs, WritePending(p) PROVE Known'
  <2>1. \A q \in Procs : CallKnown(proc'[q])
    BY <1>12, <1>4 DEF WritePending
  <2>2. proc[p].cid \in 1..Len(signed)
    BY <1>12 DEF WritePending, Known
  <2>3. \A c \in Cids : state[c] = "none" /\ state'[c] # "none" => c = proc[p].cid
    BY <1>12 DEF WritePending, TypeOK
  <2> QED
    BY <1>12, <2>1, <2>2, <2>3, <1>2 DEF WritePending
<1>13. ASSUME NEW p \in Procs, PromoteOne(p) PROVE Known'
  <2>1. PICK c \in proc[p].batch :
          /\ state' = [d \in Cids |-> IF d = c THEN "active"
                                      ELSE IF d \in Active THEN "superseded" ELSE state[d]]
          /\ proc' = [proc EXCEPT ![p] = Call("sync", c, NoCode, @.batch \ {c})]
          /\ signed' = signed
    BY <1>13 DEF PromoteOne
  <2>2. /\ c \in 1..Len(signed) /\ c \in 0..MaxAnchors
        /\ proc[p].batch \ {c} \in SUBSET (1..Len(signed))
    BY <2>1, SignedParts DEF Known, Cids
  <2>3. proc' = [proc EXCEPT ![p] = Call("sync", c, NoCode, proc[p].batch \ {c})]
    BY <2>1 DEF TypeOK
  <2>4. \A q \in Procs : CallKnown(proc'[q])
    BY <2>2, <2>3, <1>6 DEF Stages
  <2>5. \A d \in Cids : state[d] = "none" /\ state'[d] # "none" => d = c
    BY <2>1 DEF Active
  <2> QED
    BY <2>1, <2>2, <2>4, <2>5, <1>2
<1>14. ASSUME NEW p \in Procs, DoVeto(p) PROVE Known'
  <2>1. \A q \in Procs : CallKnown(proc'[q])
    BY <1>14, <1>0, <1>3 DEF DoVeto, TypeOK
  <2>2. proc[p].cid \in 1..Len(signed)
    BY <1>14 DEF DoVeto, Known
  <2>3. \A c \in Cids : state[c] = "none" /\ state'[c] # "none" => c = proc[p].cid
    BY <1>14 DEF DoVeto, TypeOK
  <2> QED
    BY <1>14, <2>1, <2>2, <2>3, <1>2 DEF DoVeto
<1> QED
  BY <1>1, <1>7, <1>8, <1>9, <1>10, <1>11, <1>12, <1>13, <1>14 DEF Next, Submit, Recover, Step
-----------------------------------------------------------------------------
(***************************************************************************)
(* A call that activates an anchor leaves it the only active one: the row  *)
(* it replaces was the only other (one-active index), or promotion         *)
(* supersedes whatever is active.                                          *)
(***************************************************************************)
LEMMA NextOneActive == TypeOK /\ Known /\ OneActive /\ [Next]_vars => OneActive'
<1> SUFFICES ASSUME TypeOK, Known, OneActive, [Next]_vars PROVE OneActive'
  OBVIOUS
<1>1. ASSUME Active' \subseteq Active PROVE OneActive'
  BY <1>1 DEF OneActive
<1>2. CASE state' = state
  BY <1>1, <1>2 DEF Active
<1>3. ASSUME NEW p \in Procs, WriteActive(p) PROVE OneActive'
  <2>1. CASE state' # state
    <3> DEFINE c == proc[p].cid
    <3>1. /\ Active \ Replaced(c) = {}
          /\ state' = [d \in Cids |-> IF d = c THEN "active"
                                      ELSE IF d \in Replaced(c) THEN "superseded"
                                      ELSE state[d]]
      BY <1>3, <2>1 DEF WriteActive, Insertable
    <3> QED
      BY <3>1 DEF OneActive, Active
  <2> QED
    BY <1>2, <2>1
<1>4. ASSUME NEW p \in Procs, WritePending(p) PROVE OneActive'
  BY <1>1, <1>4 DEF WritePending, Active, TypeOK
<1>5. ASSUME NEW p \in Procs, PromoteOne(p) PROVE OneActive'
  BY <1>5 DEF PromoteOne, OneActive, Active
<1>6. ASSUME NEW p \in Procs, DoVeto(p) PROVE OneActive'
  BY <1>1, <1>6 DEF DoVeto, Active, TypeOK
<1>7. CASE \E p \in Procs : Link(p) \/ Sync(p) \/ SkipFrozen(p) \/ Crash(p)
  BY <1>2, <1>7 DEF Link, Sync, SkipFrozen, Crash
<1>8. CASE \/ \E body \in Bodies : Sign(body)
           \/ \E new \in SUBSET Codes : Configure(new)
           \/ \E c \in Cids : GraceElapses(c)
           \/ \E p \in Crons : ReadDue(p)
  BY <1>2, <1>8 DEF Sign, Configure, GraceElapses, ReadDue
<1>9. CASE \E p \in Clients, c \in 1..Len(signed) :
             Submit(p, c) \/ Veto(p, c) \/ \E k \in Codes : Recover(p, c, k)
  BY <1>2, <1>9 DEF Submit, Recover, Start, Veto
<1> QED
  BY <1>2, <1>3, <1>4, <1>5, <1>6, <1>7, <1>8, <1>9 DEF Next, Step, vars

(***************************************************************************)
(* While the DID is frozen nobody passes the freeze check any more, and    *)
(* whoever had passed it when the freeze was written is in `late` until    *)
(* its call is over.                                                       *)
(***************************************************************************)
LEMMA NextFreezeSeen == TypeOK /\ FreezeSeen /\ [Next]_vars => FreezeSeen'
<1> SUFFICES ASSUME TypeOK, FreezeSeen, [Next]_vars, frozen' PROVE PastCheck' \subseteq late'
  BY DEF FreezeSeen
<1> DEFINE Past(x) == x.pc \in {"link", "write", "promote"} \/ (x.pc = "sync" /\ x.batch # {})
<1>0. frozen => \A p \in Procs : Past(proc[p]) => p \in late
  BY DEF FreezeSeen, PastCheck
<1>1. ASSUME \A p \in Procs : Past(proc'[p]) => p \in late' PROVE PastCheck' \subseteq late'
  BY <1>1 DEF PastCheck
<1>2. CASE UNCHANGED <<frozen, proc, late>>
  BY <1>0, <1>1, <1>2
<1>3. ~Past(Idle)
  BY CallParts DEF Idle
<1>4. ASSUME NEW p \in Procs, Done(p), frozen PROVE PastCheck' \subseteq late'
  BY <1>0, <1>1, <1>3, <1>4, DoneMoves
<1>5. ASSUME NEW p \in Procs, NEW stage \in Stages, Goto(p, stage), frozen,
             Past(proc[p]) \/ (stage = "sync" /\ proc[p].batch = {})
      PROVE  PastCheck' \subseteq late'
  <2>1. /\ proc'[p].pc = stage /\ proc'[p].batch = proc[p].batch /\ late' = late
        /\ \A q \in Procs : q # p => proc'[q] = proc[q]
    BY <1>5, GotoMoves
  <2>2. Past(proc'[p]) => p \in late
    BY <1>0, <1>5, <2>1
  <2> QED
    BY <1>0, <1>1, <1>5, <2>1, <2>2
<1>6. CASE \/ \E body \in Bodies : Sign(body)
           \/ \E new \in SUBSET Codes : Configure(new)
           \/ \E c \in Cids : GraceElapses(c)
           \/ UNCHANGED vars
  BY <1>2, <1>6 DEF Sign, Configure, GraceElapses, vars
<1>7. CASE \E p \in Clients, c \in 1..Len(signed) :
             Submit(p, c) \/ Veto(p, c) \/ \E k \in Codes : Recover(p, c, k)
  BY <1>7 DEF Submit, Recover, Start, Veto
<1>8. ASSUME NEW p \in Crons, ReadDue(p) PROVE PastCheck' \subseteq late'
  <2>1. p \in Procs /\ due \in SUBSET Cids /\ 0 \in 0..MaxAnchors
    BY AnchorsAssumption DEF Procs, TypeOK
  <2>2. /\ proc'[p] = Call("filter", 0, NoCode, due)
        /\ \A q \in Procs : q # p => proc'[q] = proc[q]
    BY <1>8, <2>1, CallMoves DEF ReadDue, Stages
  <2>3. ~Past(proc'[p])
    BY <2>2, CallParts
  <2> QED
    BY <1>8, <1>0, <1>1, <2>2, <2>3 DEF ReadDue
<1>9. ASSUME NEW p \in Procs, Link(p) \/ WriteActive(p) \/ WritePending(p) \/ Sync(p)
                              \/ SkipFrozen(p) \/ Crash(p)
      PROVE  PastCheck' \subseteq late'
  BY <1>9, <1>4, <1>5 DEF Link, WriteActive, WritePending, Sync, SkipFrozen, Crash, Stages
<1>10. ASSUME NEW p \in Procs, PromoteOne(p) PROVE PastCheck' \subseteq late'
  <2>1. /\ proc[p].pc = "promote" /\ late' = late /\ frozen
        /\ \A q \in Procs : q # p => proc'[q] = proc[q]
    BY <1>10 DEF PromoteOne, TypeOK
  <2> QED
    BY <1>0, <1>1, <2>1
<1>11. ASSUME NEW p \in Procs, DoVeto(p) PROVE PastCheck' \subseteq late'
  <2>1. /\ proc'[p] = Idle
        /\ \A q \in Procs : q # p => proc'[q] = proc[q]
        /\ late' = IF frozen THEN late ELSE PastCheck
    BY <1>11 DEF DoVeto, TypeOK
  <2>2. \A q \in Procs : Past(proc'[q]) => Past(proc[q])
    BY <1>3, <2>1
  <2> QED
    BY <1>0, <1>1, <2>1, <2>2 DEF PastCheck
<1> QED
  BY <1>6, <1>7, <1>8, <1>9, <1>10, <1>11 DEF Next, Step
-----------------------------------------------------------------------------
CodesInv == CodesLocked /\ CodeUsedOnce

(***************************************************************************)
(* A code is locked while a call presents it, so the call that writes the  *)
(* recovery marks a code used that nothing else could have used.           *)
(***************************************************************************)
LEMMA NextCodes == TypeOK /\ Known /\ CodesInv /\ [Next]_vars => CodesInv'
<1> SUFFICES ASSUME TypeOK, Known, CodesInv, [Next]_vars PROVE CodesInv'
  OBVIOUS
<1> USE AnchorsAssumption
<1> DEFINE Held(P) == \A p \in Procs : P[p].code # NoCode =>
                        /\ code[P[p].code] = "active"
                        /\ P[p].pc \in {"link", "write"}
                        /\ \A q \in Procs : P[q].code = P[p].code => q = p
<1>0. Held(proc) /\ CodeUsedOnce /\ \A c \in Cids : state[c] = "none" => spent[c] = NoCode
  BY DEF CodesInv, CodesLocked
<1>1. ASSUME UNCHANGED <<code, spent>>, Held(proc') PROVE CodesInv'
  BY <1>0, <1>1, RowsStay DEF CodesInv, CodesLocked, CodeUsedOnce
<1>2. Idle.code = NoCode
  BY CallParts DEF Idle
<1>3. ASSUME NEW p \in Procs, proc'[p].code = NoCode,
             \A q \in Procs : q # p => proc'[q] = proc[q]
      PROVE  Held(proc')
  BY <1>0, <1>3
<1>4. ASSUME NEW p \in Procs, Done(p) PROVE Held(proc')
  BY <1>2, <1>3, <1>4, DoneMoves
<1>5. ASSUME NEW p \in Procs, NEW stage \in Stages, Goto(p, stage),
             proc[p].code = NoCode \/ stage = "write"
      PROVE  Held(proc')
  <2>1. /\ proc'[p].pc = stage /\ proc'[p].code = proc[p].code
        /\ \A q \in Procs : q # p => proc'[q] = proc[q]
    BY <1>5, GotoMoves
  <2>2. \A q \in Procs : proc'[q].code = proc[q].code
    BY <2>1
  <2>3. \A q \in Procs : proc'[q].code # NoCode => proc'[q].pc \in {"link", "write"}
    BY <1>0, <1>5, <2>1
  <2> QED
    BY <1>0, <2>2, <2>3
<1>6. CASE \/ \E body \in Bodies : Sign(body)
           \/ \E c \in Cids : GraceElapses(c)
           \/ UNCHANGED vars
  BY <1>0, <1>1, <1>6 DEF Sign, GraceElapses, vars
<1>7. ASSUME NEW new \in SUBSET Codes, Configure(new) PROVE CodesInv'
  <2>1. /\ proc' = proc /\ spent' = spent /\ state' = state
        /\ \A p \in Procs : proc[p].code = NoCode
        /\ \A k \in new : code[k] = "unset"
        /\ code' = [k \in Codes |-> IF k \in new THEN "active"
                              ELSE IF code[k] = "active" THEN "revoked" ELSE code[k]]
    BY <1>7 DEF Configure
  <2>2. CodesLocked'
    BY <1>0, <2>1 DEF CodesLocked
  <2>3. \A k \in Codes : code'[k] = "used" <=> code[k] = "used"
    BY <2>1 DEF TypeOK
  <2>4. CodeUsedOnce'
    BY <1>0, <2>1, <2>3 DEF CodeUsedOnce
  <2> QED
    BY <2>2, <2>4 DEF CodesInv
<1>8. ASSUME NEW p \in Clients, NEW c \in 1..Len(signed), NEW k \in Codes \union {NoCode},
             Start(p, c, k),
             k # NoCode => code[k] = "active" /\ \A q \in Procs : proc[q].code # k
      PROVE  CodesInv'
  <2>1. p \in Procs /\ c \in 0..MaxAnchors /\ {} \in SUBSET Cids
    BY SignedParts DEF Procs, Cids
  <2>2. /\ proc'[p] = Call("link", c, k, {})
        /\ \A q \in Procs : q # p => proc'[q] = proc[q]
    BY <1>8, <2>1, CallMoves DEF Start, Stages
  <2>3. proc'[p].pc = "link" /\ proc'[p].code = k
    BY <2>2 DEF Call
  <2>4. Held(proc')
    BY <1>0, <1>8, <2>2, <2>3
  <2> QED
    BY <1>1, <1>8, <2>4 DEF Start
<1>9. ASSUME NEW p \in Clients, NEW c \in 1..Len(signed), Veto(p, c) PROVE CodesInv'
  <2>1. p \in Procs /\ c \in 0..MaxAnchors /\ {} \in SUBSET Cids
    BY SignedParts DEF Procs, Cids
  <2>2. /\ proc'[p] = Call("veto", c, NoCode, {})
        /\ \A q \in Procs : q # p => proc'[q] = proc[q]
    BY <1>9, <2>1, CallMoves DEF Veto, Stages
  <2>3. proc'[p].code = NoCode
    BY <2>2 DEF Call
  <2> QED
    BY <1>1, <1>3, <1>9, <2>1, <2>2, <2>3 DEF Veto
<1>10. ASSUME NEW p \in Crons, ReadDue(p) PROVE CodesInv'
  <2>1. p \in Procs /\ due \in SUBSET Cids /\ 0 \in 0..MaxAnchors
    BY DEF Procs, TypeOK
  <2>2. /\ proc'[p] = Call("filter", 0, NoCode, due)
        /\ \A q \in Procs : q # p => proc'[q] = proc[q]
    BY <1>10, <2>1, CallMoves DEF ReadDue, Stages
  <2>3. proc'[p].code = NoCode
    BY <2>2 DEF Call
  <2> QED
    BY <1>1, <1>3, <1>10, <2>1, <2>2, <2>3 DEF ReadDue
<1>11. ASSUME NEW p \in Procs, Link(p) \/ WriteActive(p) \/ Sync(p) \/ SkipFrozen(p) \/ Crash(p)
       PROVE  CodesInv'
  <2>1. proc[p].pc \in {"filter", "sync"} => proc[p].code = NoCode
    BY <1>0
  <2>2. Held(proc')
    BY <1>11, <1>4, <1>5, <2>1 DEF Link, WriteActive, Sync, SkipFrozen, Crash, Stages
  <2> QED
    BY <1>1, <1>11, <2>2 DEF Link, WriteActive, Sync, SkipFrozen, Crash
<1>12. ASSUME NEW p \in Procs, WritePending(p) PROVE CodesInv'
  <2> DEFINE c == proc[p].cid
             k == proc[p].code
  <2>1. c \in Cids /\ k \in Codes \union {NoCode} /\ Held(proc')
    BY <1>12, <1>4, ProcParts, SignedParts DEF WritePending, Known
  <2>2. CASE state[c] # "none"
    BY <1>1, <1>12, <2>1, <2>2 DEF WritePending
  <2>3. CASE state[c] = "none"
    <3>1. /\ spent' = [spent EXCEPT ![c] = k]
          /\ state' = [state EXCEPT ![c] = "pending"]
          /\ code' = [x \in Codes |-> IF x = k THEN "used" ELSE code[x]]
          /\ Done(p)
      BY <1>12, <2>3 DEF WritePending
    <3>2. spent[c] = NoCode /\ spent'[c] = k /\ \A d \in Cids : d # c => spent'[d] = spent[d]
      BY <1>0, <2>1, <2>3, <3>1 DEF TypeOK
    <3>3. k # NoCode => k \in Codes /\ code[k] = "active" /\ \A d \in Cids : spent[d] # k
      BY <1>0, <2>1 DEF CodeUsedOnce
    <3>4. /\ proc'[p].code = NoCode
          /\ \A q \in Procs : q # p => proc'[q] = proc[q]
      BY <1>2, <3>1, DoneMoves
    <3>5. \A q \in Procs : proc'[q].code # NoCode => proc'[q].code # k /\ proc'[q].code \in Codes
      BY <1>0, <3>4, ProcParts
    <3>6. CodesLocked'
      <4>1. \A q \in Procs : proc'[q].code # NoCode => code'[proc'[q].code] = "active"
        BY <2>1, <3>1, <3>5
      <4>2. \A d \in Cids : state'[d] = "none" => spent'[d] = NoCode
        BY <1>0, <2>1, <3>1, <3>2 DEF TypeOK
      <4> QED
        BY <2>1, <4>1, <4>2 DEF CodesLocked
    <3>7. CodeUsedOnce'
      BY <1>0, <2>1, <3>1, <3>2, <3>3 DEF CodeUsedOnce
    <3> QED
      BY <3>6, <3>7 DEF CodesInv
  <2> QED
    BY <2>2, <2>3
<1>13. ASSUME NEW p \in Procs, PromoteOne(p) PROVE CodesInv'
  <2>1. PICK c \in proc[p].batch :
          /\ proc' = [proc EXCEPT ![p] = Call("sync", c, NoCode, @.batch \ {c})]
          /\ UNCHANGED <<code, spent>>
    BY <1>13 DEF PromoteOne
  <2>2. /\ proc'[p] = Call("sync", c, NoCode, proc[p].batch \ {c})
        /\ \A q \in Procs : q # p => proc'[q] = proc[q]
    BY <2>1 DEF TypeOK
  <2>3. proc'[p].code = NoCode
    BY <2>2 DEF Call
  <2> QED
    BY <1>1, <1>3, <2>1, <2>2, <2>3
<1>14. ASSUME NEW p \in Procs, DoVeto(p) PROVE CodesInv'
  <2>1. proc'[p] = Idle /\ (\A q \in Procs : q # p => proc'[q] = proc[q]) /\ UNCHANGED <<code, spent>>
    BY <1>14 DEF DoVeto, TypeOK
  <2> QED
    BY <1>1, <1>2, <1>3, <2>1
<1>15. CASE \E p \in Clients, c \in 1..Len(signed) :
              Submit(p, c) \/ Veto(p, c) \/ \E k \in Codes : Recover(p, c, k)
  BY <1>8, <1>9, <1>15 DEF Submit, Recover
<1> QED
  BY <1>6, <1>7, <1>10, <1>11, <1>12, <1>13, <1>14, <1>15 DEF Next, Step

-----------------------------------------------------------------------------
(***************************************************************************)
(* IInv is an invariant of the anchor store.                               *)
(***************************************************************************)
LEMMA InvHolds == Spec => []IInv
<1>1. IInv /\ [Next]_vars => IInv'
  BY NextTypeOK, NextKnown, NextOneActive, NextFreezeSeen, NextCodes DEF IInv, CodesInv
<1> QED
  BY InitIInv, <1>1, PTL DEF Spec

(***************************************************************************)
(* Types are kept, and only a pending recovery has a grace window.         *)
(***************************************************************************)
THEOREM AnchorsTypeCorrect == Spec => []TypeOK
  BY InvHolds, PTL DEF IInv

(***************************************************************************)
(* At most one anchor of the DID is active, whatever calls overlap.        *)
(***************************************************************************)
THEOREM OneActiveHolds == Spec => []OneActive
  BY InvHolds, PTL DEF IInv

(***************************************************************************)
(* A recovery code starts at most one recovery.                            *)
(***************************************************************************)
THEOREM CodeUsedOnceHolds == Spec => []CodeUsedOnce
  BY InvHolds, PTL DEF IInv

(***************************************************************************)
(* Once the calls that had passed their freeze check are over, nothing     *)
(* becomes active under a freeze.                                          *)
(***************************************************************************)
THEOREM FreezeHoldsAlways == Spec => FreezeHolds
<1>1. IInv /\ [Next]_vars => [frozen /\ late = {} => Active' \subseteq Active]_vars
  <2> SUFFICES ASSUME IInv, [Next]_vars, frozen, late = {}
               PROVE  Active' \subseteq Active
    OBVIOUS
  <2>1. PastCheck = {}
    BY DEF IInv, FreezeSeen
  <2>2. CASE state' = state
    BY <2>2 DEF Active
  <2>3. ASSUME NEW p \in Procs, WriteActive(p) \/ PromoteOne(p) PROVE FALSE
    BY <2>1, <2>3 DEF WriteActive, PromoteOne, PastCheck
  <2>4. ASSUME NEW p \in Procs, WritePending(p) \/ DoVeto(p) PROVE Active' \subseteq Active
    BY <2>4, ZenonT(30) DEF WritePending, DoVeto, Active, IInv, TypeOK
  <2>5. CASE \E p \in Procs : Link(p) \/ Sync(p) \/ SkipFrozen(p) \/ Crash(p)
    BY <2>2, <2>5 DEF Link, Sync, SkipFrozen, Crash
  <2>6. CASE \/ \E body \in Bodies : Sign(body)
             \/ \E new \in SUBSET Codes : Configure(new)
             \/ \E c \in Cids : GraceElapses(c)
             \/ \E p \in Crons : ReadDue(p)
             \/ UNCHANGED vars
    BY <2>2, <2>6 DEF Sign, Configure, GraceElapses, ReadDue, vars
  <2>7. CASE \E p \in Clients, c \in 1..Len(signed) :
               Submit(p, c) \/ Veto(p, c) \/ \E k \in Codes : Recover(p, c, k)
    BY <2>2, <2>7 DEF Submit, Recover, Start, Veto
  <2> QED
    BY <2>3, <2>4, <2>5, <2>6, <2>7 DEF Next, Step
<1> QED
  BY InvHolds, <1>1, PTL DEF Spec, FreezeHolds

-----------------------------------------------------------------------------
(* The chain that get_chain walks.                                         *)

(* g is the walk over the rows R of the anchors s, from every start.       *)
IsWalk(g, R, s) ==
  g = [d \in 0..MaxAnchors |->
         IF d = 0 THEN {0} ELSE IF d \in R THEN {d} \union g[s[d].prev] ELSE {}]

WalkFrom(R, s) == CHOOSE g : IsWalk(g, R, s)

(* What the walk from d meets: the rows in every set that holds d and,     *)
(* with each of its rows, the predecessor.                                 *)
Reach(d, R, s) ==
  {x \in R \union {0} :
     \A S \in SUBSET Nat : d \in S /\ (\A y \in S \intersect R : s[y].prev \in S) => x \in S}

(***************************************************************************)
(* The equation of walk_chain has a solution, so WalkChain solves it.      *)
(***************************************************************************)
LEMMA WalkExists ==
  ASSUME NEW R \in SUBSET Cids, NEW s, \A d \in R : s[d].prev \in 0..MaxAnchors
  PROVE  IsWalk(WalkFrom(R, s), R, s)
<1> DEFINE g == [d \in 0..MaxAnchors |-> Reach(d, R, s)]
<1>0. MaxAnchors \in Nat /\ 0 \notin R /\ R \subseteq 0..MaxAnchors /\ 0..MaxAnchors \subseteq Nat
  BY AnchorsAssumption DEF Cids
<1>1. Reach(0, R, s) = {0}
  <2>1. {0} \in SUBSET Nat /\ {0} \intersect R = {}
    BY <1>0
  <2>2. \A x \in Reach(0, R, s) : x \in {0}
    BY <2>1, Zenon DEF Reach
  <2>3. 0 \in Reach(0, R, s)
    BY Zenon DEF Reach
  <2> QED
    BY <2>2, <2>3
<1>2. ASSUME NEW d \in R PROVE Reach(d, R, s) = {d} \union Reach(s[d].prev, R, s)
  <2>1. ASSUME NEW x \in Reach(d, R, s), x # d PROVE x \in Reach(s[d].prev, R, s)
    <3> SUFFICES ASSUME NEW S \in SUBSET Nat, s[d].prev \in S,
                        \A y \in S \intersect R : s[y].prev \in S
                 PROVE  x \in S
      BY <2>1, Zenon DEF Reach
    <3>1. S \union {d} \in SUBSET Nat
      BY <1>0
    <3>2. \A y \in (S \union {d}) \intersect R : s[y].prev \in S \union {d}
      OBVIOUS
    <3>3. x \in S \union {d}
      BY <3>1, <3>2, Zenon DEF Reach
    <3> QED
      BY <2>1, <3>3
  <2>2. d \in Reach(d, R, s)
    BY Zenon DEF Reach
  <2>3. ASSUME NEW x \in Reach(s[d].prev, R, s) PROVE x \in Reach(d, R, s)
    BY <2>3, Zenon DEF Reach
  <2> QED
    BY <2>1, <2>2, <2>3
<1>3. ASSUME NEW d \in 0..MaxAnchors, d # 0, d \notin R PROVE Reach(d, R, s) = {}
  <2>1. {d} \in SUBSET Nat /\ {d} \intersect R = {}
    BY <1>0, <1>3
  <2>2. \A x \in Reach(d, R, s) : x \in {d}
    BY <2>1, Zenon DEF Reach
  <2>3. \A x \in Reach(d, R, s) : x \in R \union {0}
    BY Zenon DEF Reach
  <2> QED
    BY <1>3, <2>2, <2>3
<1> HIDE DEF Reach
<1>4. \A d \in 0..MaxAnchors :
        g[d] = IF d = 0 THEN {0} ELSE IF d \in R THEN {d} \union g[s[d].prev] ELSE {}
  BY <1>1, <1>2, <1>3
<1>5. g = [d \in 0..MaxAnchors |->
             IF d = 0 THEN {0} ELSE IF d \in R THEN {d} \union g[s[d].prev] ELSE {}]
  BY <1>4
<1>6. IsWalk(g, R, s)
  BY <1>5 DEF IsWalk
<1> QED
  BY <1>6 DEF WalkFrom

(***************************************************************************)
(* The steps of a walk.                                                    *)
(***************************************************************************)
LEMMA WalkSteps ==
  ASSUME NEW R \in SUBSET Cids, NEW s, NEW g, IsWalk(g, R, s)
  PROVE  /\ g[0] = {0}
         /\ \A d \in R : g[d] = {d} \union g[s[d].prev]
         /\ \A d \in 1..MaxAnchors : d \notin R => g[d] = {}
<1>1. 0 \in 0..MaxAnchors /\ 0 \notin R /\ R \subseteq 0..MaxAnchors
  BY AnchorsAssumption DEF Cids
<1>2. \A d \in 0..MaxAnchors :
        g[d] = IF d = 0 THEN {0} ELSE IF d \in R THEN {d} \union g[s[d].prev] ELSE {}
  BY DEF IsWalk
<1>3. g[0] = {0}
  BY <1>1, <1>2
<1>4. ASSUME NEW d \in R PROVE g[d] = {d} \union g[s[d].prev]
  BY <1>1, <1>2
<1>5. ASSUME NEW d \in 1..MaxAnchors, d \notin R PROVE g[d] = {}
  <2>1. d \in 0..MaxAnchors /\ d # 0
    OBVIOUS
  <2> QED
    BY <1>2, <1>5, <2>1
<1> QED
  BY <1>3, <1>4, <1>5

(***************************************************************************)
(* Predecessors come first, so a walk only meets earlier anchors.          *)
(***************************************************************************)
LEMMA WalkBelow ==
  ASSUME NEW R \in SUBSET Cids, NEW s, NEW g, IsWalk(g, R, s),
         \A d \in R : s[d].prev \in 0..(d - 1)
  PROVE  \A d \in 0..MaxAnchors : g[d] \subseteq 0..d
<1> DEFINE T == {n \in Nat : \A d \in 0..n : g[d] \subseteq 0..d}
<1>1. /\ g[0] = {0}
      /\ \A d \in R : g[d] = {d} \union g[s[d].prev]
      /\ \A d \in 1..MaxAnchors : d \notin R => g[d] = {}
  BY WalkSteps, ZenonT(60)
<1>2. MaxAnchors \in Nat
  BY AnchorsAssumption
<1>3. 0 \in T
  BY <1>1
<1>4. ASSUME NEW n \in 1..MaxAnchors, n - 1 \in T PROVE n \in T
  <2>1. \A d \in 0..(n - 1) : g[d] \subseteq 0..d
    BY <1>4
  <2>2. CASE n \in R
    <3>1. s[n].prev \in 0..(n - 1) /\ g[n] = {n} \union g[s[n].prev]
      BY <1>1, <2>2
    <3>2. g[s[n].prev] \subseteq 0..s[n].prev
      BY <2>1, <3>1
    <3> QED
      BY <2>1, <3>1, <3>2
  <2>3. CASE n \notin R
    BY <1>1, <1>2, <2>1, <2>3
  <2> QED
    BY <2>2, <2>3
<1> HIDE DEF T
<1>5. \A n \in 0..MaxAnchors : n \in T
  BY <1>2, <1>3, <1>4, IntervalInduction
<1> USE DEF T
<1> QED
  BY <1>2, <1>5

(* Up to m, R and Q are the same rows with the same, earlier predecessors. *)
Agree(m, R, s, Q, t) ==
  /\ \A d \in 1..m : d \in R <=> d \in Q
  /\ \A d \in 1..m : d \in R => s[d].prev \in 0..(d - 1) /\ t[d].prev = s[d].prev

(***************************************************************************)
(* A walk depends on the rows and predecessors up to its start only.       *)
(***************************************************************************)
LEMMA WalkAgrees ==
  ASSUME NEW R \in SUBSET Cids, NEW s, NEW g, IsWalk(g, R, s),
         NEW Q \in SUBSET Cids, NEW t, NEW h, IsWalk(h, Q, t),
         NEW m \in 0..MaxAnchors, Agree(m, R, s, Q, t)
  PROVE  \A d \in 0..m : g[d] = h[d]
<1>1. /\ \A d \in 1..m : d \in R <=> d \in Q
      /\ \A d \in 1..m : d \in R => s[d].prev \in 0..(d - 1) /\ t[d].prev = s[d].prev
  BY DEF Agree
<1> DEFINE T == {n \in Nat : \A d \in 0..n : g[d] = h[d]}
<1>2. /\ g[0] = {0}
      /\ \A d \in R : g[d] = {d} \union g[s[d].prev]
      /\ \A d \in 1..MaxAnchors : d \notin R => g[d] = {}
  BY WalkSteps, ZenonT(60)
<1>3. /\ h[0] = {0}
      /\ \A d \in Q : h[d] = {d} \union h[t[d].prev]
      /\ \A d \in 1..MaxAnchors : d \notin Q => h[d] = {}
  BY WalkSteps, ZenonT(60)
<1>4. m \in Nat /\ MaxAnchors \in Nat
  BY AnchorsAssumption
<1>5. 0 \in T
  <2>1. g[0] = h[0]
    BY <1>2, <1>3, Zenon
  <2>2. \A d \in 0..0 : d = 0
    OBVIOUS
  <2> QED
    BY <2>1, <2>2
<1>6. ASSUME NEW n \in 1..m, n - 1 \in T PROVE n \in T
  <2>1. \A d \in 0..(n - 1) : g[d] = h[d]
    BY <1>6
  <2>2. CASE n \in R
    <3>1. g[n] = {n} \union g[s[n].prev] /\ h[n] = {n} \union h[t[n].prev]
      BY <1>2, <1>3, <1>1, <2>2
    <3>2. s[n].prev \in 0..(n - 1) /\ t[n].prev = s[n].prev
      BY <1>1, <2>2
    <3>3. g[n] = h[n]
      BY <2>1, <3>1, <3>2
    <3> QED
      BY <2>1, <3>3
  <2>3. CASE n \notin R
    <3>1. g[n] = {} /\ h[n] = {}
      <4>1. n \in 1..MaxAnchors /\ n \notin Q
        BY <1>4, <1>1, <2>3
      <4> QED
        BY <1>2, <1>3, <2>3, <4>1
    <3>2. g[n] = h[n]
      BY <3>1, Zenon
    <3> QED
      BY <2>1, <3>2
  <2> QED
    BY <2>2, <2>3
<1> HIDE DEF T
<1>7. \A n \in 0..m : n \in T
  BY <1>4, <1>5, <1>6, IntervalInduction
<1> USE DEF T
<1> QED
  BY <1>4, <1>7

-----------------------------------------------------------------------------
(***************************************************************************)
(* What the chain rests on: only a veto, which freezes the DID, takes a    *)
(* row out of it, so a DID that has rows and is not frozen has an active   *)
(* one; and a promotion job works on rows that are there.                  *)
(***************************************************************************)
ChainInv ==
  /\ \A c \in Cids : state[c] = "vetoed" => frozen
  /\ frozen \/ Rows = {} \/ Active # {}
  /\ \A p \in Procs : \A c \in proc[p].batch : state[c] # "none"

(***************************************************************************)
(* Every step keeps ChainInv.                                              *)
(***************************************************************************)
LEMMA NextChainInv == IInv /\ ChainInv /\ [Next]_vars => ChainInv'
<1> SUFFICES ASSUME TypeOK, Known, ChainInv, [Next]_vars PROVE ChainInv'
  BY DEF IInv
<1> DEFINE BatchOK == \A p \in Procs : \A c \in proc'[p].batch : state'[c] # "none"
<1>1. ASSUME NEW p \in Procs, proc'[p].batch \subseteq proc[p].batch,
             \A q \in Procs : q # p => proc'[q] = proc[q]
      PROVE  BatchOK
  <2>1. \A q \in Procs : proc'[q].batch \subseteq proc[q].batch
    BY <1>1
  <2>2. \A q \in Procs : proc[q].batch \subseteq Cids
    BY ProcParts
  <2> QED
    BY <2>1, <2>2, RowsStay DEF ChainInv
<1>2. Idle.batch = {}
  BY CallParts DEF Idle
<1>3. ASSUME NEW p \in Procs, Done(p) PROVE BatchOK
  BY <1>1, <1>2, <1>3, DoneMoves
<1>4. ASSUME NEW p \in Procs, NEW stage \in Stages, Goto(p, stage) PROVE BatchOK
  BY <1>1, <1>4, GotoMoves
<1>5. ASSUME state' = state, frozen' = frozen, BatchOK PROVE ChainInv'
  BY <1>5 DEF ChainInv, Rows, Active
<1>6. CASE \/ \E body \in Bodies : Sign(body)
           \/ \E new \in SUBSET Codes : Configure(new)
           \/ \E c \in Cids : GraceElapses(c)
           \/ UNCHANGED vars
  <2>1. state' = state /\ frozen' = frozen /\ proc' = proc
    BY <1>6 DEF Sign, Configure, GraceElapses, vars
  <2> QED
    BY <2>1, <1>5 DEF ChainInv
<1>7. ASSUME NEW p \in Clients, NEW c \in 1..Len(signed), NEW k \in Codes \union {NoCode},
             NEW stage \in {"link", "veto"},
             proc' = [proc EXCEPT ![p] = Call(stage, c, k, {})]
      PROVE  BatchOK
  <2>1. p \in Procs /\ c \in 0..MaxAnchors /\ {} \in SUBSET Cids /\ stage \in Stages
    BY SignedParts DEF Procs, Cids, Stages
  <2>2. /\ proc'[p] = Call(stage, c, k, {})
        /\ \A q \in Procs : q # p => proc'[q] = proc[q]
    BY <1>7, <2>1, CallMoves
  <2>3. proc'[p].batch = {}
    BY <2>2, CallParts
  <2> QED
    BY <1>1, <2>1, <2>2, <2>3
<1>8. CASE \E p \in Clients, c \in 1..Len(signed) :
             Submit(p, c) \/ Veto(p, c) \/ \E k \in Codes : Recover(p, c, k)
  BY <1>5, <1>7, <1>8 DEF Submit, Recover, Start, Veto
<1>9. ASSUME NEW p \in Crons, ReadDue(p) PROVE ChainInv'
  <2>1. p \in Procs /\ due \in SUBSET Cids /\ 0 \in 0..MaxAnchors
    BY AnchorsAssumption DEF Procs, TypeOK
  <2>2. /\ proc'[p] = Call("filter", 0, NoCode, due)
        /\ \A q \in Procs : q # p => proc'[q] = proc[q]
    BY <1>9, <2>1, CallMoves DEF ReadDue, Stages
  <2>3. proc'[p].batch = due /\ state' = state /\ frozen' = frozen
    BY <1>9, <2>2, CallParts DEF ReadDue
  <2>4. \A c \in due : state[c] # "none"
    BY DEF TypeOK
  <2>5. BatchOK
    BY <2>2, <2>3, <2>4 DEF ChainInv
  <2> QED
    BY <1>5, <2>3, <2>5
<1>10. ASSUME NEW p \in Procs, Link(p) \/ Sync(p) \/ SkipFrozen(p) \/ Crash(p)
       PROVE  ChainInv'
  BY <1>3, <1>4, <1>5, <1>10 DEF Link, Sync, SkipFrozen, Crash, Stages
<1>11. ASSUME NEW p \in Procs, WriteActive(p) PROVE ChainInv'
  <2>1. proc[p].cid \in Cids /\ frozen' = frozen
    BY <1>11, SignedParts DEF WriteActive, Known
  <2>2. BatchOK
    BY <1>3, <1>4, <1>11 DEF WriteActive, Stages
  <2>3. CASE state' = state
    BY <1>5, <2>1, <2>2, <2>3
  <2>4. CASE state' # state
    <3>1. state' = [d \in Cids |-> IF d = proc[p].cid THEN "active"
                                   ELSE IF d \in Replaced(proc[p].cid) THEN "superseded"
                                   ELSE state[d]]
      BY <1>11, <2>4 DEF WriteActive
    <3>2. proc[p].cid \in Active'
      BY <2>1, <3>1 DEF Active
    <3>3. \A c \in Cids : state'[c] = "vetoed" => state[c] = "vetoed"
      BY <3>1
    <3> QED
      BY <2>1, <2>2, <3>2, <3>3 DEF ChainInv
  <2> QED
    BY <2>3, <2>4
<1>12. ASSUME NEW p \in Procs, WritePending(p) PROVE ChainInv'
  <2>1. BatchOK /\ frozen' = frozen
    BY <1>3, <1>12 DEF WritePending
  <2>2. Active' = Active /\ Rows' = Rows /\ \A c \in Cids : state'[c] = "vetoed" => state[c] = "vetoed"
    BY <1>12 DEF WritePending, Active, Rows, TypeOK
  <2> QED
    BY <2>1, <2>2 DEF ChainInv
<1>13. ASSUME NEW p \in Procs, PromoteOne(p) PROVE ChainInv'
  <2>1. PICK c \in proc[p].batch :
          /\ state' = [d \in Cids |-> IF d = c THEN "active"
                                      ELSE IF d \in Active THEN "superseded" ELSE state[d]]
          /\ proc' = [proc EXCEPT ![p] = Call("sync", c, NoCode, @.batch \ {c})]
          /\ frozen' = frozen
    BY <1>13 DEF PromoteOne
  <2>2. c \in Cids
    BY ProcParts
  <2>3. /\ proc'[p] = Call("sync", c, NoCode, proc[p].batch \ {c})
        /\ \A q \in Procs : q # p => proc'[q] = proc[q]
    BY <2>1 DEF TypeOK
  <2>4. proc'[p].batch = proc[p].batch \ {c}
    BY <2>3, CallParts
  <2>5. BatchOK
    BY <1>1, <2>3, <2>4
  <2>6. c \in Active' /\ \A d \in Cids : state'[d] = "vetoed" => state[d] = "vetoed"
    BY <2>1, <2>2 DEF Active
  <2> QED
    BY <2>1, <2>5, <2>6 DEF ChainInv
<1>14. ASSUME NEW p \in Procs, DoVeto(p) PROVE ChainInv'
  <2>1. /\ frozen' = TRUE /\ proc'[p] = Idle
        /\ \A q \in Procs : q # p => proc'[q] = proc[q]
    BY <1>14 DEF DoVeto, TypeOK
  <2>2. BatchOK
    BY <1>1, <1>2, <2>1
  <2> QED
    BY <2>1, <2>2 DEF ChainInv
<1> QED
  BY <1>6, <1>8, <1>9, <1>10, <1>11, <1>12, <1>13, <1>14 DEF Next, Step

(***************************************************************************)
(* ChainInv is an invariant of the anchor store.                           *)
(***************************************************************************)
LEMMA ChainInvHolds == Spec => []ChainInv
<1>1. Init => ChainInv
  <2>1. Idle.batch = {}
    BY CallParts DEF Idle
  <2> QED
    BY <2>1 DEF Init, ChainInv, Rows, Active
<1> QED
  BY <1>1, InvHolds, NextChainInv, PTL DEF Spec

-----------------------------------------------------------------------------
(***************************************************************************)
(* The rows are signed anchors whose predecessors came before them.        *)
(***************************************************************************)
LEMMA RowPrev ==
  ASSUME TypeOK, Known
  PROVE  /\ Rows \in SUBSET Cids
         /\ \A d \in Rows : signed[d].prev \in 0..(d - 1) /\ signed[d].prev \in 0..MaxAnchors
<1>1. Rows \in SUBSET Cids
  BY DEF Rows
<1>2. ASSUME NEW d \in Rows
      PROVE  signed[d].prev \in 0..(d - 1) /\ signed[d].prev \in 0..MaxAnchors
  <2>1. d \in 1..Len(signed)
    BY DEF Rows, Known
  <2>2. signed[d].prev \in 0..MaxAnchors /\ signed[d].prev < d
    BY <2>1, SignedParts DEF TypeOK
  <2> QED
    BY <2>1, <2>2
<1> QED
  BY <1>1, <1>2

(* WalkChain is the walk over the rows, and meets earlier anchors only.    *)
ChainWalked ==
  /\ IsWalk(WalkFrom(Rows, signed), Rows, signed)
  /\ \A c \in 0..MaxAnchors : WalkChain(c) = WalkFrom(Rows, signed)[c]
  /\ \A c \in 0..MaxAnchors : WalkChain(c) \subseteq 0..c
  /\ WalkChain(0) = {0}
  /\ \A c \in Rows : WalkChain(c) = {c} \union WalkChain(signed[c].prev)

(***************************************************************************)
(* get_chain's walk is well defined: predecessors come first.              *)
(***************************************************************************)
LEMMA ChainWalk == TypeOK /\ Known => ChainWalked
<1> SUFFICES ASSUME TypeOK, Known PROVE ChainWalked
  OBVIOUS
<1>1. IsWalk(WalkFrom(Rows, signed), Rows, signed)
  BY RowPrev, WalkExists
<1>2. \A c \in 0..MaxAnchors : WalkChain(c) = WalkFrom(Rows, signed)[c]
  BY DEF WalkChain, WalkFrom, IsWalk
<1>3. \A d \in 0..MaxAnchors : WalkFrom(Rows, signed)[d] \subseteq 0..d
  BY <1>1, RowPrev, WalkBelow
<1>4. /\ WalkFrom(Rows, signed)[0] = {0}
      /\ \A d \in Rows : WalkFrom(Rows, signed)[d] = {d} \union WalkFrom(Rows, signed)[signed[d].prev]
      /\ \A d \in 1..MaxAnchors : d \notin Rows => WalkFrom(Rows, signed)[d] = {}
  BY <1>1, RowPrev, WalkSteps, ZenonT(60)
<1>5. WalkChain(0) = {0}
  BY <1>2, <1>4, AnchorsAssumption
<1>6. ASSUME NEW d \in Rows PROVE WalkChain(d) = {d} \union WalkChain(signed[d].prev)
  <2>1. d \in 0..MaxAnchors /\ signed[d].prev \in 0..MaxAnchors
    BY RowPrev DEF Cids
  <2> QED
    BY <1>2, <1>4, <2>1, Zenon
<1> QED
  BY <1>1, <1>2, <1>3, <1>5, <1>6 DEF ChainWalked

(***************************************************************************)
(* A step that leaves the rows up to m alone leaves their walks alone.     *)
(***************************************************************************)
LEMMA WalksStay ==
  ASSUME TypeOK, Known, TypeOK', Known', NEW m \in 0..MaxAnchors,
         \A d \in 1..m : d \in Rows <=> d \in Rows',
         \A d \in Rows : signed'[d] = signed[d]
  PROVE  \A d \in 0..m : WalkChain(d)' = WalkChain(d)
<1>1. ChainWalked /\ ChainWalked'
  BY ChainWalk, PTL
<1>2. /\ IsWalk(WalkFrom(Rows, signed), Rows, signed)
      /\ IsWalk(WalkFrom(Rows', signed'), Rows', signed')
      /\ \A d \in 0..MaxAnchors : /\ WalkChain(d) = WalkFrom(Rows, signed)[d]
                                  /\ WalkChain(d)' = WalkFrom(Rows', signed')[d]
  BY <1>1 DEF ChainWalked
<1>3. Rows \in SUBSET Cids /\ Rows' \in SUBSET Cids
  BY DEF Rows
<1>4. Agree(m, Rows, signed, Rows', signed')
  BY RowPrev DEF Agree
<1>5. \A d \in 0..m : WalkFrom(Rows, signed)[d] = WalkFrom(Rows', signed')[d]
  <2>1. ASSUME NEW R \in SUBSET Cids, NEW s, IsWalk(WalkFrom(R, s), R, s),
               NEW Q \in SUBSET Cids, NEW t, IsWalk(WalkFrom(Q, t), Q, t),
               Agree(m, R, s, Q, t)
        PROVE  \A d \in 0..m : WalkFrom(R, s)[d] = WalkFrom(Q, t)[d]
    BY <2>1, WalkAgrees
  <2> QED
    BY <1>2, <1>3, <1>4, <2>1
<1>6. 0..m \subseteq 0..MaxAnchors
  BY AnchorsAssumption
<1> QED
  BY <1>2, <1>5, <1>6

(***************************************************************************)
(* A step that adds one row behind the whole chain, as its only active     *)
(* one, leaves a chain that is served.                                     *)
(***************************************************************************)
LEMMA NewHead ==
  ASSUME TypeOK, Known, TypeOK', Known', NEW c \in Cids, c \notin Rows,
         signed' = signed, Rows' = Rows \union {c}, Active' = {c},
         \/ signed[c].prev = 0 /\ Rows = {}
         \/ signed[c].prev \in Cids /\ WalkChain(signed[c].prev) = Rows \union {0}
  PROVE  ChainServed'
<1> DEFINE b == signed[c].prev
<1>1. ChainWalked'
  BY ChainWalk, PTL
<1>2. Rows' \in SUBSET Cids /\ c \in Rows'
  BY DEF Rows
<1>3. c \in 1..MaxAnchors /\ b \in 0..(c - 1)
  <2>1. c \in 1..Len(signed)
    BY <1>2 DEF Rows, Known
  <2>2. signed[c].prev \in 0..MaxAnchors /\ signed[c].prev < c
    BY <2>1, SignedParts DEF TypeOK
  <2> QED
    BY <2>2 DEF Cids
<1>4. 0 \in 0..MaxAnchors /\ c \in 0..MaxAnchors /\ b \in 0..MaxAnchors /\ c - 1 \in 0..MaxAnchors
  BY <1>3, AnchorsAssumption
<1>5. WalkChain(0)' = {0} /\ WalkChain(c)' = {c} \union WalkChain(b)'
  BY <1>1, <1>2 DEF ChainWalked
<1>6. WalkChain(b)' = WalkChain(b)
  <2>1. \A d \in 1..(c - 1) : d \in Rows <=> d \in Rows'
    BY <1>3
  <2>2. \A d \in 0..(c - 1) : WalkChain(d)' = WalkChain(d)
    BY <1>4, <2>1, WalksStay
  <2> QED
    BY <1>3, <2>2
<1>7. WalkChain(b)' = Rows \union {0}
  <2>1. CASE b = 0 /\ Rows = {}
    BY <1>5, <2>1
  <2>2. CASE WalkChain(b) = Rows \union {0}
    BY <1>6, <2>2
  <2> QED
    BY <2>1, <2>2
<1>8. WalkChain(c)' = Rows' \union {0}
  BY <1>5, <1>7
<1> QED
  BY <1>8 DEF ChainServed

(***************************************************************************)
(* A step that touches no row and no active anchor serves the same chain.  *)
(***************************************************************************)
LEMMA SameChain ==
  ASSUME TypeOK, Known, TypeOK', Known', ChainServed, frozen => frozen',
         Rows' = Rows, Active' = Active, \A d \in Rows : signed'[d] = signed[d]
  PROVE  ChainServed'
<1>1. MaxAnchors \in 0..MaxAnchors /\ Active \subseteq 0..MaxAnchors
  BY AnchorsAssumption DEF Active, Cids
<1>2. \A d \in 0..MaxAnchors : WalkChain(d)' = WalkChain(d)
  BY <1>1, WalksStay
<1> QED
  BY <1>1, <1>2 DEF ChainServed

(***************************************************************************)
(* Submissions never break the chain that get_chain serves, and a          *)
(* promotion only when the row it promotes does not follow the active one. *)
(***************************************************************************)
LEMMA ChainStep ==
  ASSUME IInv, IInv', ChainInv, [Next]_vars, ChainServed, PromotesInOrder
  PROVE  ChainServed'
<1>0. TypeOK /\ Known /\ OneActive /\ TypeOK' /\ Known'
  BY DEF IInv
<1>1. ASSUME state' = state, signed' = signed, frozen' = frozen PROVE ChainServed'
  <2>1. Rows' = Rows /\ Active' = Active
    BY <1>1 DEF Rows, Active
  <2> QED
    BY <1>0, <1>1, <2>1, SameChain
<1>2. ASSUME NEW body \in Bodies, Sign(body) PROVE ChainServed'
  <2>1. Rows' = Rows /\ Active' = Active /\ frozen' = frozen
    BY <1>2 DEF Sign, Rows, Active
  <2>2. \A d \in Rows : d \in 1..Len(signed)
    BY <1>0 DEF Rows, Known
  <2>3. \A d \in Rows : signed'[d] = signed[d]
    BY <1>0, <1>2, <2>2 DEF Sign, TypeOK
  <2> QED
    BY <1>0, <2>1, <2>3, SameChain
<1>3. ASSUME NEW p \in Procs, WriteActive(p) PROVE ChainServed'
  <2> DEFINE c == proc[p].cid
             b == signed[c].prev
  <2>1. CASE state' = state
    BY <1>1, <1>3, <2>1 DEF WriteActive
  <2>2. CASE state' # state
    <3>1. /\ state[c] = "none" /\ Active \ {b} = {}
          /\ state' = [d \in Cids |-> IF d = c THEN "active"
                                      ELSE IF d \in {b} THEN "superseded" ELSE state[d]]
          /\ signed' = signed /\ frozen' = frozen
      BY <1>3, <2>2 DEF WriteActive, Insertable, Replaced
    <3>2. c \in Cids /\ c \in 1..Len(signed) /\ b \in 0..MaxAnchors
      BY <1>0, <1>3, SignedParts DEF WriteActive, Known
    <3>3. c \notin Rows
      BY <3>1 DEF Rows
    <3>4. CASE frozen
      BY <3>1, <3>4 DEF ChainServed
    <3>5. CASE ~frozen /\ b = 0
      <4>1. 0 \notin Cids
        BY DEF Cids
      <4>2. Active = {} /\ Rows = {}
        BY <3>1, <3>5, <4>1 DEF ChainInv, Active
      <4>3. Rows' = Rows \union {c} /\ Active' = {c}
        BY <3>1, <3>2, <3>5, <4>1, <4>2 DEF Rows, Active
      <4> QED
        BY <1>0, <3>1, <3>2, <3>3, <3>5, <4>2, <4>3, NewHead
    <3>6. CASE ~frozen /\ b # 0
      <4>1. b \in Cids /\ state[b] \notin {"none", "pending"}
        BY <1>0, <3>2, <3>6 DEF Known, Cids
      <4>2. state[b] \in {"active", "superseded"}
        BY <1>0, <3>6, <4>1 DEF ChainInv, TypeOK
      <4>3. b \in Rows
        BY <4>1, <4>2 DEF Rows
      <4>4. Active = {b}
        BY <3>1, <3>6, <4>3 DEF ChainInv
      <4>5. Rows' = Rows \union {c} /\ Active' = {c}
        BY <3>1, <3>2, <4>1, <4>2, <4>4 DEF Rows, Active
      <4>6. WalkChain(b) = Rows \union {0}
        BY <3>6, <4>4 DEF ChainServed
      <4> QED
        BY <1>0, <3>1, <3>2, <3>3, <4>1, <4>5, <4>6, NewHead
    <3> QED
      BY <3>4, <3>5, <3>6
  <2> QED
    BY <2>1, <2>2
<1>4. ASSUME NEW p \in Procs, WritePending(p) PROVE ChainServed'
  <2>1. Rows' = Rows /\ Active' = Active
    BY <1>0, <1>4 DEF WritePending, Rows, Active, TypeOK
  <2>2. signed' = signed /\ frozen' = frozen
    BY <1>4 DEF WritePending
  <2> QED
    BY <1>0, <2>1, <2>2, SameChain
<1>5. ASSUME NEW p \in Procs, PromoteOne(p) PROVE ChainServed'
  <2>1. PICK c \in proc[p].batch :
          /\ state' = [d \in Cids |-> IF d = c THEN "active"
                                      ELSE IF d \in Active THEN "superseded" ELSE state[d]]
          /\ signed' = signed /\ frozen' = frozen
    BY <1>5 DEF PromoteOne
  <2>2. c \in Cids /\ c \in 1..Len(signed) /\ state[c] # "none" /\ state'[c] = "active"
    BY <1>0, <2>1, ProcParts DEF Known, ChainInv
  <2>3. CASE frozen
    BY <2>1, <2>3 DEF ChainServed
  <2>4. CASE state[c] = "active"
    <3>1. \A d \in Active : d = c
      BY <1>0, <2>2, <2>4 DEF OneActive, Active
    <3>2. state' = state
      BY <1>0, <2>1, <2>4, <3>1 DEF TypeOK
    <3> QED
      BY <1>1, <2>1, <3>2
  <2>5. CASE ~frozen /\ state[c] # "active"
    <3> DEFINE b == signed[c].prev
    <3>1. b \in Active /\ b \in Cids /\ b < c
      BY <1>0, <2>2, <2>5 DEF PromotesInOrder, Active, TypeOK
    <3>2. Active = {b}
      BY <1>0, <3>1 DEF OneActive
    <3>3. WalkChain(b) = Rows \union {0}
      BY <2>5, <3>1 DEF ChainServed
    <3>4. c \notin Rows
      <4>1. WalkChain(b) \subseteq 0..b
        BY <1>0, <3>1, ChainWalk DEF ChainWalked, Cids
      <4> QED
        BY <2>2, <3>1, <3>3, <4>1 DEF Cids
    <3>5. Rows' = Rows \union {c} /\ Active' = {c}
      BY <2>1, <2>2, <3>1, <3>2 DEF Rows, Active
    <3> QED
      BY <1>0, <2>1, <2>2, <3>1, <3>3, <3>4, <3>5, NewHead
  <2> QED
    BY <2>3, <2>4, <2>5
<1>6. ASSUME NEW p \in Procs, DoVeto(p) PROVE ChainServed'
  BY <1>6 DEF DoVeto, ChainServed
<1>7. CASE \E p \in Procs : Link(p) \/ Sync(p) \/ SkipFrozen(p) \/ Crash(p)
  BY <1>1, <1>7 DEF Link, Sync, SkipFrozen, Crash
<1>8. CASE \/ \E new \in SUBSET Codes : Configure(new)
           \/ \E c \in Cids : GraceElapses(c)
           \/ \E p \in Crons : ReadDue(p)
           \/ UNCHANGED vars
  BY <1>1, <1>8 DEF Configure, GraceElapses, ReadDue, vars
<1>9. CASE \E p \in Clients, c \in 1..Len(signed) :
             Submit(p, c) \/ Veto(p, c) \/ \E k \in Codes : Recover(p, c, k)
  BY <1>1, <1>9 DEF Submit, Recover, Start, Veto
<1> QED
  BY <1>2, <1>3, <1>4, <1>5, <1>6, <1>7, <1>8, <1>9 DEF Next, Step

(***************************************************************************)
(* For any number of overlapping calls, only a promotion out of order      *)
(* breaks the chain that get_chain serves.                                 *)
(***************************************************************************)
THEOREM ChainKeptAlways == Spec => ChainKept
<1>1. IInv /\ IInv' /\ ChainInv /\ [Next]_vars
        => [ChainServed /\ PromotesInOrder => ChainServed']_vars
  BY ChainStep
<1> QED
  BY InvHolds, ChainInvHolds, <1>1, PTL DEF Spec, ChainKept

(***************************************************************************)
(* A DID whose recoveries are all promoted over the anchor they follow     *)
(* always resolves: get_chain never answers invalid_chain unless the DID   *)
(* is frozen.                                                              *)
(***************************************************************************)
THEOREM ChainAlwaysServed == Spec /\ [][PromotesInOrder]_vars => []ChainServed
<1>1. Init => ChainServed
  BY DEF Init, ChainServed, Active
<1>2. UNCHANGED vars => PromotesInOrder
  BY DEF vars, PromotesInOrder, Active
<1>3. IInv /\ IInv' /\ ChainInv /\ [Next]_vars /\ [PromotesInOrder]_vars /\ ChainServed
        => ChainServed'
  BY <1>2, ChainStep
<1> QED
  BY InvHolds, ChainInvHolds, <1>1, <1>3, PTL DEF Spec

=============================================================================
