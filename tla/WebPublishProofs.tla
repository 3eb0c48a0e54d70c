-------------------------- MODULE WebPublishProofs --------------------------
(***************************************************************************)
(* Proofs about publishing from the web, for any number of operations,     *)
(* drafts and accounts, and that it implements Publication.                *)
(***************************************************************************)
EXTENDS WebPublish, TLAPS

(* The relay has only what was signed, accepts only what it verified for   *)
(* its author, and the tab says "published" only of what is in the log.    *)
RelayInv ==
  \A o \in Ops :
    /\ sub[o].pc \in {"unused", "challenge", "passkey"} => req[o] = "none" /\ ~sub[o].signed
    /\ req[o] # "none" => sub[o].signed
    /\ req[o] \in {"verified", "accepted"} => sub[o].session = sub[o].author
    /\ o \in log <=> req[o] = "accepted"
    /\ sub[o].pc = "published" => o \in log
    /\ sub[o].pc = "failed" => sub[o].why # "none"
    /\ sub[o].pc = "failed" /\ sub[o].why = "refused" => req[o] \in {"none", "refused"}

(* A handler knows its author and its draft, which was opened before.      *)
AuthorInv ==
  \A o \in Ops :
    /\ sub[o].pc = "unused" => sub[o] = Unused
    /\ sub[o].pc # "unused" => sub[o].author # None
    /\ sub[o].pc # "unused" /\ sub[o].kind = "thread" => sub[o].draft \in opened

(* A draft is opened once, and is not open any more once it is published.  *)
DraftInv ==
  /\ draft.reviewing => draft.id # None
  /\ draft.id # None => draft.id \in opened
  /\ \A o \in Ops :
       sub[o].pc = "published" /\ sub[o].kind = "thread" => sub[o].draft # draft.id

(* Edits are of revisions that exist, and accepted ones of old revisions.  *)
RevisionInv ==
  /\ head \in Revisions /\ pageRev \in Revisions
  /\ \A o \in Ops : sub[o].kind = "edit" => sub[o].expected \in Revisions
  /\ \A o \in log : sub[o].kind = "edit" => sub[o].expected # head

(* Why a handler does not stop a second publication of its draft.          *)
Excused(o) ==
  \/ sub[o].overlap
  \/ sub[o].pc = "failed"

(* Of two handlers of one draft, one had failed when the other was         *)
(* confirmed, or was under way.                                            *)
PairInv ==
  \A o, p \in Ops :
    /\ o # p /\ sub[o].pc # "unused" /\ sub[p].pc # "unused"
    /\ sub[o].kind = "thread" /\ sub[p].kind = "thread" /\ sub[o].draft = sub[p].draft
    => Excused(o) \/ Excused(p)

PubInv ==
  /\ TypeOK
  /\ RelayInv
  /\ AuthorInv
  /\ DraftInv
  /\ RevisionInv
  /\ OneEditPerRevision
  /\ PairInv

-----------------------------------------------------------------------------
Ends == {"refused", "gateway", "lost"}

LEMMA UnusedType ==
  /\ Unused \in Submission
  /\ Unused.pc = "unused" /\ ~Unused.signed /\ Unused.kind = "thread"
  /\ Unused.draft = None /\ Unused.expected = Base
  BY DEF Unused, Handler, Submission

(* What a handler keeps while it moves on.                                 *)
Keeps(g, h) ==
  /\ g.kind = h.kind /\ g.draft = h.draft /\ g.author = h.author
  /\ g.expected = h.expected /\ g.overlap = h.overlap

Pcs == {"passkey", "posting", "checking", "published", "failed"}

LEMMA MovedFields ==
  ASSUME NEW h \in Submission, NEW pc \in Pcs
  PROVE  LET g == [h EXCEPT !.pc = pc]
         IN  /\ g \in Submission /\ Keeps(g, h)
             /\ g.pc = pc /\ g.signed = h.signed /\ g.session = h.session /\ g.why = h.why
  BY DEF Submission, Keeps, Pcs

LEMMA SignedFields ==
  ASSUME NEW h \in Submission
  PROVE  LET g == [h EXCEPT !.pc = "posting", !.signed = TRUE]
         IN  /\ g \in Submission /\ Keeps(g, h)
             /\ g.pc = "posting" /\ g.signed /\ g.session = h.session /\ g.why = h.why
  BY DEF Submission, Keeps

LEMMA FailedFields ==
  ASSUME NEW h \in Submission, NEW why \in Ends
  PROVE  LET g == [h EXCEPT !.pc = "failed", !.why = why]
         IN  /\ g \in Submission /\ Keeps(g, h)
             /\ g.pc = "failed" /\ g.signed = h.signed /\ g.session = h.session /\ g.why = why
  BY DEF Submission, Keeps, Ends

LEMMA OwnedFields ==
  ASSUME NEW h \in Submission, NEW session \in Dids \union {None}
  PROVE  LET g == [h EXCEPT !.session = session]
         IN  /\ g \in Submission /\ Keeps(g, h)
             /\ g.pc = h.pc /\ g.signed = h.signed /\ g.session = session /\ g.why = h.why
  BY DEF Submission, Keeps

-----------------------------------------------------------------------------
(* The relay's account of one operation, from its parts.                   *)
RelayOf(o, h, r) ==
  /\ h.pc \in {"unused", "challenge", "passkey"} => r = "none" /\ ~h.signed
  /\ r # "none" => h.signed
  /\ r \in {"verified", "accepted"} => h.session = h.author
  /\ o \in log <=> r = "accepted"
  /\ h.pc = "published" => o \in log
  /\ h.pc = "failed" => h.why # "none"
  /\ h.pc = "failed" /\ h.why = "refused" => r \in {"none", "refused"}

Requests == {"none", "travelling", "verified", "accepted", "refused", "dropped"}

(* The revisions stay as they are when the log and the handlers' kinds do. *)
LEMMA RevisionsKept ==
  ASSUME TypeOK, log' = log, \A o \in log : sub'[o].kind = sub[o].kind
  PROVE  Revisions' = Revisions
  BY DEF Revisions, TypeOK

(* A handler that was confirmed moves on.                                  *)
LEMMA MoveInv ==
  ASSUME PubInv, NEW o \in Ops, NEW g \in Submission, NEW r \in Requests,
         sub' = [sub EXCEPT ![o] = g], req' = [req EXCEPT ![o] = r],
         Keeps(g, sub[o]), sub[o].pc # "unused", g.pc # "unused",
         sub[o].pc \in {"failed", "published"} => g.pc = sub[o].pc,
         g.pc = "published" /\ g.kind = "thread" => draft' = NoDraft \/ sub[o].pc = "published",
         draft' \in {draft, NoDraft}, RelayOf(o, g, r),
         UNCHANGED <<opened, shown, subject, pageRev, head, log>>
  PROVE  PubInv'
<1>1. /\ sub'[o] = g /\ \A p \in Ops \ {o} : sub'[p] = sub[p]
      /\ req'[o] = r /\ \A p \in Ops \ {o} : req'[p] = req[p]
    BY DEF PubInv, TypeOK
<1>2. NoDraft \in [id : Drafts \union {None}, reviewing : BOOLEAN] /\ NoDraft.id = None /\ ~NoDraft.reviewing
    BY DEF NoDraft
<1>3. TypeOK'
    BY <1>2 DEF PubInv, TypeOK, Requests
<1>4. RelayInv'
    BY <1>1 DEF PubInv, RelayInv, RelayOf
<1>5. AuthorInv'
    BY <1>1 DEF PubInv, AuthorInv, Keeps
<1>6. DraftInv'
  <2>1. draft'.reviewing => draft'.id # None
      BY <1>2 DEF PubInv, DraftInv
  <2>2. draft'.id # None => draft'.id \in opened'
      BY <1>2 DEF PubInv, DraftInv
  <2>3. ASSUME NEW p \in Ops, sub'[p].pc = "published", sub'[p].kind = "thread"
        PROVE  sub'[p].draft # draft'.id
    <3>1. sub'[p].draft \in opened' /\ sub'[p].draft # None
        BY <1>3, <1>5, <2>3, NoneAssumption DEF AuthorInv, TypeOK
    <3>2. CASE draft' = NoDraft  BY <3>1, <3>2, <1>2
    <3>3. CASE draft' = draft /\ draft # NoDraft
      <4>1. sub[p].pc = "published" /\ sub[p].kind = "thread" /\ sub[p].draft = sub'[p].draft
          BY <1>1, <2>3, <3>3 DEF Keeps
      <4> QED  BY <4>1, <3>3 DEF PubInv, DraftInv
    <3> QED  BY <3>2, <3>3
  <2> QED  BY <2>1, <2>2, <2>3 DEF DraftInv
<1>7. RevisionInv'
  <2>1. Revisions' = Revisions
      BY <1>1, RevisionsKept DEF PubInv, Keeps, TypeOK
  <2> QED  BY <1>1, <2>1 DEF PubInv, RevisionInv, Keeps, TypeOK
<1>8. OneEditPerRevision'
    BY <1>1 DEF PubInv, OneEditPerRevision, Keeps, TypeOK
<1>9. PairInv'
    BY <1>1 DEF PubInv, PairInv, Excused, Keeps
<1> QED  BY <1>3, <1>4, <1>5, <1>6, <1>7, <1>8, <1>9 DEF PubInv

(* A new handler starts, for the open draft or for the page's thread.      *)
LEMMA StartInv ==
  ASSUME PubInv, NEW o \in Ops, ConfirmThreadDraft(o) \/ EditOwnContent(o)
  PROVE  PubInv'
<1> DEFINE again == \E p \in OpsOf(draft.id) : sub[p].pc = "failed" /\ p \in log
           overlap == \E p \in OpsOf(draft.id) : InFlight(p)
<1>0. /\ draft.id \in Drafts \union {None} /\ DraftPoll \in BOOLEAN
      /\ again \in BOOLEAN /\ overlap \in BOOLEAN /\ pageRev \in Ops \union {Base}
      /\ shown \in Dids \union {None} /\ shown # None /\ sub[o] = Unused
    BY DEF PubInv, TypeOK, DraftPoll, ConfirmThreadDraft, EditOwnContent
<1> HIDE DEF again, overlap
<1>1. PICK h \in Submission :
        /\ sub' = [sub EXCEPT ![o] = h]
        /\ h.pc = "challenge" /\ ~h.signed /\ h.author # None
        /\ \/ h.kind = "edit" /\ h.expected = pageRev
           \/ /\ h.kind = "thread" /\ draft.reviewing /\ h.draft = draft.id
              /\ h.overlap = overlap
  <2>1. CASE ConfirmThreadDraft(o)
    <3> DEFINE h == Handler("challenge", "thread", draft.id, DraftPoll, shown, Base, again, overlap)
    <3>1. sub' = [sub EXCEPT ![o] = h] /\ draft.reviewing
        BY <2>1 DEF ConfirmThreadDraft, again, overlap
    <3>2. /\ h \in Submission
          /\ h.pc = "challenge" /\ h.kind = "thread" /\ h.draft = draft.id /\ h.author = shown
          /\ ~h.signed /\ h.overlap = overlap
        BY <1>0 DEF Handler, Submission
    <3> HIDE DEF h
    <3> QED  BY <1>0, <3>1, <3>2
  <2>2. CASE EditOwnContent(o)
    <3> DEFINE h == Handler("challenge", "edit", None, FALSE, shown, pageRev, FALSE, FALSE)
    <3>1. sub' = [sub EXCEPT ![o] = h]
        BY <2>2 DEF EditOwnContent
    <3>2. /\ h \in Submission
          /\ h.pc = "challenge" /\ h.kind = "edit" /\ h.author = shown
          /\ ~h.signed /\ h.expected = pageRev
        BY <1>0 DEF Handler, Submission
    <3> HIDE DEF h
    <3> QED  BY <1>0, <3>1, <3>2
  <2> QED  BY <2>1, <2>2
<1>2. UNCHANGED <<draft, opened, shown, subject, pageRev, head, req, log>>
    BY DEF ConfirmThreadDraft, EditOwnContent
<1>3. sub'[o] = h /\ \A p \in Ops \ {o} : sub'[p] = sub[p]
    BY <1>1 DEF PubInv, TypeOK
<1>4. sub[o].pc = "unused" /\ req[o] = "none" /\ o \notin log
    BY <1>0, UnusedType DEF PubInv, RelayInv
<1>5. TypeOK'
    BY <1>1, <1>2 DEF PubInv, TypeOK
<1>6. RelayInv'
    BY <1>1, <1>2, <1>3, <1>4 DEF PubInv, RelayInv
<1>7. AuthorInv'
    BY <1>1, <1>2, <1>3 DEF PubInv, AuthorInv, DraftInv
<1>8. DraftInv'
    BY <1>1, <1>2, <1>3 DEF PubInv, DraftInv
<1>9. RevisionInv'
  <2>1. Revisions' = Revisions
      BY <1>2, <1>3, <1>4, RevisionsKept DEF PubInv, TypeOK
  <2> QED  BY <1>1, <1>2, <1>3, <1>4, <2>1 DEF PubInv, RevisionInv, TypeOK
<1>10. OneEditPerRevision'
    BY <1>2, <1>3, <1>4 DEF PubInv, OneEditPerRevision, TypeOK
<1>11. PairInv'
  <2>1. ASSUME NEW p \in Ops \ {o}, sub[p].pc # "unused", sub[p].kind = "thread",
               h.kind = "thread", sub[p].draft = h.draft
        PROVE  h.overlap \/ sub[p].pc = "failed"
    <3>1. h.draft = draft.id /\ h.overlap = overlap  BY <1>1, <2>1
    <3>2. sub[p].pc # "published"  BY <2>1, <3>1 DEF PubInv, DraftInv
    <3>3. CASE sub[p].pc # "failed"
      <4>1. InFlight(p) /\ p \in OpsOf(draft.id)
          BY <2>1, <3>1, <3>2, <3>3 DEF InFlight, OpsOf
      <4> QED  BY <3>1, <4>1 DEF overlap
    <3> QED  BY <3>3
  <2> QED  BY <1>3, <2>1 DEF PubInv, PairInv, Excused
<1> QED  BY <1>5, <1>6, <1>7, <1>8, <1>9, <1>10, <1>11 DEF PubInv

(* Steps of the user and of the session that start no handler.             *)
LEMMA QuietInv ==
  ASSUME PubInv,
         \/ \E d \in Drafts : OpenThreadDraft(d)
         \/ CancelThreadDraft \/ ReviewThreadDraft \/ LoadPage \/ SessionChanges
         \/ UNCHANGED vars
  PROVE  PubInv'
<1>1. UNCHANGED <<head, sub, req, log>>
    BY DEF OpenThreadDraft, CancelThreadDraft, ReviewThreadDraft, LoadPage, SessionChanges, vars
<1>2. /\ opened \subseteq opened' /\ opened' \subseteq Drafts
      /\ shown' \in Dids \union {None} /\ subject' \in Dids \union {None}
    BY DEF OpenThreadDraft, CancelThreadDraft, ReviewThreadDraft, LoadPage, SessionChanges, vars,
           PubInv, TypeOK
<1>3. pageRev' \in Revisions
    BY DEF OpenThreadDraft, CancelThreadDraft, ReviewThreadDraft, LoadPage, SessionChanges, vars,
           PubInv, RevisionInv
<1>4. /\ draft' \in [id : Drafts \union {None}, reviewing : BOOLEAN]
      /\ draft'.reviewing => draft'.id # None
      /\ draft'.id # None => draft'.id \in opened'
      /\ draft'.id = draft.id \/ draft'.id \notin opened \/ draft'.id = None
  <2>0. draft \in [id : Drafts \union {None}, reviewing : BOOLEAN]  BY DEF PubInv, TypeOK
  <2>1. ASSUME NEW d \in Drafts, OpenThreadDraft(d)  PROVE <1>4!:
      BY <2>1 DEF OpenThreadDraft
  <2>2. CASE CancelThreadDraft
      BY <2>2 DEF CancelThreadDraft, NoDraft
  <2>3. CASE ReviewThreadDraft
    <3>1. draft.id # None
        BY <2>0, <2>3 DEF ReviewThreadDraft, NoDraft
    <3>2. draft'.id = draft.id /\ draft' \in [id : Drafts \union {None}, reviewing : BOOLEAN]
        BY <2>0, <2>3 DEF ReviewThreadDraft
    <3> QED  BY <3>1, <3>2, <2>3 DEF ReviewThreadDraft, PubInv, DraftInv
  <2>4. CASE LoadPage \/ SessionChanges \/ UNCHANGED vars
      BY <2>0, <2>4 DEF LoadPage, SessionChanges, vars, PubInv, DraftInv
  <2> QED  BY <2>1, <2>2, <2>3, <2>4
<1>5. TypeOK'
    BY <1>1, <1>2, <1>3, <1>4 DEF PubInv, TypeOK, Revisions
<1>6. RelayInv' /\ OneEditPerRevision' /\ PairInv'
    BY <1>1 DEF PubInv, RelayInv, OneEditPerRevision, PairInv, Excused
<1>7. AuthorInv'
    BY <1>1, <1>2 DEF PubInv, AuthorInv
<1>8. DraftInv'
  <2>1. ASSUME NEW o \in Ops, sub[o].pc = "published", sub[o].kind = "thread"
        PROVE  sub[o].draft # draft'.id
      BY <1>4, <2>1, NoneAssumption DEF PubInv, DraftInv, AuthorInv, TypeOK
  <2> QED  BY <1>1, <1>4, <2>1 DEF DraftInv
<1>9. RevisionInv'
    BY <1>1, <1>3 DEF PubInv, RevisionInv, Revisions
<1> QED  BY <1>5, <1>6, <1>7, <1>8, <1>9 DEF PubInv

(* The relay accepts an operation: a new revision that nobody has seen.    *)
LEMMA PersistInv ==
  ASSUME PubInv, NEW o \in Ops, RelayPersist(o)
  PROVE  PubInv'
<1>1. /\ req[o] = "verified" /\ req' = [req EXCEPT ![o] = "accepted"] /\ log' = log \union {o}
      /\ sub[o].kind = "edit" => sub[o].expected = head /\ head' = o
      /\ sub[o].kind # "edit" => head' = head
      /\ UNCHANGED <<draft, opened, shown, subject, pageRev, sub>>
    BY DEF RelayPersist, RevisionCurrent
<1>2. o \notin log /\ o \notin Revisions
    BY <1>1, BaseAssumption DEF PubInv, RelayInv, Revisions
<1>3. TypeOK'
    BY <1>1 DEF PubInv, TypeOK
<1>4. RelayInv'
    BY <1>1 DEF PubInv, RelayInv, TypeOK
<1>5. AuthorInv' /\ DraftInv' /\ PairInv'
    BY <1>1 DEF PubInv, AuthorInv, DraftInv, PairInv, Excused
<1>6. Revisions' = Revisions \union {p \in {o} : sub[p].kind = "edit"}
    BY <1>1 DEF Revisions
<1>7. RevisionInv'
    BY <1>1, <1>2, <1>6 DEF PubInv, RevisionInv, TypeOK
<1>8. OneEditPerRevision'
    BY <1>1 DEF PubInv, OneEditPerRevision, RevisionInv
<1> QED  BY <1>3, <1>4, <1>5, <1>7, <1>8 DEF PubInv

(* A handler and its request, as the lemmas above take them.               *)
LEMMA HandlerFacts ==
  ASSUME PubInv, NEW o \in Ops
  PROVE  /\ sub[o] \in Submission /\ req[o] \in Requests
         /\ RelayOf(o, sub[o], req[o]) /\ [req EXCEPT ![o] = req[o]] = req
  BY DEF PubInv, TypeOK, RelayInv, RelayOf, Requests

LEMMA FailInv ==
  ASSUME PubInv, NEW o \in Ops, NEW why \in Ends, InFlight(o), Fail(o, why),
         why = "refused" => req[o] \in {"none", "refused"},
         UNCHANGED <<opened, shown, subject, pageRev, head, req, log>>
  PROVE  PubInv'
<1>1. PICK g \in Submission : g = [sub[o] EXCEPT !.pc = "failed", !.why = why]
    BY HandlerFacts, FailedFields
<1>2. /\ Keeps(g, sub[o]) /\ g.pc = "failed" /\ g.signed = sub[o].signed
      /\ g.session = sub[o].session /\ g.why = why
    BY <1>1, HandlerFacts, FailedFields, ZenonT(30)
<1>3. sub' = [sub EXCEPT ![o] = g] /\ draft' = draft
    BY <1>1 DEF Fail, PubInv, TypeOK
<1>4. RelayOf(o, g, req[o])
    BY <1>2, HandlerFacts DEF RelayOf, Keeps, Ends
<1> QED  BY <1>2, <1>3, <1>4, HandlerFacts, MoveInv DEF InFlight

LEMMA SucceedInv ==
  ASSUME PubInv, NEW o \in Ops, InFlight(o), Succeed(o), o \in log,
         UNCHANGED <<opened, shown, subject, pageRev, head, req, log>>
  PROVE  PubInv'
<1>0. "published" \in Pcs  BY DEF Pcs
<1>1. PICK g \in Submission : g = [sub[o] EXCEPT !.pc = "published"]
    BY <1>0, HandlerFacts, MovedFields
<1>2. /\ Keeps(g, sub[o]) /\ g.pc = "published" /\ g.signed = sub[o].signed
      /\ g.session = sub[o].session /\ g.why = sub[o].why
    BY <1>0, <1>1, HandlerFacts, MovedFields
<1>3. /\ sub' = [sub EXCEPT ![o] = g] /\ draft' \in {draft, NoDraft}
      /\ sub[o].kind = "thread" => draft' = NoDraft
    BY <1>1 DEF Succeed, PubInv, TypeOK
<1>4. RelayOf(o, g, req[o])
    BY <1>2, HandlerFacts DEF RelayOf, Keeps
<1>5. g.kind = sub[o].kind  BY <1>2 DEF Keeps
<1> QED  BY <1>2, <1>3, <1>4, <1>5, HandlerFacts, MoveInv DEF InFlight

LEMMA CeremonyInv ==
  ASSUME PubInv, NEW o \in Ops, Ceremony(o)
  PROVE  PubInv'
<1>1. CASE ChallengeArrives(o)
  <2>0. /\ sub[o].pc = "challenge" /\ InFlight(o) /\ req[o] = "none"
        /\ UNCHANGED <<opened, shown, subject, pageRev, head, req, log>>
      BY <1>1 DEF ChallengeArrives, InFlight, PubInv, RelayInv
  <2>1. CASE Fail(o, "refused")
      BY <2>0, <2>1, FailInv DEF Ends
  <2>2. CASE sub' = [sub EXCEPT ![o].pc = "passkey"] /\ draft' = draft
    <3>0. "passkey" \in Pcs  BY DEF Pcs
    <3>1. PICK g \in Submission : g = [sub[o] EXCEPT !.pc = "passkey"]
        BY <3>0, HandlerFacts, MovedFields
    <3>2. /\ Keeps(g, sub[o]) /\ g.pc = "passkey" /\ g.signed = sub[o].signed
          /\ g.session = sub[o].session /\ g.why = sub[o].why
        BY <3>0, <3>1, HandlerFacts, MovedFields
    <3>3. sub' = [sub EXCEPT ![o] = g]  BY <2>2, <3>1 DEF PubInv, TypeOK
    <3>4. RelayOf(o, g, req[o])
        BY <2>0, <3>2, HandlerFacts DEF RelayOf, Keeps
    <3> QED  BY <2>0, <2>2, <3>2, <3>3, <3>4, HandlerFacts, MoveInv
  <2> QED  BY <1>1, <2>1, <2>2 DEF ChallengeArrives
<1>2. CASE SignOperation(o)
  <2>1. PICK g \in Submission : g = [sub[o] EXCEPT !.pc = "posting", !.signed = TRUE]
      BY HandlerFacts, SignedFields
  <2>2. /\ Keeps(g, sub[o]) /\ g.pc = "posting" /\ g.signed
        /\ g.session = sub[o].session /\ g.why = sub[o].why
      BY <2>1, HandlerFacts, SignedFields
  <2>3. /\ sub[o].pc = "passkey" /\ sub' = [sub EXCEPT ![o] = g]
        /\ req' = [req EXCEPT ![o] = "travelling"] /\ draft' = draft
        /\ UNCHANGED <<opened, shown, subject, pageRev, head, log>>
      BY <1>2, <2>1 DEF SignOperation, PubInv, TypeOK
  <2>4. RelayOf(o, g, "travelling") /\ "travelling" \in Requests
      BY <2>2, <2>3, HandlerFacts DEF RelayOf, Requests
  <2> QED  BY <2>2, <2>3, <2>4, MoveInv
<1>3. CASE CancelPasskey(o)
  <2>1. /\ sub[o].pc = "passkey" /\ InFlight(o) /\ req[o] = "none"
        /\ UNCHANGED <<opened, shown, subject, pageRev, head, req, log>> /\ Fail(o, "refused")
      BY <1>3 DEF CancelPasskey, InFlight, PubInv, RelayInv
  <2> QED  BY <2>1, FailInv DEF Ends
<1> QED  BY <1>1, <1>2, <1>3 DEF Ceremony

LEMMA RelayWorkInv ==
  ASSUME PubInv, NEW o \in Ops, RelayWork(o)
  PROVE  PubInv'
<1>1. CASE RelayVerify(o)
  <2>0. subject \in Dids \union {None}  BY DEF PubInv, TypeOK
  <2>1. PICK g \in Submission : g = [sub[o] EXCEPT !.session = subject]
      BY <2>0, HandlerFacts, OwnedFields
  <2>2. /\ Keeps(g, sub[o]) /\ g.pc = sub[o].pc /\ g.signed = sub[o].signed
        /\ g.session = subject /\ g.why = sub[o].why
      BY <2>0, <2>1, HandlerFacts, OwnedFields
  <2>3. /\ req[o] = "travelling" /\ subject = sub[o].author /\ sub' = [sub EXCEPT ![o] = g]
        /\ req' = [req EXCEPT ![o] = "verified"] /\ draft' = draft
        /\ UNCHANGED <<opened, shown, subject, pageRev, head, log>>
      BY <1>1, <2>1 DEF RelayVerify, Validated, PubInv, TypeOK
  <2>4. /\ RelayOf(o, g, "verified") /\ "verified" \in Requests /\ sub[o].pc # "unused"
        /\ g.pc = "published" => sub[o].pc = "published"
      BY <2>2, <2>3, HandlerFacts DEF RelayOf, Requests, Keeps
  <2> QED  BY <2>2, <2>3, <2>4, MoveInv
<1>2. CASE RelayPersist(o)  BY <1>2, PersistInv
<1>3. CASE RelayRefuse(o)
  <2>1. PICK end \in {"refused", "dropped"} : req' = [req EXCEPT ![o] = end]
      BY <1>3 DEF RelayRefuse
  <2>2. /\ req[o] \in {"travelling", "verified"}
        /\ UNCHANGED <<draft, opened, shown, subject, pageRev, head, sub, log>>
      BY <1>3 DEF RelayRefuse
  <2>3. /\ RelayOf(o, sub[o], end) /\ end \in Requests /\ sub[o].pc # "unused"
        /\ sub[o] \in Submission /\ Keeps(sub[o], sub[o]) /\ sub' = [sub EXCEPT ![o] = sub[o]]
      BY <2>1, <2>2, HandlerFacts DEF RelayOf, Requests, Keeps, PubInv, TypeOK
  <2> PICK g \in Submission : g = sub[o]  BY <2>3
  <2> QED  BY <2>1, <2>2, <2>3, MoveInv
<1> QED  BY <1>1, <1>2, <1>3 DEF RelayWork

LEMMA AnswerInv ==
  ASSUME PubInv, NEW o \in Ops, Answer(o)
  PROVE  PubInv'
<1>1. CASE ReceiveAnswer(o)
  <2>1. InFlight(o) /\ UNCHANGED <<opened, shown, subject, pageRev, head, req, log>>
      BY <1>1 DEF ReceiveAnswer, InFlight
  <2>2. CASE AnswerOf(o) = "published"
    <3>1. o \in log /\ Succeed(o)
        BY <1>1, <2>2 DEF ReceiveAnswer, AnswerOf, PubInv, RelayInv
    <3> QED  BY <2>1, <3>1, SucceedInv
  <2>3. CASE AnswerOf(o) # "published"
    <3>1. req[o] = "refused" /\ Fail(o, "refused")
        BY <1>1, <2>3 DEF ReceiveAnswer, AnswerOf
    <3> QED  BY <2>1, <3>1, FailInv DEF Ends
  <2> QED  BY <2>2, <2>3
<1>2. CASE GatewayAnswer(o)
    BY <1>2, FailInv DEF GatewayAnswer, ProxyGivesUp, InFlight, Ends
<1>3. CASE LoseConnection(o)
  <2>0. "checking" \in Pcs  BY DEF Pcs
  <2>1. PICK g \in Submission : g = [sub[o] EXCEPT !.pc = "checking"]
      BY <2>0, HandlerFacts, MovedFields
  <2>2. /\ Keeps(g, sub[o]) /\ g.pc = "checking" /\ g.signed = sub[o].signed
        /\ g.session = sub[o].session /\ g.why = sub[o].why
      BY <2>0, <2>1, HandlerFacts, MovedFields
  <2>3. /\ sub[o].pc = "posting" /\ sub' = [sub EXCEPT ![o] = g] /\ draft' = draft
        /\ UNCHANGED <<opened, shown, subject, pageRev, head, req, log>>
      BY <1>3, <2>1 DEF LoseConnection, PubInv, TypeOK
  <2>4. RelayOf(o, g, req[o])
      BY <2>2, <2>3, HandlerFacts DEF RelayOf, Keeps
  <2> QED  BY <2>2, <2>3, <2>4, HandlerFacts, MoveInv
<1>4. CASE ReceiveLookup(o)
  <2>1. InFlight(o) /\ UNCHANGED <<opened, shown, subject, pageRev, head, req, log>>
      BY <1>4 DEF ReceiveLookup, InFlight
  <2>2. CASE FoundOperation(o) /\ Succeed(o)
      BY <2>1, <2>2, SucceedInv DEF FoundOperation
  <2>3. CASE Fail(o, "lost")
      BY <2>1, <2>3, FailInv DEF Ends
  <2> QED  BY <1>4, <2>2, <2>3 DEF ReceiveLookup
<1> QED  BY <1>1, <1>2, <1>3, <1>4 DEF Answer

LEMMA PubNextInv == PubInv /\ [Next]_vars => PubInv'
  BY StartInv, QuietInv, CeremonyInv, RelayWorkInv, AnswerInv DEF Next, UserStep

LEMMA PubInitInv == Init => PubInv
<1> SUFFICES ASSUME Init PROVE PubInv  OBVIOUS
<1>1. TypeOK  BY UnusedType DEF Init, TypeOK, NoDraft
<1>2. RelayInv /\ AuthorInv /\ PairInv /\ OneEditPerRevision
    BY UnusedType DEF Init, RelayInv, AuthorInv, PairInv, OneEditPerRevision
<1>3. DraftInv /\ RevisionInv
    BY UnusedType DEF Init, DraftInv, RevisionInv, Revisions, NoDraft
<1> QED  BY <1>1, <1>2, <1>3 DEF PubInv

-----------------------------------------------------------------------------
(* Refinement.                                                             *)

(* The abstract state, of one operation.                                   *)
LEMMA AbstractSame ==
  ASSUME TypeOK, log' = log,
         \A p \in Ops : sub'[p].signed = sub[p].signed /\ ToldOf(p)' = ToldOf(p)
  PROVE  UNCHANGED Abstract!vars
  BY DEF Abstract!vars

LEMMA AbstractTell ==
  ASSUME TypeOK, NEW o \in Ops, NEW what \in {"published", "failed"}, log' = log,
         InFlight(o), what = "published" => o \in log,
         sub'[o].pc = what, \A p \in Ops \ {o} : sub'[p] = sub[p],
         sub'[o].signed = sub[o].signed
  PROVE  Abstract!Next
<1>1. ToldOf(o) = "nothing" /\ ToldOf(o)' = what
    BY DEF ToldOf, InFlight, TypeOK, Submission
<1>2. \A p \in Ops \ {o} : ToldOf(p)' = ToldOf(p)
    BY DEF ToldOf
<1>3. {p \in Ops : sub[p].signed}' = {p \in Ops : sub[p].signed}
    BY DEF TypeOK
<1>4. [p \in Ops |-> ToldOf(p)]' = [[p \in Ops |-> ToldOf(p)] EXCEPT ![o] = what]
    BY <1>1, <1>2
<1> QED  BY <1>1, <1>3, <1>4 DEF Abstract!Next, Abstract!Tell

LEMMA FailTells ==
  ASSUME TypeOK, NEW o \in Ops, NEW why, InFlight(o), Fail(o, why), log' = log
  PROVE  Abstract!Next
<1>1. /\ sub'[o].pc = "failed" /\ sub'[o].signed = sub[o].signed
      /\ \A p \in Ops \ {o} : sub'[p] = sub[p]
    BY DEF Fail, TypeOK, Submission
<1> QED  BY <1>1, AbstractTell

LEMMA SucceedTells ==
  ASSUME TypeOK, NEW o \in Ops, InFlight(o), Succeed(o), o \in log, log' = log
  PROVE  Abstract!Next
<1>1. /\ sub'[o].pc = "published" /\ sub'[o].signed = sub[o].signed
      /\ \A p \in Ops \ {o} : sub'[p] = sub[p]
    BY DEF Succeed, TypeOK, Submission
<1> QED  BY <1>1, AbstractTell

(* A handler that neither signs nor ends.                                  *)
LEMMA MoveStutters ==
  ASSUME TypeOK, NEW o \in Ops, log' = log, \A p \in Ops \ {o} : sub'[p] = sub[p],
         sub'[o].signed = sub[o].signed, ToldOf(o)' = ToldOf(o)
  PROVE  UNCHANGED Abstract!vars
  BY AbstractSame DEF ToldOf

LEMMA StepRefines ==
  ASSUME PubInv, [Next]_vars
  PROVE  [Abstract!Next]_(Abstract!vars)
<1>0. TypeOK  BY DEF PubInv
<1>1. CASE UNCHANGED <<sub, log>>
    BY <1>0, <1>1, AbstractSame DEF ToldOf
<1>2. ASSUME NEW o \in Ops, ConfirmThreadDraft(o) \/ EditOwnContent(o)
      PROVE  UNCHANGED Abstract!vars
  <2>1. /\ sub[o] = Unused /\ sub'[o].pc = "challenge" /\ sub'[o].signed = FALSE
        /\ \A p \in Ops \ {o} : sub'[p] = sub[p]
        /\ log' = log
      BY <1>0, <1>2 DEF ConfirmThreadDraft, EditOwnContent, TypeOK, Handler
  <2>2. sub[o].signed = FALSE /\ sub[o].pc = "unused"
      BY <2>1 DEF Unused, Handler
  <2>3. ToldOf(o)' = ToldOf(o)  BY <2>1, <2>2 DEF ToldOf
  <2> QED  BY <1>0, <2>1, <2>2, <2>3, MoveStutters
<1>3. ASSUME NEW o \in Ops, ChallengeArrives(o)  PROVE Abstract!Next \/ UNCHANGED Abstract!vars
  <2>0. InFlight(o) /\ sub[o].pc = "challenge" /\ log' = log
      BY <1>3 DEF ChallengeArrives, InFlight
  <2>1. CASE Fail(o, "refused")  BY <1>0, <2>0, <2>1, FailTells
  <2>2. CASE sub' = [sub EXCEPT ![o].pc = "passkey"]
    <3>1. /\ sub'[o].pc = "passkey" /\ sub'[o].signed = sub[o].signed
          /\ \A p \in Ops \ {o} : sub'[p] = sub[p]
        BY <1>0, <2>2 DEF TypeOK, Submission
    <3>2. ToldOf(o)' = ToldOf(o)  BY <2>0, <3>1 DEF ToldOf
    <3> QED  BY <1>0, <2>0, <3>1, <3>2, MoveStutters
  <2> QED  BY <1>3, <2>1, <2>2 DEF ChallengeArrives
<1>4. ASSUME NEW o \in Ops, SignOperation(o)  PROVE Abstract!Next
  <2>1. /\ sub[o].pc = "passkey" /\ ~sub[o].signed
        /\ sub'[o].pc = "posting" /\ sub'[o].signed
        /\ \A p \in Ops \ {o} : sub'[p] = sub[p]
        /\ log' = log
      BY <1>0, <1>4 DEF SignOperation, TypeOK, Submission, PubInv, RelayInv
  <2>2. {p \in Ops : sub[p].signed}' = {p \in Ops : sub[p].signed} \union {o}
      BY <2>1
  <2>3. ToldOf(o) = "nothing" /\ \A p \in Ops : ToldOf(p)' = ToldOf(p)
      BY <2>1 DEF ToldOf
  <2>4. [p \in Ops |-> ToldOf(p)]' = [p \in Ops |-> ToldOf(p)]
      BY <2>3
  <2> QED  BY <2>1, <2>2, <2>3, <2>4 DEF Abstract!Next, Abstract!Sign
<1>5. ASSUME NEW o \in Ops, CancelPasskey(o)  PROVE Abstract!Next
    BY <1>0, <1>5, FailTells DEF CancelPasskey, InFlight
<1>6. ASSUME NEW o \in Ops, RelayVerify(o)  PROVE UNCHANGED Abstract!vars
  <2>1. /\ sub'[o].pc = sub[o].pc /\ sub'[o].signed = sub[o].signed
        /\ \A p \in Ops \ {o} : sub'[p] = sub[p]
        /\ log' = log
      BY <1>0, <1>6 DEF RelayVerify, TypeOK, Submission
  <2>2. ToldOf(o)' = ToldOf(o)  BY <2>1 DEF ToldOf
  <2> QED  BY <1>0, <2>1, <2>2, MoveStutters
<1>7. ASSUME NEW o \in Ops, RelayPersist(o)  PROVE Abstract!Next
  <2>1. /\ sub[o].signed /\ o \notin log /\ log' = log \union {o} /\ sub' = sub
      BY <1>7 DEF RelayPersist, PubInv, RelayInv
  <2> QED  BY <2>1 DEF Abstract!Next, Abstract!Accept, ToldOf
<1>8. ASSUME NEW o \in Ops, ReceiveAnswer(o) \/ GatewayAnswer(o) \/ ReceiveLookup(o)
      PROVE  Abstract!Next
  <2>1. InFlight(o) /\ log' = log
      BY <1>8 DEF ReceiveAnswer, GatewayAnswer, ProxyGivesUp, ReceiveLookup, InFlight
  <2>2. (Succeed(o) /\ o \in log) \/ \E why \in Ends : Fail(o, why)
      BY <1>8 DEF ReceiveAnswer, GatewayAnswer, ProxyGivesUp, ReceiveLookup, AnswerOf,
                  FoundOperation, PubInv, RelayInv, Ends
  <2> QED  BY <1>0, <2>1, <2>2, SucceedTells, FailTells
<1>9. ASSUME NEW o \in Ops, LoseConnection(o)  PROVE UNCHANGED Abstract!vars
  <2>1. /\ sub[o].pc = "posting" /\ sub'[o].pc = "checking"
        /\ sub'[o].signed = sub[o].signed
        /\ \A p \in Ops \ {o} : sub'[p] = sub[p]
        /\ log' = log
      BY <1>0, <1>9 DEF LoseConnection, TypeOK, Submission
  <2>2. ToldOf(o)' = ToldOf(o)  BY <2>1 DEF ToldOf
  <2> QED  BY <1>0, <2>1, <2>2, MoveStutters
<1>10. CASE \/ \E d \in Drafts : OpenThreadDraft(d)
            \/ CancelThreadDraft \/ ReviewThreadDraft \/ LoadPage \/ SessionChanges
            \/ \E o \in Ops : RelayRefuse(o)
            \/ UNCHANGED vars
    BY <1>1, <1>10 DEF OpenThreadDraft, CancelThreadDraft, ReviewThreadDraft, LoadPage,
                       SessionChanges, RelayRefuse, vars
<1> QED  BY <1>2, <1>3, <1>4, <1>5, <1>6, <1>7, <1>8, <1>9, <1>10
         DEF Next, UserStep, Ceremony, RelayWork, Answer

-----------------------------------------------------------------------------
(* Theorems.                                                               *)

(* The draft, the pages, the handlers and the relay keep their types.      *)
THEOREM PublishTypes == Spec => []TypeOK
<1>1. PubInv => TypeOK  BY DEF PubInv
<1> QED  BY <1>1, PubInitInv, PubNextInv, PTL DEF Spec

(* web_publication.ex:89: whatever happens to the login in between, an     *)
(* operation is accepted for the account that was shown to its author.     *)
THEOREM ConfirmedAuthor == Spec => []AcceptedForConfirmed
<1>1. PubInv => AcceptedForConfirmed
    BY DEF PubInv, TypeOK, RelayInv, AuthorInv, AcceptedForConfirmed
<1> QED  BY <1>1, PubInitInv, PubNextInv, PTL DEF Spec

(* op_store.ex:287: no revision is edited twice, however stale the pages   *)
(* are that the edits were made from.                                      *)
THEOREM RevisionEditedOnce == Spec => []OneEditPerRevision
<1>1. PubInv => OneEditPerRevision  BY DEF PubInv
<1> QED  BY <1>1, PubInitInv, PubNextInv, PTL DEF Spec

(* web_publication_client.mjs:112: without a replaced or lost answer and   *)
(* without a second confirmation at once, a draft is published once.       *)
THEOREM DraftPublishedOnce == Spec => []TwiceOnlyByFault
<1>1. PubInv => TwiceOnlyByFault
  <2> SUFFICES ASSUME PubInv, NEW o \in log, NEW p \in log, o # p,
                      sub[o].kind = "thread", sub[p].kind = "thread",
                      sub[o].draft = sub[p].draft
               PROVE  \E q \in {o, p} : sub[q].why \in {"gateway", "lost"} \/ sub[q].overlap
      BY DEF TwiceOnlyByFault
  <2>1. o \in Ops /\ p \in Ops  BY DEF PubInv, TypeOK
  <2>2. \A q \in {o, p} : req[q] = "accepted" /\ sub[q].pc # "unused"
      BY <2>1 DEF PubInv, RelayInv
  <2>3. PICK q \in {o, p} : Excused(q)
      BY <2>1, <2>2 DEF PubInv, PairInv
  <2>4. sub[q].pc = "failed" => sub[q].why \in {"gateway", "lost"}
      BY <2>1, <2>2 DEF PubInv, RelayInv, TypeOK, Submission
  <2> QED  BY <2>3, <2>4 DEF Excused
<1> QED  BY <1>1, PubInitInv, PubNextInv, PTL DEF Spec

(* The tab, the proxy and the relay implement Publication: nothing enters  *)
(* the log unsigned, nothing twice, and success is told only of what is    *)
(* there, for any number of operations and any loss of answers.            *)
THEOREM PublicationImplemented == Spec => ImplementsPublication
<1>1. Init => Abstract!Init
    BY UnusedType DEF Init, Abstract!Init, ToldOf
<1> QED  BY <1>1, PubInitInv, PubNextInv, StepRefines, PTL DEF Spec, ImplementsPublication, Abstract!Spec

(* forum_ui_app.mjs:251: no failed, refused or replaced answer takes the   *)
(* user's draft away.                                                      *)
THEOREM DraftSurvives == Spec => DraftKept
<1> DEFINE A == draft # NoDraft /\ draft' = NoDraft
                 => \/ sub' = sub
                    \/ \E o \in log : sub[o].pc # "published" /\ sub'[o].pc = "published"
<1>1. ASSUME PubInv, [Next]_vars  PROVE [A]_vars
  <2>1. ASSUME NEW o \in Ops, NEW why, Fail(o, why)  PROVE A
      BY <2>1 DEF Fail
  <2>2. ASSUME NEW o \in Ops, Succeed(o), o \in log, InFlight(o)  PROVE A
    <3>1. sub'[o].pc = "published" /\ sub[o].pc # "published"
        BY <1>1, <2>2 DEF Succeed, InFlight, PubInv, TypeOK, Submission
    <3> QED  BY <2>2, <3>1
  <2>3. ASSUME NEW o \in Ops, Answer(o)  PROVE A
    <3>1. CASE LoseConnection(o)  BY <3>1 DEF LoseConnection
    <3>2. CASE ReceiveAnswer(o) \/ GatewayAnswer(o) \/ ReceiveLookup(o)
      <4>1. InFlight(o)
          BY <3>2 DEF ReceiveAnswer, GatewayAnswer, ProxyGivesUp, ReceiveLookup, InFlight
      <4>2. (Succeed(o) /\ o \in log) \/ \E why \in Ends : Fail(o, why)
          BY <1>1, <3>2 DEF ReceiveAnswer, GatewayAnswer, ProxyGivesUp, ReceiveLookup, AnswerOf,
                      FoundOperation, PubInv, RelayInv, Ends
      <4> QED  BY <2>1, <2>2, <4>1, <4>2
    <3> QED  BY <2>3, <3>1, <3>2 DEF Answer
  <2>4. ASSUME NEW o \in Ops, Ceremony(o) \/ RelayWork(o)  PROVE A
    <3>1. draft' = draft
        BY <2>4 DEF Ceremony, ChallengeArrives, SignOperation, CancelPasskey, Fail,
                    RelayWork, RelayVerify, RelayPersist, RelayRefuse
    <3> QED  BY <3>1
  <2>5. CASE UserStep \/ SessionChanges \/ UNCHANGED vars
      BY <2>5 DEF UserStep, OpenThreadDraft, CancelThreadDraft, ReviewThreadDraft, LoadPage,
                  ConfirmThreadDraft, EditOwnContent, SessionChanges, vars
  <2> QED  BY <1>1, <2>3, <2>4, <2>5 DEF Next
<1> QED  BY <1>1, PubInitInv, PubNextInv, PTL DEF Spec, DraftKept

=============================================================================
