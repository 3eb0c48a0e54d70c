----------------------------- MODULE WebPublish -----------------------------
(***************************************************************************)
(* Publishing from the web: the draft in the tab, the passkey ceremony of  *)
(* the publication client, the proxy that stands between the tab and the   *)
(* relay, and the relay that accepts the operation.                        *)
(*                                                                         *)
(* Every confirmation builds a new operation with a fresh random id, so a  *)
(* submission is named by its operation.  The relay works on a request it  *)
(* has received whatever becomes of the tab's call: the proxy may give up  *)
(* (502, 504) or the tab may lose its connection at any moment.            *)
(***************************************************************************)
EXTENDS Naturals, FiniteSets

CONSTANTS
  Ops,        \* operation ids the client may draw
  Drafts,     \* drafts the user may open
  PollDrafts, \* those opened as polls
  Dids,       \* accounts
  None,       \* null
  Base        \* revision of the user's thread before any edit

ASSUME NoneAssumption == None \notin Ops \union Drafts \union Dids \union {Base}
ASSUME PollAssumption == PollDrafts \subseteq Drafts
ASSUME BaseAssumption == Base \notin Ops

VARIABLES
  draft,      \* forum_ui_app.mjs: threadDraft
  opened,     \* drafts opened so far
  shown,      \* DID of the session the tab shows
  subject,    \* DID of the session the cookie carries, at the relay
  pageRev,    \* revision of the user's thread on the page
  head,       \* its latest revision at the relay
  sub,        \* operation -> the handler that submits it
  req,        \* operation -> its POST at the relay
  log         \* accepted operations

vars == <<draft, opened, shown, subject, pageRev, head, sub, req, log>>

-----------------------------------------------------------------------------
NoDraft == [id |-> None, reviewing |-> FALSE]

(* pc: where the handler waits; signed: the passkey has signed; session:   *)
(* the account the relay verified it for; why: what a failed handler was   *)
(* told.  again: it was confirmed after an operation of the same draft had *)
(* failed for the tab and was in the log; overlap: while one was under way.*)
Submission ==
  [pc : {"unused", "challenge", "passkey", "posting", "checking",
         "published", "failed"},
   kind : {"thread", "edit"}, draft : Drafts \union {None}, poll : BOOLEAN,
   author : Dids \union {None}, session : Dids \union {None}, expected : Ops \union {Base},
   signed : BOOLEAN, why : {"none", "refused", "gateway", "lost"},
   again : BOOLEAN, overlap : BOOLEAN]

Handler(pc, kind, d, poll, author, expected, again, overlap) ==
  [pc |-> pc, kind |-> kind, draft |-> d, poll |-> poll, author |-> author,
   session |-> None, expected |-> expected, signed |-> FALSE, why |-> "none",
   again |-> again, overlap |-> overlap]

Unused == Handler("unused", "thread", None, FALSE, None, Base, FALSE, FALSE)

Init ==
  /\ draft = NoDraft
  /\ opened = {}
  /\ shown = None
  /\ subject = None
  /\ pageRev = Base
  /\ head = Base
  /\ sub = [o \in Ops |-> Unused]
  /\ req = [o \in Ops |-> "none"]
  /\ log = {}

InFlight(o) == sub[o].pc \notin {"unused", "published", "failed"}
OpsOf(d) == {o \in Ops : sub[o].pc # "unused" /\ sub[o].draft = d}

-----------------------------------------------------------------------------
(* The session, as the publication sees it: it may end or be another       *)
(* account's at any moment, and the tab learns of it when it loads a page. *)

SessionChanges ==
  /\ subject' \in (Dids \union {None}) \ {subject}
  /\ UNCHANGED <<draft, opened, shown, pageRev, head, sub, req, log>>

(* Mutant of Revisions: the page is rendered without a revision.           *)
NoRevision == {None}

(* The revisions of the thread so far.  The AppView serves any of them: it *)
(* lags behind the relay, and a page of a feed may leave an edit out.      *)
Revisions == {Base} \union {o \in log : sub[o].kind = "edit"}

LoadPage ==
  /\ shown' = subject
  /\ pageRev' \in Revisions
  /\ UNCHANGED <<draft, opened, subject, head, sub, req, log>>

-----------------------------------------------------------------------------
(* The draft.                                                              *)

OpenThreadDraft(d) ==
  /\ d \notin opened
  /\ shown # None
  /\ draft' = [id |-> d, reviewing |-> FALSE]
  /\ opened' = opened \union {d}
  /\ UNCHANGED <<shown, subject, pageRev, head, sub, req, log>>

CancelThreadDraft ==
  /\ draft # NoDraft
  /\ draft' = NoDraft
  /\ UNCHANGED <<opened, shown, subject, pageRev, head, sub, req, log>>

ReviewThreadDraft ==
  /\ draft # NoDraft /\ ~draft.reviewing
  /\ draft' = [draft EXCEPT !.reviewing = TRUE]
  /\ UNCHANGED <<opened, shown, subject, pageRev, head, sub, req, log>>

(* readThreadDraftPoll reads the option inputs of the form, and the form   *)
(* under review is rendered without them.                                  *)
DraftPoll == draft.id \in PollDrafts /\ ~draft.reviewing

(* The author is the account the tab shows; without one nothing is sent.   *)
ConfirmThreadDraft(o) ==
  /\ draft.reviewing
  /\ shown # None
  /\ sub[o] = Unused
  /\ sub' = [sub EXCEPT ![o] =
       Handler("challenge", "thread", draft.id, DraftPoll, shown, Base,
               \E p \in OpsOf(draft.id) : sub[p].pc = "failed" /\ p \in log,
               \E p \in OpsOf(draft.id) : InFlight(p))]
  /\ UNCHANGED <<draft, opened, shown, subject, pageRev, head, req, log>>

(* Editing or deleting the thread the page shows, at the page's revision.  *)
EditOwnContent(o) ==
  /\ shown # None
  /\ sub[o] = Unused
  /\ sub' = [sub EXCEPT ![o] =
       Handler("challenge", "edit", None, FALSE, shown, pageRev, FALSE, FALSE)]
  /\ UNCHANGED <<draft, opened, shown, subject, pageRev, head, req, log>>

-----------------------------------------------------------------------------
(* How a handler ends.                                                     *)

(* Mutant of Fail: the error path drops the draft as well.                 *)
FailAndForget(o, why) ==
  /\ sub' = [sub EXCEPT ![o].pc = "failed", ![o].why = why]
  /\ draft' = NoDraft

(* renderUiError: the draft stays as it was.                               *)
Fail(o, why) ==
  /\ sub' = [sub EXCEPT ![o].pc = "failed", ![o].why = why]
  /\ draft' = draft

(* Success clears the draft, whichever draft is open by then.              *)
Succeed(o) ==
  /\ sub' = [sub EXCEPT ![o].pc = "published"]
  /\ draft' = IF sub[o].kind = "thread" THEN NoDraft ELSE draft

-----------------------------------------------------------------------------
(* The ceremony.                                                           *)

(* Mutant of Validated: the author named in the operation is believed.     *)
ValidatedBlindly(o) == TRUE

(* validate_operation: the session is the author's.                        *)
Validated(o) == subject = sub[o].author

(* The forum host and its boards are fetched, the operation is built, and  *)
(* the relay issues its challenge; or one of them fails (board, scope,     *)
(* gate, policy, rate, network) before anything was signed.                *)
ChallengeArrives(o) ==
  /\ sub[o].pc = "challenge"
  /\ \/ Validated(o) /\ sub' = [sub EXCEPT ![o].pc = "passkey"] /\ draft' = draft
     \/ Fail(o, "refused")
  /\ UNCHANGED <<opened, shown, subject, pageRev, head, req, log>>

SignOperation(o) ==
  /\ sub[o].pc = "passkey"
  /\ sub' = [sub EXCEPT ![o].pc = "posting", ![o].signed = TRUE]
  /\ req' = [req EXCEPT ![o] = "travelling"]
  /\ UNCHANGED <<draft, opened, shown, subject, pageRev, head, log>>

CancelPasskey(o) ==
  /\ sub[o].pc = "passkey"
  /\ Fail(o, "refused")
  /\ UNCHANGED <<opened, shown, subject, pageRev, head, req, log>>

-----------------------------------------------------------------------------
(* The relay's side of the POST.                                           *)

(* create: session, board and proof are checked and the challenge is       *)
(* consumed; the operation is not in the log yet.                          *)
RelayVerify(o) ==
  /\ req[o] = "travelling"
  /\ Validated(o)
  /\ req' = [req EXCEPT ![o] = "verified"]
  /\ sub' = [sub EXCEPT ![o].session = subject]
  /\ UNCHANGED <<draft, opened, shown, subject, pageRev, head, log>>

(* Mutant of RevisionCurrent: the expected revision is not compared.       *)
AnyRevision(o) == TRUE

(* append_author_mutation: an edit must be of the latest revision.         *)
RevisionCurrent(o) == sub[o].kind = "edit" => sub[o].expected = head

(* persist: receipt, row, log entry and federation in one transaction.     *)
RelayPersist(o) ==
  /\ req[o] = "verified"
  /\ RevisionCurrent(o)
  /\ req' = [req EXCEPT ![o] = "accepted"]
  /\ log' = log \union {o}
  /\ head' = IF sub[o].kind = "edit" THEN o ELSE head
  /\ UNCHANGED <<draft, opened, shown, subject, pageRev, sub>>

(* Refused by a check, rolled back, or never received.                     *)
RelayRefuse(o) ==
  /\ req[o] \in {"travelling", "verified"}
  /\ \E end \in {"refused", "dropped"} : req' = [req EXCEPT ![o] = end]
  /\ UNCHANGED <<draft, opened, shown, subject, pageRev, head, sub, log>>

-----------------------------------------------------------------------------
(* The answer to the POST.                                                 *)

(* Mutant of AnswerOf: an answer without the accepted flag is a failure.   *)
AnswerUnflagged(o) == "refused"

AnswerOf(o) == IF req[o] = "accepted" THEN "published" ELSE "refused"

ReceiveAnswer(o) ==
  /\ sub[o].pc = "posting"
  /\ req[o] \in {"accepted", "refused"}
  /\ IF AnswerOf(o) = "published" THEN Succeed(o) ELSE Fail(o, "refused")
  /\ UNCHANGED <<opened, shown, subject, pageRev, head, req, log>>

(* Mutant of ProxyGivesUp: the proxy waits for the relay's answer.         *)
ProxyWaits(o) == sub[o].pc = "posting" /\ req[o] = "refused" /\ Fail(o, "gateway")

(* The proxy answers 502 or 504 in the relay's place, whatever the relay   *)
(* has done or will still do: an answer with a status is not ambiguous.    *)
ProxyGivesUp(o) == sub[o].pc = "posting" /\ Fail(o, "gateway")

GatewayAnswer(o) ==
  /\ ProxyGivesUp(o)
  /\ UNCHANGED <<opened, shown, subject, pageRev, head, req, log>>

(* The connection to the proxy breaks: ambiguous, ask for the operation.   *)
LoseConnection(o) ==
  /\ sub[o].pc = "posting"
  /\ sub' = [sub EXCEPT ![o].pc = "checking"]
  /\ UNCHANGED <<draft, opened, shown, subject, pageRev, head, req, log>>

(* Mutant of FoundOperation: any answer of the lookup counts.              *)
AnyLookup(o) == TRUE

(* show: the row exists and belongs to the session's account.              *)
FoundOperation(o) == o \in log /\ sub[o].author = subject

ReceiveLookup(o) ==
  /\ sub[o].pc = "checking"
  /\ \/ FoundOperation(o) /\ Succeed(o)
     \/ Fail(o, "lost")
  /\ UNCHANGED <<opened, shown, subject, pageRev, head, req, log>>

-----------------------------------------------------------------------------
UserStep ==
  \/ \E d \in Drafts : OpenThreadDraft(d)
  \/ CancelThreadDraft
  \/ ReviewThreadDraft
  \/ LoadPage
  \/ \E o \in Ops : ConfirmThreadDraft(o) \/ EditOwnContent(o)

Ceremony(o) ==
  ChallengeArrives(o) \/ SignOperation(o) \/ CancelPasskey(o)

RelayWork(o) == RelayVerify(o) \/ RelayPersist(o) \/ RelayRefuse(o)

Answer(o) ==
  ReceiveAnswer(o) \/ GatewayAnswer(o) \/ LoseConnection(o) \/ ReceiveLookup(o)

Next ==
  \/ UserStep
  \/ SessionChanges
  \/ \E o \in Ops : Ceremony(o) \/ RelayWork(o) \/ Answer(o)

Spec == Init /\ [][Next]_vars

(* The passkey prompt is answered or times out; the proxy ends a request   *)
(* after 30 s at the latest, so each wait of a handler comes to an end.    *)
FairSpec ==
  Spec /\ \A o \in Ops :
    /\ WF_vars(Ceremony(o))
    /\ WF_vars(ReceiveAnswer(o) \/ GatewayAnswer(o))
    /\ WF_vars(ReceiveLookup(o))

-----------------------------------------------------------------------------
TypeOK ==
  /\ draft \in [id : Drafts \union {None}, reviewing : BOOLEAN]
  /\ opened \in SUBSET Drafts
  /\ shown \in Dids \union {None}
  /\ subject \in Dids \union {None}
  /\ pageRev \in Ops \union {Base}
  /\ head \in Ops \union {Base}
  /\ sub \in [Ops -> Submission]
  /\ req \in [Ops -> {"none", "travelling", "verified", "accepted", "refused", "dropped"}]
  /\ log \in SUBSET Ops

(* What the submissions look like to their authors.                        *)
ToldOf(o) ==
  CASE sub[o].pc = "published" -> "published"
    [] sub[o].pc = "failed"    -> "failed"
    [] OTHER                   -> "nothing"

Abstract == INSTANCE Publication WITH
  signed <- {o \in Ops : sub[o].signed},
  told   <- [o \in Ops |-> ToldOf(o)]

(* web_publication_client.mjs:40-124, web_publication.ex:36-61: the tab,    *)
(* the proxy and the relay together implement Publication: only what was   *)
(* signed is accepted, once, and "published" is only said of what is in    *)
(* the log, whichever answers are lost or late.                            *)
ImplementsPublication == Abstract!Spec

(* web_publication.ex:89, forum_ui_app.mjs:466: what is accepted is         *)
(* accepted for the account the tab showed when it was confirmed, and for  *)
(* a session of that account, although the login may change at any time    *)
(* between review, signature and acceptance.                               *)
AcceptedForConfirmed ==
  \A o \in log : sub[o].session = sub[o].author /\ sub[o].author # None

(* op_store.ex, forum_ui_app.mjs:341: of two edits of one revision, made   *)
(* from a stale page or repeated after a lost answer, one is accepted.     *)
OneEditPerRevision ==
  \A o, p \in log :
    (sub[o].kind = "edit" /\ sub[p].kind = "edit" /\ sub[o].expected = sub[p].expected)
      => o = p

(* web_publication_client.mjs:112-122: a draft is published twice only     *)
(* when it was confirmed twice at once, or an answer was replaced by the   *)
(* proxy's or lost: a relay that answers is never asked again.             *)
TwiceOnlyByFault ==
  \A o, p \in log :
    (o # p /\ sub[o].kind = "thread" /\ sub[o].draft = sub[p].draft /\ sub[p].kind = "thread")
      => \E q \in {o, p} : sub[q].why \in {"gateway", "lost"} \/ sub[q].overlap

(* forum_ui_app.mjs:251-285: a draft goes away when the user cancels or    *)
(* replaces it or when a publication succeeds, and with no other answer.   *)
DraftKept ==
  [][ draft # NoDraft /\ draft' = NoDraft
        => \/ sub' = sub
           \/ \E o \in log : sub[o].pc # "published" /\ sub'[o].pc = "published" ]_vars

(* web_publication_client.mjs:83-123, server.mjs:630: a submission ends;    *)
(* its author is told of success or of a failure.                          *)
SubmissionsEnd == \A o \in Ops : InFlight(o) ~> ~InFlight(o)

(* 2026-07-24-passkey-signed-web-publication-rail-design.md:970: "Retries   *)
(* [...] do not prompt for a second signature after an accepted operation".*)
NoSecondSignature ==
  \A o \in Ops : sub[o].again => sub[o].pc # "passkey" /\ ~sub[o].signed

=============================================================================
