----------------------------- MODULE WebSession -----------------------------
(***************************************************************************)
(* A browser tab that logs in through the relay's session store.           *)
(*                                                                         *)
(* The tab is single threaded, but every handler waits for the relay: a    *)
(* handler is a call that is sent (with the cookie of that moment),        *)
(* served, and received when its answer arrives, and other handlers run in *)
(* between.  An answer is applied to whatever the state is by then.        *)
(*                                                                         *)
(* Three copies of the session live in the tab: the session lifecycle's    *)
(* state, the login state the UI keeps from the last login or poll, and    *)
(* the page, which the last load to finish has set.                        *)
(***************************************************************************)
EXTENDS WebSessionStore

CONSTANTS
  Calls,                  \* handlers that may be waiting at once
  MaxClicks               \* bound on what the user does, for model checking

ASSUME ClickAssumption == MaxClicks \in Nat

VARIABLES
  cookie,       \* the session cookie of the browser
  lifecycle,    \* session_lifecycle.mjs: state
  loginState,   \* forum_ui_app.mjs: loginState
  page,         \* forum_ui_app.mjs: the session in `state`
  route,        \* the login page, or any other
  calls,        \* the handlers
  clicks        \* user actions so far

tabVars == <<cookie, lifecycle, loginState, page, route, calls, clicks>>
vars == <<now, challenges, sessions, cookie, lifecycle, loginState, page, route,
          calls, clicks>>

-----------------------------------------------------------------------------
(* A session state: the challenge it can poll, the session it shows, and   *)
(* whether its view model still offers a challenge to check.               *)
SessionState ==
  [status : {"none", "signed_out", "login_pending", "authenticated", "error"},
   challenge : ChallengeIds \union {None}, session : Tokens \union {None},
   offered : BOOLEAN]

StateOf(status, c, t, offered) ==
  [status |-> status, challenge |-> c, session |-> t, offered |-> offered]

NoLogin == StateOf("none", None, None, FALSE)
PublicState == StateOf("signed_out", None, None, FALSE)
ErrorState == StateOf("error", None, None, FALSE)
PendingState(c) == StateOf("login_pending", c, None, TRUE)
SessionStateOf(t) == StateOf("authenticated", None, t, FALSE)

CallRecord ==
  [kind : {"none", "load", "start", "poll", "pollme", "revoke"},
   pc : {"idle", "sent", "served", "restored"},
   cookie : Tokens \union {None}, challenge : ChallengeIds \union {None},
   answer : {"none", "ok", "unauthenticated", "error", "not_found",
             "pending", "approved", "rejected", "expired"},
   token : Tokens \union {None}, late : BOOLEAN]

Idle ==
  [kind |-> "none", pc |-> "idle", cookie |-> None, challenge |-> None,
   answer |-> "none", token |-> None, late |-> FALSE]

(* late: the session of the cookie was already revoked when it was sent.   *)
Request(kind, c, jar) ==
  [kind |-> kind, pc |-> "sent", cookie |-> jar, challenge |-> c, answer |-> "none",
   token |-> None, late |-> jar # None /\ sessions[jar].revoked]

Answered(call, answer, t) ==
  [call EXCEPT !.pc = "served", !.answer = answer, !.token = t]

Init ==
  /\ StoreInit
  /\ cookie = None
  /\ lifecycle = PublicState
  /\ loginState = NoLogin
  /\ page = None
  /\ route = "page"
  /\ calls = [k \in Calls |-> Idle]
  /\ clicks = 0

(* currentSessionViewModel: a login made in this tab wins over the page.   *)
ViewSession ==
  IF loginState.session # None THEN loginState.session ELSE page

-----------------------------------------------------------------------------
(* What the user may do.                                                   *)

Click == clicks < MaxClicks /\ clicks' = clicks + 1

(* A click whose handler k waits for the relay.                            *)
Handle(k) == Click /\ calls[k].pc = "idle"

(* Every page but the login page asks /me before anything else.            *)
StartLoad(k) ==
  /\ Handle(k)
  /\ route' = "page"
  /\ calls' = [calls EXCEPT ![k] = Request("load", None, cookie)]
  /\ UNCHANGED <<storeVars, cookie, lifecycle, loginState, page>>

OpenLoginPage ==
  /\ route' = "login"
  /\ page' = None
  /\ UNCHANGED <<storeVars, cookie, lifecycle, loginState, calls, clicks>>

(* renderLogin offers either to start a login or to check the one shown.   *)
StartLogin(k) ==
  /\ Handle(k) /\ route = "login" /\ ~loginState.offered
  /\ calls' = [calls EXCEPT ![k] = Request("start", None, None)]
  /\ UNCHANGED <<storeVars, cookie, lifecycle, loginState, page, route>>

(* Without a challenge in the lifecycle the poll throws and nothing moves. *)
PollLogin(k) ==
  /\ Handle(k) /\ route = "login" /\ loginState.offered
  /\ lifecycle.challenge # None
  /\ calls' = [calls EXCEPT ![k] = Request("poll", lifecycle.challenge, cookie)]
  /\ UNCHANGED <<storeVars, cookie, lifecycle, loginState, page, route>>

RevokeSession(k) ==
  /\ Handle(k) /\ route = "page" /\ ViewSession # None
  /\ calls' = [calls EXCEPT ![k] = Request("revoke", None, cookie)]
  /\ UNCHANGED <<storeVars, cookie, lifecycle, loginState, page, route>>

(* The tab is reloaded: the script starts over, the cookie stays.          *)
ReloadTab(k) ==
  /\ Click
  /\ lifecycle' = PublicState
  /\ loginState' = NoLogin
  /\ page' = None
  /\ route' = "page"
  /\ calls' = [j \in Calls |->
       IF j = k THEN Request("load", None, cookie) ELSE Idle]
  /\ UNCHANGED <<storeVars, cookie>>

-----------------------------------------------------------------------------
(* The relay serves a call.                                                *)

ServeMe(k) ==
  /\ calls[k].pc = "sent" /\ calls[k].kind \in {"load", "pollme"}
  /\ calls' = [calls EXCEPT ![k] =
       IF ActiveSession(@.cookie) THEN Answered(@, "ok", @.cookie)
                                  ELSE Answered(@, "unauthenticated", None)]
  /\ UNCHANGED <<storeVars, cookie, lifecycle, loginState, page, route, clicks>>

ServeStart(k) ==
  /\ calls[k].pc = "sent" /\ calls[k].kind = "start"
  /\ \E c \in ChallengeIds :
       /\ Issue(c)
       /\ calls' = [calls EXCEPT ![k] = [Answered(@, "ok", None) EXCEPT !.challenge = c]]
  /\ UNCHANGED <<cookie, lifecycle, loginState, page, route, clicks>>

(* Mutant of PollCookie: the cookie carries the challenge's id.            *)
ChallengeCookie(c) == IF challenges[c].status = "approved" THEN c ELSE None

(* The cookie set by a poll: only while the approved session is active.    *)
PollCookie(c) ==
  IF challenges[c].status = "approved" /\ ActiveSession(challenges[c].session)
  THEN challenges[c].session ELSE None

ServePoll(k) ==
  /\ calls[k].pc = "sent" /\ calls[k].kind = "poll"
  /\ Poll(calls[k].challenge)
  /\ LET c == calls[k].challenge
         status == challenges'[c].status
     IN  calls' = [calls EXCEPT ![k] =
           Answered(@, IF status = "gone" THEN "not_found" ELSE status, PollCookie(c))]
  /\ UNCHANGED <<cookie, lifecycle, loginState, page, route, clicks>>

ServeRevoke(k) ==
  /\ calls[k].pc = "sent" /\ calls[k].kind = "revoke"
  /\ \/ /\ ActiveSession(calls[k].cookie)
        /\ Revoke(calls[k].cookie)
        /\ calls' = [calls EXCEPT ![k] = Answered(@, "ok", @.cookie)]
     \/ /\ ~ActiveSession(calls[k].cookie)
        /\ calls' = [calls EXCEPT ![k] = Answered(@, "unauthenticated", None)]
        /\ UNCHANGED storeVars
  /\ UNCHANGED <<cookie, lifecycle, loginState, page, route, clicks>>

(* The request or its answer is lost, refused for its rate, or timed out   *)
(* by the proxy.                                                           *)
FailCall(k) ==
  /\ calls[k].pc \in {"sent", "served"} /\ calls[k].answer # "error"
  /\ calls' = [calls EXCEPT ![k] = Answered(@, "error", None)]
  /\ UNCHANGED <<storeVars, cookie, lifecycle, loginState, page, route, clicks>>

-----------------------------------------------------------------------------
(* The tab receives an answer.                                             *)

(* restore(), inside the load of a page.                                   *)
ReceiveRestore(k) ==
  /\ calls[k].pc = "served" /\ calls[k].kind = "load"
  /\ lifecycle' = CASE calls[k].answer = "ok"              -> SessionStateOf(calls[k].token)
                    [] calls[k].answer = "unauthenticated" -> PublicState
                    [] calls[k].answer = "error"           -> ErrorState
  /\ calls' = [calls EXCEPT ![k].pc = "restored"]
  /\ UNCHANGED <<storeVars, cookie, loginState, page, route, clicks>>

(* The forum data has arrived, and with it the page; or it has failed.     *)
FinishLoad(k) ==
  /\ calls[k].pc = "restored"
  /\ page' \in {page, calls[k].token}
  /\ calls' = [calls EXCEPT ![k] = Idle]
  /\ UNCHANGED <<storeVars, cookie, lifecycle, loginState, route, clicks>>

ReceiveStart(k) ==
  /\ calls[k].pc = "served" /\ calls[k].kind = "start"
  /\ calls' = [calls EXCEPT ![k] = Idle]
  /\ \/ /\ calls[k].answer = "ok"
        /\ lifecycle' = PendingState(calls[k].challenge)
        /\ loginState' = lifecycle'
     \/ /\ calls[k].answer = "error"
        /\ UNCHANGED <<lifecycle, loginState>>
  /\ UNCHANGED <<storeVars, cookie, page, route, clicks>>

(* continuePolling spreads the current state, whatever it has become.      *)
StillPending(k) == [lifecycle EXCEPT !.status = "login_pending", !.offered = TRUE]

(* Mutant of LoginCookie: /me is sent before the answer's cookie is set.   *)
CookieBeforePoll(k) == cookie

(* The browser stores the cookie of an answer before the script sees it.   *)
LoginCookie(k) == IF calls[k].token # None THEN calls[k].token ELSE cookie

ReceivePoll(k) ==
  /\ calls[k].pc = "served" /\ calls[k].kind = "poll"
  /\ cookie' = IF calls[k].token # None THEN calls[k].token ELSE cookie
  /\ \/ /\ calls[k].answer = "approved"
        /\ calls' = [calls EXCEPT ![k] =
                       Request("pollme", @.challenge, LoginCookie(k))]
        /\ UNCHANGED <<lifecycle, loginState>>
     \/ /\ calls[k].answer = "pending"
        /\ lifecycle' = StillPending(k)
        /\ loginState' = lifecycle'
        /\ calls' = [calls EXCEPT ![k] = Idle]
     \/ /\ calls[k].answer \in {"rejected", "expired"}
        /\ lifecycle' = ErrorState
        /\ loginState' = ErrorState
        /\ calls' = [calls EXCEPT ![k] = Idle]
     \/ /\ calls[k].answer \in {"not_found", "error"}
        /\ UNCHANGED <<lifecycle, loginState>>
        /\ calls' = [calls EXCEPT ![k] = Idle]
  /\ UNCHANGED <<storeVars, page, route, clicks>>

ReceiveLogin(k) ==
  /\ calls[k].pc = "served" /\ calls[k].kind = "pollme"
  /\ calls' = [calls EXCEPT ![k] = Idle]
  /\ \/ /\ calls[k].answer = "ok"
        /\ lifecycle' = SessionStateOf(calls[k].token)
        /\ loginState' = lifecycle'
     \/ /\ calls[k].answer # "ok"
        /\ UNCHANGED <<lifecycle, loginState>>
  /\ UNCHANGED <<storeVars, cookie, page, route, clicks>>

(* revokeSession: forget the login, then load the page again.              *)
ReceiveRevoke(k) ==
  /\ calls[k].pc = "served" /\ calls[k].kind = "revoke"
  /\ \/ /\ calls[k].answer = "ok"
        /\ cookie' = None
        /\ lifecycle' = PublicState
        /\ loginState' = NoLogin
        /\ \/ /\ route = "page"
              /\ calls' = [calls EXCEPT ![k] = Request("load", None, None)]
              /\ page' = page
           \/ /\ route = "login"
              /\ calls' = [calls EXCEPT ![k] = Idle]
              /\ page' = None
     \/ /\ calls[k].answer # "ok"
        /\ calls' = [calls EXCEPT ![k] = Idle]
        /\ UNCHANGED <<cookie, lifecycle, loginState, page>>
  /\ UNCHANGED <<storeVars, route, clicks>>

-----------------------------------------------------------------------------
UserStep(k) ==
  \/ StartLoad(k) \/ StartLogin(k) \/ PollLogin(k) \/ RevokeSession(k) \/ ReloadTab(k)
Serve(k) == ServeMe(k) \/ ServeStart(k) \/ ServePoll(k) \/ ServeRevoke(k)
Receive(k) ==
  \/ ReceiveRestore(k) \/ FinishLoad(k) \/ ReceiveStart(k) \/ ReceivePoll(k)
  \/ ReceiveLogin(k) \/ ReceiveRevoke(k)

(* The store changes by itself; another session of the DID revokes this.   *)
RelayStep ==
  /\ StoreStep \/ \E t \in Tokens : ActiveSession(t) /\ Revoke(t)
  /\ UNCHANGED tabVars

Next ==
  \/ \E k \in Calls : UserStep(k) \/ Serve(k) \/ FailCall(k) \/ Receive(k)
  \/ OpenLoginPage
  \/ RelayStep

Spec == Init /\ [][Next]_vars

-----------------------------------------------------------------------------
TypeOK ==
  /\ StoreTypeOK
  /\ cookie \in Tokens \union {None}
  /\ lifecycle \in SessionState
  /\ loginState \in SessionState
  /\ page \in Tokens \union {None}
  /\ route \in {"login", "page"}
  /\ calls \in [Calls -> CallRecord]
  /\ clicks \in 0..MaxClicks

(* session_lifecycle.mjs:128, web_session_controller.ex:129: a question     *)
(* asked after its session was revoked, here or elsewhere, is not answered *)
(* with that session, so no page loaded after a revocation shows it.       *)
NoRevival ==
  \A k \in Calls :
    calls[k].kind \in {"load", "pollme"} /\ calls[k].token # None => ~calls[k].late

(* session_lifecycle.mjs:93-101, web_session_controller.ex:53-66: polling   *)
(* an approved challenge logs the browser in with the session approved for *)
(* that challenge, not with an older cookie, unless that session is over.  *)
PollLogsInApproved ==
  \A k \in Calls :
    calls[k].kind = "pollme" /\ calls[k].token # None
      => LET t == challenges[calls[k].challenge].session
         IN  calls[k].token = t \/ ~ActiveSession(t)

=============================================================================
