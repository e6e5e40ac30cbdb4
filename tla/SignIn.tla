-------------------------------- MODULE SignIn --------------------------------
(* Being signed in: the session rows and tokens of session.service.ts, the      *)
(* middleware that checks them, and the browser - one cookie, several tabs, in  *)
(* each the store (authStore.ts, api.ts), the route guards and the pages that   *)
(* sign people up, in and out.                                                 *)
(*                                                                            *)
(* A call is sent by a tab, looks its session up, writes the session row back   *)
(* and does its work, and is answered: four moments, with the moments of other  *)
(* calls and the clock in between.  An answer may get lost.  Whether a code or   *)
(* a password is right is the affair of Accounts: here a form may be refused.   *)
EXTENDS Integers, Sequences

CONSTANTS Users,
          Admins,          \* the users who need a code after their password
          Temporary,       \* the users with a temporary password at first
          Tabs,
          Slots,           \* the calls that may be in flight at once
          Forms,           \* Forms[t]: the forms tab t gets to
          IdleTimeout, AbsoluteTimeout,
          Lag,             \* longest time a call takes
          MaxTime, MaxSessions, MaxCalls

ASSUME SignInAssumption ==
  /\ Admins \subseteq Users /\ Temporary \subseteq Users
  /\ IdleTimeout \in Nat /\ AbsoluteTimeout \in Nat /\ Lag \in Nat
  /\ Lag < IdleTimeout \div 2

VARIABLES now,
          sessions,  \* the table: sessions[sid] is the row of session sid
          gated,     \* the users who must change their password
          cookie,    \* the browser's session token, or NoToken
          store,     \* store[t]: the auth store of tab t and its CSRF token
          page,      \* page[t]: the form or page tab t is at
          calls,     \* calls[c]: a call in flight, or Free
          trail      \* history: calls made, when each session was last used and
                     \* for whom writes were made, and whether a call that was
                     \* under way during a sign-in was answered after it
vars == <<now, sessions, gated, cookie, store, page, calls, trail>>

Nobody == "nobody"
NoToken == [sid |-> 0, iat |-> 0]
Free == [op |-> "none"]
Fresh == [user |-> Nobody, mustChange |-> FALSE, loading |-> TRUE, csrf |-> 0]

\* The tabs are open, and nobody is signed in.

Init ==
  /\ now = 0 /\ sessions = <<>> /\ gated = Temporary /\ cookie = NoToken
  /\ store = [t \in Tabs |-> [Fresh EXCEPT !.loading = FALSE]]
  /\ page = [t \in Tabs |-> "password"]
  /\ calls = [c \in Slots |-> Free]
  /\ trail = [calls |-> 0, used |-> <<>>, wrote |-> {}, crossed |-> FALSE]

Earlier(a, b) == IF a < b THEN a ELSE b
Later(a, b) == IF a < b THEN b ELSE a

-----------------------------------------------------------------------------
(* Sessions and their tokens *)
\* Mutant of RefreshThreshold: a token is replaced when its window is over.
RefreshAtTheEnd == IdleTimeout

RefreshThreshold == IdleTimeout \div 2

NewSession(user) == [user |-> user, began |-> now, expires |-> now + IdleTimeout, revoked |-> FALSE]
AbsoluteEnd(row) == row.began + AbsoluteTimeout

\* A token carries its own end, fixed when it is signed.
TokenEnd(token) == Earlier(token.iat + IdleTimeout, AbsoluteEnd(sessions[token.sid]))

\* verifySessionToken, up to its query.
LiveRow(row) == ~row.revoked /\ now < row.expires /\ now < AbsoluteEnd(row)
Verified(token) == token # NoToken /\ now < TokenEnd(token) /\ LiveRow(sessions[token.sid])

\* The row it writes back: all of it, as read, but for the sliding end.
Slid(row) == [row EXCEPT !.expires = Earlier(now + IdleTimeout, AbsoluteEnd(row))]

\* issueRefreshedSessionToken
Refreshed(token) ==
  IF now - token.iat < RefreshThreshold \/ now >= AbsoluteEnd(sessions[token.sid])
  THEN NoToken
  ELSE [token EXCEPT !.iat = now]

Revoked(user) ==
  [s \in DOMAIN sessions |->
     IF sessions[s].user = user THEN [sessions[s] EXCEPT !.revoked = TRUE] ELSE sessions[s]]

-----------------------------------------------------------------------------
(* The client's forms: what each one sends, and what follows a success *)
StoreForms == {"password", "request", "verify", "register", "registerCode", "apply", "applyCode", "force"}
\* The buttons of LoginPage, RegisterPage, RegisterCharityPage, ForgotPasswordPage,
\* ResetPasswordPage, ForceChangePasswordPage and ProfilePage, form by form, and of
\* the dashboards; the navigation bar's logout is on all of them for who is signed in.
LoginOps(form) == IF form = "request" THEN {"ask"} ELSE {"login"}
RegisterOps(form) == {"ask"}
ApplyOps(form, user) == IF form = "apply" /\ user # Nobody THEN {"write"} ELSE {"ask"}
ForgotOps == {"ask"}
ResetOps == {"reset"}
ForceOps == {"force"}
ProfileOps == {"save", "write"}
LogoutOps(user) == IF user = Nobody THEN {} ELSE {"logout"}
OpsOf(form, user) ==
  CASE form \in {"password", "request", "verify"} -> LoginOps(form)
    [] form \in {"register", "registerCode"} -> RegisterOps(form)
    [] form \in {"apply", "applyCode"} -> ApplyOps(form, user)
    [] form = "forgot" -> ForgotOps
    [] form = "reset" -> ResetOps
    [] form = "force" -> ForceOps
    [] form = "profile" -> ProfileOps
    [] form = "home" -> {"fetch", "write"}
    [] OTHER -> {}

\* LoginPage: after a code was sent, and for an administrator after the password.
LoginStep(form, mfa) ==
  IF form = "request" \/ mfa THEN "verify" ELSE "home"

\* RegisterPage
RegisterStep(form) == IF form = "register" THEN "registerCode" ELSE "password"

\* RegisterCharityPage: the code, then a sign-in, then the application.
ApplyStep(form, op) == IF form = "apply" THEN "applyCode" ELSE IF op = "write" THEN "home" ELSE form
ApplyNext(form, op) ==
  CASE form = "applyCode" /\ op = "ask" -> "login"
    [] form = "applyCode" /\ op = "login" -> "write"
    [] OTHER -> "none"

\* ForgotPasswordPage, then ResetPasswordPage
ForgotStep == "reset"
ResetStep == "password"

\* saveProfile fetches the account again.
ProfileNext(op) == IF op = "save" THEN "me" ELSE "none"

StepAfter(c) ==
  CASE c.op = "logout" -> "password"
    [] c.form \in {"password", "request", "verify"} -> LoginStep(c.form, c.status = "code_sent")
    [] c.form \in {"register", "registerCode"} -> RegisterStep(c.form)
    [] c.form \in {"apply", "applyCode"} -> ApplyStep(c.form, c.op)
    [] c.form = "forgot" -> ForgotStep
    [] c.form = "reset" -> ResetStep
    [] c.op = "force" -> "home"
    [] OTHER -> c.form
NextCall(c) ==
  IF c.form = "profile" THEN ProfileNext(c.op) ELSE ApplyNext(c.form, c.op)

\* ProtectedRoute and the guard of ForceChangePasswordPage.  While the store is
\* loading the page is not shown, but the tab stays at it.
Protected == {"home", "profile", "force"}
Routed(form, s) ==
  CASE s.loading \/ form \notin Protected -> form
    [] ~s.loading /\ form \in Protected /\ s.user = Nobody -> "password"
    [] OTHER -> IF s.mustChange THEN "force" ELSE IF form = "force" THEN "home" ELSE form

-----------------------------------------------------------------------------
(* A tab sends a call.  It has no row and no answer yet. *)
Call(t, s, token, form, op, user) ==
  [tab |-> t, form |-> form, op |-> op, user |-> user, shown |-> s.user, cookie |-> token,
   csrf |-> s.csrf, sent |-> now, at |-> "sent", crossed |-> trail.crossed, row |-> NewSession(Nobody),
   status |-> "none", set |-> NoToken, who |-> Nobody, mustChange |-> FALSE]
Named == {"login", "reset"}  \* the calls that say who they are about

\* App mounts, in a new tab or again in an old one, whose calls are given up; only
\* the CSRF token outlives a reload (sessionStorage).
Open(t, c) ==
  /\ calls[c] = Free /\ trail.calls < MaxCalls
  /\ store' = [store EXCEPT ![t] = [Fresh EXCEPT !.csrf = store[t].csrf]]
  /\ calls' = [k \in Slots |->
                 IF k = c THEN Call(t, store'[t], cookie, "home", "me", Nobody)
                 ELSE IF calls[k] # Free /\ calls[k].tab = t THEN [calls[k] EXCEPT !.tab = Nobody]
                 ELSE calls[k]]
  /\ trail' = [trail EXCEPT !.calls = @ + 1]
  /\ UNCHANGED <<now, sessions, gated, cookie, page>>

\* A form's buttons wait for the store, or for the form's own call.
Waiting(t, form) ==
  IF form \in StoreForms THEN store[t].loading
  ELSE \/ form \in Protected /\ store[t].loading
       \/ \E k \in Slots : calls[k] # Free /\ calls[k].tab = t /\ calls[k].form = form

\* The user stays at the form, or goes to another one the guards let them see, and
\* presses one of its buttons.
Submit(t, c) ==
  /\ calls[c] = Free /\ trail.calls < MaxCalls
  /\ \E form \in Forms[t] \cup {page[t]} :
       /\ Routed(form, store[t]) = form /\ ~Waiting(t, form)
       /\ page' = [page EXCEPT ![t] = form]
       /\ \E op \in OpsOf(form, store[t].user) \cup LogoutOps(store[t].user) : \E u \in (IF op \in Named THEN Users ELSE {Nobody}) :
            /\ calls' = [calls EXCEPT ![c] = Call(t, store[t], cookie, form, op, u)]
            /\ store' = [store EXCEPT ![t].loading = @ \/ (form \in StoreForms /\ op \notin {"logout", "write"})]
  /\ trail' = [trail EXCEPT !.calls = @ + 1]
  /\ UNCHANGED <<now, sessions, gated, cookie>>

\* onResendOrChangeEmail of an administrator: the password again, waiting for nothing.
Resend(t, c) ==
  /\ page[t] = "verify" /\ calls[c] = Free /\ trail.calls < MaxCalls
  /\ \E u \in Admins : calls' = [calls EXCEPT ![c] = Call(t, store[t], cookie, "password", "login", u)]
  /\ store' = [store EXCEPT ![t].loading = TRUE]
  /\ trail' = [trail EXCEPT !.calls = @ + 1]
  /\ UNCHANGED <<now, sessions, gated, cookie, page>>

-----------------------------------------------------------------------------
(* The server *)
Reads == {"me", "fetch"}
Writes == {"write", "save", "force", "logout"}
At(c, where) == calls[c] # Free /\ calls[c].at = where
Answered(call, status, set, user, mustChange) ==
  [call EXCEPT !.at = "answered", !.status = status, !.set = set, !.who = user, !.mustChange = mustChange]
Answer(c, status, set, user, mustChange) ==
  calls' = [calls EXCEPT ![c] = Answered(calls[c], status, set, user, mustChange)]
Refuse(c, status) == Answer(c, status, NoToken, Nobody, FALSE)

\* authenticate, up to the session's row.
Lookup(c) ==
  /\ At(c, "sent") /\ calls[c].op \in Reads \cup Writes
  /\ IF Verified(calls[c].cookie)
     THEN calls' = [calls EXCEPT ![c].at = "looked", ![c].row = Slid(sessions[calls[c].cookie.sid])]
     ELSE Refuse(c, "401")
  /\ UNCHANGED <<now, sessions, gated, cookie, store, page, trail>>

\* Mutant of CsrfPasses: any token will do.
AnyCsrfPasses(call) == call.op \in Writes => call.csrf # 0

\* requireCsrf
CsrfPasses(call) == call.op \in Writes => call.csrf = call.cookie.sid

\* assertPasswordChangeGate
GatePasses(call) == call.row.user \in gated => call.op \in {"me", "logout", "force"}

\* The rest of authenticate, requireCsrf and the handler.  The row goes back as it
\* was read, whatever became of it meanwhile.
WrittenBack(row, out) == [row EXCEPT !.revoked = @ \/ out]
Handle(c) ==
  /\ At(c, "looked")
  /\ LET call == calls[c]
         sid == call.cookie.sid
         user == call.row.user
         done == GatePasses(call) /\ CsrfPasses(call) IN
     /\ sessions' = [sessions EXCEPT ![sid] = WrittenBack(call.row, done /\ call.op = "logout")]
     /\ \/ /\ done
           /\ gated' = gated \ (IF call.op = "force" THEN {user} ELSE {})
           /\ Answer(c, IF call.op = "logout" THEN "out" ELSE "ok", Refreshed(call.cookie), user, user \in gated')
           /\ trail' = [trail EXCEPT !.wrote = IF call.op \in Writes /\ ~call.crossed
                                               THEN @ \cup {<<call.shown, user>>} ELSE @]
        \/ /\ ~done \/ call.op \in Writes \ {"logout"}
           /\ Answer(c, "403", Refreshed(call.cookie), Nobody, FALSE)
           /\ UNCHANGED <<gated, trail>>
  /\ UNCHANGED <<now, cookie, store, page>>

\* The handlers that need no session: a session is made, all of a user's are
\* revoked, a code is sent or used; or the form is refused.
HandleNamed(c) ==
  /\ At(c, "sent") /\ calls[c].op \in Named \cup {"ask"}
  /\ LET call == calls[c] IN
     \/ /\ call.op = "login" /\ call.form = "password" /\ call.user \in Admins
        /\ Answer(c, "code_sent", NoToken, Nobody, FALSE)
        /\ UNCHANGED <<sessions, gated, trail>>
     \/ /\ call.op = "login" /\ (call.form = "password" => call.user \notin Admins)
        /\ Len(sessions) < MaxSessions
        /\ sessions' = Append(sessions, NewSession(call.user))
        /\ Answer(c, "ok", [sid |-> Len(sessions) + 1, iat |-> now], call.user, call.user \in gated)
        /\ trail' = [trail EXCEPT !.used = Append(@, call.sent)]
        /\ UNCHANGED gated
     \/ /\ call.op = "reset"
        /\ sessions' = Revoked(call.user) /\ gated' = gated \ {call.user}
        /\ Answer(c, "ok", NoToken, Nobody, FALSE)
        /\ UNCHANGED trail
     \/ /\ call.op = "ask"
        /\ Answer(c, "ok", NoToken, Nobody, FALSE)
        /\ UNCHANGED <<sessions, gated, trail>>
     \/ Refuse(c, IF call.op = "login" THEN "401" ELSE "400") /\ UNCHANGED <<sessions, gated, trail>>
  /\ UNCHANGED <<now, cookie, store, page>>

-----------------------------------------------------------------------------
(* The answer reaches the tab, or does not: the browser keeps the cookie, the     *)
(* interceptor and the store's function run, and the page takes its next step.   *)
SignedIn(s, call) == [s EXCEPT !.user = call.who, !.mustChange = call.mustChange, !.loading = FALSE]
SignedOut(s) == [s EXCEPT !.user = Nobody, !.mustChange = FALSE, !.csrf = 0]

StoreAfter(s, call) ==
  LET told == IF call.status = "401" THEN [s EXCEPT !.csrf = 0] ELSE s IN
  CASE call.op = "logout" -> SignedOut(s)
    [] call.op = "me" /\ call.status # "ok" -> [SignedOut(s) EXCEPT !.loading = FALSE]
    [] call.op = "login" /\ call.status = "ok" -> [SignedIn(s, call) EXCEPT !.csrf = call.set.sid]
    [] call.op \in {"me", "force"} /\ call.status = "ok" -> SignedIn(s, call)
    [] OTHER -> [told EXCEPT !.loading = @ /\ call.form \notin StoreForms]

\* The store's function that was called, or the next one the page calls.
Loading(s, more) == [s EXCEPT !.loading = @ \/ more]

CookieAfter(call) ==
  CASE call.status = "out" -> NoToken
    [] call.status # "out" /\ call.set # NoToken -> call.set
    [] OTHER -> cookie

Deliver(c, call) ==
  LET t == call.tab
      good == call.status \in {"ok", "out", "code_sent"}
      next == IF good THEN NextCall(call) ELSE "none"
      reached == IF good THEN StepAfter(call) ELSE page[t] IN
  /\ cookie' = CookieAfter(call)
  /\ store' = [store EXCEPT ![t] = Loading(StoreAfter(store[t], call), next = "login")]
  /\ page' = [page EXCEPT ![t] = Routed(IF @ = call.form \/ call.op = "login" THEN reached ELSE @, store'[t])]
  /\ calls' = [calls EXCEPT ![c] =
                 IF next = "none" THEN Free
                 ELSE Call(t, store'[t], cookie', call.form, next, IF next \in Named THEN call.user ELSE Nobody)]
  /\ trail' = [trail EXCEPT
                 !.crossed = @ \/ (call.op # "login" /\ call.cookie.sid # cookie.sid
                                   /\ (call.set # NoToken \/ call.who # Nobody)),
                 !.used = IF call.op \in Reads \cup Writes /\ call.status \in {"ok", "403"}
                          THEN [s \in DOMAIN @ |-> IF s = call.cookie.sid THEN Later(@[s], call.sent) ELSE @[s]]
                          ELSE @]
  /\ UNCHANGED <<now, sessions, gated>>

Arrive(c) == At(c, "answered") /\ calls[c].tab \in Tabs /\ Deliver(c, calls[c])
Lose(c) ==
  /\ At(c, "answered") /\ calls[c].tab \in Tabs
  /\ Deliver(c, [calls[c] EXCEPT !.status = "lost", !.set = NoToken, !.who = Nobody])
GivenUp(c) ==
  /\ At(c, "answered") /\ calls[c].tab = Nobody
  /\ calls' = [calls EXCEPT ![c] = Free]
  /\ UNCHANGED <<now, sessions, gated, cookie, store, page, trail>>

\* The clock starts with the first call.
Tick ==
  /\ now < MaxTime /\ now' = now + 1
  /\ sessions # <<>> \/ \E c \in Slots : calls[c] # Free
  /\ \A c \in Slots : calls[c] # Free => now - calls[c].sent < Lag
  /\ UNCHANGED <<sessions, gated, cookie, store, page, calls, trail>>

Next ==
  \/ Tick
  \/ \E t \in Tabs, c \in Slots : Open(t, c) \/ Submit(t, c) \/ Resend(t, c)
  \/ \E c \in Slots : Lookup(c) \/ Handle(c) \/ HandleNamed(c) \/ Arrive(c) \/ Lose(c) \/ GivenUp(c)

Spec == Init /\ [][Next]_vars

-----------------------------------------------------------------------------
(* Properties *)
\* Whoever uses the site at least every half idle window stays signed in until the
\* session's absolute end: neither the token nor the row runs out first, although
\* tokens are replaced only when half used up, answers arrive in any order and a
\* row is written back as it was read (issueRefreshedSessionToken,
\* verifySessionToken).
ActiveUserStaysSignedIn ==
  cookie # NoToken =>
    LET row == sessions[cookie.sid] IN
    ~row.revoked /\ now < AbsoluteEnd(row) /\ now - trail.used[cookie.sid] <= IdleTimeout \div 2
      => Verified(cookie)

\* What somebody does in a tab that shows one user is never done for another, with
\* whomever other tabs sign in meanwhile: it is refused.  (Unless an answer crossed
\* a sign-in: the store takes the user of a late answer too, see the README.)
\* (requireCsrf, authStore, api.ts)
WritesActForTheUserShown == \A w \in trail.wrote : w[1] = w[2]
=============================================================================
