----------------------------- MODULE SignInProofs -----------------------------
(* Whom a write is done for, and how long whoever uses the site stays signed    *)
(* in, with any number of tabs, users, sessions and calls in flight            *)
(* (SignIn.tla).                                                               *)
EXTENDS SignIn, SequenceTheorems, TLAPS

Fields == {"tab", "form", "op", "user", "shown", "cookie", "csrf", "sent", "at", "crossed", "row",
           "status", "set", "who", "mustChange"}
StoreFields == {"user", "mustChange", "loading", "csrf"}
RowFields == {"user", "began", "expires", "revoked"}
Tokens == {NoToken} \cup [sid : Nat \ {0}, iat : Int]

\* A call, and what its answer says: a sign-in tells the user of the new session,
\* any other call the user of the session it was sent with.
CallOK(k, S) ==
  /\ DOMAIN k = Fields
  /\ k.cookie \in Tokens /\ k.cookie.sid \in 0 .. Len(S)
  /\ k.set \in Tokens /\ k.set.sid \in 0 .. Len(S)
  /\ /\ k.op \in Writes /\ ~k.crossed
     /\ k.csrf = k.cookie.sid /\ k.cookie.sid # 0
     => k.shown = S[k.cookie.sid].user
  /\ k.at = "looked" =>
       /\ k.op \in Reads \cup Writes /\ k.cookie.sid # 0
       /\ DOMAIN k.row = RowFields /\ k.row.user = S[k.cookie.sid].user
  /\ k.at = "answered" /\ k.op = "login" =>
       /\ k.status \in {"ok", "code_sent", "401", "lost"}
       /\ k.status = "code_sent" => k.form = "password"
       /\ k.status = "ok" => k.set.sid # 0 /\ k.who = S[k.set.sid].user
       /\ k.status # "ok" => k.set = NoToken
  /\ k.at = "answered" /\ k.op # "login" =>
       /\ k.set # NoToken => k.set.sid = k.cookie.sid
       /\ k.who # Nobody => k.cookie.sid # 0 /\ k.who = S[k.cookie.sid].user

\* The answer to a sign-in is under way: nobody knows its session yet.
NewSid(k) == DOMAIN k = Fields /\ k.at = "answered" /\ k.op = "login" /\ k.status = "ok"
Public == {0, cookie.sid} \cup {store[t].csrf : t \in Tabs}
          \cup {calls[k].cookie.sid : k \in {k \in Slots : calls[k] # Free}}
FreshSid(c) ==
  /\ calls[c].set.sid \notin Public
  /\ \A k \in Slots : NewSid(calls[k]) /\ k # c => calls[k].set.sid # calls[c].set.sid

\* The CSRF token of a tab is that of the session of the user it shows.
StoreOK(s, S, sid, crossed) ==
  /\ DOMAIN s = StoreFields /\ s.csrf \in 0 .. Len(S)
  /\ ~crossed /\ s.user # Nobody /\ s.csrf = sid /\ sid # 0 => s.user = S[sid].user

SessionsOK(T) == \E S : T \in Seq(S) /\ \A row \in S : DOMAIN row = RowFields

SignInInv ==
  /\ SessionsOK(sessions)
  /\ cookie \in Tokens /\ cookie.sid \in 0 .. Len(sessions)
  /\ DOMAIN store = Tabs /\ \A t \in Tabs : StoreOK(store[t], sessions, cookie.sid, trail.crossed)
  /\ DOMAIN calls = Slots
  /\ \A c \in Slots : calls[c] = Free \/ CallOK(calls[c], sessions)
  /\ \A c \in Slots : NewSid(calls[c]) => FreshSid(c)
  /\ DOMAIN trail = {"calls", "used", "wrote", "crossed"}
  /\ \A w \in trail.wrote : w[1] = w[2]
  /\ now \in Nat

-----------------------------------------------------------------------------
(* Sessions are only added, and keep their user. *)
Kept(S, T) ==
  /\ Len(S) <= Len(T)
  /\ \A s \in 1 .. Len(S) : T[s].user = S[s].user

LEMMA SessionFacts ==
  ASSUME SessionsOK(sessions)
  PROVE  /\ Len(sessions) \in Nat /\ DOMAIN sessions = 1 .. Len(sessions)
         /\ \A s \in DOMAIN sessions : DOMAIN sessions[s] = RowFields
BY DEF SessionsOK

LEMMA SameSessions ==
  ASSUME SessionsOK(sessions), sessions' = sessions
  PROVE  SessionsOK(sessions') /\ Kept(sessions, sessions')
BY SessionFacts DEF SessionsOK, Kept

LEMMA WriteSession ==
  ASSUME SessionsOK(sessions), NEW sid \in DOMAIN sessions, NEW row,
         DOMAIN row = RowFields, row.user = sessions[sid].user,
         sessions' = [sessions EXCEPT ![sid] = row]
  PROVE  SessionsOK(sessions') /\ Kept(sessions, sessions')
<1>1. PICK S : sessions \in Seq(S) /\ \A r \in S : DOMAIN r = RowFields
  BY DEF SessionsOK
<1>2. sessions \in Seq(S \cup {row})
  BY <1>1
<1>3. sessions' \in Seq(S \cup {row}) /\ Len(sessions') = Len(sessions)
  BY <1>2
<1>4. Kept(sessions, sessions')
  BY <1>1, <1>3 DEF Kept
<1> QED
  BY <1>1, <1>3, <1>4 DEF SessionsOK

LEMMA AddSession ==
  ASSUME SessionsOK(sessions), NEW row, DOMAIN row = RowFields, sessions' = Append(sessions, row)
  PROVE  /\ SessionsOK(sessions') /\ Kept(sessions, sessions')
         /\ Len(sessions') = Len(sessions) + 1
         /\ sessions'[Len(sessions) + 1] = row
<1>1. PICK S : sessions \in Seq(S) /\ \A r \in S : DOMAIN r = RowFields
  BY DEF SessionsOK
<1>2. sessions \in Seq(S \cup {row}) /\ Len(sessions) \in Nat
  BY <1>1
<1>3. /\ sessions' \in Seq(S \cup {row})
      /\ Len(sessions') = Len(sessions) + 1
      /\ \A i \in 1 .. Len(sessions) : sessions'[i] = sessions[i]
      /\ sessions'[Len(sessions) + 1] = row
  BY <1>2, AppendProperties
<1>4. Kept(sessions, sessions')
  BY <1>1, <1>2, <1>3 DEF Kept
<1> QED
  BY <1>1, <1>3, <1>4 DEF SessionsOK

LEMMA RevokeSessions ==
  ASSUME SessionsOK(sessions), NEW u, sessions' = Revoked(u)
  PROVE  SessionsOK(sessions') /\ Kept(sessions, sessions')
<1>1. PICK S : sessions \in Seq(S) /\ \A r \in S : DOMAIN r = RowFields
  BY DEF SessionsOK
<1> DEFINE New(r) == IF r.user = u THEN [r EXCEPT !.revoked = TRUE] ELSE r
           T == {New(r) : r \in S}
<1>2. \A r \in S : DOMAIN New(r) = RowFields /\ New(r).user = r.user
  BY <1>1 DEF RowFields
<1>3. /\ Len(sessions) \in Nat /\ DOMAIN sessions = 1 .. Len(sessions)
      /\ \A s \in DOMAIN sessions : sessions[s] \in S
  BY <1>1
<1>4. sessions' = [s \in 1 .. Len(sessions) |-> New(sessions[s])]
  BY <1>3 DEF Revoked
<1> HIDE DEF New
<1>5. sessions' \in [1 .. Len(sessions) -> T]
  BY <1>3, <1>4
<1>6. sessions' \in Seq(T) /\ Len(sessions') = Len(sessions)
  BY <1>3, <1>5
<1>7. Kept(sessions, sessions')
  BY <1>2, <1>3, <1>4, <1>6 DEF Kept
<1>8. \A r \in T : DOMAIN r = RowFields
  BY <1>2
<1> QED
  BY <1>6, <1>7, <1>8 DEF SessionsOK

-----------------------------------------------------------------------------
(* What is known of calls and tabs outlives changes of the sessions. *)
LEMMA CallStays ==
  ASSUME NEW S, NEW T, SessionsOK(S), SessionsOK(T), Kept(S, T), NEW k, CallOK(k, S)
  PROVE  CallOK(k, T)
<1>1. Len(S) \in Nat /\ Len(T) \in Nat
  BY DEF SessionsOK
<1>2. \A n \in 0 .. Len(S) : n \in 0 .. Len(T) /\ (n # 0 => T[n].user = S[n].user)
  BY <1>1 DEF Kept
<1> QED
  BY <1>2 DEF CallOK

LEMMA StoreStays ==
  ASSUME NEW S, NEW T, SessionsOK(S), SessionsOK(T), Kept(S, T), NEW s, NEW crossed,
         NEW sid \in 0 .. Len(S), StoreOK(s, S, sid, crossed)
  PROVE  StoreOK(s, T, sid, crossed)
<1>1. Len(S) \in Nat /\ Len(T) \in Nat
  BY DEF SessionsOK
<1>2. \A n \in 0 .. Len(S) : n \in 0 .. Len(T) /\ (n # 0 => T[n].user = S[n].user)
  BY <1>1 DEF Kept
<1> QED
  BY <1>2 DEF StoreOK


LEMMA CallSent ==
  ASSUME NEW S, NEW t, NEW s, NEW token \in Tokens, NEW form, NEW op, NEW u,
         token.sid \in 0 .. Len(S), SessionsOK(S),
         op \in Writes /\ ~trail.crossed /\ s.csrf = token.sid /\ token.sid # 0
           => s.user = S[token.sid].user
  PROVE  LET k == Call(t, s, token, form, op, u) IN
         CallOK(k, S) /\ ~NewSid(k) /\ k # Free /\ k.cookie = token
<1> DEFINE k == Call(t, s, token, form, op, u)
<1>1. /\ DOMAIN k = Fields /\ k.cookie = token /\ k.set = NoToken /\ k.op = op /\ k.at = "sent"
      /\ k.crossed = trail.crossed /\ k.csrf = s.csrf /\ k.shown = s.user
  BY DEF Call, Fields
<1>2. NoToken \in Tokens /\ NoToken.sid = 0 /\ Len(S) \in Nat
  BY DEF NoToken, Tokens, SessionsOK
<1>3. k # Free
  BY <1>1 DEF Free, Fields
<1> HIDE DEF k
<1>4. CallOK(k, S) /\ ~NewSid(k)
  BY <1>1, <1>2 DEF CallOK, NewSid
<1> QED
  BY <1>1, <1>3, <1>4 DEF k

\* The fields that CallOK is about.
Alike(a, k) ==
  /\ DOMAIN a = Fields
  /\ a.op = k.op /\ a.form = k.form /\ a.shown = k.shown
  /\ a.cookie = k.cookie /\ a.csrf = k.csrf /\ a.crossed = k.crossed

LEMMA GivenUpAlike ==
  ASSUME NEW k, DOMAIN k = Fields, NEW a, a = [k EXCEPT !.tab = Nobody]
  PROVE  /\ Alike(a, k)
         /\ a.at = k.at /\ a.row = k.row /\ a.set = k.set /\ a.status = k.status /\ a.who = k.who
BY DEF Alike, Fields

LEMMA LostAlike ==
  ASSUME NEW k, DOMAIN k = Fields,
         NEW a, a = [k EXCEPT !.status = "lost", !.set = NoToken, !.who = Nobody]
  PROVE  Alike(a, k) /\ a.at = k.at /\ a.set = NoToken /\ a.status = "lost" /\ a.who = Nobody
BY DEF Alike, Fields

LEMMA FreshKeeps ==
  ASSUME SignInInv,
         \A d \in Slots : NewSid(calls'[d]) => NewSid(calls[d]) /\ calls'[d].set.sid = calls[d].set.sid,
         \A s \in Public' : \/ s \in Public
                            \/ \E e \in Slots : /\ NewSid(calls[e]) /\ ~NewSid(calls'[e])
                                                /\ s = calls[e].set.sid
  PROVE  \A c \in Slots : NewSid(calls'[c]) => FreshSid(c)'
BY DEF SignInInv, FreshSid
-----------------------------------------------------------------------------
(* The steps of the tabs. *)
LEMMA InvFacts ==
  ASSUME SignInInv
  PROVE  /\ \A c \in Slots : calls[c] # Free => CallOK(calls[c], sessions) /\ DOMAIN calls[c] = Fields
         /\ \A t \in Tabs : StoreOK(store[t], sessions, cookie.sid, trail.crossed)
                            /\ DOMAIN store[t] = StoreFields
         /\ \A t \in Tabs : store[t].csrf \in Public
         /\ \A c \in Slots : calls[c] # Free => calls[c].cookie.sid \in Public
         /\ cookie.sid \in Public
         /\ ~NewSid(Free)
<1>1. DOMAIN Free # Fields
  BY DEF Free, Fields
<1> QED
  BY <1>1 DEF SignInInv, CallOK, StoreOK, Public, NewSid

LEMMA CountedCall ==
  ASSUME SignInInv, trail' = [trail EXCEPT !.calls = @ + 1]
  PROVE  DOMAIN trail' = DOMAIN trail /\ trail'.crossed = trail.crossed /\ trail'.wrote = trail.wrote
BY DEF SignInInv

\* A tab's call in slot c, the store of tab t changed in nothing that matters.
LEMMA SendKeeps ==
  ASSUME SignInInv, NEW t \in Tabs, NEW c \in Slots, NEW k, CallOK(k, sessions), ~NewSid(k),
         k # Free, k.cookie = cookie,
         UNCHANGED <<now, sessions, cookie>>,
         trail' = [trail EXCEPT !.calls = @ + 1],
         DOMAIN store' = Tabs, \A u \in Tabs : u # t => store'[u] = store[u],
         DOMAIN store'[t] = StoreFields, store'[t].csrf = store[t].csrf,
         store'[t].user \in {store[t].user, Nobody},
         DOMAIN calls' = Slots, calls'[c] = k,
         \A d \in Slots : d # c =>
           \/ calls'[d] = calls[d]
           \/ calls[d] # Free /\ calls'[d] = [calls[d] EXCEPT !.tab = Nobody]
  PROVE  SignInInv'
<1>1. /\ DOMAIN trail' = DOMAIN trail /\ trail'.crossed = trail.crossed /\ trail'.wrote = trail.wrote
  BY CountedCall
<1>2. \A d \in Slots \ {c} : /\ calls[d] = Free => calls'[d] = Free
                             /\ calls[d] # Free =>
                                  /\ Alike(calls'[d], calls[d])
                                  /\ calls'[d].at = calls[d].at /\ calls'[d].row = calls[d].row
                                  /\ calls'[d].set = calls[d].set /\ calls'[d].status = calls[d].status
                                  /\ calls'[d].who = calls[d].who
  BY InvFacts, GivenUpAlike DEF Alike
<1>3. \A d \in Slots : calls'[d] = Free \/ CallOK(calls'[d], sessions')
  <2> SUFFICES ASSUME NEW d \in Slots, d # c, calls[d] # Free PROVE CallOK(calls'[d], sessions)
    BY <1>2
  <2>1. CallOK(calls[d], sessions)
    BY InvFacts
  <2> QED
    BY <1>2, <2>1 DEF CallOK, Alike
<1>4. \A u \in Tabs : StoreOK(store'[u], sessions', cookie'.sid, trail'.crossed)
  BY <1>1, InvFacts DEF StoreOK
<1>5. \A d \in Slots : NewSid(calls'[d]) => NewSid(calls[d]) /\ calls'[d].set.sid = calls[d].set.sid
  BY <1>2, InvFacts DEF NewSid, Alike
<1>6. Public' \subseteq Public
  <2>1. \A d \in Slots : calls'[d] # Free => calls'[d].cookie.sid \in Public
    BY <1>2, InvFacts DEF Alike
  <2>2. \A u \in Tabs : store'[u].csrf \in Public
    BY InvFacts
  <2> QED
    BY <2>1, <2>2, InvFacts DEF Public
<1>7. \A d \in Slots : NewSid(calls'[d]) => FreshSid(d)'
  BY <1>5, <1>6, FreshKeeps
<1> QED
  BY <1>1, <1>3, <1>4, <1>7 DEF SignInInv

LEMMA OpenKeeps ==
  ASSUME SignInInv, NEW t \in Tabs, NEW c \in Slots, Open(t, c)
  PROVE  SignInInv'
<1> DEFINE s == [Fresh EXCEPT !.csrf = store[t].csrf]
           k == Call(t, s, cookie, "home", "me", Nobody)
<1>1. DOMAIN s = StoreFields /\ s.csrf = store[t].csrf /\ s.user = Nobody
  BY DEF Fresh, StoreFields
<1>2. store' = [store EXCEPT ![t] = s] /\ store'[t] = s
  BY DEF Open, SignInInv
<1>3. /\ DOMAIN calls' = Slots /\ calls'[c] = k
      /\ \A d \in Slots : d # c =>
           \/ calls'[d] = calls[d]
           \/ calls[d] # Free /\ calls'[d] = [calls[d] EXCEPT !.tab = Nobody]
  BY <1>2 DEF Open
<1>4. CallOK(k, sessions) /\ ~NewSid(k) /\ k # Free /\ k.cookie = cookie
  <2>1. "me" \notin Writes
    BY DEF Writes
  <2> QED
    BY <2>1, CallSent DEF SignInInv
<1>5. /\ UNCHANGED <<now, sessions, cookie>> /\ trail' = [trail EXCEPT !.calls = @ + 1]
  BY DEF Open
<1>6. DOMAIN store' = Tabs /\ \A u \in Tabs : u # t => store'[u] = store[u]
  BY <1>2 DEF SignInInv
<1> HIDE DEF s, k
<1> QED
  BY <1>1, <1>2, <1>3, <1>4, <1>5, <1>6, SendKeeps

LEMMA SubmitKeeps ==
  ASSUME SignInInv, NEW t \in Tabs, NEW c \in Slots, Submit(t, c)
  PROVE  SignInInv'
<1>1. PICK form \in Forms[t] \cup {page[t]} :
        /\ Routed(form, store[t]) = form /\ ~Waiting(t, form)
        /\ \E op \in OpsOf(form, store[t].user) \cup LogoutOps(store[t].user) :
             \E u \in (IF op \in Named THEN Users ELSE {Nobody}) :
               /\ calls' = [calls EXCEPT ![c] = Call(t, store[t], cookie, form, op, u)]
               /\ store' = [store EXCEPT ![t].loading =
                              @ \/ (form \in StoreForms /\ op \notin {"logout", "write"})]
  BY DEF Submit
<1>2. PICK op \in OpsOf(form, store[t].user) \cup LogoutOps(store[t].user) :
        \E u \in (IF op \in Named THEN Users ELSE {Nobody}) :
          /\ calls' = [calls EXCEPT ![c] = Call(t, store[t], cookie, form, op, u)]
          /\ store' = [store EXCEPT ![t].loading =
                         @ \/ (form \in StoreForms /\ op \notin {"logout", "write"})]
  BY <1>1
<1>3. PICK u : /\ calls' = [calls EXCEPT ![c] = Call(t, store[t], cookie, form, op, u)]
               /\ store' = [store EXCEPT ![t].loading =
                              @ \/ (form \in StoreForms /\ op \notin {"logout", "write"})]
  BY <1>2
<1>4. op \in Writes => store[t].user # Nobody
  <2> SUFFICES ASSUME op \in Writes, store[t].user = Nobody PROVE FALSE
    OBVIOUS
  <2>1. op \in OpsOf(form, Nobody)
    BY <1>2 DEF LogoutOps
  <2>2. form \in Protected
    BY <2>1 DEF OpsOf, Writes, Protected, LoginOps, RegisterOps, ApplyOps, ForgotOps, ResetOps,
                ForceOps, ProfileOps
  <2>3. ~store[t].loading
    BY <1>1, <2>2 DEF Waiting, StoreForms, Protected
  <2>4. Routed(form, store[t]) = "password"
    BY <2>2, <2>3 DEF Routed
  <2> QED
    BY <1>1, <2>2, <2>4 DEF Protected
<1> DEFINE k == Call(t, store[t], cookie, form, op, u)
           x == store[t].loading \/ (form \in StoreForms /\ op \notin {"logout", "write"})
<1>5. CallOK(k, sessions) /\ ~NewSid(k) /\ k # Free /\ k.cookie = cookie
  <2>1. StoreOK(store[t], sessions, cookie.sid, trail.crossed)
    BY InvFacts
  <2>2. op \in Writes /\ ~trail.crossed /\ store[t].csrf = cookie.sid /\ cookie.sid # 0
           => store[t].user = sessions[cookie.sid].user
    BY <1>4, <2>1 DEF StoreOK
  <2> QED
    BY <2>2, CallSent DEF SignInInv
<1>6. /\ UNCHANGED <<now, sessions, cookie>> /\ trail' = [trail EXCEPT !.calls = @ + 1]
  BY DEF Submit
<1>7. store' = [store EXCEPT ![t] = [store[t] EXCEPT !.loading = x]]
  BY <1>3 DEF SignInInv
<1>8. calls' = [calls EXCEPT ![c] = k]
  BY <1>3
<1> HIDE DEF k, x
<1>9. /\ DOMAIN store' = Tabs /\ \A v \in Tabs : v # t => store'[v] = store[v]
      /\ store'[t] = [store[t] EXCEPT !.loading = x]
  BY <1>7 DEF SignInInv
<1>10. /\ DOMAIN store'[t] = StoreFields /\ store'[t].csrf = store[t].csrf
       /\ store'[t].user \in {store[t].user, Nobody}
  BY <1>9, InvFacts DEF StoreFields
<1>11. DOMAIN calls' = Slots /\ calls'[c] = k /\ \A d \in Slots : d # c => calls'[d] = calls[d]
  BY <1>8 DEF SignInInv
<1>12. DOMAIN store' = Tabs /\ \A v \in Tabs : v # t => store'[v] = store[v]
  BY <1>9
<1>13. \A d \in Slots : d # c =>
           \/ calls'[d] = calls[d]
           \/ calls[d] # Free /\ calls'[d] = [calls[d] EXCEPT !.tab = Nobody]
  BY <1>11
<1> QED
  BY <1>5, <1>6, <1>10, <1>11, <1>12, <1>13, SendKeeps

LEMMA ResendKeeps ==
  ASSUME SignInInv, NEW t \in Tabs, NEW c \in Slots, Resend(t, c)
  PROVE  SignInInv'
<1>1. PICK u : calls' = [calls EXCEPT ![c] = Call(t, store[t], cookie, "password", "login", u)]
  BY DEF Resend
<1> DEFINE k == Call(t, store[t], cookie, "password", "login", u)
<1>2. CallOK(k, sessions) /\ ~NewSid(k) /\ k # Free /\ k.cookie = cookie
  <2>1. "login" \notin Writes
    BY DEF Writes
  <2> QED
    BY <2>1, CallSent DEF SignInInv
<1>3. /\ UNCHANGED <<now, sessions, cookie>> /\ trail' = [trail EXCEPT !.calls = @ + 1]
      /\ store' = [store EXCEPT ![t].loading = TRUE]
  BY DEF Resend
<1>4. /\ DOMAIN store' = Tabs /\ \A v \in Tabs : v # t => store'[v] = store[v]
      /\ store'[t] = [store[t] EXCEPT !.loading = TRUE]
  BY <1>3 DEF SignInInv
<1>5. DOMAIN store'[t] = StoreFields /\ store'[t].csrf = store[t].csrf /\ store'[t].user = store[t].user
  BY <1>4, InvFacts DEF StoreFields
<1>6. DOMAIN calls' = Slots /\ calls'[c] = k /\ \A d \in Slots : d # c => calls'[d] = calls[d]
  BY <1>1 DEF SignInInv
<1> HIDE DEF k
<1> QED
  BY <1>2, <1>3, <1>4, <1>5, <1>6, SendKeeps
-----------------------------------------------------------------------------
(* The steps of the server. *)
\* A call in slot c goes on; its new form is no answer to a sign-in, or one with a
\* session nobody has heard of.
LEMMA ServeKeeps ==
  ASSUME SignInInv, NEW c \in Slots, calls[c] # Free,
         UNCHANGED <<now, cookie, store>>,
         SessionsOK(sessions'), Kept(sessions, sessions'),
         NEW k, calls' = [calls EXCEPT ![c] = k], CallOK(k, sessions'), k.cookie = calls[c].cookie,
         NewSid(k) => k.set.sid \notin 0 .. Len(sessions),
         NewSid(calls[c]) => ~NewSid(k),
         DOMAIN trail' = DOMAIN trail, trail'.crossed = trail.crossed,
         \A w \in trail'.wrote : w[1] = w[2]
  PROVE  SignInInv'
<1>1. /\ DOMAIN calls' = Slots /\ calls'[c] = k
      /\ \A d \in Slots : d # c => calls'[d] = calls[d]
  BY DEF SignInInv
<1>2. \A d \in Slots : calls'[d] = Free \/ CallOK(calls'[d], sessions')
  BY <1>1, CallStays DEF SignInInv
<1>3. \A t \in Tabs : StoreOK(store'[t], sessions', cookie'.sid, trail'.crossed)
  BY StoreStays DEF SignInInv
<1>4. Public' \subseteq Public
  BY <1>1 DEF Public
<1>5. Public \subseteq 0 .. Len(sessions) /\ Len(sessions) \in Nat
  <2>1. Len(sessions) \in Nat
    BY DEF SignInInv, SessionsOK
  <2>2. \A t \in Tabs : store[t].csrf \in 0 .. Len(sessions)
    BY DEF SignInInv, StoreOK
  <2>3. \A d \in Slots : calls[d] # Free => calls[d].cookie.sid \in 0 .. Len(sessions)
    BY DEF SignInInv, CallOK
  <2> QED
    BY <2>1, <2>2, <2>3 DEF SignInInv, Public
<1>6. \A d \in Slots : NewSid(calls[d]) => calls[d].set.sid \in 0 .. Len(sessions)
  BY InvFacts DEF CallOK
<1>7. ASSUME NEW d \in Slots, NewSid(calls'[d]) PROVE FreshSid(d)'
  <2>1. calls'[d].set.sid \notin Public'
    <3>1. CASE d = c
      BY <3>1, <1>1, <1>4, <1>5, <1>7
    <3>2. CASE d # c
      BY <3>2, <1>1, <1>4, <1>7 DEF SignInInv, FreshSid
    <3> QED
      BY <3>1, <3>2
  <2>2. \A e \in Slots : NewSid(calls'[e]) /\ e # d => calls'[e].set.sid # calls'[d].set.sid
    BY <1>1, <1>6, <1>7 DEF SignInInv, FreshSid
  <2> QED
    BY <2>1, <2>2 DEF FreshSid
<1>8. cookie' \in Tokens /\ cookie'.sid \in 0 .. Len(sessions')
  <2>1. Len(sessions) \in Nat /\ Len(sessions') \in Nat
    BY DEF SignInInv, SessionsOK
  <2> QED
    BY <2>1 DEF SignInInv, Kept
<1> QED
  BY <1>1, <1>2, <1>3, <1>7, <1>8 DEF SignInInv

\* An answer that says nothing of a session.
LEMMA RefusedOK ==
  ASSUME NEW S, SessionsOK(S), NEW k, CallOK(k, S), NEW status,
         k.op = "login" => status \in {"code_sent", "401"},
         k.op = "login" /\ status = "code_sent" => k.form = "password",
         NEW a, a = Answered(k, status, NoToken, Nobody, FALSE)
  PROVE  CallOK(a, S) /\ ~NewSid(a) /\ a.cookie = k.cookie
<1>1. DOMAIN k = Fields
  BY DEF CallOK
<1>2. /\ Alike(a, k) /\ a.at = "answered" /\ a.set = NoToken /\ a.status = status
      /\ a.who = Nobody
  BY <1>1 DEF Answered, Alike, Fields
<1>3. NoToken \in Tokens /\ NoToken.sid \in 0 .. Len(S)
  BY DEF NoToken, Tokens, SessionsOK
<1> QED
  BY <1>2, <1>3 DEF CallOK, Alike, NewSid

LEMMA LookupKeeps ==
  ASSUME SignInInv, NEW c \in Slots, Lookup(c)
  PROVE  SignInInv'
<1>1. /\ calls[c] # Free /\ calls[c].at = "sent" /\ calls[c].op \in Reads \cup Writes
      /\ UNCHANGED <<now, sessions, cookie, store, trail>>
  BY DEF Lookup, At
<1>2. CallOK(calls[c], sessions) /\ DOMAIN calls[c] = Fields /\ ~NewSid(calls[c])
  BY <1>1, InvFacts DEF NewSid
<1>3. SessionsOK(sessions) /\ SessionsOK(sessions') /\ Kept(sessions, sessions')
  BY <1>1, SameSessions DEF SignInInv
<1>4. CASE Verified(calls[c].cookie)
  <2> DEFINE row == Slid(sessions[calls[c].cookie.sid])
             k == [calls[c] EXCEPT !.at = "looked", !.row = row]
  <2>1. calls' = [calls EXCEPT ![c].at = "looked", ![c].row = row]
    BY <1>4 DEF Lookup
  <2>2. calls' = [calls EXCEPT ![c] = k]
    BY <2>1 DEF SignInInv
  <2> HIDE DEF row
  <2>3. Alike(k, calls[c]) /\ k.at = "looked" /\ k.row = row /\ k.set = calls[c].set
    BY <1>2 DEF Alike, Fields
  <2>4. calls[c].cookie # NoToken /\ calls[c].cookie \in Tokens
    BY <1>2, <1>4 DEF Verified, CallOK
  <2>5. calls[c].cookie.sid # 0 /\ calls[c].cookie.sid \in DOMAIN sessions
    <3>1. calls[c].cookie.sid # 0
      BY <2>4 DEF Tokens
    <3> QED
      BY <3>1, <1>2, <1>3, SessionFacts DEF CallOK
  <2>6. DOMAIN row = RowFields /\ row.user = sessions[calls[c].cookie.sid].user
    BY <2>5, <1>3, SessionFacts DEF Slid, RowFields, row
  <2> HIDE DEF k
  <2>7. CallOK(k, sessions) /\ ~NewSid(k)
    BY <1>1, <1>2, <2>3, <2>5, <2>6 DEF CallOK, Alike, NewSid
  <2> QED
    BY <1>1, <1>2, <1>3, <2>2, <2>3, <2>7, ServeKeeps DEF Alike, SignInInv
<1>5. CASE ~Verified(calls[c].cookie)
  <2> DEFINE a == Answered(calls[c], "401", NoToken, Nobody, FALSE)
  <2>1. calls' = [calls EXCEPT ![c] = a]
    BY <1>5 DEF Lookup, Refuse, Answer
  <2>2. calls[c].op # "login"
    BY <1>1 DEF Reads, Writes
  <2>3. CallOK(a, sessions) /\ ~NewSid(a) /\ a.cookie = calls[c].cookie
    <3> DEFINE k == calls[c]
    <3>1. /\ CallOK(k, sessions) /\ k.op # "login"
          /\ a = Answered(k, "401", NoToken, Nobody, FALSE)
      BY <1>2, <2>2 DEF a
    <3> HIDE DEF a, k
    <3>2. CallOK(a, sessions) /\ ~NewSid(a) /\ a.cookie = k.cookie
      BY <1>3, <3>1, RefusedOK, Zenon
    <3> QED
      BY <3>2 DEF k
  <2> HIDE DEF a
  <2> QED
    BY <1>1, <1>2, <1>3, <2>1, <2>3, ServeKeeps DEF SignInInv
<1> QED
  BY <1>4, <1>5
LEMMA AnsweredOK ==
  ASSUME NEW S, SessionsOK(S), NEW k, CallOK(k, S), k.op # "login",
         NEW status, NEW set \in Tokens, NEW who, NEW mc,
         set # NoToken => set.sid = k.cookie.sid,
         who # Nobody => k.cookie.sid # 0 /\ who = S[k.cookie.sid].user,
         NEW a, a = Answered(k, status, set, who, mc)
  PROVE  CallOK(a, S) /\ ~NewSid(a) /\ a.cookie = k.cookie
<1>1. DOMAIN k = Fields
  BY DEF CallOK
<1>2. /\ Alike(a, k) /\ a.at = "answered" /\ a.set = set /\ a.status = status
      /\ a.who = who
  BY <1>1 DEF Answered, Alike, Fields
<1>3. NoToken.sid = 0 /\ Len(S) \in Nat
  BY DEF NoToken, SessionsOK
<1>4. set.sid \in 0 .. Len(S)
  BY <1>3 DEF CallOK
<1> QED
  BY <1>2, <1>4 DEF CallOK, Alike, NewSid

LEMMA HandleKeeps ==
  ASSUME SignInInv, NEW c \in Slots, Handle(c)
  PROVE  SignInInv'
<1> DEFINE call == calls[c]
           sid == call.cookie.sid
           user == call.row.user
           done == GatePasses(call) /\ CsrfPasses(call)
           row == WrittenBack(call.row, done /\ call.op = "logout")
           set == Refreshed(call.cookie)
<1>1. /\ call # Free /\ call.at = "looked" /\ UNCHANGED <<now, cookie, store>>
      /\ sessions' = [sessions EXCEPT ![sid] = row]
  BY DEF Handle, At
<1>2. CallOK(call, sessions) /\ ~NewSid(call)
  BY <1>1, InvFacts DEF NewSid
<1>3. /\ call.op \in Reads \cup Writes /\ call.op # "login" /\ sid # 0
      /\ DOMAIN call.row = RowFields /\ user = sessions[sid].user
      /\ call.cookie \in Tokens
  BY <1>1, <1>2 DEF CallOK, Reads, Writes
<1>4. SessionsOK(sessions) /\ Len(sessions) \in Nat /\ sid \in DOMAIN sessions
  BY <1>2, <1>3, SessionFacts DEF SignInInv, CallOK
<1>5. SessionsOK(sessions') /\ Kept(sessions, sessions') /\ CallOK(call, sessions')
      /\ user = sessions'[sid].user
  <2>1. DOMAIN row = RowFields /\ row.user = user
    BY <1>3 DEF WrittenBack, RowFields
  <2> HIDE DEF row
  <2>2. SessionsOK(sessions') /\ Kept(sessions, sessions')
    BY <1>1, <1>3, <1>4, <2>1, WriteSession
  <2>3. user = sessions'[sid].user
    BY <1>3, <1>4, <2>2, SessionFacts DEF Kept
  <2> QED
    BY <1>2, <1>4, <2>2, <2>3, CallStays
<1>6. set \in Tokens /\ (set # NoToken => set.sid = sid)
  <2>1. call.cookie \in [sid : Nat \ {0}, iat : Int]
    BY <1>3 DEF Tokens, NoToken
  <2>2. now \in Int
    BY DEF SignInInv
  <2>3. LET x == [call.cookie EXCEPT !.iat = now] IN x \in [sid : Nat \ {0}, iat : Int] /\ x.sid = sid
    BY <2>1, <2>2
  <2> QED
    BY <2>3 DEF Refreshed, Tokens
<1> HIDE DEF set, row
<1>7. ASSUME NEW status, NEW who \in {user, Nobody}, NEW mc, NEW a,
             a = Answered(call, status, set, who, mc)
      PROVE  CallOK(a, sessions') /\ ~NewSid(a) /\ a.cookie = call.cookie
  <2> HIDE DEF call
  <2> QED
    BY <1>7, <1>3, <1>5, <1>6, AnsweredOK
<1>8. CASE /\ done
           /\ Answer(c, IF call.op = "logout" THEN "out" ELSE "ok", set, user, user \in gated')
           /\ trail' = [trail EXCEPT !.wrote = IF call.op \in Writes /\ ~call.crossed
                                               THEN @ \cup {<<call.shown, user>>} ELSE @]
  <2> DEFINE a == Answered(call, IF call.op = "logout" THEN "out" ELSE "ok", set, user, user \in gated')
  <2>1. calls' = [calls EXCEPT ![c] = a]
    BY <1>8 DEF Answer
  <2>2. CallOK(a, sessions') /\ ~NewSid(a) /\ a.cookie = call.cookie
    BY <1>7
  <2>3. call.op \in Writes /\ ~call.crossed => call.shown = user
    BY <1>2, <1>3, <1>8 DEF CsrfPasses, CallOK
  <2>4. /\ DOMAIN trail' = DOMAIN trail /\ trail'.crossed = trail.crossed
        /\ \A w \in trail'.wrote : w[1] = w[2]
    BY <1>8, <2>3 DEF SignInInv
  <2> HIDE DEF a
  <2> QED
    BY <1>1, <1>2, <1>5, <2>1, <2>2, <2>4, ServeKeeps
<1>9. CASE Answer(c, "403", set, Nobody, FALSE) /\ UNCHANGED <<gated, trail>>
  <2> DEFINE a == Answered(call, "403", set, Nobody, FALSE)
  <2>1. calls' = [calls EXCEPT ![c] = a]
    BY <1>9 DEF Answer
  <2>2. CallOK(a, sessions') /\ ~NewSid(a) /\ a.cookie = call.cookie
    BY <1>7
  <2> HIDE DEF a
  <2> QED
    BY <1>1, <1>2, <1>5, <1>9, <2>1, <2>2, ServeKeeps DEF SignInInv
<1> QED
  BY <1>8, <1>9 DEF Handle, set

LEMMA HandleNamedKeeps ==
  ASSUME SignInInv, NEW c \in Slots, HandleNamed(c)
  PROVE  SignInInv'
<1> DEFINE call == calls[c]
<1>1. call # Free /\ call.at = "sent" /\ UNCHANGED <<now, cookie, store>>
  BY DEF HandleNamed, At
<1>2. CallOK(call, sessions) /\ ~NewSid(call) /\ SessionsOK(sessions) /\ Len(sessions) \in Nat
  BY <1>1, InvFacts, SessionFacts DEF NewSid, SignInInv
<1>3. ASSUME NEW status, Answer(c, status, NoToken, Nobody, FALSE),
             trail' = trail, sessions' = sessions \/ sessions' = Revoked(call.user),
             call.op = "login" => status \in {"code_sent", "401"},
             call.op = "login" /\ status = "code_sent" => call.form = "password"
      PROVE  SignInInv'
  <2> DEFINE a == Answered(call, status, NoToken, Nobody, FALSE)
  <2>1. SessionsOK(sessions') /\ Kept(sessions, sessions')
    BY <1>2, <1>3, SameSessions, RevokeSessions
  <2>2. CallOK(call, sessions')
    BY <1>2, <2>1, CallStays
  <2> HIDE DEF a
  <2>3. CallOK(a, sessions') /\ ~NewSid(a) /\ a.cookie = call.cookie
    <3>1. a = Answered(call, status, NoToken, Nobody, FALSE)
      BY DEF a
    <3>2. /\ call.op = "login" => status \in {"code_sent", "401"}
          /\ call.op = "login" /\ status = "code_sent" => call.form = "password"
      BY <1>3
    <3>3. SessionsOK(sessions')
      BY <2>1
    <3> HIDE DEF call
    <3> QED
      BY <2>2, <3>1, <3>2, <3>3, RefusedOK, Zenon
  <2>4. calls' = [calls EXCEPT ![c] = a]
    BY <1>3 DEF a, Answer
  <2> QED
    BY <1>1, <1>2, <1>3, <2>1, <2>3, <2>4, ServeKeeps DEF SignInInv
<1>4. ASSUME call.op = "login", sessions' = Append(sessions, NewSession(call.user)),
             Answer(c, "ok", [sid |-> Len(sessions) + 1, iat |-> now], call.user, call.user \in gated),
             trail' = [trail EXCEPT !.used = Append(@, call.sent)]
      PROVE  SignInInv'
  <2> DEFINE set == [sid |-> Len(sessions) + 1, iat |-> now]
             a == Answered(call, "ok", set, call.user, call.user \in gated)
             row == NewSession(call.user)
  <2>1. DOMAIN row = RowFields /\ row.user = call.user
    BY DEF NewSession, RowFields
  <2>2. set \in Tokens /\ set # NoToken /\ set.sid = Len(sessions) + 1
    BY <1>2 DEF Tokens, NoToken, SignInInv
  <2>3. calls' = [calls EXCEPT ![c] = a]
    BY <1>4 DEF Answer
  <2> HIDE DEF row, set
  <2>4. /\ SessionsOK(sessions') /\ Kept(sessions, sessions')
        /\ Len(sessions') = Len(sessions) + 1 /\ sessions'[Len(sessions) + 1] = row
    BY <1>2, <1>4, <2>1, AddSession DEF row
  <2>5. CallOK(call, sessions') /\ DOMAIN call = Fields
    <3>1. CallOK(call, sessions')
      BY <1>2, <2>4, CallStays
    <3> QED
      BY <3>1 DEF CallOK
  <2>6. /\ Alike(a, call) /\ a.at = "answered" /\ a.set = set /\ a.status = "ok"
        /\ a.who = call.user
    BY <2>5 DEF Answered, Alike, Fields
  <2> HIDE DEF a
  <2>7. CallOK(a, sessions') /\ a.cookie = call.cookie
    BY <1>2, <1>4, <2>1, <2>2, <2>4, <2>5, <2>6 DEF CallOK, Alike
  <2>8. a.set.sid \notin 0 .. Len(sessions)
    BY <1>2, <2>2, <2>6
  <2>9. /\ DOMAIN trail' = DOMAIN trail /\ trail'.crossed = trail.crossed
        /\ trail'.wrote = trail.wrote
    BY <1>4 DEF SignInInv
  <2> QED
    BY <1>1, <1>2, <2>3, <2>4, <2>7, <2>8, <2>9, ServeKeeps DEF SignInInv
<1> HIDE DEF call
<1>5. CASE /\ call.op = "login" /\ call.form = "password"
           /\ Answer(c, "code_sent", NoToken, Nobody, FALSE) /\ UNCHANGED <<sessions, gated, trail>>
  BY <1>3, <1>5
<1>6. CASE /\ call.op = "login" /\ sessions' = Append(sessions, NewSession(call.user))
           /\ Answer(c, "ok", [sid |-> Len(sessions) + 1, iat |-> now], call.user, call.user \in gated)
           /\ trail' = [trail EXCEPT !.used = Append(@, call.sent)]
  BY <1>4, <1>6
<1>7. CASE /\ call.op \in {"reset", "ask"}
           /\ sessions' = sessions \/ sessions' = Revoked(call.user)
           /\ Answer(c, "ok", NoToken, Nobody, FALSE) /\ UNCHANGED trail
  BY <1>3, <1>7
<1>8. CASE /\ Refuse(c, IF call.op = "login" THEN "401" ELSE "400")
           /\ UNCHANGED <<sessions, gated, trail>>
  <2>1. CASE call.op = "login"
    BY <1>3, <1>8, <2>1 DEF Refuse
  <2>2. CASE call.op # "login"
    BY <1>3, <1>8, <2>2 DEF Refuse
  <2> QED
    BY <2>1, <2>2
<1> QED
  BY <1>5, <1>6, <1>7, <1>8 DEF HandleNamed, call

-----------------------------------------------------------------------------
(* The answer comes in. *)
\* What becomes of a tab's store: it is emptied, or shows the user of the answer, or
\* shows whom it showed before.
LEMMA StoreEnds ==
  ASSUME NEW s, DOMAIN s = StoreFields, NEW k, NEW more, NEW a, a = Loading(StoreAfter(s, k), more)
  PROVE  /\ DOMAIN a = StoreFields
         /\ \/ a.user = Nobody /\ a.csrf = 0
            \/ k.op = "login" /\ k.status = "ok" /\ a.user = k.who /\ a.csrf = k.set.sid
            \/ k.op # "login" /\ a.user = k.who /\ a.csrf = s.csrf
            \/ ~(k.op = "login" /\ k.status = "ok") /\ a.user = s.user /\ a.csrf \in {0, s.csrf}
<1> DEFINE b == StoreAfter(s, k)
<1>1. /\ DOMAIN b = StoreFields
      /\ \/ b.user = Nobody /\ b.csrf = 0
         \/ k.op = "login" /\ k.status = "ok" /\ b.user = k.who /\ b.csrf = k.set.sid
         \/ k.op # "login" /\ b.user = k.who /\ b.csrf = s.csrf
         \/ ~(k.op = "login" /\ k.status = "ok") /\ b.user = s.user /\ b.csrf \in {0, s.csrf}
  BY DEF StoreAfter, SignedIn, SignedOut, StoreFields
<1> HIDE DEF b
<1>2. a = [b EXCEPT !.loading = @ \/ more]
  BY DEF Loading, b
<1>3. DOMAIN a = StoreFields /\ a.user = b.user /\ a.csrf = b.csrf
  BY <1>1, <1>2 DEF StoreFields
<1> QED
  BY <1>1, <1>3

LEMMA DeliverKeeps ==
  ASSUME SignInInv, NEW c \in Slots, calls[c] # Free, NEW k, Deliver(c, k),
         CallOK(k, sessions), k.at = "answered", k.tab \in Tabs, k.cookie = calls[c].cookie,
         NewSid(k) => NewSid(calls[c]) /\ k.set = calls[c].set
  PROVE  SignInInv'
<1> DEFINE t == k.tab
           good == k.status \in {"ok", "out", "code_sent"}
           next == IF good THEN NextCall(k) ELSE "none"
           a == Loading(StoreAfter(store[t], k), next = "login")
           u == IF next \in Named THEN k.user ELSE Nobody
           sent == Call(t, store'[t], cookie', k.form, next, u)
           crossing == k.op # "login" /\ k.cookie.sid # cookie.sid /\ (k.set # NoToken \/ k.who # Nobody)
           used == IF k.op \in Reads \cup Writes /\ k.status \in {"ok", "403"}
                   THEN [s \in DOMAIN trail.used |-> IF s = k.cookie.sid THEN Later(trail.used[s], k.sent)
                                                     ELSE trail.used[s]]
                   ELSE trail.used
<1>1. /\ UNCHANGED <<now, sessions, gated>> /\ cookie' = CookieAfter(k)
      /\ store' = [store EXCEPT ![t] = a]
      /\ calls' = [calls EXCEPT ![c] = IF next = "none" THEN Free ELSE sent]
      /\ trail' = [trail EXCEPT !.crossed = @ \/ crossing, !.used = used]
  BY DEF Deliver
<1>2. /\ SessionsOK(sessions) /\ Len(sessions) \in Nat /\ t \in Tabs
      /\ DOMAIN k = Fields /\ k.cookie \in Tokens /\ k.set \in Tokens
      /\ \A v \in Tabs : StoreOK(store[v], sessions, cookie.sid, trail.crossed)
      /\ DOMAIN store[t] = StoreFields
  BY InvFacts, SessionFacts DEF SignInInv, CallOK
<1>3. /\ NoToken.sid = 0 /\ NoToken \in Tokens
      /\ \A x \in Tokens : x # NoToken => x.sid # 0
  BY DEF NoToken, Tokens
\* The cookie: gone, as before, the answer's.
<1>4. /\ cookie' \in Tokens /\ cookie'.sid \in 0 .. Len(sessions)
      /\ \/ cookie'.sid = 0
         \/ cookie' = cookie /\ ~NewSid(k)
         \/ cookie' = k.set /\ k.set # NoToken /\ NewSid(k)
         \/ cookie'.sid = k.cookie.sid /\ k.set # NoToken /\ k.op # "login"
  <2>1. k.op = "login" /\ k.status # "ok" => k.set = NoToken
    BY DEF CallOK
  <2>2. NewSid(k) => k.set # NoToken /\ k.status # "out"
    BY <1>3 DEF CallOK, NewSid
  <2>3. NewSid(k) <=> k.op = "login" /\ k.status = "ok"
    BY <1>2 DEF NewSid
  <2>4. cookie' = NoToken \/ (cookie' = k.set /\ k.set # NoToken) \/ (cookie' = cookie /\ k.set = NoToken)
    BY <1>1 DEF CookieAfter
  <2>5. k.set # NoToken /\ k.op # "login" => k.set.sid = k.cookie.sid
    BY DEF CallOK
  <2> QED
    BY <1>2, <1>3, <2>1, <2>2, <2>3, <2>4, <2>5 DEF CallOK, SignInInv
\* Whether an answer has crossed a sign-in.
<1>5. /\ DOMAIN trail' = DOMAIN trail /\ trail'.wrote = trail.wrote
      /\ ~trail'.crossed => ~trail.crossed
      /\ ~trail'.crossed => ~crossing
  <2> HIDE DEF crossing, used
  <2>1. trail'.crossed = (trail.crossed \/ crossing)
    BY <1>1 DEF SignInInv
  <2> QED
    BY <1>1, <2>1 DEF SignInInv
<1>6. k.op # "login" /\ k.set # NoToken /\ ~trail'.crossed => k.cookie.sid = cookie.sid
  BY <1>5
<1>7. k.op # "login" /\ k.who # Nobody /\ ~trail'.crossed => k.cookie.sid = cookie.sid
  BY <1>5
<1>8. NewSid(k) => /\ k.set.sid \notin Public /\ k.set.sid # 0
                   /\ k.who = sessions[k.set.sid].user
  BY DEF SignInInv, FreshSid, CallOK, NewSid
<1> HIDE DEF crossing, used
<1>9. /\ DOMAIN store' = Tabs /\ store'[t] = a
      /\ \A v \in Tabs : v # t => store'[v] = store[v]
  BY <1>1, <1>2 DEF SignInInv
<1>10. /\ DOMAIN a = StoreFields
       /\ \/ a.user = Nobody /\ a.csrf = 0
          \/ k.op = "login" /\ k.status = "ok" /\ a.user = k.who /\ a.csrf = k.set.sid
          \/ k.op # "login" /\ a.user = k.who /\ a.csrf = store[t].csrf
          \/ ~(k.op = "login" /\ k.status = "ok") /\ a.user = store[t].user
             /\ a.csrf \in {0, store[t].csrf}
  BY <1>2, StoreEnds
<1> HIDE DEF a
\* A tab that keeps its token and its user.
<1>11. ASSUME NEW v \in Tabs, NEW s, DOMAIN s = StoreFields, s.user = store[v].user,
              s.csrf = store[v].csrf
       PROVE  StoreOK(s, sessions, cookie'.sid, trail'.crossed)
  <2>1. StoreOK(store[v], sessions, cookie.sid, trail.crossed) /\ store[v].csrf \in Public
    BY <1>2, InvFacts
  <2>2. CASE cookie'.sid = 0
    BY <1>11, <2>1, <2>2 DEF StoreOK
  <2>3. CASE cookie'.sid = cookie.sid
    BY <1>5, <1>11, <2>1, <2>3 DEF StoreOK
  <2>4. CASE cookie' = k.set /\ NewSid(k)
    BY <1>8, <1>11, <2>1, <2>4 DEF StoreOK
  <2>5. CASE cookie'.sid = k.cookie.sid /\ k.set # NoToken /\ k.op # "login"
    BY <1>5, <1>6, <1>11, <2>1, <2>5 DEF StoreOK
  <2> QED
    BY <1>4, <2>2, <2>3, <2>4, <2>5
<1>12. StoreOK(a, sessions, cookie'.sid, trail'.crossed)
  <2>0. store[t].csrf \in 0 .. Len(sessions) /\ k.set.sid \in 0 .. Len(sessions) /\ 0 \in 0 .. Len(sessions)
    BY <1>2 DEF StoreOK, CallOK
  <2>1. CASE a.csrf = 0
    BY <1>10, <2>0, <2>1 DEF StoreOK
  <2>2. CASE k.op = "login" /\ k.status = "ok" /\ a.user = k.who /\ a.csrf = k.set.sid
    <3>1. NewSid(k)
      BY <1>2, <2>2 DEF NewSid
    <3> QED
      BY <1>8, <1>10, <2>0, <2>2, <3>1 DEF StoreOK
  <2>3. CASE k.op # "login" /\ a.user = k.who /\ a.csrf = store[t].csrf
    <3>1. k.who # Nobody => k.who = sessions[k.cookie.sid].user
      BY <2>3 DEF CallOK
    <3>2. ~NewSid(k)
      BY <2>3 DEF NewSid
    <3>3. k.who # Nobody /\ ~trail'.crossed => cookie'.sid \in {0, k.cookie.sid}
      BY <1>4, <1>7, <2>3, <3>2
    <3> QED
      BY <1>10, <2>0, <2>3, <3>1, <3>3 DEF StoreOK
  <2>4. CASE a.user = store[t].user /\ a.csrf = store[t].csrf
    BY <1>2, <1>10, <1>11, <2>4
  <2> QED
    BY <1>10, <2>1, <2>2, <2>3, <2>4
<1>13. \A v \in Tabs : StoreOK(store'[v], sessions', cookie'.sid, trail'.crossed)
  <2>1. \A v \in Tabs : v # t => StoreOK(store[v], sessions, cookie'.sid, trail'.crossed)
    BY <1>2, <1>11 DEF StoreOK
  <2> QED
    BY <1>1, <1>9, <1>12, <2>1
\* The call that follows acts for the user just signed in.
<1>14. next \in Writes => NewSid(k)
  <2> SUFFICES ASSUME next \in Writes PROVE NewSid(k)
    OBVIOUS
  <2>1. good /\ NextCall(k) \in Writes
    BY DEF Writes
  <2>2. k.form = "applyCode" /\ k.op = "login"
    BY <2>1 DEF NextCall, ProfileNext, ApplyNext, Writes
  <2> QED
    BY <1>2, <2>1, <2>2 DEF CallOK, NewSid
<1>15. next # "none" =>
         CallOK(sent, sessions) /\ ~NewSid(sent) /\ sent # Free /\ sent.cookie = cookie'
  <2>1. NewSid(k) => /\ cookie' = k.set \/ cookie'.sid = 0
                     /\ a.user = k.who \/ a.csrf = 0
    BY <1>2, <1>4, <1>8, <1>10 DEF NewSid
  <2>2. next \in Writes /\ ~trail.crossed /\ store'[t].csrf = cookie'.sid /\ cookie'.sid # 0
           => store'[t].user = sessions[cookie'.sid].user
    BY <1>8, <1>9, <1>14, <2>1
  <2> HIDE DEF next, u
  <2> QED
    BY <1>2, <1>4, <2>2, CallSent
<1> HIDE DEF next, sent
<1>16. /\ DOMAIN calls' = Slots
       /\ calls'[c] = Free \/ (CallOK(calls'[c], sessions) /\ ~NewSid(calls'[c]) /\ calls'[c].cookie = cookie')
       /\ \A d \in Slots : d # c => calls'[d] = calls[d]
  BY <1>1, <1>15 DEF SignInInv
<1>17. ~NewSid(calls'[c])
  BY <1>16, InvFacts
<1>18. \A d \in Slots : NewSid(calls'[d]) => NewSid(calls[d]) /\ calls'[d].set.sid = calls[d].set.sid
  BY <1>16, <1>17
<1>19. \A s \in Public' : \/ s \in Public
                          \/ \E e \in Slots : /\ NewSid(calls[e]) /\ ~NewSid(calls'[e])
                                              /\ s = calls[e].set.sid
  <2> DEFINE P(s) == \/ s \in Public
                     \/ \E e \in Slots : /\ NewSid(calls[e]) /\ ~NewSid(calls'[e])
                                         /\ s = calls[e].set.sid
  <2>1. P(0) /\ P(cookie.sid) /\ P(k.cookie.sid)
    BY InvFacts DEF Public
  <2>2. NewSid(k) => P(k.set.sid)
    BY <1>17
  <2>3. P(cookie'.sid)
    BY <1>4, <2>1, <2>2
  <2>4. P(a.csrf)
    BY <1>2, <1>10, <2>1, <2>2, InvFacts DEF NewSid
  <2>5. \A v \in Tabs : P(store'[v].csrf)
    BY <1>9, <2>4, InvFacts
  <2>6. \A d \in Slots : calls'[d] # Free => P(calls'[d].cookie.sid)
    BY <1>16, <2>3, InvFacts
  <2> HIDE DEF P
  <2>7. \A s \in Public' : P(s)
    BY <2>1, <2>3, <2>5, <2>6 DEF Public
  <2> QED
    BY <2>7 DEF P
<1>20. \A d \in Slots : NewSid(calls'[d]) => FreshSid(d)'
  BY <1>18, <1>19, FreshKeeps
<1> QED
  BY <1>1, <1>2, <1>4, <1>5, <1>9, <1>13, <1>16, <1>20 DEF SignInInv

LEMMA ArriveKeeps ==
  ASSUME SignInInv, NEW c \in Slots, Arrive(c)
  PROVE  SignInInv'
<1>1. /\ calls[c] # Free /\ calls[c].at = "answered" /\ calls[c].tab \in Tabs
      /\ Deliver(c, calls[c])
  BY DEF Arrive, At
<1>2. CallOK(calls[c], sessions)
  BY <1>1, InvFacts
<1> QED
  BY <1>1, <1>2, DeliverKeeps

\* A lost answer is one that says nothing.
LEMMA LoseKeeps ==
  ASSUME SignInInv, NEW c \in Slots, Lose(c)
  PROVE  SignInInv'
<1> DEFINE k == [calls[c] EXCEPT !.status = "lost", !.set = NoToken, !.who = Nobody]
<1>1. /\ calls[c] # Free /\ calls[c].at = "answered" /\ calls[c].tab \in Tabs
      /\ Deliver(c, k)
  BY DEF Lose, At
<1>2. CallOK(calls[c], sessions) /\ DOMAIN calls[c] = Fields /\ Len(sessions) \in Nat
  BY <1>1, InvFacts, SessionFacts DEF SignInInv
<1>3. k.tab = calls[c].tab
  BY <1>2 DEF Fields
<1> HIDE DEF k
<1>4. /\ Alike(k, calls[c]) /\ k.at = calls[c].at
      /\ k.set = NoToken /\ k.status = "lost" /\ k.who = Nobody
  BY <1>2, LostAlike DEF k
<1>5. NoToken \in Tokens /\ NoToken.sid \in 0 .. Len(sessions)
  BY <1>2 DEF NoToken, Tokens
<1>6. CallOK(k, sessions) /\ ~NewSid(k)
  BY <1>1, <1>2, <1>4, <1>5 DEF CallOK, Alike, NewSid
<1> QED
  BY <1>1, <1>3, <1>4, <1>6, DeliverKeeps DEF Alike

LEMMA GivenUpKeeps ==
  ASSUME SignInInv, NEW c \in Slots, GivenUp(c)
  PROVE  SignInInv'
<1>1. /\ UNCHANGED <<now, sessions, cookie, store, trail>>
      /\ DOMAIN calls' = Slots /\ calls'[c] = Free
      /\ \A d \in Slots : d # c => calls'[d] = calls[d]
  BY DEF GivenUp, SignInInv
<1>2. \A d \in Slots : NewSid(calls'[d]) => NewSid(calls[d]) /\ calls'[d].set.sid = calls[d].set.sid
  BY <1>1, InvFacts
<1>3. \A s \in Public' : s \in Public
  BY <1>1, InvFacts DEF Public
<1>4. \A d \in Slots : NewSid(calls'[d]) => FreshSid(d)'
  BY <1>2, <1>3, FreshKeeps
<1> QED
  BY <1>1, <1>4 DEF SignInInv

-----------------------------------------------------------------------------
LEMMA InitOK == Init => SignInInv
<1> SUFFICES ASSUME Init PROVE SignInInv
  OBVIOUS
<1>1. /\ sessions = <<>> /\ Len(sessions) = 0 /\ SessionsOK(sessions)
  <2>1. sessions = <<>> /\ Len(<<>>) = 0 /\ <<>> \in Seq({})
    BY DEF Init
  <2>2. ASSUME NEW T, NEW S, S = {}, T \in Seq(S) PROVE SessionsOK(T)
    <3>1. \A row \in S : DOMAIN row = RowFields
      BY <2>2
    <3> QED
      BY <2>2, <3>1, Zenon DEF SessionsOK
  <2>3. sessions \in Seq({}) /\ Len(sessions) = 0
    BY <2>1
  <2> QED
    BY <2>1, <2>2, <2>3, Zenon
<1>2. /\ cookie = NoToken /\ cookie \in Tokens /\ cookie.sid = 0
  BY DEF Init, NoToken, Tokens
<1>3. DOMAIN store = Tabs /\ \A t \in Tabs : StoreOK(store[t], sessions, cookie.sid, trail.crossed)
  BY <1>1, <1>2 DEF Init, Fresh, StoreOK, StoreFields
<1>4. /\ DOMAIN calls = Slots /\ \A c \in Slots : calls[c] = Free
  BY DEF Init
<1>5. ~NewSid(Free)
  BY DEF NewSid, Free, Fields
<1>6. /\ DOMAIN trail = {"calls", "used", "wrote", "crossed"} /\ trail.wrote = {} /\ now = 0
  BY DEF Init
<1> QED
  BY <1>1, <1>2, <1>3, <1>4, <1>5, <1>6 DEF SignInInv

LEMMA StillOK ==
  ASSUME SignInInv, UNCHANGED <<sessions, cookie, store, calls, trail>>, now' \in Nat
  PROVE  SignInInv'
<1>1. \A c \in Slots : NewSid(calls'[c]) => FreshSid(c)'
  BY DEF SignInInv, FreshSid, Public
<1> QED
  BY <1>1 DEF SignInInv

LEMMA StepOK == SignInInv /\ [Next]_vars => SignInInv'
<1> SUFFICES ASSUME SignInInv, [Next]_vars PROVE SignInInv'
  OBVIOUS
<1>1. CASE Tick
  <2>1. now' \in Nat /\ UNCHANGED <<sessions, cookie, store, calls, trail>>
    BY <1>1 DEF Tick, SignInInv
  <2> QED
    BY <2>1, StillOK
<1>2. ASSUME NEW t \in Tabs, NEW c \in Slots, Open(t, c) \/ Submit(t, c) \/ Resend(t, c)
      PROVE  SignInInv'
  BY <1>2, OpenKeeps, SubmitKeeps, ResendKeeps
<1>3. ASSUME NEW c \in Slots, Lookup(c) \/ Handle(c) \/ HandleNamed(c)
      PROVE  SignInInv'
  BY <1>3, LookupKeeps, HandleKeeps, HandleNamedKeeps
<1>4. ASSUME NEW c \in Slots, Arrive(c) \/ Lose(c) \/ GivenUp(c)
      PROVE  SignInInv'
  BY <1>4, ArriveKeeps, LoseKeeps, GivenUpKeeps
<1>5. CASE UNCHANGED vars
  <2>1. now' = now /\ UNCHANGED <<sessions, cookie, store, calls, trail>>
    BY <1>5 DEF vars
  <2> QED
    BY <2>1, StillOK DEF SignInInv
<1> QED
  BY <1>1, <1>2, <1>3, <1>4, <1>5 DEF Next

\* What somebody does in a tab that shows one user is never done for another,
\* unless the answer to an earlier call crossed a sign-in: with any number of tabs,
\* users, sessions and calls, whatever is lost or late (requireCsrf, authStore,
\* api.ts).
THEOREM WritesAreForTheUserShown == Spec => []WritesActForTheUserShown
<1>1. SignInInv => WritesActForTheUserShown
  BY DEF SignInInv, WritesActForTheUserShown
<1> QED
  BY <1>1, InitOK, StepOK, PTL DEF Spec
-----------------------------------------------------------------------------
(* How long a session and its token last.  A row holds at least for a call that *)
(* was answered, less the lag with which an older call may write it back; the    *)
(* token in the browser was less than half used up at every use, or is as young  *)
(* as an answer still under way.                                                *)
LongEnough(row, use) ==
  \/ use - Lag + IdleTimeout <= row.expires
  \/ AbsoluteEnd(row) <= row.expires
Young(token, use, row, time) ==
  \/ use < token.iat + RefreshThreshold
  \/ AbsoluteEnd(row) <= time

Timely(k, S, time) ==
  /\ k.sent \in Int /\ k.sent <= time /\ time - k.sent <= Lag
  /\ k.at = "looked" =>
       /\ k.row.began = S[k.cookie.sid].began /\ k.row.expires \in Int
       /\ k.sent + IdleTimeout <= k.row.expires \/ AbsoluteEnd(k.row) <= k.row.expires
  /\ k.at = "answered" /\ k.set # NoToken => k.sent <= k.set.iat
  /\ k.at = "answered" /\ k.op \in Reads \cup Writes /\ k.status \in {"ok", "403"} =>
       /\ k.cookie.sid # 0 /\ LongEnough(S[k.cookie.sid], k.sent)
       /\ k.set = NoToken => Young(k.cookie, k.sent, S[k.cookie.sid], time)

\* The browser's token is no older than the one a call was sent with, or was
\* younger when the call was sent than half its window.
NotOlder(token, k) ==
  token # NoToken /\ k.cookie.sid = token.sid =>
    k.cookie.iat <= token.iat \/ k.sent < token.iat + RefreshThreshold

UseInv ==
  /\ \A s \in DOMAIN sessions : sessions[s].began \in Int /\ sessions[s].expires \in Int
  /\ trail.used \in Seq(Int) /\ Len(trail.used) = Len(sessions)
  /\ \A s \in DOMAIN sessions : trail.used[s] <= now /\ LongEnough(sessions[s], trail.used[s])
  /\ \A c \in Slots : calls[c] # Free => Timely(calls[c], sessions, now) /\ NotOlder(cookie, calls[c])
  /\ cookie # NoToken => Young(cookie, trail.used[cookie.sid], sessions[cookie.sid], now)

LEMMA Threshold ==
  /\ RefreshThreshold \in Nat /\ Lag \in Nat /\ IdleTimeout \in Nat /\ AbsoluteTimeout \in Nat
  /\ Lag < RefreshThreshold /\ RefreshThreshold + RefreshThreshold <= IdleTimeout
BY SignInAssumption DEF RefreshThreshold

LEMMA UseFacts ==
  ASSUME SignInInv, UseInv
  PROVE  /\ SessionsOK(sessions) /\ now \in Int /\ Len(sessions) \in Nat
         /\ DOMAIN sessions = 1 .. Len(sessions)
         /\ DOMAIN calls = Slots
         /\ \A s \in DOMAIN sessions :
              /\ sessions[s].began \in Int /\ sessions[s].expires \in Int
              /\ AbsoluteEnd(sessions[s]) \in Int /\ trail.used[s] \in Int
         /\ cookie # NoToken => cookie.sid \in DOMAIN sessions /\ cookie.iat \in Int
         /\ \A c \in Slots : calls[c] # Free =>
              /\ CallOK(calls[c], sessions) /\ Timely(calls[c], sessions, now) /\ NotOlder(cookie, calls[c])
              /\ calls[c].cookie.iat \in Int
              /\ calls[c].cookie.sid # 0 => calls[c].cookie.sid \in DOMAIN sessions
<1>1. /\ SessionsOK(sessions) /\ now \in Int /\ Len(sessions) \in Nat
      /\ DOMAIN sessions = 1 .. Len(sessions)
  BY SessionFacts DEF SignInInv
<1>2. \A x \in Tokens : x.iat \in Int /\ (x # NoToken => x.sid # 0)
  BY DEF Tokens, NoToken
<1>3. \A s \in DOMAIN sessions :
              /\ sessions[s].began \in Int /\ sessions[s].expires \in Int
              /\ AbsoluteEnd(sessions[s]) \in Int
  BY Threshold DEF UseInv, AbsoluteEnd
<1>4. \A s \in DOMAIN sessions : trail.used[s] \in Int
  BY <1>1 DEF UseInv
<1>5. cookie # NoToken => cookie.sid \in DOMAIN sessions /\ cookie.iat \in Int
  BY <1>1, <1>2 DEF SignInInv
<1>6. \A c \in Slots : calls[c] # Free =>
              /\ CallOK(calls[c], sessions) /\ Timely(calls[c], sessions, now) /\ NotOlder(cookie, calls[c])
              /\ calls[c].cookie.iat \in Int
              /\ calls[c].cookie.sid # 0 => calls[c].cookie.sid \in DOMAIN sessions
  <2> TAKE c \in Slots
  <2> HAVE calls[c] # Free
  <2>1. CallOK(calls[c], sessions) /\ Timely(calls[c], sessions, now) /\ NotOlder(cookie, calls[c])
    BY DEF SignInInv, UseInv
  <2>2. calls[c].cookie \in Tokens /\ calls[c].cookie.sid \in 0 .. Len(sessions)
    BY <2>1 DEF CallOK
  <2> QED
    BY <1>1, <1>2, <2>1, <2>2
<1> QED
  BY <1>1, <1>3, <1>4, <1>5, <1>6 DEF SignInInv

-----------------------------------------------------------------------------
(* The sessions change, the clock stands still. *)
\* A row keeps its beginning, and its end is not brought forward but by the lag.
RowsLast ==
  /\ \A s \in DOMAIN sessions :
       /\ s \in DOMAIN sessions' /\ sessions'[s].began = sessions[s].began
       /\ \/ sessions'[s].expires = sessions[s].expires
          \/ now - Lag + IdleTimeout <= sessions'[s].expires
          \/ AbsoluteEnd(sessions[s]) <= sessions'[s].expires
  /\ \A s \in DOMAIN sessions' : sessions'[s].began \in Int /\ sessions'[s].expires \in Int

LEMMA StillTimely ==
  ASSUME SignInInv, UseInv, RowsLast
  PROVE  /\ \A s \in DOMAIN sessions : \A use \in Int :
              use <= now /\ LongEnough(sessions[s], use) => LongEnough(sessions'[s], use)
         /\ \A c \in Slots : calls[c] # Free => Timely(calls[c], sessions', now)
         /\ \A s \in DOMAIN sessions : \A token, use :
              Young(token, use, sessions[s], now) => Young(token, use, sessions'[s], now)
<1>1. \A s \in DOMAIN sessions : AbsoluteEnd(sessions'[s]) = AbsoluteEnd(sessions[s])
  BY DEF RowsLast, AbsoluteEnd
<1>2. ASSUME NEW s \in DOMAIN sessions, NEW use \in Int, use <= now, LongEnough(sessions[s], use)
      PROVE  LongEnough(sessions'[s], use)
  <2>1. /\ AbsoluteEnd(sessions[s]) \in Int /\ now \in Int
        /\ sessions'[s].expires \in Int
        /\ \/ sessions'[s].expires = sessions[s].expires
           \/ now - Lag + IdleTimeout <= sessions'[s].expires
           \/ AbsoluteEnd(sessions[s]) <= sessions'[s].expires
    BY UseFacts DEF RowsLast
  <2> QED
    BY <1>1, <1>2, <2>1, Threshold DEF LongEnough
<1>3. \A s \in DOMAIN sessions : \A token, use :
        Young(token, use, sessions[s], now) => Young(token, use, sessions'[s], now)
  BY <1>1 DEF Young
<1>4. ASSUME NEW c \in Slots, calls[c] # Free
      PROVE  Timely(calls[c], sessions', now)
  <2> DEFINE k == calls[c]
  <2>1. /\ CallOK(k, sessions) /\ Timely(k, sessions, now)
        /\ k.cookie.sid # 0 => k.cookie.sid \in DOMAIN sessions
    BY <1>4, UseFacts
  <2> HIDE DEF k
  <2>2. k.at = "looked" => k.row.began = sessions'[k.cookie.sid].began
    BY <2>1 DEF CallOK, Timely, RowsLast
  <2>3. k.at = "answered" /\ k.op \in Reads \cup Writes /\ k.status \in {"ok", "403"} =>
          /\ LongEnough(sessions'[k.cookie.sid], k.sent)
          /\ k.set = NoToken => Young(k.cookie, k.sent, sessions'[k.cookie.sid], now)
    BY <1>2, <1>3, <2>1 DEF Timely
  <2>4. Timely(k, sessions', now)
    BY <2>1, <2>2, <2>3 DEF Timely
  <2> QED
    BY <2>4 DEF k
<1> QED
  BY <1>2, <1>3, <1>4

LEMMA ServeTimely ==
  ASSUME SignInInv, UseInv, NEW c \in Slots, calls[c] # Free,
         now' = now, cookie' = cookie, RowsLast,
         NEW k, calls' = [calls EXCEPT ![c] = k], Timely(k, sessions', now),
         k.cookie = calls[c].cookie, k.sent = calls[c].sent,
         trail'.used \in Seq(Int), Len(trail'.used) = Len(sessions'),
         \A s \in DOMAIN sessions : trail'.used[s] = trail.used[s],
         \A s \in DOMAIN sessions' \ DOMAIN sessions :
            trail'.used[s] <= now /\ LongEnough(sessions'[s], trail'.used[s])
  PROVE  UseInv'
<1>1. /\ calls'[c] = k /\ \A d \in Slots : d # c => calls'[d] = calls[d]
  BY UseFacts
<1>2. ASSUME NEW s \in DOMAIN sessions'
      PROVE  trail'.used[s] <= now' /\ LongEnough(sessions'[s], trail'.used[s])
  <2>1. CASE s \in DOMAIN sessions
    <3>1. trail.used[s] \in Int /\ trail.used[s] <= now /\ LongEnough(sessions[s], trail.used[s])
      BY <2>1, UseFacts DEF UseInv
    <3>2. \A use \in Int : use <= now /\ LongEnough(sessions[s], use) => LongEnough(sessions'[s], use)
      BY <2>1, StillTimely
    <3> QED
      BY <2>1, <3>1, <3>2
  <2>2. CASE s \notin DOMAIN sessions
    BY <2>2
  <2> QED
    BY <2>1, <2>2
<1>3. ASSUME NEW d \in Slots, calls'[d] # Free
      PROVE  Timely(calls'[d], sessions', now') /\ NotOlder(cookie', calls'[d])
  <2>1. CASE d = c
    BY <1>1, <2>1, UseFacts DEF NotOlder
  <2>2. CASE d # c
    <3>1. calls'[d] = calls[d] /\ calls[d] # Free
      BY <1>1, <1>3, <2>2
    <3>2. Timely(calls[d], sessions', now)
      BY <3>1, StillTimely
    <3> QED
      BY <3>1, <3>2, UseFacts
  <2> QED
    BY <2>1, <2>2
<1>4. cookie' # NoToken =>
        Young(cookie', trail'.used[cookie'.sid], sessions'[cookie'.sid], now')
  BY UseFacts, StillTimely DEF UseInv
<1> QED
  BY <1>2, <1>3, <1>4 DEF UseInv, RowsLast

LEMMA SameRows ==
  ASSUME SignInInv, UseInv,
         sessions' = sessions \/ \E u : sessions' = Revoked(u)
  PROVE  RowsLast /\ DOMAIN sessions' = DOMAIN sessions /\ Len(sessions') = Len(sessions)
<1>1. CASE sessions' = sessions
  BY <1>1, UseFacts DEF RowsLast
<1>2. CASE \E u : sessions' = Revoked(u)
  <2>1. PICK u : sessions' = Revoked(u)
    BY <1>2
  <2>2. DOMAIN sessions' = DOMAIN sessions
    BY <2>1 DEF Revoked
  <2>3. Len(sessions') = Len(sessions)
    <3>1. SessionsOK(sessions') /\ DOMAIN sessions = 1 .. Len(sessions) /\ Len(sessions) \in Nat
      BY <2>1, RevokeSessions, UseFacts
    <3>2. Len(sessions') \in Nat /\ DOMAIN sessions' = 1 .. Len(sessions')
      BY <3>1 DEF SessionsOK
    <3> QED
      BY <2>2, <3>1, <3>2
  <2>4. ASSUME NEW s \in DOMAIN sessions
        PROVE  /\ sessions'[s].began = sessions[s].began
               /\ sessions'[s].expires = sessions[s].expires
    <3>1. DOMAIN sessions[s] = RowFields
      BY UseFacts, SessionFacts
    <3>2. sessions'[s] = sessions[s] \/ sessions'[s] = [sessions[s] EXCEPT !.revoked = TRUE]
      BY <2>1 DEF Revoked
    <3> QED
      BY <3>1, <3>2 DEF RowFields
  <2> QED
    BY <2>2, <2>3, <2>4, UseFacts DEF RowsLast
<1> QED
  BY <1>1, <1>2

\* An answer that gives no token and does not count as a use.
LEMMA RefusedTimely ==
  ASSUME SignInInv, UseInv, NEW c \in Slots, calls[c] # Free, now' = now, cookie' = cookie,
         sessions' = sessions \/ \E u : sessions' = Revoked(u),
         trail' = trail, NEW status,
         Answer(c, status, NoToken, Nobody, FALSE),
         calls[c].op \notin Reads \cup Writes \/ status \notin {"ok", "403"}
  PROVE  UseInv'
<1> DEFINE k == Answered(calls[c], status, NoToken, Nobody, FALSE)
<1>1. DOMAIN calls[c] = Fields
  BY InvFacts
<1>2. /\ k.at = "answered" /\ k.op = calls[c].op /\ k.status = status /\ k.set = NoToken
      /\ k.sent = calls[c].sent /\ k.cookie = calls[c].cookie
  BY <1>1 DEF Answered, Fields
<1>3. calls' = [calls EXCEPT ![c] = k]
  BY DEF Answer
<1> HIDE DEF k
<1>4. Timely(k, sessions', now)
  BY <1>2, UseFacts DEF Timely
<1>5. RowsLast /\ DOMAIN sessions' = DOMAIN sessions /\ Len(sessions') = Len(sessions)
  BY SameRows
<1> QED
  BY <1>2, <1>3, <1>4, <1>5, ServeTimely DEF UseInv

LEMMA LookupTimely ==
  ASSUME SignInInv, UseInv, NEW c \in Slots, Lookup(c)
  PROVE  UseInv'
<1>1. /\ calls[c] # Free /\ calls[c].at = "sent"
      /\ now' = now /\ sessions' = sessions /\ cookie' = cookie /\ trail' = trail
  BY DEF Lookup, At
<1>2. CASE ~Verified(calls[c].cookie)
  BY <1>1, <1>2, RefusedTimely DEF Lookup, Refuse
<1>3. CASE Verified(calls[c].cookie)
  <2> DEFINE sid == calls[c].cookie.sid
             row == Slid(sessions[sid])
             k == [calls[c] EXCEPT !.at = "looked", !.row = row]
  <2>1. calls' = [calls EXCEPT ![c].at = "looked", ![c].row = row]
    BY <1>3 DEF Lookup
  <2>2. calls' = [calls EXCEPT ![c] = k]
    BY <2>1 DEF SignInInv
  <2>3. DOMAIN calls[c] = Fields
    BY <1>1, InvFacts
  <2> HIDE DEF row
  <2>4. k.at = "looked" /\ k.row = row /\ k.cookie = calls[c].cookie /\ k.sent = calls[c].sent
    BY <2>3 DEF Fields
  <2>5. sid \in DOMAIN sessions
    <3>1. calls[c].cookie \in Tokens /\ calls[c].cookie # NoToken
      BY <1>1, <1>3, UseFacts DEF CallOK, Verified
    <3>2. sid # 0
      BY <3>1 DEF Tokens
    <3> QED
      BY <1>1, <3>2, UseFacts
  <2>6. DOMAIN sessions[sid] = RowFields
    BY <2>5, UseFacts, SessionFacts
  <2>7. /\ row.began = sessions[sid].began
        /\ row.expires = Earlier(now + IdleTimeout, AbsoluteEnd(sessions[sid]))
    BY <2>6 DEF row, Slid, RowFields
  <2>8. AbsoluteEnd(row) = AbsoluteEnd(sessions[sid])
    BY <2>7 DEF AbsoluteEnd
  <2>9. /\ AbsoluteEnd(sessions[sid]) \in Int /\ now \in Int
        /\ calls[c].sent \in Int /\ calls[c].sent <= now /\ now - calls[c].sent <= Lag
    BY <1>1, <2>5, UseFacts DEF Timely
  <2>10. /\ row.expires \in Int
         /\ calls[c].sent + IdleTimeout <= row.expires \/ AbsoluteEnd(row) <= row.expires
    BY <2>7, <2>8, <2>9, Threshold DEF Earlier
  <2> HIDE DEF k
  <2>11. Timely(k, sessions', now)
    BY <1>1, <2>4, <2>7, <2>9, <2>10 DEF Timely
  <2> QED
    BY <1>1, <2>2, <2>4, <2>11, SameRows, ServeTimely DEF UseInv
<1> QED
  BY <1>2, <1>3

LEMMA HandleTimely ==
  ASSUME SignInInv, UseInv, NEW c \in Slots, Handle(c)
  PROVE  UseInv'
<1> DEFINE call == calls[c]
           sid == call.cookie.sid
           out == GatePasses(call) /\ CsrfPasses(call) /\ call.op = "logout"
           row == WrittenBack(call.row, out)
           set == Refreshed(call.cookie)
<1>1. /\ call # Free /\ call.at = "looked" /\ now' = now /\ cookie' = cookie
      /\ sessions' = [sessions EXCEPT ![sid] = row]
  BY DEF Handle, At
<1>2. CallOK(call, sessions) /\ Timely(call, sessions, now) /\ DOMAIN call = Fields /\ call.cookie.iat \in Int
  BY <1>1, UseFacts, InvFacts
<1>3. /\ call.op \in Reads \cup Writes /\ sid # 0 /\ sid \in DOMAIN sessions
      /\ DOMAIN call.row = RowFields
  BY <1>1, <1>2, UseFacts DEF CallOK
<1>4. row.began = call.row.began /\ row.expires = call.row.expires
  BY <1>3 DEF WrittenBack, RowFields
<1> HIDE DEF row, set, out
<1>5. /\ call.sent \in Int /\ call.sent <= now /\ now - call.sent <= Lag /\ now \in Int
      /\ row.began = sessions[sid].began /\ row.expires \in Int
      /\ call.sent + IdleTimeout <= row.expires \/ AbsoluteEnd(row) <= row.expires
      /\ AbsoluteEnd(row) = AbsoluteEnd(sessions[sid]) /\ AbsoluteEnd(row) \in Int
  <2>1. AbsoluteEnd(row) = AbsoluteEnd(sessions[sid]) /\ AbsoluteEnd(row) = AbsoluteEnd(call.row)
    BY <1>1, <1>2, <1>4 DEF Timely, AbsoluteEnd
  <2> QED
    BY <1>1, <1>2, <1>3, <1>4, <2>1, UseFacts DEF Timely
<1>6. /\ DOMAIN sessions' = DOMAIN sessions /\ sessions'[sid] = row
      /\ \A s \in DOMAIN sessions : s # sid => sessions'[s] = sessions[s]
  BY <1>1, <1>3
<1>7. Len(sessions') = Len(sessions)
  <2>1. SessionsOK(sessions')
    BY HandleKeeps DEF SignInInv
  <2>2. Len(sessions') \in Nat /\ DOMAIN sessions' = 1 .. Len(sessions')
    BY <2>1 DEF SessionsOK
  <2> QED
    BY <1>6, <2>2, UseFacts
<1>8. RowsLast
  <2>1. /\ row.expires \in Int
        /\ now - Lag + IdleTimeout <= row.expires \/ AbsoluteEnd(sessions[sid]) <= row.expires
    BY <1>5, Threshold
  <2>2. /\ sessions[sid].began \in Int
        /\ \A s \in DOMAIN sessions : sessions[s].began \in Int /\ sessions[s].expires \in Int
    BY <1>3, UseFacts
  <2> HIDE DEF call, sid
  <2> QED
    BY <1>5, <1>6, <2>1, <2>2 DEF RowsLast
<1>9. /\ set # NoToken => set.iat = now
      /\ set = NoToken => call.sent < call.cookie.iat + RefreshThreshold
                          \/ AbsoluteEnd(sessions[sid]) <= now
  <2>1. call.cookie \in Tokens /\ call.cookie # NoToken
    BY <1>2, <1>3 DEF CallOK, NoToken
  <2>2. [call.cookie EXCEPT !.iat = now] # NoToken /\ [call.cookie EXCEPT !.iat = now].iat = now
    BY <1>3, <2>1 DEF Tokens, NoToken
  <2>3. \/ set = [call.cookie EXCEPT !.iat = now]
        \/ set = NoToken /\ now - call.cookie.iat < RefreshThreshold
        \/ set = NoToken /\ now >= AbsoluteEnd(sessions[sid])
    BY DEF set, Refreshed
  <2>4. call.cookie.iat \in Int /\ now \in Int /\ call.sent \in Int /\ call.sent <= now
        /\ AbsoluteEnd(sessions[sid]) \in Int
    BY <1>2, <1>5
  <2>5. set # NoToken => set.iat = now
    BY <2>2, <2>3
  <2>6. ASSUME set = NoToken
        PROVE  now - call.cookie.iat < RefreshThreshold \/ now >= AbsoluteEnd(sessions[sid])
    BY <2>2, <2>3, <2>6
  <2>7. now - call.cookie.iat < RefreshThreshold => call.sent < call.cookie.iat + RefreshThreshold
    <3> DEFINE iat == call.cookie.iat
               t == call.sent
    <3>1. iat \in Int /\ t \in Int /\ t <= now /\ now \in Int
      BY <2>4
    <3> HIDE DEF iat, t
    <3>2. now - iat < RefreshThreshold => t < iat + RefreshThreshold
      BY <3>1, Threshold
    <3> QED
      BY <3>2 DEF iat, t
  <2>8. now >= AbsoluteEnd(sessions[sid]) => AbsoluteEnd(sessions[sid]) <= now
    BY <2>4
  <2> QED
    BY <2>5, <2>6, <2>7, <2>8
<1>10. PICK status, who, mc : Answer(c, status, set, who, mc) /\ trail'.used = trail.used
  BY DEF Handle, SignInInv, set
<1> DEFINE k == Answered(call, status, set, who, mc)
<1>11. /\ k.at = "answered" /\ k.op = call.op /\ k.set = set
       /\ k.sent = call.sent /\ k.cookie = call.cookie
  BY <1>2 DEF Answered, Fields
<1>12. calls' = [calls EXCEPT ![c] = k]
  BY <1>10 DEF Answer
<1> HIDE DEF k
<1>13. Timely(k, sessions', now)
  <2>1. LongEnough(sessions'[sid], call.sent)
    BY <1>5, <1>6, Threshold DEF LongEnough
  <2>2. k.set = NoToken => Young(call.cookie, call.sent, sessions'[sid], now)
    BY <1>5, <1>6, <1>9, <1>11 DEF Young
  <2> QED
    BY <1>1, <1>3, <1>5, <1>9, <1>11, <2>1, <2>2 DEF Timely
<1> QED
  BY <1>1, <1>6, <1>7, <1>8, <1>10, <1>11, <1>12, <1>13, ServeTimely DEF UseInv

LEMMA SignedInTimely ==
  ASSUME SignInInv, UseInv, NEW c \in Slots, calls[c] # Free, calls[c].op = "login",
         NEW user, NEW mc, now' = now, cookie' = cookie,
         sessions' = Append(sessions, NewSession(user)),
         Answer(c, "ok", [sid |-> Len(sessions) + 1, iat |-> now], user, mc),
         trail' = [trail EXCEPT !.used = Append(@, calls[c].sent)]
  PROVE  UseInv'
<1> DEFINE call == calls[c]
           row == NewSession(user)
           set == [sid |-> Len(sessions) + 1, iat |-> now]
           k == Answered(call, "ok", set, user, mc)
<1>1. /\ Timely(call, sessions, now) /\ DOMAIN call = Fields
      /\ call.sent \in Int /\ call.sent <= now /\ now - call.sent <= Lag /\ now \in Int
      /\ Len(sessions) \in Nat /\ DOMAIN sessions = 1 .. Len(sessions)
  BY UseFacts, InvFacts DEF Timely
<1>2. DOMAIN row = RowFields /\ row.began = now /\ row.expires = now + IdleTimeout
  BY DEF NewSession, RowFields
<1>3. set.iat = now
  OBVIOUS
<1> HIDE DEF row, set
<1>4. /\ SessionsOK(sessions') /\ Kept(sessions, sessions')
      /\ Len(sessions') = Len(sessions) + 1 /\ sessions'[Len(sessions) + 1] = row
  BY <1>2, AddSession DEF SignInInv, row
<1>5. \A s \in DOMAIN sessions : sessions'[s] = sessions[s]
  <2>1. PICK S : sessions \in Seq(S)
    BY DEF SignInInv, SessionsOK
  <2>2. sessions \in Seq(S \cup {row}) /\ row \in S \cup {row}
    BY <2>1
  <2> QED
    BY <1>1, <2>2, AppendProperties DEF row
<1>6. DOMAIN sessions' = 1 .. Len(sessions) + 1
  BY <1>1, <1>4 DEF SessionsOK
<1>7. RowsLast
  <2>1. row.began \in Int /\ row.expires \in Int
    BY <1>1, <1>2, Threshold
  <2>2. \A s \in DOMAIN sessions : s \in DOMAIN sessions'
    BY <1>1, <1>6
  <2>3. \A s \in DOMAIN sessions' : s \in DOMAIN sessions \/ s = Len(sessions) + 1
    BY <1>1, <1>6
  <2> QED
    BY <1>4, <1>5, <2>1, <2>2, <2>3, UseFacts DEF RowsLast
<1>8. /\ k.at = "answered" /\ k.op = "login" /\ k.set = set
      /\ k.sent = call.sent /\ k.cookie = call.cookie
  BY <1>1 DEF Answered, Fields
<1>9. calls' = [calls EXCEPT ![c] = k]
  BY DEF Answer, set
<1> HIDE DEF k
<1>10. Timely(k, sessions', now)
  BY <1>1, <1>3, <1>8 DEF Timely, Reads, Writes
<1>11. /\ trail'.used \in Seq(Int) /\ Len(trail'.used) = Len(sessions')
       /\ \A s \in DOMAIN sessions : trail'.used[s] = trail.used[s]
       /\ trail'.used[Len(sessions) + 1] = call.sent
  <2>1. trail'.used = Append(trail.used, call.sent)
    BY DEF SignInInv
  <2>2. trail.used \in Seq(Int) /\ Len(trail.used) = Len(sessions) /\ call.sent \in Int
    BY <1>1 DEF UseInv
  <2>3. /\ trail'.used \in Seq(Int) /\ Len(trail'.used) = Len(trail.used) + 1
        /\ \A s \in 1 .. Len(trail.used) : trail'.used[s] = trail.used[s]
        /\ trail'.used[Len(trail.used) + 1] = call.sent
    BY <2>1, <2>2, AppendProperties
  <2> QED
    BY <1>1, <1>4, <2>2, <2>3
<1>12. \A s \in DOMAIN sessions' \ DOMAIN sessions :
            trail'.used[s] <= now /\ LongEnough(sessions'[s], trail'.used[s])
  <2>1. \A s \in DOMAIN sessions' \ DOMAIN sessions : s = Len(sessions) + 1
    BY <1>1, <1>6
  <2>2. LongEnough(row, call.sent)
    <3>1. ASSUME NEW u \in Int, NEW n \in Int, u <= n
          PROVE  u - Lag + IdleTimeout <= n + IdleTimeout
      BY <3>1, SignInAssumption
    <3> QED
      BY <1>1, <1>2, <3>1 DEF LongEnough
  <2> QED
    BY <1>1, <1>4, <1>11, <2>1, <2>2
<1> QED
  BY <1>7, <1>8, <1>9, <1>10, <1>11, <1>12, ServeTimely

LEMMA HandleNamedTimely ==
  ASSUME SignInInv, UseInv, NEW c \in Slots, HandleNamed(c)
  PROVE  UseInv'
<1> DEFINE call == calls[c]
<1>1. /\ call # Free /\ call.op \in Named \cup {"ask"} /\ now' = now /\ cookie' = cookie
  BY DEF HandleNamed, At
<1>2. call.op \notin Reads \cup Writes
  BY <1>1 DEF Named, Reads, Writes
<1>3. ASSUME NEW status, Answer(c, status, NoToken, Nobody, FALSE), trail' = trail,
             sessions' = sessions \/ sessions' = Revoked(call.user)
      PROVE  UseInv'
  BY <1>1, <1>2, <1>3, RefusedTimely
<1>4. CASE /\ call.op = "login" /\ sessions' = Append(sessions, NewSession(call.user))
           /\ Answer(c, "ok", [sid |-> Len(sessions) + 1, iat |-> now], call.user, call.user \in gated)
           /\ trail' = [trail EXCEPT !.used = Append(@, call.sent)]
  BY <1>1, <1>4, SignedInTimely
<1>5. \/ \E status : Answer(c, status, NoToken, Nobody, FALSE) /\ trail' = trail
                     /\ (sessions' = sessions \/ sessions' = Revoked(call.user))
      \/ /\ call.op = "login" /\ sessions' = Append(sessions, NewSession(call.user))
         /\ Answer(c, "ok", [sid |-> Len(sessions) + 1, iat |-> now], call.user, call.user \in gated)
         /\ trail' = [trail EXCEPT !.used = Append(@, call.sent)]
  <2> HIDE DEF call
  <2> QED
    BY DEF HandleNamed, Refuse, call
<1> QED
  BY <1>3, <1>4, <1>5

-----------------------------------------------------------------------------
(* The tabs' steps. *)
\* A call that was just sent.
LEMMA SentTimely ==
  ASSUME NEW t, NEW s, NEW token, token.iat \in Int, NEW form, NEW op, NEW u, NEW S, now \in Int
  PROVE  LET k == Call(t, s, token, form, op, u) IN
         Timely(k, S, now) /\ NotOlder(token, k)
<1> DEFINE k == Call(t, s, token, form, op, u)
<1>1. k.sent = now /\ k.at = "sent" /\ k.cookie = token
  BY DEF Call
<1> HIDE DEF k
<1>2. now <= now /\ now - now <= Lag /\ token.iat <= token.iat
  BY Threshold
<1>3. Timely(k, S, now) /\ NotOlder(token, k)
  BY <1>1, <1>2 DEF Timely, NotOlder
<1> QED
  BY <1>3 DEF k

\* Calls are sent or given up, and the tabs' browser stays as it is.
LEMMA SendTimely ==
  ASSUME SignInInv, UseInv, UNCHANGED <<now, sessions, cookie>>, trail'.used = trail.used,
         \A d \in Slots : calls'[d] # Free =>
           \/ calls'[d] = calls[d]
           \/ calls[d] # Free /\ calls'[d] = [calls[d] EXCEPT !.tab = Nobody]
           \/ Timely(calls'[d], sessions, now) /\ NotOlder(cookie, calls'[d])
  PROVE  UseInv'
<1>1. ASSUME NEW d \in Slots, calls'[d] # Free
      PROVE  Timely(calls'[d], sessions, now) /\ NotOlder(cookie, calls'[d])
  <2>1. CASE calls'[d] = calls[d]
    BY <1>1, <2>1, UseFacts
  <2>2. CASE calls[d] # Free /\ calls'[d] = [calls[d] EXCEPT !.tab = Nobody]
    <3> DEFINE k == calls[d]
               a == calls'[d]
    <3>1. Timely(k, sessions, now) /\ NotOlder(cookie, k) /\ DOMAIN k = Fields
      BY <2>2, UseFacts, InvFacts
    <3>2. a = [k EXCEPT !.tab = Nobody]
      BY <2>2
    <3> HIDE DEF k, a
    <3>3. /\ a.at = k.at /\ a.row = k.row /\ a.set = k.set /\ a.status = k.status /\ a.op = k.op
          /\ a.sent = k.sent /\ a.cookie = k.cookie
      BY <3>1, <3>2 DEF Fields
    <3>4. Timely(a, sessions, now)
      BY <3>1, <3>3 DEF Timely
    <3>5. NotOlder(cookie, a)
      BY <3>1, <3>3 DEF NotOlder
    <3> QED
      BY <3>4, <3>5 DEF a
  <2> QED
    BY <1>1, <2>1, <2>2
<1>2. \A d \in Slots : calls'[d] # Free =>
        Timely(calls'[d], sessions', now') /\ NotOlder(cookie', calls'[d])
  BY <1>1
<1> QED
  BY <1>2 DEF UseInv

LEMMA CallTimely ==
  ASSUME SignInInv, UseInv, NEW t \in Tabs, NEW c \in Slots,
         Open(t, c) \/ Submit(t, c) \/ Resend(t, c)
  PROVE  UseInv'
<1>1. UNCHANGED <<now, sessions, cookie>> /\ trail' = [trail EXCEPT !.calls = @ + 1]
  BY DEF Open, Submit, Resend
<1>2. trail'.used = trail.used
  BY <1>1 DEF SignInInv
<1>3. now \in Int /\ DOMAIN calls = Slots /\ cookie.iat \in Int
  <2>1. \A x \in Tokens : x.iat \in Int
    BY DEF Tokens, NoToken
  <2> QED
    BY <2>1, UseFacts DEF SignInInv
<1>4. ASSUME NEW s, NEW form, NEW op, NEW u
      PROVE  /\ Timely(Call(t, s, cookie, form, op, u), sessions, now)
             /\ NotOlder(cookie, Call(t, s, cookie, form, op, u))
  BY <1>3, SentTimely
<1>5. CASE Open(t, c)
  <2>1. PICK k : /\ \A d \in Slots : calls'[d] = IF d = c THEN k
                      ELSE IF calls[d] # Free /\ calls[d].tab = t THEN [calls[d] EXCEPT !.tab = Nobody]
                      ELSE calls[d]
                 /\ Timely(k, sessions, now) /\ NotOlder(cookie, k)
    <3> DEFINE k == Call(t, store'[t], cookie, "home", "me", Nobody)
    <3>1. Timely(k, sessions, now) /\ NotOlder(cookie, k)
      BY <1>4
    <3>2. \A d \in Slots : calls'[d] = IF d = c THEN k
                      ELSE IF calls[d] # Free /\ calls[d].tab = t THEN [calls[d] EXCEPT !.tab = Nobody]
                      ELSE calls[d]
      BY <1>5 DEF Open
    <3> HIDE DEF k
    <3> QED
      BY <3>1, <3>2
  <2> QED
    BY <1>1, <1>2, <2>1, SendTimely
<1>6. CASE Submit(t, c) \/ Resend(t, c)
  <2>1. PICK k : calls' = [calls EXCEPT ![c] = k] /\ Timely(k, sessions, now) /\ NotOlder(cookie, k)
    <3>1. ASSUME NEW s, NEW form, NEW op, NEW u,
                 calls' = [calls EXCEPT ![c] = Call(t, s, cookie, form, op, u)]
          PROVE  \E k : calls' = [calls EXCEPT ![c] = k] /\ Timely(k, sessions, now) /\ NotOlder(cookie, k)
      <4> DEFINE k == Call(t, s, cookie, form, op, u)
      <4>1. calls' = [calls EXCEPT ![c] = k] /\ Timely(k, sessions, now) /\ NotOlder(cookie, k)
        BY <1>4, <3>1
      <4> HIDE DEF k
      <4> QED
        BY <4>1
    <3>2. CASE Submit(t, c)
      <4>1. PICK form : \E op \in OpsOf(form, store[t].user) \cup LogoutOps(store[t].user) :
                        \E u \in (IF op \in Named THEN Users ELSE {Nobody}) :
                          calls' = [calls EXCEPT ![c] = Call(t, store[t], cookie, form, op, u)]
        BY <3>2 DEF Submit
      <4>2. PICK op : \E u \in (IF op \in Named THEN Users ELSE {Nobody}) :
                          calls' = [calls EXCEPT ![c] = Call(t, store[t], cookie, form, op, u)]
        BY <4>1
      <4>3. PICK u : calls' = [calls EXCEPT ![c] = Call(t, store[t], cookie, form, op, u)]
        BY <4>2
      <4> QED
        BY <3>1, <4>3
    <3>3. CASE Resend(t, c)
      <4>1. PICK u : calls' = [calls EXCEPT ![c] = Call(t, store[t], cookie, "password", "login", u)]
        BY <3>3 DEF Resend
      <4> QED
        BY <3>1, <4>1
    <3> QED
      BY <1>6, <3>2, <3>3
  <2>2. \A d \in Slots : calls'[d] = IF d = c THEN k ELSE calls[d]
    BY <1>3, <2>1
  <2> QED
    BY <1>1, <1>2, <2>1, <2>2, SendTimely
<1> QED
  BY <1>5, <1>6

\* The answer comes in: a token it brings is too young to be half used up.
LEMMA DeliverTimely ==
  ASSUME SignInInv, UseInv, NEW c \in Slots, NEW k, Deliver(c, k),
         CallOK(k, sessions), k.at = "answered",
         Timely(k, sessions, now), NotOlder(cookie, k)
  PROVE  UseInv'
<1> DEFINE t == k.tab
           good == k.status \in {"ok", "out", "code_sent"}
           next == IF good THEN NextCall(k) ELSE "none"
           u == IF next \in Named THEN k.user ELSE Nobody
           sent == Call(t, store'[t], cookie', k.form, next, u)
           counts == k.op \in Reads \cup Writes /\ k.status \in {"ok", "403"}
           used == IF counts
                   THEN [s \in DOMAIN trail.used |-> IF s = k.cookie.sid THEN Later(trail.used[s], k.sent)
                                                     ELSE trail.used[s]]
                   ELSE trail.used
<1>1. /\ UNCHANGED <<now, sessions>> /\ cookie' = CookieAfter(k)
      /\ calls' = [calls EXCEPT ![c] = IF next = "none" THEN Free ELSE sent]
      /\ \E crossed : trail' = [trail EXCEPT !.crossed = crossed, !.used = used]
  BY DEF Deliver
<1>2. trail'.used = used
  <2> HIDE DEF used
  <2> QED
    BY <1>1 DEF SignInInv
<1>3. /\ k.sent \in Int /\ k.sent <= now /\ now - k.sent <= Lag /\ now \in Int
      /\ k.set \in Tokens /\ k.cookie \in Tokens /\ Len(sessions) \in Nat
      /\ DOMAIN sessions = 1 .. Len(sessions) /\ DOMAIN calls = Slots
      /\ k.set.sid \in 0 .. Len(sessions) /\ cookie \in Tokens
  BY UseFacts DEF Timely, CallOK, SignInInv
<1>4. \A x \in Tokens : x.iat \in Int /\ (x # NoToken => x.sid # 0)
  BY DEF Tokens, NoToken
<1>5. \/ cookie' = NoToken
      \/ cookie' = k.set /\ k.set # NoToken
      \/ cookie' = cookie /\ k.set = NoToken
  BY <1>1 DEF CookieAfter
<1>6. /\ trail.used \in Seq(Int) /\ Len(trail.used) = Len(sessions)
      /\ \A s \in DOMAIN sessions : trail.used[s] \in Int /\ trail.used[s] <= now
                                    /\ LongEnough(sessions[s], trail.used[s])
  BY UseFacts DEF UseInv
<1>7. ASSUME NEW s \in DOMAIN sessions
      PROVE  used[s] = trail.used[s] \/ (counts /\ s = k.cookie.sid /\ used[s] = k.sent)
  BY <1>3, <1>6, <1>7 DEF Later
<1>8. used \in Seq(Int) /\ Len(used) = Len(sessions)
  <2>1. DOMAIN trail.used = 1 .. Len(sessions)
    BY <1>6
  <2>2. CASE counts
    <3> DEFINE f(s) == IF s = k.cookie.sid THEN Later(trail.used[s], k.sent) ELSE trail.used[s]
    <3>1. used = [s \in 1 .. Len(sessions) |-> f(s)]
      BY <2>1, <2>2
    <3>2. \A s \in 1 .. Len(sessions) : f(s) \in Int
      BY <1>3, <1>6 DEF Later
    <3> HIDE DEF f, used
    <3>3. used \in [1 .. Len(sessions) -> Int]
      BY <3>1, <3>2
    <3> QED
      BY <1>3, <3>3
  <2>3. CASE ~counts
    BY <1>6, <2>3
  <2> QED
    BY <2>2, <2>3
<1> HIDE DEF used
<1>9. ASSUME NEW s \in DOMAIN sessions
      PROVE  used[s] \in Int /\ used[s] <= now /\ LongEnough(sessions[s], used[s])
  <2>1. CASE used[s] = trail.used[s]
    BY <1>6, <2>1
  <2>2. CASE counts /\ s = k.cookie.sid /\ used[s] = k.sent
    BY <1>3, <2>2 DEF Timely
  <2> QED
    BY <1>7, <2>1, <2>2
<1>10. k.set # NoToken =>
         /\ k.set.iat \in Int /\ k.set.sid \in DOMAIN sessions
         /\ now < k.set.iat + RefreshThreshold
  <2> SUFFICES ASSUME k.set # NoToken
               PROVE  /\ k.set.iat \in Int /\ k.set.sid \in DOMAIN sessions
                      /\ now < k.set.iat + RefreshThreshold
    OBVIOUS
  <2>1. k.sent <= k.set.iat
    BY DEF Timely
  <2>2. k.set.iat \in Int /\ k.set.sid # 0
    BY <1>3, <1>4
  <2>3. now < k.set.iat + RefreshThreshold
    <3> DEFINE iat == k.set.iat
               at == k.sent
    <3>1. iat \in Int /\ at \in Int /\ at <= iat /\ now - at <= Lag /\ now \in Int
      BY <1>3, <2>1, <2>2
    <3> HIDE DEF iat, at
    <3>2. now < iat + RefreshThreshold
      BY <3>1, Threshold
    <3> QED
      BY <3>2 DEF iat
  <2> QED
    BY <1>3, <2>2, <2>3
<1>11. cookie' # NoToken => Young(cookie', used[cookie'.sid], sessions[cookie'.sid], now)
  <2>1. CASE cookie' = k.set /\ k.set # NoToken
    <3>1. used[k.set.sid] \in Int /\ used[k.set.sid] <= now
      BY <1>9, <1>10, <2>1
    <3> QED
      BY <1>3, <1>10, <2>1, <3>1, Threshold DEF Young
  <2>2. CASE cookie' = cookie /\ k.set = NoToken /\ cookie # NoToken
    <3>1. cookie.sid \in DOMAIN sessions /\ cookie.iat \in Int
          /\ Young(cookie, trail.used[cookie.sid], sessions[cookie.sid], now)
      BY <2>2, UseFacts DEF UseInv
    <3>2. CASE used[cookie.sid] = trail.used[cookie.sid]
      BY <2>2, <3>1, <3>2
    <3>3. CASE counts /\ cookie.sid = k.cookie.sid /\ used[cookie.sid] = k.sent
      <4>1. Young(k.cookie, k.sent, sessions[cookie.sid], now)
        BY <2>2, <3>3 DEF Timely
      <4>2. k.cookie.iat <= cookie.iat \/ k.sent < cookie.iat + RefreshThreshold
        BY <2>2, <3>3 DEF NotOlder
      <4>3. k.cookie.iat \in Int /\ cookie.iat \in Int /\ k.sent \in Int
        BY <1>3, <1>4
      <4>4. k.sent < k.cookie.iat + RefreshThreshold \/ AbsoluteEnd(sessions[cookie.sid]) <= now
        BY <4>1 DEF Young
      <4>5. ASSUME NEW a \in Int, NEW b \in Int, NEW x \in Int,
                   x < a + RefreshThreshold, a <= b \/ x < b + RefreshThreshold
            PROVE  x < b + RefreshThreshold
        BY <4>5, Threshold
      <4>6. k.sent < cookie.iat + RefreshThreshold \/ AbsoluteEnd(sessions[cookie.sid]) <= now
        BY <4>2, <4>3, <4>4, <4>5
      <4> QED
        BY <2>2, <3>3, <4>6 DEF Young
    <3> QED
      BY <1>7, <3>1, <3>2, <3>3
  <2> QED
    BY <1>5, <2>1, <2>2
<1>12. ASSUME NEW d \in Slots, calls[d] # Free
       PROVE  NotOlder(cookie', calls[d])
  <2>1. NotOlder(cookie, calls[d]) /\ calls[d].sent \in Int /\ calls[d].sent <= now
    BY <1>12, UseFacts DEF Timely
  <2>2. CASE cookie' = k.set /\ k.set # NoToken
    <3> DEFINE iat == k.set.iat
               at == calls[d].sent
    <3>1. iat \in Int /\ at \in Int /\ at <= now /\ now \in Int /\ now < iat + RefreshThreshold
      BY <1>3, <1>10, <2>1, <2>2
    <3> HIDE DEF iat, at
    <3>2. at < iat + RefreshThreshold
      BY <3>1, Threshold
    <3> QED
      BY <2>2, <3>2 DEF iat, at, NotOlder
  <2> QED
    BY <1>5, <2>1, <2>2 DEF NotOlder
<1>13. next # "none" => Timely(sent, sessions, now) /\ NotOlder(cookie', sent)
  <2>1. cookie'.iat \in Int
    BY <1>3, <1>4, <1>5 DEF NoToken
  <2> HIDE DEF next, u
  <2> QED
    BY <1>3, <2>1, SentTimely
<1> HIDE DEF next, sent
<1>14. \A d \in Slots : calls'[d] # Free =>
         Timely(calls'[d], sessions', now') /\ NotOlder(cookie', calls'[d])
  <2>1. \A d \in Slots : calls'[d] = IF d = c THEN IF next = "none" THEN Free ELSE sent ELSE calls[d]
    BY <1>1, <1>3
  <2> QED
    BY <1>1, <1>12, <1>13, <2>1, UseFacts
<1> QED
  BY <1>1, <1>2, <1>8, <1>9, <1>11, <1>14 DEF UseInv

LEMMA AnswerTimely ==
  ASSUME SignInInv, UseInv, NEW c \in Slots, Arrive(c) \/ Lose(c) \/ GivenUp(c)
  PROVE  UseInv'
<1>1. CASE Arrive(c)
  <2>1. calls[c] # Free /\ calls[c].at = "answered" /\ Deliver(c, calls[c])
    BY <1>1 DEF Arrive, At
  <2> QED
    BY <2>1, UseFacts, DeliverTimely
<1>2. CASE Lose(c)
  <2> DEFINE call == calls[c]
             k == [call EXCEPT !.status = "lost", !.set = NoToken, !.who = Nobody]
  <2>1. call # Free /\ call.at = "answered" /\ Deliver(c, k)
    BY <1>2 DEF Lose, At
  <2>2. /\ CallOK(call, sessions) /\ Timely(call, sessions, now) /\ NotOlder(cookie, call)
        /\ DOMAIN call = Fields /\ Len(sessions) \in Nat
    BY <2>1, UseFacts, InvFacts
  <2> HIDE DEF k, call
  <2>3. /\ Alike(k, call) /\ k.at = call.at
        /\ k.set = NoToken /\ k.status = "lost" /\ k.who = Nobody
    BY <2>2, LostAlike DEF k
  <2>4. k.sent = call.sent
    BY <2>2 DEF k, Fields
  <2>5. NoToken \in Tokens /\ NoToken.sid \in 0 .. Len(sessions)
    BY <2>2 DEF NoToken, Tokens
  <2>6. CallOK(k, sessions)
    BY <2>1, <2>2, <2>3, <2>5 DEF CallOK, Alike
  <2>7. Timely(k, sessions, now) /\ NotOlder(cookie, k)
    BY <2>1, <2>2, <2>3, <2>4 DEF Timely, NotOlder, Alike
  <2> QED
    BY <2>1, <2>3, <2>6, <2>7, DeliverTimely
<1>3. CASE GivenUp(c)
  <2>1. /\ UNCHANGED <<now, sessions, cookie, trail>>
        /\ \A d \in Slots : calls'[d] = IF d = c THEN Free ELSE calls[d]
    BY <1>3, UseFacts DEF GivenUp
  <2> QED
    BY <2>1, SendTimely
<1> QED
  BY <1>1, <1>2, <1>3

\* The clock waits for a call that has taken as long as a call takes.
LEMMA TickTimely ==
  ASSUME SignInInv, UseInv, Tick
  PROVE  UseInv'
<1>1. /\ now' = now + 1 /\ UNCHANGED <<sessions, cookie, calls, trail>>
      /\ \A c \in Slots : calls[c] # Free => now - calls[c].sent < Lag
  BY DEF Tick
<1>2. now \in Int /\ now' \in Int
  BY <1>1, UseFacts
<1>3. \A s \in DOMAIN sessions : AbsoluteEnd(sessions[s]) \in Int
  BY UseFacts
<1>4. \A s \in DOMAIN sessions : \A token, use :
        Young(token, use, sessions[s], now) => Young(token, use, sessions[s], now')
  BY <1>1, <1>2, <1>3 DEF Young
<1>5. ASSUME NEW c \in Slots, calls[c] # Free
      PROVE  Timely(calls[c], sessions, now')
  <2> DEFINE k == calls[c]
  <2>1. /\ Timely(k, sessions, now) /\ now - k.sent < Lag /\ CallOK(k, sessions)
        /\ k.cookie.sid # 0 => k.cookie.sid \in DOMAIN sessions
    BY <1>1, <1>5, UseFacts
  <2> HIDE DEF k
  <2>2. k.sent <= now' /\ now' - k.sent <= Lag
    BY <1>1, <1>2, <2>1, Threshold DEF Timely
  <2>3. Timely(k, sessions, now')
    BY <1>4, <2>1, <2>2 DEF Timely
  <2> QED
    BY <2>3 DEF k
<1>6. \A s \in DOMAIN sessions : trail.used[s] \in Int /\ trail.used[s] <= now => trail.used[s] <= now'
  BY <1>1, <1>2
<1>7. cookie # NoToken => Young(cookie, trail.used[cookie.sid], sessions[cookie.sid], now')
  BY <1>4, UseFacts DEF UseInv
<1> QED
  BY <1>1, <1>5, <1>6, <1>7, UseFacts DEF UseInv

LEMMA UseInit == Init => UseInv
<1> SUFFICES ASSUME Init PROVE UseInv
  OBVIOUS
<1>1. sessions = <<>> /\ trail.used = <<>> /\ cookie = NoToken /\ \A c \in Slots : calls[c] = Free
  BY DEF Init
<1>2. DOMAIN sessions = {} /\ trail.used \in Seq(Int) /\ Len(trail.used) = Len(sessions)
  BY <1>1
<1> QED
  BY <1>1, <1>2 DEF UseInv

LEMMA UseStep == SignInInv /\ UseInv /\ [Next]_vars => UseInv'
<1> SUFFICES ASSUME SignInInv, UseInv, [Next]_vars PROVE UseInv'
  OBVIOUS
<1>1. CASE Tick
  BY <1>1, TickTimely
<1>2. ASSUME NEW t \in Tabs, NEW c \in Slots, Open(t, c) \/ Submit(t, c) \/ Resend(t, c)
      PROVE  UseInv'
  BY <1>2, CallTimely
<1>3. ASSUME NEW c \in Slots, Lookup(c) \/ Handle(c) \/ HandleNamed(c)
      PROVE  UseInv'
  BY <1>3, LookupTimely, HandleTimely, HandleNamedTimely
<1>4. ASSUME NEW c \in Slots, Arrive(c) \/ Lose(c) \/ GivenUp(c)
      PROVE  UseInv'
  BY <1>4, AnswerTimely
<1>5. CASE UNCHANGED vars
  BY <1>5 DEF vars, UseInv
<1> QED
  BY <1>1, <1>2, <1>3, <1>4, <1>5 DEF Next

\* Young token and long row together: neither ends within half a window of the last use.
LEMMA UseImplies ==
  ASSUME SignInInv, UseInv
  PROVE  ActiveUserStaysSignedIn
<1> DEFINE row == sessions[cookie.sid]
           use == trail.used[cookie.sid]
<1> SUFFICES ASSUME cookie # NoToken, ~row.revoked, now < AbsoluteEnd(row),
                    now - use <= IdleTimeout \div 2
             PROVE  Verified(cookie)
  BY DEF ActiveUserStaysSignedIn
<1>1. /\ cookie.sid \in DOMAIN sessions /\ cookie.iat \in Int /\ now \in Int
      /\ use \in Int /\ row.expires \in Int /\ AbsoluteEnd(row) \in Int
      /\ LongEnough(row, use) /\ Young(cookie, use, row, now)
  BY UseFacts DEF UseInv
<1> HIDE DEF row, use
<1>2. now - use <= RefreshThreshold
  BY DEF RefreshThreshold
<1>3. now < row.expires
  BY <1>1, <1>2, Threshold DEF LongEnough
<1>4. now < cookie.iat + IdleTimeout
  BY <1>1, <1>2, Threshold DEF Young
<1>5. now < TokenEnd(cookie)
  BY <1>1, <1>4 DEF TokenEnd, Earlier, row
<1> QED
  BY <1>3, <1>5 DEF Verified, LiveRow, row

\* Whoever uses the site at least every half idle window stays signed in until the
\* absolute end of the session: with any timeouts, users, tabs and number of calls
\* in flight, if no call takes half an idle window, in whatever order rows are
\* written back and answers arrive (issueRefreshedSessionToken, verifySessionToken).
THEOREM ActiveUsersStaySignedIn == Spec => []ActiveUserStaysSignedIn
<1>1. SignInInv /\ UseInv => ActiveUserStaysSignedIn
  BY UseImplies
<1>2. Init => SignInInv /\ UseInv
  BY InitOK, UseInit
<1>3. SignInInv /\ UseInv /\ [Next]_vars => SignInInv' /\ UseInv'
  BY StepOK, UseStep
<1> QED
  BY <1>1, <1>2, <1>3, PTL DEF Spec
=============================================================================
