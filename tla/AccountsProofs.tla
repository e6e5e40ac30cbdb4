--------------------------- MODULE AccountsProofs ---------------------------
(***************************************************************************)
(* Theorems about Accounts.tla, for every set of concurrent requests, any  *)
(* number of requests and codes, and every limit of attempts.              *)
(***************************************************************************)
EXTENDS Accounts, FiniteSetTheorems, SequenceTheorems, TLAPS

StepNames ==
  {"savePending", "writePending", "findUser", "addUser", "removePending",
   "readFailures", "writeFailures", "resetFailures", "saveOtp", "readOtp",
   "writeOtp", "removeOtp", "addSession", "writeUser", "saveToken", "readUser",
   "readToken", "writeToken", "removeToken", "revokeAll", "addStaff"}

\* A row of users, stored or in flight.
UserOK(row) ==
  /\ DOMAIN row = {"kind", "password", "mustChange", "active"}
  /\ row.kind \in Kinds
  /\ row.password = Temporary => row.mustChange

\* A row of pending_registrations: code and password were submitted together.
PendingOK(row, t) ==
  /\ DOMAIN row = {"kind", "code", "attempts", "fresh", "password"}
  /\ row.kind = "code"
  /\ row.password \in Chosen
  /\ <<row.code, row.password>> \in t.submitted

\* A login attempt record counts failures that happened.
RecordOK(rec, t) ==
  /\ rec.count \in Nat
  /\ rec.count <= t.failed
  /\ rec.locked => t.failed >= MAX_FAILED_LOGIN_ATTEMPTS

\* What a request that still has the step s to do must hold.
StepOK(j, s, t) ==
  /\ s = "savePending" => "password" \in DOMAIN j /\ j.password \in Chosen
  /\ s = "writePending" => "pending" \in DOMAIN j /\ PendingOK(j.pending, t)
  /\ s = "addUser" => /\ "pending" \in DOMAIN j /\ PendingOK(j.pending, t)
                      /\ "code" \in DOMAIN j /\ j.code = j.pending.code
  /\ s \in {"writeUser", "readOtp", "readToken"} => "row" \in DOMAIN j /\ UserOK(j.row)
  /\ s \in {"readUser", "readToken"} => "new" \in DOMAIN j /\ j.new \in Chosen
  /\ s = "writeFailures" => "record" \in DOMAIN j /\ RecordOK(j.record, t)

JobOK(j, t) ==
  /\ "todo" \in DOMAIN j
  /\ j.todo \in Seq(StepNames)
  /\ \A k \in 1 .. Len(j.todo) : StepOK(j, j.todo[k], t)

(***************************************************************************)
(* The inductive invariant: what the properties say of the tables holds of *)
(* every row a request has read and will write back.                       *)
(***************************************************************************)
AccountsInv ==
  /\ DOMAIN job = Requests
  /\ \A r \in Requests : JobOK(job[r], trail)
  /\ user = NoRow \/ UserOK(user)
  /\ pending = NoRow \/ PendingOK(pending, trail)
  /\ RecordOK(failures, trail)
  /\ DOMAIN trail = {"started", "sent", "failed", "submitted", "made"}
  /\ trail.failed \in Nat
  /\ trail.made \subseteq trail.submitted
  /\ trail.made = {} \/ \E x : trail.made = {x}
  /\ user = NoRow => trail.made = {}

-----------------------------------------------------------------------------
(***************************************************************************)
(* Jobs.                                                                   *)
(***************************************************************************)
LEMMA Todo0 ==
  ASSUME NEW t PROVE JobOK(Idle, t)
BY DEF JobOK, Idle

LEMMA Todo1 ==
  ASSUME NEW j, NEW t, NEW a \in StepNames, "todo" \in DOMAIN j, j.todo = <<a>>,
         StepOK(j, a, t)
  PROVE  JobOK(j, t)
<1>1. j.todo \in Seq(StepNames) /\ Len(j.todo) = 1 /\ j.todo[1] = a
  OBVIOUS
<1> QED
  BY <1>1 DEF JobOK

LEMMA Todo2 ==
  ASSUME NEW j, NEW t, NEW a \in StepNames, NEW b \in StepNames,
         "todo" \in DOMAIN j, j.todo = <<a, b>>, StepOK(j, a, t), StepOK(j, b, t)
  PROVE  JobOK(j, t)
<1>1. /\ j.todo \in Seq(StepNames) /\ Len(j.todo) = 2
      /\ j.todo[1] = a /\ j.todo[2] = b
  OBVIOUS
<1> QED
  BY <1>1 DEF JobOK

LEMMA Todo3 ==
  ASSUME NEW j, NEW t, NEW a \in StepNames, NEW b \in StepNames, NEW c \in StepNames,
         "todo" \in DOMAIN j, j.todo = <<a, b, c>>,
         StepOK(j, a, t), StepOK(j, b, t), StepOK(j, c, t)
  PROVE  JobOK(j, t)
<1>1. /\ j.todo \in Seq(StepNames) /\ Len(j.todo) = 3
      /\ j.todo[1] = a /\ j.todo[2] = b /\ j.todo[3] = c
  OBVIOUS
<1> QED
  BY <1>1 DEF JobOK

LEMMA Todo4 ==
  ASSUME NEW j, NEW t, NEW a \in StepNames, NEW b \in StepNames, NEW c \in StepNames,
         NEW d \in StepNames, "todo" \in DOMAIN j, j.todo = <<a, b, c, d>>,
         StepOK(j, a, t), StepOK(j, b, t), StepOK(j, c, t), StepOK(j, d, t)
  PROVE  JobOK(j, t)
<1>1. /\ j.todo \in Seq(StepNames) /\ Len(j.todo) = 4
      /\ j.todo[1] = a /\ j.todo[2] = b /\ j.todo[3] = c /\ j.todo[4] = d
  OBVIOUS
<1> QED
  BY <1>1 DEF JobOK

\* A step done leaves the others as they were.
LEMMA StepDoneOK ==
  ASSUME NEW j, NEW t, JobOK(j, t), j.todo # <<>>
  PROVE  JobOK(StepDone(j), t)
<1>1. CASE Len(j.todo) = 1
  BY <1>1, Todo0 DEF StepDone
<1>2. CASE Len(j.todo) # 1
  <2> DEFINE k == [j EXCEPT !.todo = Tail(@)]
  <2>1. /\ DOMAIN k = DOMAIN j /\ k.todo = Tail(j.todo)
        /\ \A f \in DOMAIN j : f # "todo" => k[f] = j[f]
    BY DEF JobOK
  <2>2. /\ k.todo \in Seq(StepNames)
        /\ Len(k.todo) = Len(j.todo) - 1
        /\ \A n \in 1 .. Len(k.todo) : n + 1 \in 1 .. Len(j.todo) /\ k.todo[n] = j.todo[n + 1]
    BY <2>1 DEF JobOK
  <2>3. ASSUME NEW s, StepOK(j, s, t) PROVE StepOK(k, s, t)
    <3>1. /\ "password" \in DOMAIN j => k.password = j.password
          /\ "pending" \in DOMAIN j => k.pending = j.pending
          /\ "code" \in DOMAIN j => k.code = j.code
          /\ "row" \in DOMAIN j => k.row = j.row
          /\ "new" \in DOMAIN j => k.new = j.new
          /\ "record" \in DOMAIN j => k.record = j.record
      BY <2>1
    <3> HIDE DEF k
    <3> QED
      BY <2>1, <2>3, <3>1 DEF StepOK
  <2> HIDE DEF k
  <2>4. JobOK(k, t)
    BY <2>1, <2>2, <2>3 DEF JobOK
  <2> QED
    BY <1>2, <2>4 DEF k, StepDone
<1> QED
  BY <1>1, <1>2

\* The step in hand.
LEMMA InHand ==
  ASSUME NEW r \in Requests, NEW s, AccountsInv, Doing(r, s)
  PROVE  StepOK(job[r], s, trail) /\ job[r].todo # <<>>
<1>1. /\ job[r].todo \in Seq(StepNames) /\ job[r].todo # <<>> /\ s = Head(job[r].todo)
      /\ \A k \in 1 .. Len(job[r].todo) : StepOK(job[r], job[r].todo[k], trail)
  BY DEF AccountsInv, JobOK, Doing
<1>2. s = job[r].todo[1] /\ 1 \in 1 .. Len(job[r].todo)
  BY <1>1
<1> QED
  BY <1>1, <1>2

\* History only grows.
Grown(t, u) ==
  /\ t.submitted \subseteq u.submitted
  /\ t.failed \in Nat /\ u.failed \in Nat /\ t.failed <= u.failed

LEMMA StillOK ==
  ASSUME NEW t, NEW u, Grown(t, u)
  PROVE  /\ \A row : PendingOK(row, t) => PendingOK(row, u)
         /\ \A rec : RecordOK(rec, t) => RecordOK(rec, u)
         /\ \A j : JobOK(j, t) => JobOK(j, u)
<1>1. \A row : PendingOK(row, t) => PendingOK(row, u)
  BY DEF PendingOK, Grown
<1>2. \A rec : RecordOK(rec, t) => RecordOK(rec, u)
  BY AccountsAssumption DEF RecordOK, Grown
<1>3. \A j, s : StepOK(j, s, t) => StepOK(j, s, u)
  BY <1>1, <1>2 DEF StepOK
<1> QED
  BY <1>1, <1>2, <1>3 DEF JobOK

\* The requests after r was given the job j.
LEMMA JobsOK ==
  ASSUME AccountsInv, NEW r \in Requests, NEW j, job' = [job EXCEPT ![r] = j],
         Grown(trail, trail'), JobOK(j, trail')
  PROVE  DOMAIN job' = Requests /\ \A q \in Requests : JobOK(job'[q], trail')
<1>1. /\ DOMAIN job' = Requests /\ job'[r] = j
      /\ \A q \in Requests : q # r => job'[q] = job[q]
  BY DEF AccountsInv
<1>2. \A q \in Requests : JobOK(job[q], trail')
  BY StillOK DEF AccountsInv
<1> QED
  BY <1>1, <1>2

LEMMA NextJobs ==
  ASSUME AccountsInv, NEW r \in Requests, job[r].todo # <<>>, Next1(r),
         Grown(trail, trail')
  PROVE  DOMAIN job' = Requests /\ \A q \in Requests : JobOK(job'[q], trail')
<1>1. JobOK(StepDone(job[r]), trail')
  BY StillOK, StepDoneOK DEF AccountsInv
<1> QED
  BY <1>1, JobsOK DEF Next1, Become

LEMMA SameTrail ==
  ASSUME AccountsInv PROVE trail' = trail => Grown(trail, trail')
BY DEF Grown, AccountsInv

\* A request that starts reads and leaves the tables alone.
LEMMA Started ==
  ASSUME AccountsInv, NEW r \in Requests, NEW j, Begin(r, j), JobOK(j, trail)
  PROVE  AccountsInv'
<1>1. /\ trail' = [trail EXCEPT !.started = @ + 1]
      /\ job' = [job EXCEPT ![r] = j]
      /\ user' = user /\ pending' = pending /\ failures' = failures
  BY DEF Begin, tables
<1>2. /\ DOMAIN trail' = DOMAIN trail
      /\ trail'.failed = trail.failed /\ trail'.submitted = trail.submitted
      /\ trail'.made = trail.made
  BY <1>1 DEF AccountsInv
<1>3. Grown(trail, trail')
  BY <1>2 DEF Grown, AccountsInv
<1>4. DOMAIN job' = Requests /\ \A q \in Requests : JobOK(job'[q], trail')
  BY <1>1, <1>3, JobsOK, StillOK
<1> QED
  BY <1>1, <1>2, <1>3, <1>4, StillOK DEF AccountsInv

\* A step of a request that changes none of the rows the invariant speaks of.
LEMMA QuietStep ==
  ASSUME AccountsInv, NEW r \in Requests,
         \/ job[r].todo # <<>> /\ Next1(r)
         \/ \E j : Become(r, j) /\ JobOK(j, trail),
         user' = user, pending' = pending \/ pending' = NoRow,
         failures' = failures, trail' = trail
  PROVE  AccountsInv'
<1>1. Grown(trail, trail')
  BY SameTrail
<1>2. DOMAIN job' = Requests /\ \A q \in Requests : JobOK(job'[q], trail')
  BY <1>1, NextJobs, JobsOK DEF Become
<1> QED
  BY <1>2 DEF AccountsInv

-----------------------------------------------------------------------------
(***************************************************************************)
(* Rows.                                                                   *)
(***************************************************************************)
LEMMA AccountOK ==
  ASSUME NEW kind \in Kinds, NEW p
  PROVE  UserOK(Account(kind, p)) /\ Account(kind, p).password = p
BY DEF UserOK, Account

LEMMA RealRow ==
  ASSUME NEW row, UserOK(row)
  PROVE  row # NoRow
BY DEF UserOK, NoRow, Kinds

LEMMA WithPasswordOK ==
  ASSUME NEW row, UserOK(row), NEW p \in Chosen
  PROVE  UserOK(WithPassword(row, p))
<1>1. p # Temporary
  BY DEF Chosen, Temporary
<1> DEFINE w == WithPassword(row, p)
<1>2. /\ DOMAIN w = {"kind", "password", "mustChange", "active"}
      /\ w.kind = row.kind /\ w.password = p
  BY DEF WithPassword, UserOK
<1> HIDE DEF w
<1>3. UserOK(w)
  BY <1>1, <1>2 DEF UserOK
<1> QED
  BY <1>3 DEF w

LEMMA WithActiveOK ==
  ASSUME NEW row, UserOK(row), NEW active
  PROVE  UserOK([row EXCEPT !.active = active])
<1> DEFINE w == [row EXCEPT !.active = active]
<1>1. /\ DOMAIN w = {"kind", "password", "mustChange", "active"}
      /\ w.kind = row.kind /\ w.password = row.password
      /\ w.mustChange = row.mustChange
  BY DEF UserOK
<1> HIDE DEF w
<1>2. UserOK(w)
  BY <1>1 DEF UserOK
<1> QED
  BY <1>2 DEF w

LEMMA CountedOK ==
  ASSUME NEW row, NEW t, PendingOK(row, t)
  PROVE  PendingOK(Counted(row), t) /\ PendingOK([row EXCEPT !.fresh = FALSE], t)
<1>1. PendingOK(Counted(row), t)
  <2> DEFINE w == Counted(row)
  <2>1. /\ DOMAIN w = {"kind", "code", "attempts", "fresh", "password"}
        /\ w.kind = row.kind /\ w.password = row.password /\ w.code = row.code
    BY DEF PendingOK, Counted
  <2> HIDE DEF w
  <2>2. PendingOK(w, t)
    BY <2>1 DEF PendingOK
  <2> QED
    BY <2>2 DEF w
<1>2. PendingOK([row EXCEPT !.fresh = FALSE], t)
  <2> DEFINE w == [row EXCEPT !.fresh = FALSE]
  <2>1. /\ DOMAIN w = {"kind", "code", "attempts", "fresh", "password"}
        /\ w.kind = row.kind /\ w.password = row.password /\ w.code = row.code
    BY DEF PendingOK
  <2> HIDE DEF w
  <2>2. PendingOK(w, t)
    BY <2>1 DEF PendingOK
  <2> QED
    BY <2>2 DEF w
<1> QED
  BY <1>1, <1>2

-----------------------------------------------------------------------------
(***************************************************************************)
(* Requests that start.                                                    *)
(***************************************************************************)
LEMMA SmallJobs ==
  ASSUME NEW t
  PROVE  /\ JobOK(Fail, t)
         /\ \A s \in {"removePending", "saveOtp", "removeOtp", "saveToken", "removeToken",
                      "addStaff"} : JobOK(Todo(<<s>>), t)
<1>1. JobOK(Fail, t)
  <2>1. "todo" \in DOMAIN Fail /\ Fail.todo = <<"readFailures">>
    BY DEF Fail, Todo
  <2>2. StepOK(Fail, "readFailures", t)
    BY DEF StepOK
  <2> QED
    BY <2>1, <2>2, Todo1 DEF StepNames
<1>2. ASSUME NEW s \in {"removePending", "saveOtp", "removeOtp", "saveToken",
                        "removeToken", "addStaff"}
      PROVE  JobOK(Todo(<<s>>), t)
  <2>1. "todo" \in DOMAIN Todo(<<s>>) /\ Todo(<<s>>).todo = <<s>>
    BY DEF Todo
  <2>2. StepOK(Todo(<<s>>), s, t)
    BY DEF StepOK
  <2> QED
    BY <2>1, <2>2, Todo1 DEF StepNames
<1> QED
  BY <1>1, <1>2

LEMMA WriteJobs ==
  ASSUME NEW row, UserOK(row), NEW t
  PROVE  /\ JobOK(Write(row), t)
         /\ JobOK([todo |-> <<"writeUser", "removeToken">>, row |-> row], t)
         /\ JobOK([todo |-> <<"resetFailures", "writeUser">>, row |-> row], t)
         /\ JobOK(SignedIn(row), t)
<1>1. JobOK(Write(row), t)
  <2> DEFINE j == Write(row)
  <2>1. "todo" \in DOMAIN j /\ j.todo = <<"writeUser">> /\ "row" \in DOMAIN j /\ j.row = row
    BY DEF Write
  <2> HIDE DEF j
  <2>2. StepOK(j, "writeUser", t)
    BY <2>1 DEF StepOK
  <2>3. JobOK(j, t)
    BY <2>1, <2>2, Todo1 DEF StepNames
  <2> QED
    BY <2>3 DEF j
<1>2. JobOK([todo |-> <<"writeUser", "removeToken">>, row |-> row], t)
  <2> DEFINE j == [todo |-> <<"writeUser", "removeToken">>, row |-> row]
  <2>1. /\ "todo" \in DOMAIN j /\ j.todo = <<"writeUser", "removeToken">>
        /\ "row" \in DOMAIN j /\ j.row = row
    OBVIOUS
  <2> HIDE DEF j
  <2>2. StepOK(j, "writeUser", t) /\ StepOK(j, "removeToken", t)
    BY <2>1 DEF StepOK
  <2>3. JobOK(j, t)
    BY <2>1, <2>2, Todo2 DEF StepNames
  <2> QED
    BY <2>3 DEF j
<1>3. JobOK([todo |-> <<"resetFailures", "writeUser">>, row |-> row], t)
  <2> DEFINE j == [todo |-> <<"resetFailures", "writeUser">>, row |-> row]
  <2>1. /\ "todo" \in DOMAIN j /\ j.todo = <<"resetFailures", "writeUser">>
        /\ "row" \in DOMAIN j /\ j.row = row
    OBVIOUS
  <2> HIDE DEF j
  <2>2. StepOK(j, "resetFailures", t) /\ StepOK(j, "writeUser", t)
    BY <2>1 DEF StepOK
  <2>3. JobOK(j, t)
    BY <2>1, <2>2, Todo2 DEF StepNames
  <2> QED
    BY <2>3 DEF j
<1>4. JobOK(SignedIn(row), t)
  <2> DEFINE j == SignedIn(row)
             last == IF row.kind = "admin" THEN "saveOtp" ELSE "addSession"
  <2>1. /\ "todo" \in DOMAIN j /\ j.todo = <<"resetFailures", "writeUser", last>>
        /\ "row" \in DOMAIN j /\ j.row = row /\ last \in {"saveOtp", "addSession"}
    BY DEF SignedIn
  <2> HIDE DEF j, last
  <2>2. StepOK(j, "resetFailures", t) /\ StepOK(j, "writeUser", t) /\ StepOK(j, last, t)
    BY <2>1 DEF StepOK
  <2>3. "resetFailures" \in StepNames /\ "writeUser" \in StepNames /\ last \in StepNames
    BY <2>1 DEF StepNames
  <2>4. JobOK(j, t)
    BY <2>1, <2>2, <2>3, Todo3
  <2> QED
    BY <2>4 DEF j
<1> QED
  BY <1>1, <1>2, <1>3, <1>4

\* What a request does with a code row it has read, whatever the code.
LEMMA AfterTokenOK ==
  ASSUME NEW verdict, NEW matched, NEW t, JobOK(matched, t),
         verdict \in {"missing", "expired", "last_mismatch", "mismatch", "match"}
  PROVE  JobOK(AfterToken(verdict, matched), t)
<1>1. CASE verdict = "missing"
  BY <1>1, Todo0 DEF AfterToken
<1>2. CASE verdict \in {"expired", "last_mismatch"}
  <2>1. AfterToken(verdict, matched) = Todo(<<"removeToken">>)
    BY <1>2 DEF AfterToken
  <2> QED
    BY <2>1, SmallJobs
<1>3. CASE verdict = "mismatch"
  <2> DEFINE j == [todo |-> <<"writeToken">>, token |-> Counted(token)]
  <2>1. AfterToken(verdict, matched) = j
    BY <1>3 DEF AfterToken
  <2>2. "todo" \in DOMAIN j /\ j.todo = <<"writeToken">>
    OBVIOUS
  <2> HIDE DEF j
  <2>3. StepOK(j, "writeToken", t)
    BY DEF StepOK
  <2>4. JobOK(j, t)
    BY <2>2, <2>3, Todo1 DEF StepNames
  <2> QED
    BY <2>1, <2>4
<1>4. CASE verdict = "match"
  BY <1>4 DEF AfterToken
<1> QED
  BY <1>1, <1>2, <1>3, <1>4

LEMMA Verdicts ==
  ASSUME NEW row, NEW code, NEW max
  PROVE  /\ Verdict(row, code, max) \in {"missing", "expired", "exhausted",
                                         "last_mismatch", "mismatch", "match"}
         /\ PasswordVerdict(row, code) \in {"missing", "expired", "last_mismatch",
                                            "mismatch", "match"}
<1>1. \A m : Verdict(row, code, m) \in {"missing", "expired", "exhausted",
                                        "last_mismatch", "mismatch", "match"}
  BY DEF Verdict
<1> QED
  BY <1>1 DEF PasswordVerdict

LEMMA VerifiedCode ==
  ASSUME NEW row, NEW code, NEW max, NEW t, PendingOK(row, t),
         Verdict(row, code, max) = "match"
  PROVE  row.code = code
BY DEF Verdict, PendingOK, NoRow

LEMMA StartKeeps ==
  ASSUME AccountsInv, NEW r \in Requests, Start(r)
  PROVE  AccountsInv'
<1>0. /\ user # NoRow => UserOK(user)
      /\ pending # NoRow => PendingOK(pending, trail)
  BY DEF AccountsInv
<1>1. ASSUME NEW p \in Chosen, BeginRegistration(r, p) PROVE AccountsInv'
  <2> DEFINE j == [todo |-> <<"savePending">>, password |-> p]
  <2>1. "todo" \in DOMAIN j /\ j.todo = <<"savePending">> /\ "password" \in DOMAIN j /\ j.password = p
    OBVIOUS
  <2>2. Begin(r, j)
    BY <1>1 DEF BeginRegistration
  <2> HIDE DEF j
  <2>3. StepOK(j, "savePending", trail)
    BY <2>1 DEF StepOK
  <2>4. JobOK(j, trail)
    BY <2>1, <2>3, Todo1 DEF StepNames
  <2> QED
    BY <2>2, <2>4, Started
<1>2. ASSUME NEW c \in Codes, VerifyRegistration(r, c) PROVE AccountsInv'
  <2> DEFINE v == Verdict(pending, c, MAX_OTP_ATTEMPTS)
             wrong == [todo |-> <<"writePending">>, pending |-> Counted(pending)]
             right == [todo |-> <<"findUser", "addUser", "removePending">>,
                       pending |-> pending, code |-> c]
  <2>1. PendingOK(pending, trail)
    BY <1>0, <1>2 DEF VerifyRegistration
  <2>2. JobOK(wrong, trail)
    <3>1. /\ "todo" \in DOMAIN wrong /\ wrong.todo = <<"writePending">>
          /\ "pending" \in DOMAIN wrong /\ wrong.pending = Counted(pending)
      OBVIOUS
    <3> HIDE DEF wrong
    <3>2. StepOK(wrong, "writePending", trail)
      BY <2>1, <3>1, CountedOK DEF StepOK
    <3> QED
      BY <3>1, <3>2, Todo1 DEF StepNames
  <2>3. CASE v = "match"
    <3>1. pending.code = c
      BY <2>1, <2>3, VerifiedCode
    <3>2. /\ "todo" \in DOMAIN right
          /\ right.todo = <<"findUser", "addUser", "removePending">>
          /\ "pending" \in DOMAIN right /\ right.pending = pending
          /\ "code" \in DOMAIN right /\ right.code = c
      OBVIOUS
    <3>3. Begin(r, right)
      BY <1>2, <2>3 DEF VerifyRegistration
    <3> HIDE DEF right
    <3>4. /\ StepOK(right, "findUser", trail) /\ StepOK(right, "addUser", trail)
          /\ StepOK(right, "removePending", trail)
      BY <2>1, <3>1, <3>2 DEF StepOK
    <3>5. JobOK(right, trail)
      <4>1. {"findUser", "addUser", "removePending"} \subseteq StepNames
        BY DEF StepNames
      <4> QED
        BY <3>2, <3>4, <4>1, Todo3
    <3> QED
      BY <3>3, <3>5, Started
  <2>4. CASE v = "mismatch"
    <3>1. Begin(r, wrong)
      BY <1>2, <2>4 DEF VerifyRegistration
    <3> QED
      BY <2>2, <3>1, Started
  <2>5. CASE v \notin {"match", "mismatch"}
    <3>1. Begin(r, Todo(<<"removePending">>))
      BY <1>2, <2>5 DEF VerifyRegistration
    <3> QED
      BY <3>1, SmallJobs, Started
  <2> QED
    BY <2>3, <2>4, <2>5
<1>3. ASSUME NEW c \in Codes, VerifyLoginOtp(r, c) PROVE AccountsInv'
  <2> DEFINE j == [todo |-> <<"readOtp">>, row |-> user, code |-> c]
  <2>1. "todo" \in DOMAIN j /\ j.todo = <<"readOtp">> /\ "row" \in DOMAIN j /\ j.row = user
    OBVIOUS
  <2>2. Begin(r, Fail) \/ (Active /\ Begin(r, j))
    BY <1>3 DEF VerifyLoginOtp
  <2> HIDE DEF j
  <2>3. Active => JobOK(j, trail)
    <3> SUFFICES ASSUME Active PROVE JobOK(j, trail)
      OBVIOUS
    <3>1. StepOK(j, "readOtp", trail)
      BY <1>0, <2>1 DEF StepOK, Active
    <3> QED
      BY <2>1, <3>1, Todo1 DEF StepNames
  <2> QED
    BY <2>2, <2>3, SmallJobs, Started
<1>4. ASSUME NEW p \in Passwords, Login(r, p) PROVE AccountsInv'
  <2>1. Begin(r, Fail) \/ (Active /\ Begin(r, SignedIn(user)))
    BY <1>4 DEF Login
  <2> QED
    BY <1>0, <2>1, SmallJobs, WriteJobs, Started DEF Active
<1>5. ASSUME NEW p \in Passwords, NEW new \in Chosen, ForceChangePassword(r, p, new)
      PROVE  AccountsInv'
  <2>1. UserOK(WithPassword(user, new))
    BY <1>0, <1>5, WithPasswordOK DEF ForceChangePassword, Authenticated, Active
  <2> QED
    BY <1>5, <2>1, WriteJobs, Started DEF ForceChangePassword
<1>6. ASSUME NEW c \in Codes, NEW new \in Chosen, ResetPassword(r, c, new)
      PROVE  AccountsInv'
  <2> DEFINE j == [todo |-> <<"readUser">>, new |-> new]
  <2>1. "todo" \in DOMAIN j /\ j.todo = <<"readUser">> /\ "new" \in DOMAIN j /\ j.new = new
    OBVIOUS
  <2>2. Begin(r, AfterToken(PasswordVerdict(token, c), j))
    BY <1>6 DEF ResetPassword
  <2> HIDE DEF j
  <2>3. StepOK(j, "readUser", trail)
    BY <2>1 DEF StepOK
  <2>4. JobOK(j, trail)
    BY <2>1, <2>3, Todo1 DEF StepNames
  <2>5. JobOK(AfterToken(PasswordVerdict(token, c), j), trail)
    BY <2>4, Verdicts, AfterTokenOK
  <2> QED
    BY <2>2, <2>5, Started
<1>7. ASSUME NEW p \in Passwords, NEW c \in Codes, NEW new \in Chosen,
             ChangePassword(r, p, c, new)
      PROVE  AccountsInv'
  <2> DEFINE j == [todo |-> <<"readToken">>, row |-> user, code |-> c, new |-> new]
  <2>1. /\ "todo" \in DOMAIN j /\ j.todo = <<"readToken">>
        /\ "row" \in DOMAIN j /\ j.row = user /\ "new" \in DOMAIN j /\ j.new = new
    OBVIOUS
  <2>2. Begin(r, j) /\ user # NoRow
    BY <1>7 DEF ChangePassword, PastTheGate, Authenticated, Active
  <2> HIDE DEF j
  <2>3. StepOK(j, "readToken", trail)
    BY <1>0, <2>1, <2>2 DEF StepOK
  <2>4. JobOK(j, trail)
    BY <2>1, <2>3, Todo1 DEF StepNames
  <2> QED
    BY <2>2, <2>4, Started
<1>8. ASSUME RequestLoginOtp(r) \/ RequestPasswordCode(r) \/ CreateStaff(r)
      PROVE  AccountsInv'
  <2>1. \E s \in {"saveOtp", "saveToken", "addStaff"} : Begin(r, Todo(<<s>>))
    BY <1>8 DEF RequestLoginOtp, RequestPasswordCode, CreateStaff
  <2> QED
    BY <2>1, SmallJobs, Started
<1>9. ASSUME \/ UpdateProfile(r)
             \/ \E active \in BOOLEAN : SetStaffActive(r, active) \/ ToggleUserStatus(r, active)
      PROVE  AccountsInv'
  <2>1. /\ user # NoRow
        /\ \/ Begin(r, Write(user))
           \/ \E active : Begin(r, Write([user EXCEPT !.active = active]))
    BY <1>9 DEF UpdateProfile, PastTheGate, Authenticated, Active, SetStaffActive,
                ToggleUserStatus
  <2>2. \A active : UserOK([user EXCEPT !.active = active])
    BY <1>0, <2>1, WithActiveOK
  <2>3. /\ JobOK(Write(user), trail)
        /\ \A active : JobOK(Write([user EXCEPT !.active = active]), trail)
    BY <1>0, <2>1, <2>2, WriteJobs
  <2> QED
    BY <2>1, <2>3, Started
<1> QED
  BY <1>1, <1>2, <1>3, <1>4, <1>5, <1>6, <1>7, <1>8, <1>9 DEF Start

-----------------------------------------------------------------------------
(***************************************************************************)
(* Steps of requests.                                                      *)
(***************************************************************************)
LEMMA AfterOtpOK ==
  ASSUME NEW verdict, NEW row, UserOK(row), NEW t,
         verdict \in {"missing", "expired", "exhausted", "last_mismatch", "mismatch", "match"}
  PROVE  JobOK(AfterOtp(verdict, row), t)
<1> DEFINE j == AfterOtp(verdict, row)
<1>1. CASE verdict = "missing"
  BY <1>1, Todo0 DEF AfterOtp
<1>2. CASE verdict = "expired"
  <2>1. j = Todo(<<"removeOtp">>)
    BY <1>2 DEF AfterOtp
  <2> QED
    BY <2>1, SmallJobs
<1>3. CASE verdict = "exhausted"
  <2>1. "todo" \in DOMAIN j /\ j.todo = <<"removeOtp", "readFailures">>
    BY <1>3 DEF AfterOtp, Todo
  <2> HIDE DEF j
  <2>2. StepOK(j, "removeOtp", t) /\ StepOK(j, "readFailures", t)
    BY DEF StepOK
  <2>3. JobOK(j, t)
    BY <2>1, <2>2, Todo2 DEF StepNames
  <2> QED
    BY <2>3 DEF j
<1>4. CASE verdict = "mismatch"
  <2>1. "todo" \in DOMAIN j /\ j.todo = <<"writeOtp">>
    BY <1>4 DEF AfterOtp
  <2> HIDE DEF j
  <2>2. StepOK(j, "writeOtp", t)
    BY DEF StepOK
  <2>3. JobOK(j, t)
    BY <2>1, <2>2, Todo1 DEF StepNames
  <2> QED
    BY <2>3 DEF j
<1>5. CASE verdict = "last_mismatch"
  <2>1. "todo" \in DOMAIN j /\ j.todo = <<"writeOtp", "removeOtp", "readFailures">>
    BY <1>5 DEF AfterOtp
  <2> HIDE DEF j
  <2>2. /\ StepOK(j, "writeOtp", t) /\ StepOK(j, "removeOtp", t)
        /\ StepOK(j, "readFailures", t)
    BY DEF StepOK
  <2>3. JobOK(j, t)
    <3>1. {"writeOtp", "removeOtp", "readFailures"} \subseteq StepNames
      BY DEF StepNames
    <3> QED
      BY <2>1, <2>2, <3>1, Todo3
  <2> QED
    BY <2>3 DEF j
<1>6. CASE verdict = "match"
  <2>1. /\ "todo" \in DOMAIN j
        /\ j.todo = <<"removeOtp", "resetFailures", "writeUser", "addSession">>
        /\ "row" \in DOMAIN j /\ j.row = row
    BY <1>6 DEF AfterOtp
  <2> HIDE DEF j
  <2>2. /\ StepOK(j, "removeOtp", t) /\ StepOK(j, "resetFailures", t)
        /\ StepOK(j, "writeUser", t) /\ StepOK(j, "addSession", t)
    BY <2>1 DEF StepOK
  <2>n. {"removeOtp", "resetFailures", "writeUser", "addSession"} \subseteq StepNames
    BY DEF StepNames
  <2>3. JobOK(j, t)
    BY <2>1, <2>2, <2>n, Todo4
  <2> QED
    BY <2>3 DEF j
<1> QED
  BY <1>1, <1>2, <1>3, <1>4, <1>5, <1>6

\* The steps that read a code or an account and go on accordingly.
LEMMA ReadKeeps ==
  ASSUME AccountsInv, NEW r \in Requests,
         ReadOtp(r) \/ ReadUser(r) \/ ReadToken(r) \/ FindUser(r)
  PROVE  AccountsInv'
<1>1. CASE ReadOtp(r)
  <2>1. UserOK(job[r].row)
    BY <1>1, InHand DEF ReadOtp, StepOK
  <2>2. Become(r, AfterOtp(Verdict(otp, job[r].code, MAX_OTP_ATTEMPTS), job[r].row))
        /\ UNCHANGED <<tables, trail>>
    BY <1>1 DEF ReadOtp
  <2>3. JobOK(AfterOtp(Verdict(otp, job[r].code, MAX_OTP_ATTEMPTS), job[r].row), trail)
    BY <2>1, Verdicts, AfterOtpOK
  <2> QED
    BY <2>2, <2>3, QuietStep DEF tables
<1>2. CASE ReadUser(r)
  <2> DEFINE j == [todo |-> <<"resetFailures", "writeUser", "removeToken", "revokeAll">>,
                   row |-> WithPassword(user, job[r].new)]
  <2>1. job[r].new \in Chosen
    BY <1>2, InHand DEF ReadUser, StepOK
  <2>2. /\ Become(r, Todo(<<"removeToken">>)) \/ (Active /\ Become(r, j))
        /\ UNCHANGED <<tables, trail>>
    BY <1>2 DEF ReadUser
  <2>3. /\ "todo" \in DOMAIN j
        /\ j.todo = <<"resetFailures", "writeUser", "removeToken", "revokeAll">>
        /\ "row" \in DOMAIN j /\ j.row = WithPassword(user, job[r].new)
    OBVIOUS
  <2> HIDE DEF j
  <2>4. ASSUME Active PROVE JobOK(j, trail)
    <3>1. UserOK(j.row)
      BY <2>1, <2>3, <2>4, WithPasswordOK DEF Active, AccountsInv
    <3>2. /\ StepOK(j, "resetFailures", trail) /\ StepOK(j, "writeUser", trail)
          /\ StepOK(j, "removeToken", trail) /\ StepOK(j, "revokeAll", trail)
      BY <2>3, <3>1 DEF StepOK
    <3>3. {"resetFailures", "writeUser", "removeToken", "revokeAll"} \subseteq StepNames
      BY DEF StepNames
    <3> QED
      BY <2>3, <3>2, <3>3, Todo4
  <2> QED
    BY <2>2, <2>4, SmallJobs, QuietStep DEF tables
<1>3. CASE ReadToken(r)
  <2> DEFINE j == job[r]
             w == [todo |-> <<"writeUser", "removeToken">>, row |-> WithPassword(j.row, j.new)]
             m == IF j.new = j.row.password THEN Idle ELSE w
             n == AfterToken(PasswordVerdict(token, j.code), m)
  <2>1. UserOK(j.row) /\ j.new \in Chosen
    BY <1>3, InHand DEF ReadToken, StepOK
  <2>2. Become(r, n) /\ UNCHANGED <<tables, trail>>
    BY <1>3 DEF ReadToken
  <2>3. JobOK(w, trail)
    BY <2>1, WithPasswordOK, WriteJobs
  <2>4. JobOK(m, trail)
    BY <2>3, Todo0
  <2> HIDE DEF m
  <2>5. JobOK(n, trail)
    BY <2>4, Verdicts, AfterTokenOK
  <2> HIDE DEF n
  <2> QED
    BY <2>2, <2>5, QuietStep DEF tables
<1>4. CASE FindUser(r)
  <2>1. /\ Next1(r) \/ Become(r, Todo(<<"removePending">>))
        /\ job[r].todo # <<>>
        /\ UNCHANGED <<tables, trail>>
    BY <1>4 DEF FindUser, Doing
  <2> QED
    BY <2>1, SmallJobs, QuietStep DEF tables
<1> QED
  BY <1>1, <1>2, <1>3, <1>4

\* The steps that write tables the invariant says nothing about.
LEMMA OtherKeeps ==
  ASSUME AccountsInv, NEW r \in Requests,
         \/ RemovePending(r) \/ WriteOtp(r) \/ RemoveOtp(r)
         \/ AddSession(r) \/ WriteToken(r) \/ RemoveToken(r) \/ RevokeAll(r)
  PROVE  AccountsInv'
<1>1. /\ job[r].todo # <<>> /\ Next1(r)
      /\ user' = user /\ failures' = failures /\ trail' = trail
      /\ pending' = pending \/ pending' = NoRow
  BY DEF RemovePending, WriteOtp, RemoveOtp, AddSession, WriteToken, RemoveToken,
         RevokeAll, Doing
<1> QED
  BY <1>1, QuietStep

\* The steps that count in the history or write an attempt record.
LEMMA CountKeeps ==
  ASSUME AccountsInv, NEW r \in Requests,
         \/ ReadFailures(r) \/ WriteFailures(r) \/ ResetFailures(r)
         \/ SaveOtp(r) \/ SaveToken(r)
  PROVE  AccountsInv'
<1>1. CASE ReadFailures(r)
  <2> DEFINE j == [todo |-> <<"writeFailures">>, record |-> FailureRecord(failures.count + 1)]
  <2>1. /\ trail' = [trail EXCEPT !.failed = @ + 1]
        /\ user' = user /\ pending' = pending /\ failures' = failures
        /\ Become(r, Idle) \/ Become(r, j)
    BY <1>1 DEF ReadFailures, tables, Stop
  <2>2. /\ DOMAIN trail' = DOMAIN trail /\ trail'.failed = trail.failed + 1
        /\ trail'.submitted = trail.submitted /\ trail'.made = trail.made
    BY <2>1 DEF AccountsInv
  <2>3. Grown(trail, trail') /\ trail'.failed \in Nat
    BY <2>2 DEF Grown, AccountsInv
  <2>4. RecordOK(FailureRecord(failures.count + 1), trail')
    <3> DEFINE n == failures.count + 1
               x == FailureRecord(n)
    <3>1. n \in Nat /\ n <= trail'.failed
      BY <2>2 DEF AccountsInv, RecordOK
    <3>2. x = [count |-> n, locked |-> n >= MAX_FAILED_LOGIN_ATTEMPTS]
      BY DEF FailureRecord
    <3>3. /\ DOMAIN x = {"count", "locked"} /\ x.count = n
          /\ x.locked = (n >= MAX_FAILED_LOGIN_ATTEMPTS)
      BY <3>2
    <3> HIDE DEF n, x
    <3>4. x.locked => trail'.failed >= MAX_FAILED_LOGIN_ATTEMPTS
      <4>1. x.locked => n >= MAX_FAILED_LOGIN_ATTEMPTS
        BY <3>3, Zenon
      <4>2. n >= MAX_FAILED_LOGIN_ATTEMPTS => trail'.failed >= MAX_FAILED_LOGIN_ATTEMPTS
        BY <2>3, <3>1, AccountsAssumption
      <4> QED
        BY <4>1, <4>2, Zenon
    <3>5. RecordOK(x, trail')
      BY <3>1, <3>3, <3>4 DEF RecordOK
    <3> QED
      BY <3>5 DEF x, n
  <2>5. /\ "todo" \in DOMAIN j /\ j.todo = <<"writeFailures">>
        /\ "record" \in DOMAIN j /\ j.record = FailureRecord(failures.count + 1)
    OBVIOUS
  <2> HIDE DEF j
  <2>6. StepOK(j, "writeFailures", trail')
    BY <2>4, <2>5 DEF StepOK
  <2>7. JobOK(j, trail')
    BY <2>5, <2>6, Todo1 DEF StepNames
  <2>8. DOMAIN job' = Requests /\ \A q \in Requests : JobOK(job'[q], trail')
    BY <2>1, <2>3, <2>7, Todo0, JobsOK DEF Become
  <2>9. /\ pending' = NoRow \/ PendingOK(pending', trail')
        /\ RecordOK(failures', trail')
    BY <2>1, <2>3, StillOK DEF AccountsInv
  <2> QED
    BY <2>1, <2>2, <2>3, <2>8, <2>9 DEF AccountsInv
<1>2. CASE WriteFailures(r) \/ ResetFailures(r)
  <2>1. /\ job[r].todo # <<>> /\ Next1(r)
        /\ user' = user /\ pending' = pending /\ trail' = trail
    BY <1>2 DEF WriteFailures, ResetFailures, Doing
  <2>2. RecordOK(NoFailures, trail)
    BY DEF RecordOK, NoFailures, AccountsInv
  <2>3. RecordOK(failures', trail)
    BY <1>2, <2>2, InHand DEF WriteFailures, ResetFailures, StepOK
  <2>4. DOMAIN job' = Requests /\ \A q \in Requests : JobOK(job'[q], trail')
    BY <2>1, NextJobs, SameTrail
  <2> QED
    BY <2>1, <2>3, <2>4 DEF AccountsInv
<1>3. CASE SaveOtp(r) \/ SaveToken(r)
  <2>1. /\ job[r].todo # <<>> /\ Next1(r)
        /\ user' = user /\ pending' = pending /\ failures' = failures
        /\ trail' = [trail EXCEPT !.sent = @ + 1]
    BY <1>3 DEF SaveOtp, SaveToken, Send, Doing
  <2>2. /\ DOMAIN trail' = DOMAIN trail /\ trail'.failed = trail.failed
        /\ trail'.submitted = trail.submitted /\ trail'.made = trail.made
    BY <2>1 DEF AccountsInv
  <2>3. Grown(trail, trail')
    BY <2>2 DEF Grown, AccountsInv
  <2>4. DOMAIN job' = Requests /\ \A q \in Requests : JobOK(job'[q], trail')
    BY <2>1, <2>3, NextJobs
  <2>5. /\ pending' = NoRow \/ PendingOK(pending', trail')
        /\ RecordOK(failures', trail')
    BY <2>1, <2>3, StillOK DEF AccountsInv
  <2> QED
    BY <2>1, <2>2, <2>4, <2>5 DEF AccountsInv
<1> QED
  BY <1>1, <1>2, <1>3

\* The steps that write a pending registration or an account.
LEMMA RowKeeps ==
  ASSUME AccountsInv, NEW r \in Requests,
         SavePending(r) \/ WritePending(r) \/ AddUser(r) \/ WriteUser(r) \/ AddStaff(r)
  PROVE  AccountsInv'
<1>1. CASE SavePending(r)
  <2> DEFINE c == trail.sent
             p == job[r].password
             row == Submission(c, p)
  <2>1. p \in Chosen
    BY <1>1, InHand DEF SavePending, StepOK
  <2>2. /\ job[r].todo # <<>> /\ Next1(r)
        /\ user' = user /\ failures' = failures /\ pending' = row
        /\ trail' = [trail EXCEPT !.sent = @ + 1, !.submitted = @ \cup {<<c, p>>}]
    BY <1>1 DEF SavePending, Send, Doing
  <2>3. /\ DOMAIN trail' = DOMAIN trail /\ trail'.failed = trail.failed
        /\ trail'.submitted = trail.submitted \cup {<<c, p>>} /\ trail'.made = trail.made
    BY <2>2 DEF AccountsInv
  <2>4. Grown(trail, trail')
    BY <2>3 DEF Grown, AccountsInv
  <2>5. DOMAIN job' = Requests /\ \A q \in Requests : JobOK(job'[q], trail')
    BY <2>2, <2>4, NextJobs
  <2>6. /\ DOMAIN row = {"kind", "code", "attempts", "fresh", "password"}
        /\ row.kind = "code" /\ row.code = c /\ row.password = p
    BY DEF Submission
  <2>7. PendingOK(pending', trail')
    <3> HIDE DEF row
    <3> QED
      BY <2>1, <2>2, <2>3, <2>6 DEF PendingOK
  <2>8. RecordOK(failures', trail')
    BY <2>2, <2>4, StillOK DEF AccountsInv
  <2> QED
    BY <2>2, <2>3, <2>5, <2>7, <2>8 DEF AccountsInv
<1>2. CASE WritePending(r)
  <2>1. PendingOK(job[r].pending, trail)
    BY <1>2, InHand DEF WritePending, StepOK
  <2>2. /\ job[r].todo # <<>> /\ Next1(r)
        /\ user' = user /\ failures' = failures /\ pending' = job[r].pending
        /\ trail' = trail
    BY <1>2 DEF WritePending, Doing
  <2>3. DOMAIN job' = Requests /\ \A q \in Requests : JobOK(job'[q], trail')
    BY <2>2, NextJobs, SameTrail
  <2> QED
    BY <2>1, <2>2, <2>3 DEF AccountsInv
<1>3. CASE AddUser(r)
  <2>1. /\ PendingOK(job[r].pending, trail) /\ job[r].code = job[r].pending.code
        /\ job[r].todo # <<>>
    BY <1>3, InHand DEF AddUser, StepOK
  <2>2. pending' = pending /\ failures' = failures
    BY <1>3 DEF AddUser
  <2>3. CASE user = NoRow
    <3> DEFINE x == <<job[r].code, user'.password>>
    <3>1. /\ user' = NewAccount(job[r].pending) /\ Next1(r)
          /\ trail' = [trail EXCEPT !.made = @ \cup {x}]
      BY <1>3, <2>3 DEF AddUser
    <3>2. UserOK(user') /\ user'.password = job[r].pending.password
      BY <3>1, AccountOK DEF NewAccount, Kinds
    <3>3. x \in trail.submitted
      BY <2>1, <3>2 DEF PendingOK
    <3>4. /\ DOMAIN trail' = DOMAIN trail /\ trail'.failed = trail.failed
          /\ trail'.submitted = trail.submitted /\ trail'.made = trail.made \cup {x}
      BY <3>1 DEF AccountsInv
    <3> HIDE DEF x
    <3>5. trail'.made = {x}
      BY <2>3, <3>4 DEF AccountsInv
    <3>6. Grown(trail, trail')
      BY <3>4 DEF Grown, AccountsInv
    <3>7. DOMAIN job' = Requests /\ \A q \in Requests : JobOK(job'[q], trail')
      BY <2>1, <3>1, <3>6, NextJobs
    <3>8. /\ pending' = NoRow \/ PendingOK(pending', trail')
          /\ RecordOK(failures', trail')
      BY <2>2, <3>6, StillOK DEF AccountsInv
    <3>9. user' # NoRow
      BY <3>2, RealRow
    <3> QED
      BY <3>2, <3>3, <3>4, <3>5, <3>7, <3>8, <3>9 DEF AccountsInv
  <2>4. CASE user # NoRow
    <3>1. Become(r, Idle) /\ user' = user /\ trail' = trail
      BY <1>3, <2>4 DEF AddUser, Stop
    <3> QED
      BY <2>2, <3>1, Todo0, QuietStep
  <2> QED
    BY <2>3, <2>4
<1>4. CASE WriteUser(r) \/ AddStaff(r)
  <2>1. /\ job[r].todo # <<>> /\ Next1(r)
        /\ pending' = pending /\ failures' = failures /\ trail' = trail
    BY <1>4 DEF WriteUser, AddStaff, Doing
  <2>3. UserOK(user')
    <3>1. CASE WriteUser(r)
      BY <3>1, InHand DEF WriteUser, UpdateUser, StepOK
    <3>2. CASE AddStaff(r)
      BY <3>2, AccountOK DEF AddStaff, Kinds, AccountsInv
    <3> QED
      BY <1>4, <3>1, <3>2
  <2>4. DOMAIN job' = Requests /\ \A q \in Requests : JobOK(job'[q], trail')
    BY <2>1, NextJobs, SameTrail
  <2> QED
    BY <2>1, <2>3, <2>4, RealRow DEF AccountsInv
<1> QED
  BY <1>1, <1>2, <1>3, <1>4

LEMMA ElsewhereKeeps ==
  ASSUME AccountsInv, Expire \/ Logout \/ UNCHANGED vars
  PROVE  AccountsInv'
<1>1. user' = user /\ job' = job /\ trail' = trail
  BY DEF Expire, Logout, vars
<1>2. failures' = failures \/ failures' = NoFailures
  BY DEF Expire, Logout, vars
<1>3. \/ pending' = pending
      \/ pending # NoRow /\ pending' = [pending EXCEPT !.fresh = FALSE]
  BY DEF Expire, Logout, vars
<1>4. RecordOK(NoFailures, trail)
  BY DEF RecordOK, NoFailures, AccountsInv
<1>5. RecordOK(failures', trail)
  BY <1>2, <1>4 DEF AccountsInv
<1>6. pending' = NoRow \/ PendingOK(pending', trail)
  BY <1>3, CountedOK DEF AccountsInv
<1> QED
  BY <1>1, <1>5, <1>6 DEF AccountsInv

LEMMA AccountsInvHolds == Spec => []AccountsInv
<1>1. Init => AccountsInv
  <2> SUFFICES ASSUME Init PROVE AccountsInv
    OBVIOUS
  <2>1. user = NoRow \/ UserOK(user)
    BY AccountOK DEF Init, Kinds
  <2>2. /\ DOMAIN trail = {"started", "sent", "failed", "submitted", "made"}
        /\ trail.failed = 0 /\ trail.made = {}
    BY DEF Init
  <2>3. RecordOK(failures, trail)
    BY <2>2 DEF Init, RecordOK, NoFailures
  <2>4. DOMAIN job = Requests /\ \A r \in Requests : JobOK(job[r], trail)
    BY Todo0 DEF Init
  <2> QED
    BY <2>1, <2>2, <2>3, <2>4 DEF Init, AccountsInv
<1>2. AccountsInv /\ [Next]_vars => AccountsInv'
  BY StartKeeps, ReadKeeps, OtherKeeps, CountKeeps, RowKeeps, ElsewhereKeeps DEF Next, Step
<1> QED
  BY <1>1, <1>2, PTL DEF Spec

-----------------------------------------------------------------------------
(***************************************************************************)
(* An account made by a registration has the password submitted with the   *)
(* code that was verified, and at most one is made (verifyRegistrationOtp), *)
(* however many registrations, codes and requests overlap.                  *)
(***************************************************************************)
THEOREM AccountIsTheVerifiedSubmission == Spec => []AccountOfTheVerifiedSubmission
<1>1. AccountsInv => AccountOfTheVerifiedSubmission
  <2> SUFFICES ASSUME AccountsInv PROVE AccountOfTheVerifiedSubmission
    OBVIOUS
  <2>1. Cardinality({}) = 0 /\ \A x : Cardinality({x}) = 1
    BY FS_EmptySet, FS_Singleton
  <2>2. Cardinality(trail.made) <= 1
    <3>1. CASE trail.made = {}
      BY <2>1, <3>1
    <3>2. CASE trail.made # {}
      <4>1. PICK x : trail.made = {x}
        BY <3>2 DEF AccountsInv
      <4>2. Cardinality(trail.made) = 1
        BY <2>1, <4>1
      <4> QED
        BY <4>2
    <3> QED
      BY <3>1, <3>2
  <2> QED
    BY <2>2 DEF AccountsInv, AccountOfTheVerifiedSubmission
<1> QED
  BY <1>1, AccountsInvHolds, PTL

(***************************************************************************)
(* A lockout takes as many failed attempts as the limit says               *)
(* (recordLoginFailure), for every limit and however attempts overlap.     *)
(***************************************************************************)
THEOREM NoEarlyLockout == Spec => []LockedOnlyAfterFailures
<1>1. AccountsInv => LockedOnlyAfterFailures
  BY DEF AccountsInv, RecordOK, LockedOnlyAfterFailures
<1> QED
  BY <1>1, AccountsInvHolds, PTL

(***************************************************************************)
(* A temporary password never comes back without the gate: the row that    *)
(* holds the one holds the other (updateUser, forceChangePassword).        *)
(***************************************************************************)
THEOREM TemporaryPasswordStaysGated == Spec => []TemporaryPasswordIsGated
<1>1. AccountsInv => TemporaryPasswordIsGated
  BY DEF AccountsInv, UserOK, TemporaryPasswordIsGated
<1> QED
  BY <1>1, AccountsInvHolds, PTL
=============================================================================
