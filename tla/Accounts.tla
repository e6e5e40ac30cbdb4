------------------------------- MODULE Accounts -------------------------------
(* Registration, sign-in, one-time codes and passwords of one e-mail address:  *)
(* auth.service.ts, profile.service.ts, loginAttemptCache.service.ts, the staff *)
(* and user administration, and the tables they keep.                          *)
(*                                                                            *)
(* Nothing here runs in a transaction: a handler reads a row in one query and   *)
(* writes it, every column of it, in a later one, with slow password hashing    *)
(* and audit writes in between.  So a request is a read, which leaves in job[r] *)
(* the steps still to do and the rows as read, and one action per later query.  *)
EXTENDS Naturals, Sequences, FiniteSets

CONSTANTS Requests,    \* the requests that may be in flight at once
          MaxRequests, \* bound on the requests ever started
          MaxCodes,    \* bound on the codes ever sent
          MAX_FAILED_LOGIN_ATTEMPTS, MAX_OTP_ATTEMPTS, MAX_RESET_OTP_ATTEMPTS

ASSUME AccountsAssumption == MAX_FAILED_LOGIN_ATTEMPTS \in Nat \ {0}

VARIABLES user,     \* the row of users for the address, or NoRow
          pending,  \* the row of pending_registrations, or NoRow
          otp,      \* the row of login_otps, or NoRow
          token,    \* the row of password_reset_tokens, or NoRow
          failures, \* the login attempt record
          sessions, \* live sessions of the user
          job,      \* job[r]: what request r still has to do
          trail     \* history: requests, codes sent, failed attempts, what was
                    \* submitted with each code, and how the account came about
vars == <<user, pending, otp, token, failures, sessions, job, trail>>
tables == <<user, pending, otp, token, failures, sessions>>

Chosen == {"p1", "p2"}                  \* passwords people choose
Temporary == "temporary"                \* the one a staff account is created with
Kinds == {"bidder", "staff", "admin"}
NoRow == [kind |-> "none"]
NoFailures == [count |-> 0, locked |-> FALSE]
Idle == [todo |-> <<>>]

Account(kind, password) ==
  [kind |-> kind, password |-> password, mustChange |-> password = Temporary, active |-> TRUE]
Challenge(code) == [kind |-> "code", code |-> code, attempts |-> 0, fresh |-> TRUE]
Submission(code, password) ==
  [kind |-> "code", code |-> code, attempts |-> 0, fresh |-> TRUE, password |-> password]

\* No account yet, or one that a staff invitation, a registration or the seed made.
Init ==
  /\ user \in {NoRow, Account("staff", Temporary), Account("bidder", "p1"), Account("admin", "p1")}
  /\ pending = NoRow /\ otp = NoRow /\ token = NoRow
  /\ failures = NoFailures
  /\ sessions = 0
  /\ job = [r \in Requests |-> Idle]
  /\ trail = [started |-> 0, sent |-> 0, failed |-> 0, submitted |-> {}, made |-> {}]

Active == user # NoRow /\ user.active

(* A request begins, goes on, ends. *)
Begin(r, j) ==
  /\ job[r] = Idle /\ trail.started < MaxRequests
  /\ job' = [job EXCEPT ![r] = j]
  /\ trail' = [trail EXCEPT !.started = @ + 1]
  /\ UNCHANGED tables
Doing(r, step) == job[r].todo # <<>> /\ Head(job[r].todo) = step
Become(r, j) == job' = [job EXCEPT ![r] = j]
StepDone(j) == IF Len(j.todo) = 1 THEN Idle ELSE [j EXCEPT !.todo = Tail(@)]
Next1(r) == Become(r, StepDone(job[r]))
Stop(r) == Become(r, Idle)
Todo(steps) == [todo |-> steps]
Write(row) == [todo |-> <<"writeUser">>, row |-> row]
Fail == Todo(<<"readFailures">>)

-----------------------------------------------------------------------------
(* Codes: a code is sent once, and the wrong ones entered are counted on its row. *)
Send(r) == trail.sent < MaxCodes /\ Next1(r)

\* What a handler does with the row it read and the code it was given: nothing
\* when there is none, remove it, write it back with one more attempt, or go on.
Verdict(row, code, max) ==
  IF row = NoRow THEN "missing"
  ELSE IF ~row.fresh THEN "expired"
  ELSE IF row.attempts >= max THEN "exhausted"
  ELSE IF row.code = code THEN "match"
  ELSE IF row.attempts + 1 >= max THEN "last_mismatch" ELSE "mismatch"
Counted(row) == [row EXCEPT !.attempts = @ + 1]

\* Three minutes pass, or fifteen.
Expire ==
  /\ \/ pending # NoRow /\ pending.fresh /\ pending' = [pending EXCEPT !.fresh = FALSE]
        /\ UNCHANGED <<otp, token, failures>>
     \/ otp # NoRow /\ otp.fresh /\ otp' = [otp EXCEPT !.fresh = FALSE]
        /\ UNCHANGED <<pending, token, failures>>
     \/ token # NoRow /\ token.fresh /\ token' = [token EXCEPT !.fresh = FALSE]
        /\ UNCHANGED <<pending, otp, failures>>
     \/ failures # NoFailures /\ failures' = NoFailures /\ UNCHANGED <<pending, otp, token>>
  /\ UNCHANGED <<user, sessions, job, trail>>

-----------------------------------------------------------------------------
(* Registration *)
\* beginRegistration: an address that has an account is answered alike.
BeginRegistration(r, p) ==
  user = NoRow /\ Begin(r, [todo |-> <<"savePending">>, password |-> p])

SavePending(r) ==
  /\ Doing(r, "savePending") /\ Send(r)
  /\ pending' = Submission(trail.sent, job[r].password)
  /\ trail' = [trail EXCEPT !.sent = @ + 1, !.submitted = @ \cup {<<trail.sent, job[r].password>>}]
  /\ UNCHANGED <<user, otp, token, failures, sessions>>

\* verifyRegistrationOtp
VerifyRegistration(r, code) ==
  /\ pending # NoRow
  /\ Begin(r, CASE Verdict(pending, code, MAX_OTP_ATTEMPTS) = "mismatch" ->
                     [todo |-> <<"writePending">>, pending |-> Counted(pending)]
                [] Verdict(pending, code, MAX_OTP_ATTEMPTS) = "match" ->
                     [todo |-> <<"findUser", "addUser", "removePending">>,
                      pending |-> pending, code |-> code]
                [] OTHER -> Todo(<<"removePending">>))

\* The row as read goes back: over a newer one, or over none.
WritePending(r) ==
  /\ Doing(r, "writePending") /\ Next1(r)
  /\ pending' = job[r].pending
  /\ UNCHANGED <<user, otp, token, failures, sessions, trail>>

FindUser(r) ==
  /\ Doing(r, "findUser")
  /\ IF user = NoRow THEN Next1(r) ELSE Become(r, Todo(<<"removePending">>))
  /\ UNCHANGED <<tables, trail>>

\* Mutant of NewAccount: the submission on the table now, not the one verified.
NewAccountOfTable(row) ==
  Account("bidder", IF pending = NoRow THEN row.password ELSE pending.password)

\* The account is made of the row whose code was verified.
NewAccount(row) == Account("bidder", row.password)

\* users.email is unique: the loser of two inserts fails.
AddUser(r) ==
  /\ Doing(r, "addUser")
  /\ IF user = NoRow
     THEN /\ user' = NewAccount(job[r].pending)
          /\ trail' = [trail EXCEPT !.made = @ \cup {<<job[r].code, user'.password>>}]
          /\ Next1(r)
     ELSE Stop(r) /\ UNCHANGED <<user, trail>>
  /\ UNCHANGED <<pending, otp, token, failures, sessions>>

RemovePending(r) ==
  /\ Doing(r, "removePending") /\ Next1(r)
  /\ pending' = NoRow
  /\ UNCHANGED <<user, otp, token, failures, sessions, trail>>

-----------------------------------------------------------------------------
(* Failed attempts: getLoginLockoutState before, recordLoginFailure after. *)
NotLocked == ~failures.locked

\* Mutant of FailureRecord: locked one attempt early.
FailureRecordEarly(count) == [count |-> count, locked |-> count + 1 >= MAX_FAILED_LOGIN_ATTEMPTS]

FailureRecord(count) == [count |-> count, locked |-> count >= MAX_FAILED_LOGIN_ATTEMPTS]

ReadFailures(r) ==
  /\ Doing(r, "readFailures")
  /\ IF failures.locked THEN Stop(r)
     ELSE Become(r, [todo |-> <<"writeFailures">>, record |-> FailureRecord(failures.count + 1)])
  /\ trail' = [trail EXCEPT !.failed = @ + 1]
  /\ UNCHANGED tables

WriteFailures(r) ==
  /\ Doing(r, "writeFailures") /\ Next1(r)
  /\ failures' = job[r].record
  /\ UNCHANGED <<user, pending, otp, token, sessions, trail>>

ResetFailures(r) ==
  /\ Doing(r, "resetFailures") /\ Next1(r)
  /\ failures' = NoFailures
  /\ UNCHANGED <<user, pending, otp, token, sessions, trail>>

-----------------------------------------------------------------------------
(* Sign-in *)
\* What follows a right password: a code for an administrator, a session for others.
SignedIn(row) ==
  [todo |-> <<"resetFailures", "writeUser", IF row.kind = "admin" THEN "saveOtp" ELSE "addSession">>,
   row |-> row]

Login(r, p) ==
  /\ NotLocked
  /\ Begin(r, IF Active /\ user.password = p THEN SignedIn(user) ELSE Fail)

\* requestLoginOtp
RequestLoginOtp(r) ==
  NotLocked /\ Active /\ user.kind # "admin" /\ Begin(r, Todo(<<"saveOtp">>))

SaveOtp(r) ==
  /\ Doing(r, "saveOtp") /\ Send(r)
  /\ otp' = Challenge(trail.sent)
  /\ trail' = [trail EXCEPT !.sent = @ + 1]
  /\ UNCHANGED <<user, pending, token, failures, sessions>>

\* verifyLoginOtp reads the account first and its code second.
VerifyLoginOtp(r, code) ==
  /\ NotLocked
  /\ Begin(r, IF Active THEN [todo |-> <<"readOtp">>, row |-> user, code |-> code] ELSE Fail)

AfterOtp(verdict, row) ==
  CASE verdict = "missing" -> Idle
    [] verdict = "expired" -> Todo(<<"removeOtp">>)
    [] verdict = "exhausted" -> Todo(<<"removeOtp", "readFailures">>)
    [] verdict = "mismatch" -> [todo |-> <<"writeOtp">>, otp |-> Counted(otp)]
    [] verdict = "last_mismatch" ->
         [todo |-> <<"writeOtp", "removeOtp", "readFailures">>, otp |-> Counted(otp)]
    [] verdict = "match" ->
         [todo |-> <<"removeOtp", "resetFailures", "writeUser", "addSession">>, row |-> row]

ReadOtp(r) ==
  /\ Doing(r, "readOtp")
  /\ Become(r, AfterOtp(Verdict(otp, job[r].code, MAX_OTP_ATTEMPTS), job[r].row))
  /\ UNCHANGED <<tables, trail>>

WriteOtp(r) ==
  /\ Doing(r, "writeOtp") /\ Next1(r)
  /\ otp' = job[r].otp
  /\ UNCHANGED <<user, pending, token, failures, sessions, trail>>

RemoveOtp(r) ==
  /\ Doing(r, "removeOtp") /\ Next1(r)
  /\ otp' = NoRow
  /\ UNCHANGED <<user, pending, token, failures, sessions, trail>>

AddSession(r) ==
  /\ Doing(r, "addSession") /\ Next1(r)
  /\ sessions' = sessions + 1
  /\ UNCHANGED <<user, pending, otp, token, failures, trail>>

Logout ==
  /\ sessions > 0 /\ sessions' = sessions - 1
  /\ UNCHANGED <<user, pending, otp, token, failures, job, trail>>

-----------------------------------------------------------------------------
(* Passwords and the account's other columns *)
\* Mutant of UpdateUser: a gate that was lifted stays lifted.
UpdateUserKeepingGate(old, new) == [new EXCEPT !.mustChange = @ /\ old.mustChange]

\* updateUser: the UPDATE sets every column to what the handler holds.
UpdateUser(old, new) == new

WriteUser(r) ==
  /\ Doing(r, "writeUser") /\ Next1(r)
  /\ user' = UpdateUser(user, job[r].row)
  /\ UNCHANGED <<pending, otp, token, failures, sessions, trail>>

\* authenticate, and the gate before every handler but forceChangePassword.
Authenticated == sessions > 0 /\ Active
PastTheGate == Authenticated /\ ~user.mustChange
WithPassword(row, p) == [row EXCEPT !.password = p, !.mustChange = FALSE]

ForceChangePassword(r, p, new) ==
  /\ Authenticated /\ user.mustChange /\ user.password = p /\ new # p
  /\ Begin(r, [todo |-> <<"resetFailures", "writeUser">>, row |-> WithPassword(user, new)])

\* requestPasswordReset, and requestPasswordChangeVerification of a signed-in user:
\* both keep their code in the one row of the address.
RequestPasswordCode(r) ==
  /\ \/ Active /\ user.kind # "admin"
     \/ PastTheGate
  /\ Begin(r, Todo(<<"saveToken">>))

SaveToken(r) ==
  /\ Doing(r, "saveToken") /\ Send(r)
  /\ token' = Challenge(trail.sent)
  /\ trail' = [trail EXCEPT !.sent = @ + 1]
  /\ UNCHANGED <<user, pending, otp, failures, sessions>>

\* Neither handler refuses a row for its count: the count is checked when it grows.
PasswordVerdict(row, code) ==
  LET v == Verdict(row, code, MAX_RESET_OTP_ATTEMPTS) IN
  IF v # "exhausted" THEN v ELSE IF row.code = code THEN "match" ELSE "last_mismatch"
AfterToken(verdict, matched) ==
  CASE verdict = "missing" -> Idle
    [] verdict \in {"expired", "last_mismatch"} -> Todo(<<"removeToken">>)
    [] verdict = "mismatch" -> [todo |-> <<"writeToken">>, token |-> Counted(token)]
    [] verdict = "match" -> matched

\* resetPassword reads the code first and the account second.
ResetPassword(r, code, new) ==
  /\ token # NoRow
  /\ Begin(r, AfterToken(PasswordVerdict(token, code), [todo |-> <<"readUser">>, new |-> new]))

ReadUser(r) ==
  /\ Doing(r, "readUser")
  /\ Become(r, IF Active
               THEN [todo |-> <<"resetFailures", "writeUser", "removeToken", "revokeAll">>,
                     row |-> WithPassword(user, job[r].new)]
               ELSE Todo(<<"removeToken">>))
  /\ UNCHANGED <<tables, trail>>

\* changePassword reads the account first and the code second.
ChangePassword(r, p, code, new) ==
  /\ PastTheGate /\ user.password = p
  /\ Begin(r, [todo |-> <<"readToken">>, row |-> user, code |-> code, new |-> new])

ReadToken(r) ==
  /\ Doing(r, "readToken")
  /\ LET j == job[r] IN
     Become(r, AfterToken(PasswordVerdict(token, j.code),
                          IF j.new = j.row.password THEN Idle
                          ELSE [todo |-> <<"writeUser", "removeToken">>, row |-> WithPassword(j.row, j.new)]))
  /\ UNCHANGED <<tables, trail>>

WriteToken(r) ==
  /\ Doing(r, "writeToken") /\ Next1(r)
  /\ token' = job[r].token
  /\ UNCHANGED <<user, pending, otp, failures, sessions, trail>>

RemoveToken(r) ==
  /\ Doing(r, "removeToken") /\ Next1(r)
  /\ token' = NoRow
  /\ UNCHANGED <<user, pending, otp, failures, sessions, trail>>

RevokeAll(r) ==
  /\ Doing(r, "revokeAll") /\ Next1(r)
  /\ sessions' = 0
  /\ UNCHANGED <<user, pending, otp, token, failures, trail>>

\* updateProfile: name, user name and number, none of which is kept here.
UpdateProfile(r) == PastTheGate /\ Begin(r, Write(user))

\* The tables of accounts draw one button in each row, which turns round the flag
\* the row shows.  The charity's two list its staff, the administrator's two
\* everybody; the row shown may be as it was before another table's change.
StaffPageActions(row) == IF row.kind = "staff" THEN {~row.active} ELSE {}
StaffTabActions(row) == IF row.kind = "staff" THEN {~row.active} ELSE {}
ConsoleActions(row) == {~row.active}
UsersPageActions(row) == {~row.active}
Shown == {user, [user EXCEPT !.active = ~@]}

\* deactivateManagedStaff, reactivateManagedStaff
SetStaffActive(r, active) ==
  /\ user # NoRow /\ user.kind = "staff"
  /\ \E row \in Shown : active \in StaffPageActions(row) \cup StaffTabActions(row)
  /\ Begin(r, Write([user EXCEPT !.active = active]))

ToggleUserStatus(r, active) ==
  /\ user # NoRow
  /\ \E row \in Shown : active \in ConsoleActions(row) \cup UsersPageActions(row)
  /\ Begin(r, Write([user EXCEPT !.active = active]))

\* createManagedStaff
CreateStaff(r) == user = NoRow /\ Begin(r, Todo(<<"addStaff">>))
AddStaff(r) ==
  /\ Doing(r, "addStaff") /\ Next1(r)
  /\ user' = IF user = NoRow THEN Account("staff", Temporary) ELSE user
  /\ UNCHANGED <<pending, otp, token, failures, sessions, trail>>

-----------------------------------------------------------------------------
Codes == 0 .. MaxCodes  \* MaxCodes itself is never sent: a wrong entry
Passwords == Chosen \cup {Temporary}

Start(r) ==
  \/ \E p \in Chosen : BeginRegistration(r, p)
  \/ \E c \in Codes : VerifyRegistration(r, c) \/ VerifyLoginOtp(r, c)
  \/ \E p \in Passwords : Login(r, p)
  \/ \E p \in Passwords, new \in Chosen : ForceChangePassword(r, p, new)
  \/ \E c \in Codes, new \in Chosen : ResetPassword(r, c, new)
  \/ \E p \in Passwords, c \in Codes, new \in Chosen : ChangePassword(r, p, c, new)
  \/ RequestLoginOtp(r) \/ RequestPasswordCode(r) \/ UpdateProfile(r) \/ CreateStaff(r)
  \/ \E active \in BOOLEAN : SetStaffActive(r, active) \/ ToggleUserStatus(r, active)

Step(r) ==
  \/ SavePending(r) \/ WritePending(r) \/ FindUser(r) \/ AddUser(r) \/ RemovePending(r)
  \/ ReadFailures(r) \/ WriteFailures(r) \/ ResetFailures(r)
  \/ SaveOtp(r) \/ ReadOtp(r) \/ WriteOtp(r) \/ RemoveOtp(r) \/ AddSession(r)
  \/ WriteUser(r) \/ SaveToken(r) \/ ReadUser(r) \/ ReadToken(r) \/ WriteToken(r)
  \/ RemoveToken(r) \/ RevokeAll(r) \/ AddStaff(r)

Next == Expire \/ Logout \/ \E r \in Requests : Start(r) \/ Step(r)

Spec == Init /\ [][Next]_vars

-----------------------------------------------------------------------------
(* Properties *)
\* An account that came from a registration has the password submitted along with
\* the very code that was verified, however many registrations of the address
\* overlap and whichever of them is on the table when the account is inserted
\* (verifyRegistrationOtp, beginRegistration); and there is one of them at most.
AccountOfTheVerifiedSubmission ==
  trail.made \subseteq trail.submitted /\ Cardinality(trail.made) <= 1

\* A user is locked out only after as many failed attempts, ever, as the limit says,
\* although concurrent attempts read and write one record: updates may be lost,
\* none is counted twice (recordLoginFailure).
LockedOnlyAfterFailures ==
  failures.count <= trail.failed /\ (failures.locked => trail.failed >= MAX_FAILED_LOGIN_ATTEMPTS)

\* A staff account never keeps its temporary password without the gate that makes
\* its owner change it: a late write of an old row may bring the password back,
\* and then brings the gate back with it (updateUser, assertPasswordChangeGate).
TemporaryPasswordIsGated == user # NoRow /\ user.password = Temporary => user.mustChange
=============================================================================
