----------------------------- MODULE ListingLocks -----------------------------
(***************************************************************************)
(* Several listings, the transactions that lock them and the audit log     *)
(* they all append to: utils/db.ts (withTransaction), withListingLock and  *)
(* appendAuditEvent of the repository, the requests of bid.service.ts and  *)
(* the passes of the deadline worker (payment.service.ts).                 *)
(*                                                                         *)
(* A transaction keeps what it locked to its end.  It locks listings one   *)
(* after the other and, from its first audit row on, the whole audit       *)
(* table; nothing orders these locks, so transactions may wait for each    *)
(* other in a circle, which the database ends by aborting one of them.     *)
(***************************************************************************)
EXTENDS Naturals, Sequences, FiniteSets

CONSTANTS
    Listings,           \* the listings; a higher number was created later
    Requests,           \* the HTTP requests, each sent at most once
    Workers,            \* the passes of the worker that may run at a time
    PoolSize,           \* connections of the pool
    Nobody              \* holder of a lock that is free

Procs == Requests \cup Workers

ASSUME ListingLocksAssumption ==
    /\ Listings \subseteq Nat \ {0}
    /\ Nobody \notin Procs
    /\ PoolSize \in Nat

VARIABLES
    row,                \* row[l]: the committed row of listing l, and its bids
    ended,              \* the listings whose end_time has passed
    due,                \* the sold listings whose payment_deadline has passed
    log,                \* the committed rows of audit_events
    next,               \* the id the next audit row takes
    holder,             \* holder[r]: who holds the lock on r
    task                \* task[p]: what the request or the pass p is doing

vars == <<row, ended, due, log, next, holder, task>>
time == <<ended, due>>

Audit == 0              \* the table audit_events
Resources == Listings \cup {Audit}

NewRow == [status |-> "active", bids |-> 0]
NoTask == [at |-> "idle", op |-> "none", want |-> Nobody, todo |-> {},
           rows |-> << >>, events |-> << >>, added |-> {}]

Init ==
    /\ row = [l \in Listings |-> NewRow]
    /\ ended = {} /\ due = {}
    /\ log = {} /\ next = 1
    /\ holder = [r \in Resources |-> Nobody]
    /\ task = [p \in Procs |-> NoTask]

-----------------------------------------------------------------------------
(***************************************************************************)
(* Transactions.                                                           *)
(***************************************************************************)
Connected(p) == task[p].at \in {"lock", "audit", "audited", "sweep"}

\* A row as p's own transaction sees it.
Seen(p, l) == IF l \in DOMAIN task[p].rows THEN task[p].rows[l] ELSE row[l]
Write(p, l, r) ==
    [x \in DOMAIN task[p].rows \cup {l} |-> IF x = l THEN r ELSE task[p].rows[x]]

\* FOR UPDATE, and LOCK TABLE: held to the end of the transaction.
CanLock(p, r) == holder[r] \in {Nobody, p}
Released(p) == [r \in Resources |-> IF holder[r] = p THEN Nobody ELSE holder[r]]

\* Variant of After: a pass that fails takes the worker with it.
AfterUncaught(p, failed) ==
    IF p \in Requests \/ failed THEN [NoTask EXCEPT !.at = "done"]
    ELSE [NoTask EXCEPT !.at = "list", !.op = task[p].op, !.todo = task[p].todo]

\* After its transaction a request is answered; a pass goes on with its list,
\* or ends when the transaction failed.
After(p, failed) ==
    IF p \in Requests THEN [NoTask EXCEPT !.at = "done"]
    ELSE IF failed THEN NoTask
    ELSE [NoTask EXCEPT !.at = "list", !.op = task[p].op, !.todo = task[p].todo]

\* withTransaction takes a connection of the pool, or waits for one in vain.
Connect(p) ==
    /\ task[p].at = "connect"
    /\ task' = [task EXCEPT
                   ![p] = IF Cardinality({q \in Procs : Connected(q)}) < PoolSize
                          THEN [@ EXCEPT !.at = IF task[p].op = "other"
                                                THEN "audit" ELSE "lock"]
                          ELSE After(p, TRUE)]
    /\ UNCHANGED <<row, time, log, next, holder>>

Commit(p) ==
    /\ row' = [l \in Listings |-> Seen(p, l)]
    /\ log' = log \cup task[p].added
    /\ holder' = Released(p)
    /\ task' = [task EXCEPT ![p] = After(p, FALSE)]
    /\ UNCHANGED <<time, next>>

\* Variant of Rollback: the audit rows were written outside the transaction.
RollbackKeepingAudit(p) ==
    /\ log' = log \cup task[p].added
    /\ holder' = Released(p)
    /\ task' = [task EXCEPT ![p] = After(p, TRUE)]
    /\ UNCHANGED <<row, time, next>>

Rollback(p) ==
    /\ holder' = Released(p)
    /\ task' = [task EXCEPT ![p] = After(p, TRUE)]
    /\ UNCHANGED <<row, time, log, next>>

\* What p waits for, and who keeps it from it.
Wants(p) == CASE task[p].at = "lock" -> task[p].want
              [] task[p].at = "audit" -> Audit
              [] OTHER -> Nobody
Blocker(p) == IF Wants(p) = Nobody \/ CanLock(p, Wants(p)) THEN Nobody
              ELSE holder[Wants(p)]
InCircle(p) ==
    LET chain[n \in Nat] == IF n = 0 THEN p
                            ELSE IF chain[n-1] = Nobody THEN Nobody
                            ELSE Blocker(chain[n-1])
    IN  \E n \in 1..Cardinality(Procs) : chain[n] = p

\* The database aborts some transaction of a circle; its query throws.
Abort(p) == InCircle(p) /\ Rollback(p)

-----------------------------------------------------------------------------
(***************************************************************************)
(* appendAuditEvent: lock the table, read the newest row, insert the next. *)
(***************************************************************************)
Newest(S) == IF S = {} THEN 0
             ELSE CHOOSE i \in {e.id : e \in S} : \A e \in S : e.id <= i

Row(p) == [id |-> next, previous |-> Newest(log \cup task[p].added),
           says |-> Head(task[p].events)]
Added(p) == [task[p] EXCEPT !.added = @ \cup {Row(p)}, !.events = Tail(@),
                            !.at = IF Len(task[p].events) = 1 THEN "audited" ELSE @]

\* Variant of Append that takes no lock on the table.
AppendUnlocked(p) ==
    /\ task[p].at = "audit"
    /\ task' = [task EXCEPT ![p] = Added(p)]
    /\ next' = next + 1
    /\ UNCHANGED <<row, time, log, holder>>

AppendAuditEvent(p) ==
    /\ task[p].at = "audit"
    /\ CanLock(p, Audit)
    /\ holder' = [holder EXCEPT ![Audit] = p]
    /\ task' = [task EXCEPT ![p] = Added(p)]
    /\ next' = next + 1
    /\ UNCHANGED <<row, time, log>>

-----------------------------------------------------------------------------
(***************************************************************************)
(* Reading a listing under its lock, and what follows from it.             *)
(***************************************************************************)
Take(p, l) == holder' = [holder EXCEPT ![l] = p]
Become(p, t) == task' = [task EXCEPT ![p] = t]
Locking(p, op, l) == task[p].at = "lock" /\ task[p].op = op /\ task[p].want = l
                     /\ CanLock(p, l)

\* The row l becomes r, and events are appended one by one.
Change(p, l, r, events) ==
    /\ Take(p, l)
    /\ Become(p, [task[p] EXCEPT !.at = "audit", !.events = events,
                                 !.rows = Write(p, l, r)])
    /\ UNCHANGED <<row, time, log, next>>

\* listActiveListings, as p's own transaction reads it.  The charities of the
\* listings are approved, as the query demands.
Active(p) == {l \in Listings : Seen(p, l).status = "active"}

\* placeBid on a running auction: accepted, or refused as too low, when the
\* exception rolls the audit row back as well.
PlaceBid(p, l) ==
    /\ Locking(p, "bid", l)
    /\ row[l].status = "active" /\ l \notin ended
    /\ \/ Change(p, l, [row[l] EXCEPT !.bids = @ + 1], <<<<"accepted", l>>>>)
       \/ /\ Take(p, l)
          /\ Become(p, [task[p] EXCEPT !.at = "audit", !.op = "refuse",
                                       !.events = <<<<"refused", l>>>>])
          /\ UNCHANGED <<row, time, log, next>>

\* On a listing that is no longer active it throws.
BidOnClosed(p, l) ==
    /\ Locking(p, "bid", l)
    /\ row[l].status # "active"
    /\ Rollback(p)

\* On an ended auction it first calls closeExpiredAuctions.
BidOnEnded(p, l) ==
    /\ Locking(p, "bid", l)
    /\ row[l].status = "active" /\ l \in ended
    /\ Take(p, l)
    /\ Become(p, [task[p] EXCEPT !.at = "sweep", !.op = "sweep",
                                 !.todo = Active(p)])
    /\ UNCHANGED <<row, time, log, next>>

\* The first of the list, which is ordered by created_at DESC.
First(S) == CHOOSE l \in S : \A k \in S : k <= l

\* closeExpiredAuctions inside the bidding transaction, and the exception
\* "Auction has ended." that undoes it.
Sweep(p) ==
    /\ task[p].at = "sweep"
    /\ \/ /\ task[p].todo # {}
          /\ LET l == First(task[p].todo)
             IN  Become(p, [task[p] EXCEPT !.todo = @ \ {l}, !.want = l,
                               !.at = IF l \in ended THEN "lock" ELSE "sweep"])
          /\ UNCHANGED <<row, time, log, next, holder>>
       \/ task[p].todo = {} /\ Rollback(p)

\* closeEndedActiveListing: an offer to the highest bidder, or none.
Closed(r) == [r EXCEPT !.status = IF r.bids > 0 THEN "sold" ELSE "unsold"]

CloseListing(p, l) ==
    /\ \E op \in {"sweep", "close"} : Locking(p, op, l)
    /\ IF Seen(p, l).status = "active"
       THEN Change(p, l, Closed(Seen(p, l)), <<<<Closed(Seen(p, l)).status, l>>>>)
       ELSE IF p \in Workers THEN Commit(p)
       ELSE /\ Take(p, l)
            /\ Become(p, [task[p] EXCEPT !.at = "sweep"])
            /\ UNCHANGED <<row, time, log, next>>

\* processOverduePaymentForListing
ExpireOffer(p, l) ==
    /\ Locking(p, "expire", l)
    /\ IF row[l].status = "sold" /\ l \in due
       THEN Change(p, l, [row[l] EXCEPT !.status = "expired"],
                   <<<<"missed", l>>, <<"expired", l>>>>)
       ELSE Commit(p)

\* After the audit rows: the bid is committed or refused, the sweep goes on.
Finish(p) ==
    /\ task[p].at = "audited"
    /\ CASE task[p].op = "refuse" -> Rollback(p)
         [] task[p].op = "sweep" ->
                /\ Become(p, [task[p] EXCEPT !.at = "sweep"])
                /\ UNCHANGED <<row, time, log, next, holder>>
         [] OTHER -> Commit(p)

-----------------------------------------------------------------------------
(***************************************************************************)
(* Who starts transactions.                                                *)
(***************************************************************************)
SendBid(p, l) ==
    /\ p \in Requests /\ task[p].at = "idle"
    /\ Become(p, [NoTask EXCEPT !.at = "connect", !.op = "bid", !.want = l])
    /\ UNCHANGED <<row, time, log, next, holder>>

\* Any other handler that audits what it did, in a transaction of the append.
SendOther(p) ==
    /\ p \in Requests /\ task[p].at = "idle"
    /\ Become(p, [NoTask EXCEPT !.at = "connect", !.op = "other",
                                !.events = <<<<"other", 0>>>>])
    /\ UNCHANGED <<row, time, log, next, holder>>

\* processAuctionDeadlines, every minute: the ended active listings first.
StartPass(p) ==
    /\ p \in Workers /\ task[p].at = "idle"
    /\ Become(p, [NoTask EXCEPT !.at = "list", !.op = "close",
                                !.todo = Active(p)])
    /\ UNCHANGED <<row, time, log, next, holder>>

\* Then the sold listings, as they were when the first list was done.
NextOfPass(p) ==
    /\ task[p].at = "list"
    /\ IF task[p].todo # {}
       THEN LET l == First(task[p].todo)
            IN  Become(p, [task[p] EXCEPT !.todo = @ \ {l}, !.want = l,
                              !.at = IF task[p].op = "expire" \/ l \in ended
                                     THEN "connect" ELSE "list"])
       ELSE Become(p, IF task[p].op = "expire" THEN NoTask
                      ELSE [task[p] EXCEPT !.op = "expire",
                               !.todo = {l \in Listings : row[l].status = "sold"}])
    /\ UNCHANGED <<row, time, log, next, holder>>

EndTimePasses(l) ==
    /\ ended' = ended \cup {l}
    /\ UNCHANGED <<row, due, log, next, holder, task>>

DeadlinePasses(l) ==
    /\ row[l].status = "sold"
    /\ due' = due \cup {l}
    /\ UNCHANGED <<row, ended, log, next, holder, task>>

-----------------------------------------------------------------------------
OnListing(p) ==
    \E l \in Listings : \/ PlaceBid(p, l) \/ BidOnClosed(p, l)
                        \/ BidOnEnded(p, l)
                        \/ CloseListing(p, l) \/ ExpireOffer(p, l)

Step(p) == Connect(p) \/ Sweep(p) \/ Finish(p) \/ NextOfPass(p)

Next ==
    \/ \E p \in Procs : \/ (\E l \in Listings : SendBid(p, l))
                        \/ SendOther(p) \/ StartPass(p)
                        \/ Step(p) \/ OnListing(p) \/ AppendAuditEvent(p)
                        \/ Abort(p)
    \/ \E l \in Listings : EndTimePasses(l) \/ DeadlinePasses(l)

Spec == Init /\ [][Next]_vars

\* The handlers run on, the database grants locks in the order they were asked
\* for and breaks circles, the interval starts passes.  Nobody has to bid.
Fairness ==
    \A p \in Procs :
        /\ WF_vars(Step(p)) /\ WF_vars(Abort(p)) /\ WF_vars(StartPass(p))
        /\ SF_vars(OnListing(p)) /\ SF_vars(AppendAuditEvent(p))

FairSpec == Spec /\ Fairness

-----------------------------------------------------------------------------
(***************************************************************************)
(* The audit log can be verified at any time: in the order of their ids,   *)
(* every committed row holds the hash of the committed row before it,      *)
(* whatever transactions were running, waiting or rolled back meanwhile.   *)
(***************************************************************************)
Chained(S) ==
    \A e \in S :
        /\ e.previous < e.id
        /\ e.previous = 0 \/ \E d \in S : d.id = e.previous
        /\ \A d \in S : ~ (e.previous < d.id /\ d.id < e.id)

ChainUnbroken == Chained(log)

(***************************************************************************)
(* The audit log and the listings tell the same story: there is one row    *)
(* for each accepted bid, each closing and each missed deadline that was    *)
(* committed, and none for one that was rolled back.                       *)
(***************************************************************************)
Count(what, l) == Cardinality({e \in log : e.says = <<what, l>>})
Once(b) == IF b THEN 1 ELSE 0

LogTellsTheTruth ==
    \A l \in Listings :
        LET status == row[l].status
        IN  /\ Count("accepted", l) = row[l].bids
            /\ Count("sold", l) = Once(status \in {"sold", "expired"})
            /\ Count("unsold", l) = Once(status = "unsold")
            /\ Count("missed", l) = Once(status = "expired")
            /\ Count("expired", l) = Once(status = "expired")

(***************************************************************************)
(* The worker gets to every ended auction and to every overdue offer, even *)
(* when the database aborts one of its transactions, which ends the pass,  *)
(* and while late bids hold locks on the listings.                         *)
(***************************************************************************)
PassesReachEveryListing ==
    \A l \in Listings :
        /\ l \in ended ~> row[l].status # "active"
        /\ l \in due ~> row[l].status = "expired"
=============================================================================
