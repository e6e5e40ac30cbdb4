------------------------- MODULE ListingLocksProofs -------------------------
(***************************************************************************)
(* The audit log of ListingLocks.tla is a chain and tells the truth about  *)
(* the listings, for every set of listings, requests and passes and every  *)
(* size of the pool.                                                       *)
(***************************************************************************)
EXTENDS ListingLocks, FiniteSetTheorems, TLAPS

Fields == {"at", "op", "want", "todo", "rows", "events", "added"}

Shape ==
    /\ DOMAIN task = Procs
    /\ \A p \in Procs : DOMAIN task[p] = Fields
    /\ DOMAIN holder = Resources

\* A set of audit rows that can be appended to with the id n.
Appendable(S, n) ==
    /\ Chained(S)
    /\ \A e \in S : e.id \in Nat /\ e.previous \in Nat /\ 0 < e.id /\ e.id < n
    /\ S = {} \/ \E d \in S : \A e \in S : e.id <= d.id

(***************************************************************************)
(* The inductive invariant.  ChainUnbroken speaks of committed rows only;  *)
(* a transaction appends to what it sees, the committed rows and its own.  *)
(* That both stay one chain needs that at most one transaction has rows of *)
(* its own: the one that holds the lock on the table.                      *)
(***************************************************************************)
OwnRowsUnderLock == \A p \in Procs : task[p].added # {} => holder[Audit] = p

ChainInv ==
    /\ Shape
    /\ next \in Nat \ {0}
    /\ Appendable(log, next)
    /\ \A p \in Procs : Appendable(log \cup task[p].added, next)
    /\ OwnRowsUnderLock

-----------------------------------------------------------------------------
(***************************************************************************)
(* A row that names the newest row of a chain extends the chain.           *)
(***************************************************************************)
LEMMA NewestIsNewest ==
    ASSUME NEW S, NEW n \in Nat \ {0}, Appendable(S, n)
    PROVE  /\ Newest(S) \in Nat /\ Newest(S) < n
           /\ S = {} => Newest(S) = 0
           /\ S # {} => /\ \E d \in S : d.id = Newest(S)
                        /\ \A e \in S : e.id <= Newest(S)
<1>1. CASE S = {}
  BY <1>1 DEF Newest
<1>2. CASE S # {}
  <2>1. PICK d \in S : \A e \in S : e.id <= d.id
    BY <1>2 DEF Appendable
  <2>2. d.id \in {e.id : e \in S} /\ \A e \in S : e.id <= d.id
    BY <2>1
  <2>3. /\ Newest(S) \in {e.id : e \in S}
        /\ \A e \in S : e.id <= Newest(S)
    BY <1>2, <2>2 DEF Newest
  <2>4. PICK c \in S : c.id = Newest(S)
    BY <2>3
  <2> QED
    BY <1>2, <2>3, <2>4 DEF Appendable
<1> QED
  BY <1>1, <1>2

LEMMA ChainExtended ==
    ASSUME NEW S, NEW n \in Nat \ {0}, NEW says, Appendable(S, n)
    PROVE  Appendable(S \cup {[id |-> n, previous |-> Newest(S), says |-> says]}, n + 1)
<1> DEFINE new == [id |-> n, previous |-> Newest(S), says |-> says]
           T == S \cup {new}
<1>1. /\ Newest(S) \in Nat /\ Newest(S) < n
      /\ S = {} => Newest(S) = 0
      /\ S # {} => /\ \E d \in S : d.id = Newest(S)
                   /\ \A e \in S : e.id <= Newest(S)
  BY NewestIsNewest
<1>2. new.id = n /\ new.previous = Newest(S)
  OBVIOUS
<1> HIDE DEF new
<1>3. \A e \in T : e.id \in Nat /\ e.previous \in Nat /\ 0 < e.id /\ e.id < n + 1
  BY <1>1, <1>2 DEF Appendable
<1>4. \E d \in T : \A e \in T : e.id <= d.id
  <2>1. new \in T /\ \A e \in T : e.id <= new.id
    BY <1>2 DEF Appendable
  <2> QED
    BY <2>1
<1>5. Chained(T)
  <2>1. ASSUME NEW e \in S
        PROVE  /\ e.previous < e.id
               /\ e.previous = 0 \/ \E d \in T : d.id = e.previous
               /\ \A d \in T : ~ (e.previous < d.id /\ d.id < e.id)
    BY <1>2 DEF Appendable, Chained
  <2>2. /\ new.previous < new.id
        /\ new.previous = 0 \/ \E d \in T : d.id = new.previous
        /\ \A d \in T : ~ (new.previous < d.id /\ d.id < new.id)
    BY <1>1, <1>2 DEF Appendable
  <2> QED
    BY <2>1, <2>2 DEF Chained
<1>6. Appendable(T, n + 1)
  BY <1>3, <1>4, <1>5 DEF Appendable
<1> QED
  BY <1>6 DEF new

LEMMA AppendableLater ==
    ASSUME NEW S, NEW n \in Nat, Appendable(S, n)
    PROVE  Appendable(S, n + 1)
BY DEF Appendable

-----------------------------------------------------------------------------
(***************************************************************************)
(* Steps that append nothing.                                              *)
(***************************************************************************)
LEMMA TaskReplaced ==
    ASSUME Shape, NEW p \in Procs, NEW t, DOMAIN t = Fields,
           task' = [task EXCEPT ![p] = t]
    PROVE  /\ DOMAIN task' = Procs
           /\ \A q \in Procs : DOMAIN task'[q] = Fields
           /\ task'[p] = t
           /\ \A q \in Procs : q # p => task'[q] = task[q]
BY DEF Shape

LEMMA Quiet ==
    ASSUME ChainInv, NEW p \in Procs, NEW t, DOMAIN t = Fields,
           task' = [task EXCEPT ![p] = t],
           t.added \in {task[p].added, {}},
           log' = log, next' = next,
           DOMAIN holder' = Resources,
           \/ holder'[Audit] = holder[Audit]
           \/ holder[Audit] = p /\ t.added = {}
    PROVE  ChainInv'
<1>1. /\ DOMAIN task' = Procs
      /\ \A q \in Procs : DOMAIN task'[q] = Fields
      /\ task'[p] = t
      /\ \A q \in Procs : q # p => task'[q] = task[q]
  BY TaskReplaced DEF ChainInv
<1>2. \A q \in Procs : task'[q].added \in {task[q].added, {}}
  BY <1>1
<1>3. Shape'
  BY <1>1 DEF Shape
<1>4. \A q \in Procs : Appendable(log \cup task'[q].added, next)
  <2> TAKE q \in Procs
  <2>1. CASE task'[q].added = {}
    <3>1. log \cup task'[q].added = log
      BY <2>1
    <3> QED
      BY <3>1 DEF ChainInv
  <2>2. CASE task'[q].added = task[q].added
    BY <2>2 DEF ChainInv
  <2> QED
    BY <1>2, <2>1, <2>2
<1>5. OwnRowsUnderLock'
  BY <1>1 DEF ChainInv, OwnRowsUnderLock
<1> QED
  BY <1>3, <1>4, <1>5 DEF ChainInv

\* Taking the lock on a listing leaves the lock on the audit table alone.
LEMMA ListingLocked ==
    ASSUME Shape, NEW p \in Procs, NEW l \in Listings, Take(p, l)
    PROVE  DOMAIN holder' = Resources /\ holder'[Audit] = holder[Audit]
BY ListingLocksAssumption DEF Shape, Take, Audit, Resources

LEMMA LocksReleased ==
    ASSUME Shape, NEW p \in Procs, holder' = Released(p)
    PROVE  /\ DOMAIN holder' = Resources
           /\ holder'[Audit] = holder[Audit] \/ holder[Audit] = p
BY DEF Shape, Released, Audit, Resources

LEMMA AfterIsIdle ==
    ASSUME NEW p \in Procs, NEW failed
    PROVE  DOMAIN After(p, failed) = Fields /\ After(p, failed).added = {}
BY DEF After, NoTask, Fields

-----------------------------------------------------------------------------
(***************************************************************************)
(* Every action, one by one.                                               *)
(***************************************************************************)
LEMMA RollbackKeeps ==
    ASSUME ChainInv, NEW p \in Procs, Rollback(p)
    PROVE  ChainInv'
<1>1. DOMAIN After(p, TRUE) = Fields /\ After(p, TRUE).added = {}
  BY AfterIsIdle
<1>2. /\ DOMAIN holder' = Resources
      /\ holder'[Audit] = holder[Audit] \/ holder[Audit] = p
  BY LocksReleased DEF Rollback, ChainInv
<1> QED
  BY <1>1, <1>2, Quiet DEF Rollback

LEMMA CommitKeeps ==
    ASSUME ChainInv, NEW p \in Procs, Commit(p)
    PROVE  ChainInv'
<1>1. DOMAIN After(p, FALSE) = Fields /\ After(p, FALSE).added = {}
  BY AfterIsIdle
<1>2. /\ DOMAIN task' = Procs
      /\ \A q \in Procs : DOMAIN task'[q] = Fields
      /\ task'[p] = After(p, FALSE)
      /\ \A q \in Procs : q # p => task'[q] = task[q]
  BY <1>1, TaskReplaced DEF Commit, ChainInv
<1>3. /\ DOMAIN holder' = Resources
      /\ holder'[Audit] = holder[Audit] \/ holder[Audit] = p
  BY LocksReleased DEF Commit, ChainInv
<1>4. Appendable(log', next)
  BY DEF ChainInv, Commit
<1>5. \A q \in Procs : Appendable(log' \cup task'[q].added, next)
  <2> TAKE q \in Procs
  <2>1. CASE task'[q].added = {}
    <3>1. log' \cup task'[q].added = log'
      BY <2>1
    <3> QED
      BY <3>1, <1>4
  <2>2. CASE task'[q].added # {}
    <3>1. q # p /\ task'[q].added = task[q].added
      BY <1>1, <1>2, <2>2
    <3>2. task[p].added = {}
      BY <2>2, <3>1 DEF ChainInv, OwnRowsUnderLock
    <3>3. log' \cup task'[q].added = log \cup task[q].added
      BY <3>1, <3>2 DEF Commit
    <3> QED
      BY <3>3 DEF ChainInv
  <2> QED
    BY <2>1, <2>2
<1>6. OwnRowsUnderLock'
  BY <1>1, <1>2, <1>3 DEF ChainInv, OwnRowsUnderLock
<1> QED
  BY <1>2, <1>3, <1>4, <1>5, <1>6 DEF ChainInv, Shape, Commit

LEMMA AppendKeeps ==
    ASSUME ChainInv, NEW p \in Procs, AppendAuditEvent(p)
    PROVE  ChainInv'
<1> DEFINE S == log \cup task[p].added
<1>1. DOMAIN Added(p) = Fields /\ Added(p).added = task[p].added \cup {Row(p)}
  BY DEF ChainInv, Shape, Added, Fields
<1>2. /\ DOMAIN task' = Procs
      /\ \A q \in Procs : DOMAIN task'[q] = Fields
      /\ task'[p] = Added(p)
      /\ \A q \in Procs : q # p => task'[q] = task[q]
  BY <1>1, TaskReplaced DEF AppendAuditEvent, ChainInv
<1>3. DOMAIN holder' = Resources /\ holder'[Audit] = p
  BY DEF AppendAuditEvent, ChainInv, Shape, Audit, Resources
<1>4. \A q \in Procs : q # p => task[q].added = {}
  BY ListingLocksAssumption DEF AppendAuditEvent, CanLock, ChainInv, OwnRowsUnderLock
<1>5. next' \in Nat \ {0} /\ next' = next + 1 /\ next \in Nat \ {0} /\ log' = log
  BY DEF AppendAuditEvent, ChainInv
<1>6. Appendable(log', next')
  BY <1>5, AppendableLater DEF ChainInv
<1>7. Appendable(S \cup {Row(p)}, next')
  <2>1. Appendable(S, next)
    BY DEF ChainInv
  <2> HIDE DEF S
  <2>2. Row(p) = [id |-> next, previous |-> Newest(S), says |-> Head(task[p].events)]
    BY DEF Row, S
  <2> QED
    BY <1>5, <2>1, <2>2, ChainExtended
<1>8. \A q \in Procs : Appendable(log' \cup task'[q].added, next')
  <2> TAKE q \in Procs
  <2>1. CASE q = p
    <3>1. log' \cup task'[q].added = S \cup {Row(p)}
      BY <1>1, <1>2, <1>5, <2>1
    <3> QED
      BY <3>1, <1>7
  <2>2. CASE q # p
    <3>1. log' \cup task'[q].added = log'
      BY <1>2, <1>4, <2>2
    <3> QED
      BY <3>1, <1>6
  <2> QED
    BY <2>1, <2>2
<1>9. OwnRowsUnderLock'
  BY <1>2, <1>3, <1>4 DEF OwnRowsUnderLock
<1> QED
  BY <1>2, <1>3, <1>5, <1>6, <1>8, <1>9 DEF ChainInv, Shape

\* A step that gives p a new task, with or without a lock on a listing.
LEMMA TaskChanged ==
    ASSUME ChainInv, NEW p \in Procs, NEW t, Become(p, t), DOMAIN t = Fields,
           t.added \in {task[p].added, {}},
           log' = log, next' = next,
           holder' = holder \/ \E l \in Listings : Take(p, l)
    PROVE  ChainInv'
<1>1. DOMAIN holder' = Resources /\ holder'[Audit] = holder[Audit]
  BY ListingLocked DEF ChainInv, Shape
<1> QED
  BY <1>1, Quiet DEF Become

LEMMA ChangeKeeps ==
    ASSUME ChainInv, NEW p \in Procs, NEW l \in Listings, NEW r, NEW events,
           Change(p, l, r, events)
    PROVE  ChainInv'
<1> DEFINE t == [task[p] EXCEPT !.at = "audit", !.events = events,
                                !.rows = Write(p, l, r)]
<1>1. DOMAIN t = Fields /\ t.added = task[p].added
  BY DEF ChainInv, Shape, Fields
<1>2. Become(p, t) /\ Take(p, l) /\ log' = log /\ next' = next
  BY DEF Change
<1> HIDE DEF t
<1> QED
  BY <1>1, <1>2, TaskChanged

LEMMA OnListingKeeps ==
    ASSUME ChainInv, NEW p \in Procs, NEW l \in Listings,
           \/ PlaceBid(p, l) \/ BidOnClosed(p, l) \/ BidOnEnded(p, l)
           \/ CloseListing(p, l) \/ ExpireOffer(p, l)
    PROVE  ChainInv'
<1>1. CASE PlaceBid(p, l)
  <2> DEFINE t == [task[p] EXCEPT !.at = "audit", !.op = "refuse",
                                  !.events = <<<<"refused", l>>>>]
  <2>1. DOMAIN t = Fields /\ t.added = task[p].added
    BY DEF ChainInv, Shape, Fields
  <2>2. \/ Change(p, l, [row[l] EXCEPT !.bids = @ + 1], <<<<"accepted", l>>>>)
        \/ Take(p, l) /\ Become(p, t) /\ log' = log /\ next' = next
    BY <1>1 DEF PlaceBid
  <2> HIDE DEF t
  <2> QED
    BY <2>1, <2>2, ChangeKeeps, TaskChanged
<1>2. CASE BidOnClosed(p, l)
  BY <1>2, RollbackKeeps DEF BidOnClosed
<1>3. CASE BidOnEnded(p, l)
  <2> DEFINE t == [task[p] EXCEPT !.at = "sweep", !.op = "sweep", !.todo = Active(p)]
  <2>1. DOMAIN t = Fields /\ t.added = task[p].added
    BY DEF ChainInv, Shape, Fields
  <2>2. Take(p, l) /\ Become(p, t) /\ log' = log /\ next' = next
    BY <1>3 DEF BidOnEnded
  <2> HIDE DEF t
  <2> QED
    BY <2>1, <2>2, TaskChanged
<1>4. CASE CloseListing(p, l)
  <2> DEFINE t == [task[p] EXCEPT !.at = "sweep"]
  <2>1. DOMAIN t = Fields /\ t.added = task[p].added
    BY DEF ChainInv, Shape, Fields
  <2>2. \/ \E r, events : Change(p, l, r, events)
        \/ Commit(p)
        \/ Take(p, l) /\ Become(p, t) /\ log' = log /\ next' = next
    BY <1>4 DEF CloseListing
  <2> HIDE DEF t
  <2> QED
    BY <2>1, <2>2, ChangeKeeps, CommitKeeps, TaskChanged
<1>5. CASE ExpireOffer(p, l)
  <2>1. (\E r, events : Change(p, l, r, events)) \/ Commit(p)
    BY <1>5 DEF ExpireOffer
  <2> QED
    BY <2>1, ChangeKeeps, CommitKeeps
<1> QED
  BY <1>1, <1>2, <1>3, <1>4, <1>5

LEMMA StepKeeps ==
    ASSUME ChainInv, NEW p \in Procs, Step(p)
    PROVE  ChainInv'
<1> USE DEF Fields
<1>1. CASE Connect(p)
  <2> DEFINE t == IF Cardinality({q \in Procs : Connected(q)}) < PoolSize
                  THEN [task[p] EXCEPT !.at = IF task[p].op = "other"
                                              THEN "audit" ELSE "lock"]
                  ELSE After(p, TRUE)
  <2>1. DOMAIN t = Fields /\ t.added \in {task[p].added, {}}
    BY AfterIsIdle DEF ChainInv, Shape
  <2>2. task' = [task EXCEPT ![p] = t]
    BY <1>1 DEF Connect, ChainInv, Shape
  <2> HIDE DEF t
  <2> QED
    BY <1>1, <2>1, <2>2, TaskChanged DEF Connect, Become
<1>2. CASE Sweep(p)
  <2>1. CASE Rollback(p)
    BY <2>1, RollbackKeeps
  <2>2. CASE ~Rollback(p)
    <3> DEFINE l == First(task[p].todo)
               t == [task[p] EXCEPT !.todo = @ \ {l}, !.want = l,
                                    !.at = IF l \in ended THEN "lock" ELSE "sweep"]
    <3>1. DOMAIN t = Fields /\ t.added = task[p].added
      BY DEF ChainInv, Shape
    <3>2. Become(p, t) /\ log' = log /\ next' = next /\ holder' = holder
      BY <1>2, <2>2 DEF Sweep
    <3> HIDE DEF t
    <3> QED
      BY <3>1, <3>2, TaskChanged
  <2> QED
    BY <2>1, <2>2
<1>3. CASE Finish(p)
  <2> DEFINE t == [task[p] EXCEPT !.at = "sweep"]
  <2>1. DOMAIN t = Fields /\ t.added = task[p].added
    BY DEF ChainInv, Shape
  <2>2. \/ Rollback(p) \/ Commit(p)
        \/ Become(p, t) /\ log' = log /\ next' = next /\ holder' = holder
    BY <1>3 DEF Finish
  <2> HIDE DEF t
  <2> QED
    BY <2>1, <2>2, RollbackKeeps, CommitKeeps, TaskChanged
<1>4. CASE NextOfPass(p)
  <2> DEFINE l == First(task[p].todo)
             t == IF task[p].todo # {}
                  THEN [task[p] EXCEPT !.todo = @ \ {l}, !.want = l,
                           !.at = IF task[p].op = "expire" \/ l \in ended
                                  THEN "connect" ELSE "list"]
                  ELSE IF task[p].op = "expire" THEN NoTask
                  ELSE [task[p] EXCEPT !.op = "expire",
                           !.todo = {k \in Listings : row[k].status = "sold"}]
  <2>1. DOMAIN t = Fields /\ t.added \in {task[p].added, {}}
    BY DEF ChainInv, Shape, NoTask
  <2>2. Become(p, t) /\ log' = log /\ next' = next /\ holder' = holder
    BY <1>4 DEF NextOfPass
  <2> HIDE DEF t
  <2> QED
    BY <2>1, <2>2, TaskChanged
<1> QED
  BY <1>1, <1>2, <1>3, <1>4 DEF Step

LEMMA StartKeeps ==
    ASSUME ChainInv, NEW p \in Procs,
           (\E l \in Listings : SendBid(p, l)) \/ SendOther(p) \/ StartPass(p)
    PROVE  ChainInv'
<1>1. PICK t : /\ Become(p, t) /\ DOMAIN t = Fields /\ t.added = {}
               /\ log' = log /\ next' = next /\ holder' = holder
  BY DEF SendBid, SendOther, StartPass, NoTask, Fields
<1> QED
  BY <1>1, TaskChanged

-----------------------------------------------------------------------------
LEMMA ChainInvHolds == Spec => []ChainInv
<1>1. Init => ChainInv
  <2> SUFFICES ASSUME Init PROVE ChainInv
    OBVIOUS
  <2>1. Shape
    BY DEF Init, Shape, NoTask, Fields
  <2>2. \A p \in Procs : task[p].added = {}
    BY DEF Init, NoTask
  <2>3. Appendable({}, 1)
    BY DEF Appendable, Chained
  <2>4. \A p \in Procs : log \cup task[p].added = {}
    BY <2>2 DEF Init
  <2> QED
    BY <2>1, <2>2, <2>3, <2>4 DEF Init, ChainInv, OwnRowsUnderLock
<1>2. ChainInv /\ [Next]_vars => ChainInv'
  <2> SUFFICES ASSUME ChainInv, [Next]_vars PROVE ChainInv'
    OBVIOUS
  <2>1. CASE UNCHANGED vars
    BY <2>1 DEF vars, ChainInv, Shape, OwnRowsUnderLock
  <2>2. CASE \E l \in Listings : EndTimePasses(l) \/ DeadlinePasses(l)
    BY <2>2 DEF EndTimePasses, DeadlinePasses, ChainInv, Shape, OwnRowsUnderLock
  <2>3. ASSUME NEW p \in Procs,
               \/ (\E l \in Listings : SendBid(p, l))
               \/ SendOther(p) \/ StartPass(p)
               \/ Step(p) \/ OnListing(p) \/ AppendAuditEvent(p) \/ Abort(p)
        PROVE  ChainInv'
    BY <2>3, StartKeeps, StepKeeps, OnListingKeeps, AppendKeeps, RollbackKeeps
       DEF OnListing, Abort
  <2> QED
    BY <2>1, <2>2, <2>3 DEF Next
<1> QED
  BY <1>1, <1>2, PTL DEF Spec

(***************************************************************************)
(* In the order of their ids, every committed audit row holds the hash of  *)
(* the committed row before it (appendAuditEvent): for any number of       *)
(* transactions, aborted or not, and whatever they lock besides.           *)
(***************************************************************************)
THEOREM AuditLogIsAChain == Spec => []ChainUnbroken
<1>1. ChainInv => ChainUnbroken
  BY DEF ChainInv, Appendable, ChainUnbroken
<1> QED
  BY <1>1, ChainInvHolds, PTL
-----------------------------------------------------------------------------
(***************************************************************************)
(* The inductive invariant of LogTellsTheTruth.  What holds of the         *)
(* committed log and the committed rows holds, for every transaction, of   *)
(* the log with its own audit rows and its own listings, once the events   *)
(* it has still to append are counted as well.                             *)
(***************************************************************************)
Kinds == {"accepted", "sold", "unsold", "missed", "expired"}
RowType == [status : {"active", "sold", "unsold", "expired"}, bids : Nat]

Told(S, k, l) == {e \in S : e.says = <<k, l>>}
Pending(s, x) == IF \E i \in 1..Len(s) : s[i] = x THEN 1 ELSE 0

\* How many events of kind k a listing with the row r has behind it.
Behind(r, k) ==
    CASE k = "accepted" -> r.bids
      [] k = "sold" -> Once(r.status \in {"sold", "expired"})
      [] k = "unsold" -> Once(r.status = "unsold")
      [] k = "missed" -> Once(r.status = "expired")
      [] k = "expired" -> Once(r.status = "expired")

\* What is appended names a kind and a listing whose row the task holds.
Covered(x, rows) == \A k \in Kinds, l \in Listings : x = <<k, l>> => l \in DOMAIN rows

EventsOK(s) == \/ s = << >>
               \/ \E a : s = <<a>>
               \/ \E a, b : s = <<a, b>> /\ a # b

TaskOK(t) ==
    /\ EventsOK(t.events)
    /\ t.at = "audit" => t.events # << >>
    /\ t.at = "connect" /\ t.op = "other" => t.events # << >>
    /\ t.at = "audited" => t.events = << >>
    /\ t.op = "other" => t.at \in {"connect", "audit", "audited"}
    /\ t.at # "audit" /\ t.op # "other" => t.events = << >>
    /\ \/ t.at \in {"audit", "audited"}
       \/ t.at \in {"sweep", "lock"} /\ t.op = "sweep"
       \/ t.rows = << >> /\ t.added = {}
    /\ \A l \in DOMAIN t.rows : l \in Listings /\ t.rows[l] \in RowType
    /\ IsFiniteSet(t.added)
    /\ \A e \in t.added : Covered(e.says, t.rows)
    /\ \A i \in 1..Len(t.events) : Covered(t.events[i], t.rows)

OwnTruth(p) ==
    \A k \in Kinds : \A l \in DOMAIN task[p].rows :
        Cardinality(Told(log \cup task[p].added, k, l))
            + Pending(task[p].events, <<k, l>>) = Behind(task[p].rows[l], k)

TruthInv ==
    /\ row \in [Listings -> RowType]
    /\ IsFiniteSet(log)
    /\ \A k \in Kinds, l \in Listings :
          Cardinality(Told(log, k, l)) = Behind(row[l], k)
    /\ \A p \in Procs :
          /\ TaskOK(task[p])
          /\ task[p].op = "other" => p \in Requests
          /\ OwnTruth(p)
          /\ \A l \in DOMAIN task[p].rows : holder[l] = p

-----------------------------------------------------------------------------
(***************************************************************************)
(* Counting rows of the log, and events still to be appended.              *)
(***************************************************************************)
LEMMA ToldIsFinite ==
    ASSUME NEW S, IsFiniteSet(S), NEW k, NEW l
    PROVE  IsFiniteSet(Told(S, k, l)) /\ Cardinality(Told(S, k, l)) \in Nat
<1>1. Told(S, k, l) \in SUBSET S
  BY DEF Told
<1> QED
  BY <1>1, FS_Subset, FS_CardinalityType

LEMMA OneMoreRow ==
    ASSUME NEW S, IsFiniteSet(S), NEW e, e \notin S, NEW k, NEW l, e.says = <<k, l>>
    PROVE  Cardinality(Told(S \cup {e}, k, l)) = Cardinality(Told(S, k, l)) + 1
<1>1. IsFiniteSet(Told(S, k, l)) /\ Cardinality(Told(S, k, l)) \in Nat
  BY ToldIsFinite
<1>2. Told(S \cup {e}, k, l) = Told(S, k, l) \cup {e} /\ e \notin Told(S, k, l)
  BY DEF Told
<1> QED
  BY <1>1, <1>2, FS_AddElement

LEMMA NothingPending ==
    ASSUME NEW x
    PROVE  Pending(<< >>, x) = 0
BY DEF Pending

LEMMA FirstEvent ==
    ASSUME NEW s, EventsOK(s), s # << >>
    PROVE  /\ EventsOK(Tail(s))
           /\ \A x : Pending(s, x) = (IF Head(s) = x THEN 1 ELSE 0) + Pending(Tail(s), x)
           /\ Len(s) = 1 <=> Tail(s) = << >>
           /\ Head(s) = s[1] /\ 1 \in 1..Len(s)
           /\ \A i \in 1..Len(Tail(s)) : Tail(s)[i] = s[i + 1] /\ i + 1 \in 1..Len(s)
<1>1. ASSUME NEW a, s = <<a>>
      PROVE  /\ Tail(s) = << >> /\ Head(s) = a /\ Len(s) = 1 /\ s[1] = a
  BY <1>1
<1>2. ASSUME NEW a, NEW b, s = <<a, b>>, a # b
      PROVE  /\ Tail(s) = <<b>> /\ Head(s) = a /\ Len(s) = 2 /\ s[1] = a /\ s[2] = b
  BY <1>2
<1>3. ASSUME NEW x, NEW y
      PROVE  Pending(<<y>>, x) = IF y = x THEN 1 ELSE 0
  BY DEF Pending
<1>4. CASE \E a : s = <<a>>
  <2>1. PICK a : s = <<a>>
    BY <1>4
  <2>2. \A x : Pending(s, x) = IF a = x THEN 1 ELSE 0
    BY <1>3, <2>1
  <2> QED
    BY <1>1, <2>1, <2>2, NothingPending DEF EventsOK
<1>5. CASE \E a, b : s = <<a, b>> /\ a # b
  <2>1. PICK a, b : s = <<a, b>> /\ a # b
    BY <1>5
  <2>2. /\ Tail(s) = <<b>> /\ Head(s) = a /\ Len(s) = 2 /\ s[1] = a /\ s[2] = b
    BY <1>2, <2>1
  <2>3. \A x : Pending(s, x) = (IF a = x THEN 1 ELSE 0) + (IF b = x THEN 1 ELSE 0)
    BY <2>1, <2>2 DEF Pending
  <2>4. \A x : Pending(Tail(s), x) = IF b = x THEN 1 ELSE 0
    <3>1. \A x : Pending(<<b>>, x) = IF b = x THEN 1 ELSE 0
      BY <1>3
    <3> QED
      BY <2>2, <3>1
  <2>5. EventsOK(Tail(s)) /\ Len(Tail(s)) = 1 /\ Tail(s) # << >> /\ Tail(s)[1] = s[2]
    BY <2>2 DEF EventsOK
  <2> QED
    BY <2>2, <2>3, <2>4, <2>5
<1> QED
  BY <1>4, <1>5 DEF EventsOK

-----------------------------------------------------------------------------
(***************************************************************************)
(* A step of p that commits nothing.                                       *)
(***************************************************************************)
LEMMA OthersKeepTheirLocks ==
    ASSUME TruthInv, Shape, NEW p \in Procs,
           \/ holder' = holder
           \/ holder' = Released(p)
           \/ \E r \in Resources : CanLock(p, r) /\ holder' = [holder EXCEPT ![r] = p]
    PROVE  /\ \A q \in Procs \ {p} : \A l \in DOMAIN task[q].rows : holder'[l] = q
           /\ holder' # Released(p) => \A l \in DOMAIN task[p].rows : holder'[l] = p
<1>1. \A q \in Procs : \A l \in DOMAIN task[q].rows :
          holder[l] = q /\ l \in Resources /\ q # Nobody
  BY ListingLocksAssumption DEF TruthInv, TaskOK, Resources
<1> QED
  BY <1>1 DEF Shape, Released, CanLock

LEMMA PrivateStep ==
    ASSUME TruthInv, Shape, NEW p \in Procs, NEW t,
           task' = [task EXCEPT ![p] = t], row' = row, log' = log,
           TaskOK(t), t.op = "other" => p \in Requests,
           \A k \in Kinds : \A l \in DOMAIN t.rows :
               Cardinality(Told(log \cup t.added, k, l))
                   + Pending(t.events, <<k, l>>) = Behind(t.rows[l], k),
           \A l \in DOMAIN t.rows : holder'[l] = p,
           \A q \in Procs \ {p} : \A l \in DOMAIN task[q].rows : holder'[l] = q
    PROVE  TruthInv'
<1>1. task'[p] = t /\ \A q \in Procs \ {p} : task'[q] = task[q]
  BY DEF Shape
<1>2. ASSUME NEW q \in Procs
      PROVE  /\ TaskOK(task'[q])
             /\ task'[q].op = "other" => q \in Requests
             /\ OwnTruth(q)'
             /\ \A l \in DOMAIN task'[q].rows : holder'[l] = q
  <2>1. CASE q = p
    BY <1>1, <2>1 DEF OwnTruth
  <2>2. CASE q # p
    <3>1. /\ TaskOK(task[q]) /\ OwnTruth(q)
          /\ task[q].op = "other" => q \in Requests
      BY DEF TruthInv
    <3>2. OwnTruth(q)'
      BY <1>1, <2>2, <3>1 DEF OwnTruth
    <3> QED
      BY <1>1, <2>2, <3>1, <3>2
  <2> QED
    BY <2>1, <2>2
<1> QED
  BY <1>2 DEF TruthInv

\* A task that keeps its rows, its events and its audit rows.
LEMMA TaskGoesOn ==
    ASSUME TruthInv, Shape, NEW p \in Procs, NEW t,
           task' = [task EXCEPT ![p] = t], row' = row, log' = log,
           t.rows = task[p].rows, t.events = task[p].events, t.added = task[p].added,
           t.op = "other" => p \in Requests, TaskOK(t),
           \/ holder' = holder
           \/ \E r \in Resources : CanLock(p, r) /\ holder' = [holder EXCEPT ![r] = p]
    PROVE  TruthInv'
<1>1. \A q \in Procs : \A l \in DOMAIN task[q].rows : holder'[l] = q
  <2>1. \A q \in Procs : \A l \in DOMAIN task[q].rows :
            holder[l] = q /\ l \in Resources /\ q # Nobody
    BY ListingLocksAssumption DEF TruthInv, TaskOK, Resources
  <2> QED
    BY <2>1 DEF Shape, CanLock
<1>2. OwnTruth(p)
  BY DEF TruthInv
<1> QED
  BY <1>1, <1>2, PrivateStep DEF OwnTruth

\* A task that has nothing of its own.
LEMMA TaskWithoutRows ==
    ASSUME TruthInv, Shape, NEW p \in Procs, NEW t,
           task' = [task EXCEPT ![p] = t], row' = row, log' = log,
           t.rows = << >>, TaskOK(t), t.op = "other" => p \in Requests,
           \/ holder' = holder
           \/ holder' = Released(p)
           \/ \E r \in Resources : CanLock(p, r) /\ holder' = [holder EXCEPT ![r] = p]
    PROVE  TruthInv'
<1>1. \A q \in Procs \ {p} : \A l \in DOMAIN task[q].rows : holder'[l] = q
  BY OthersKeepTheirLocks
<1>2. DOMAIN t.rows = {}
  OBVIOUS
<1> QED
  BY <1>1, <1>2, PrivateStep

-----------------------------------------------------------------------------
(***************************************************************************)
(* The end of a transaction, an audit row, a change of a listing.          *)
(***************************************************************************)
LEMMA EndedTaskOK ==
    ASSUME TruthInv, NEW p \in Procs, NEW failed
    PROVE  /\ TaskOK(After(p, failed)) /\ After(p, failed).op # "other"
           /\ After(p, failed).rows = << >>
           /\ DOMAIN After(p, failed).rows = {}
<1>1. p \notin Requests => task[p].op # "other"
  BY DEF TruthInv
<1>2. EventsOK(<< >>) /\ Len(<< >>) = 0 /\ IsFiniteSet({})
  BY FS_EmptySet DEF EventsOK
<1>3. PICK t : t = After(p, failed)
  OBVIOUS
<1>4. /\ t.rows = << >> /\ t.events = << >> /\ t.added = {}
      /\ t.at \in {"done", "idle", "list"} /\ t.op # "other"
  BY <1>1, <1>3 DEF After, NoTask
<1>5. DOMAIN t.rows = {}
  BY <1>4
<1>6. TaskOK(t)
  BY <1>2, <1>4, <1>5 DEF TaskOK
<1> QED
  BY <1>3, <1>4, <1>5, <1>6

LEMMA RollbackIsTrue ==
    ASSUME TruthInv, Shape, NEW p \in Procs, Rollback(p)
    PROVE  TruthInv'
BY EndedTaskOK, TaskWithoutRows DEF Rollback

LEMMA CommitIsTrue ==
    ASSUME TruthInv, ChainInv, NEW p \in Procs, Commit(p), task[p].events = << >>
    PROVE  TruthInv'
<1>1. TaskOK(task[p]) /\ OwnTruth(p) /\ IsFiniteSet(log)
  BY DEF TruthInv
<1>2. row' \in [Listings -> RowType]
  BY <1>1 DEF Commit, Seen, TaskOK, TruthInv
<1>3. log' = log \cup task[p].added /\ IsFiniteSet(log')
  BY <1>1, FS_Union DEF Commit, TaskOK
<1>4. ASSUME NEW k \in Kinds, NEW l \in Listings, l \notin DOMAIN task[p].rows
      PROVE  Told(log', k, l) = Told(log, k, l)
  <2>1. \A e \in task[p].added : e.says # <<k, l>>
    BY <1>1, <1>4 DEF TaskOK, Covered
  <2> QED
    BY <1>3, <2>1 DEF Told
<1>5. ASSUME NEW k \in Kinds, NEW l \in Listings
      PROVE  Cardinality(Told(log', k, l)) = Behind(row'[l], k)
  <2>1. CASE l \in DOMAIN task[p].rows
    <3>1. row'[l] = task[p].rows[l]
      BY <2>1 DEF Commit, Seen
    <3>2. Cardinality(Told(log', k, l)) + Pending(<< >>, <<k, l>>) = Behind(row'[l], k)
      BY <1>1, <1>3, <2>1, <3>1 DEF OwnTruth
    <3>3. Cardinality(Told(log', k, l)) \in Nat
      BY <1>3, ToldIsFinite
    <3> QED
      BY <3>2, <3>3, NothingPending
  <2>2. CASE l \notin DOMAIN task[p].rows
    <3>1. row'[l] = row[l]
      BY <2>2 DEF Commit, Seen
    <3> QED
      BY <1>4, <2>2, <3>1 DEF TruthInv
  <2> QED
    BY <2>1, <2>2
<1>6. /\ task'[p] = After(p, FALSE)
      /\ \A q \in Procs \ {p} : task'[q] = task[q]
  BY DEF Commit, ChainInv, Shape
<1>7. \A q \in Procs \ {p} : \A l \in DOMAIN task[q].rows : holder'[l] = q
  BY OthersKeepTheirLocks DEF Commit, ChainInv
<1>8. ASSUME NEW q \in Procs, q # p
      PROVE  OwnTruth(q)'
  <2> SUFFICES ASSUME NEW k \in Kinds, NEW l \in DOMAIN task[q].rows
               PROVE  Cardinality(Told(log' \cup task[q].added, k, l))
                         + Pending(task[q].events, <<k, l>>) = Behind(task[q].rows[l], k)
    BY <1>6, <1>8 DEF OwnTruth
  <2>1. l \in Listings /\ l \notin DOMAIN task[p].rows
    BY <1>8 DEF TruthInv, TaskOK
  <2>2. OwnTruth(q) /\ (task[q].added = {} \/ task[p].added = {})
    BY <1>8 DEF ChainInv, OwnRowsUnderLock, TruthInv
  <2>3. Told(log' \cup task[q].added, k, l) = Told(log \cup task[q].added, k, l)
    BY <1>3, <1>4, <2>1, <2>2
  <2> QED
    BY <2>2, <2>3 DEF OwnTruth
<1>9. ASSUME NEW q \in Procs
      PROVE  /\ TaskOK(task'[q])
             /\ task'[q].op = "other" => q \in Requests
             /\ OwnTruth(q)'
             /\ \A l \in DOMAIN task'[q].rows : holder'[l] = q
  <2>1. CASE q = p
    BY <1>6, <2>1, EndedTaskOK DEF OwnTruth
  <2>2. CASE q # p
    BY <1>6, <1>7, <1>8, <2>2 DEF TruthInv
  <2> QED
    BY <2>1, <2>2
<1> QED
  BY <1>2, <1>3, <1>5, <1>9 DEF TruthInv

LEMMA AppendIsTrue ==
    ASSUME TruthInv, ChainInv, NEW p \in Procs, AppendAuditEvent(p)
    PROVE  TruthInv'
<1> DEFINE S == log \cup task[p].added
<1>1. TaskOK(task[p]) /\ OwnTruth(p) /\ IsFiniteSet(log)
  BY DEF TruthInv
<1>2. task[p].at = "audit" /\ task[p].events # << >> /\ EventsOK(task[p].events)
  BY <1>1 DEF AppendAuditEvent, TaskOK
<1>3. DOMAIN task[p] = Fields
  BY DEF ChainInv, Shape
<1>4. /\ Added(p).rows = task[p].rows
      /\ Added(p).added = task[p].added \cup {Row(p)}
      /\ Added(p).events = Tail(task[p].events)
      /\ Added(p).op = task[p].op
      /\ Added(p).at = IF Len(task[p].events) = 1 THEN "audited" ELSE "audit"
  BY <1>2, <1>3 DEF Added, Fields
<1>5. Row(p).id = next /\ Row(p).says = Head(task[p].events)
  BY DEF Row
<1>6. Row(p) \notin S /\ IsFiniteSet(S) /\ IsFiniteSet(task[p].added)
  <2>1. \A e \in S : e.id < next /\ e.id \in Nat
    BY DEF ChainInv, Appendable
  <2>2. IsFiniteSet(task[p].added)
    BY <1>1 DEF TaskOK
  <2>3. Row(p) \notin S
    <3>1. next \in Nat
      BY DEF ChainInv
    <3> HIDE DEF S
    <3> QED
      BY <1>5, <2>1, <3>1
  <2> QED
    BY <1>1, <2>2, <2>3, FS_Union
<1>7. TaskOK(Added(p))
  <2>1. IsFiniteSet(Added(p).added)
    BY <1>4, <1>6, FS_AddElement
  <2>2. Covered(Head(task[p].events), task[p].rows)
    BY <1>1, <1>2, FirstEvent DEF TaskOK
  <2>3. \A e \in Added(p).added : Covered(e.says, Added(p).rows)
    BY <1>1, <1>4, <1>5, <2>2 DEF TaskOK
  <2>4. \A i \in 1..Len(Added(p).events) : Covered(Added(p).events[i], Added(p).rows)
    BY <1>1, <1>2, <1>4, FirstEvent DEF TaskOK
  <2>5. EventsOK(Added(p).events)
    BY <1>2, <1>4, FirstEvent
  <2>6. Added(p).at = "audited" <=> Added(p).events = << >>
    BY <1>2, <1>4, FirstEvent
  <2>7. Added(p).at \in {"audit", "audited"}
    BY <1>4
  <2>8. \A l \in DOMAIN Added(p).rows : l \in Listings /\ Added(p).rows[l] \in RowType
    BY <1>1, <1>4 DEF TaskOK
  <2> QED
    BY <2>1, <2>3, <2>4, <2>5, <2>6, <2>7, <2>8 DEF TaskOK
<1>8. ASSUME NEW k \in Kinds, NEW l \in DOMAIN Added(p).rows
      PROVE  Cardinality(Told(log \cup Added(p).added, k, l))
                + Pending(Added(p).events, <<k, l>>) = Behind(Added(p).rows[l], k)
  <2>1. log \cup Added(p).added = S \cup {Row(p)}
    BY <1>4
  <2>2. Cardinality(Told(S, k, l)) + Pending(task[p].events, <<k, l>>) = Behind(task[p].rows[l], k)
    BY <1>1, <1>4 DEF OwnTruth
  <2>3. Cardinality(Told(S, k, l)) \in Nat
    BY <1>6, ToldIsFinite
  <2> DEFINE one == IF Head(task[p].events) = <<k, l>> THEN 1 ELSE 0
  <2> HIDE DEF S
  <2>4. Cardinality(Told(S \cup {Row(p)}, k, l)) = Cardinality(Told(S, k, l)) + one
    <3>1. CASE Row(p).says = <<k, l>>
      <4>1. one = 1
        BY <1>5, <3>1
      <4>2. Cardinality(Told(S \cup {Row(p)}, k, l)) = Cardinality(Told(S, k, l)) + 1
        BY <1>6, <3>1, OneMoreRow
      <4> QED
        BY <4>1, <4>2
    <3>2. CASE Row(p).says # <<k, l>>
      <4>1. one = 0
        BY <1>5, <3>2
      <4>2. Told(S \cup {Row(p)}, k, l) = Told(S, k, l)
        BY <3>2 DEF Told
      <4> QED
        BY <2>3, <4>1, <4>2
    <3> QED
      BY <3>1, <3>2
  <2>5. Pending(task[p].events, <<k, l>>) = one + Pending(Added(p).events, <<k, l>>)
    BY <1>2, <1>4, FirstEvent
  <2>6. Pending(Added(p).events, <<k, l>>) \in Nat
    BY DEF Pending
  <2>7. one \in Nat
    OBVIOUS
  <2> HIDE DEF one
  <2>8. Cardinality(Told(S \cup {Row(p)}, k, l))
           + Pending(Added(p).events, <<k, l>>) = Behind(task[p].rows[l], k)
    BY <2>2, <2>3, <2>4, <2>5, <2>6, <2>7
  <2> QED
    BY <1>4, <2>1, <2>8, Zenon
<1>9. \E r \in Resources : CanLock(p, r) /\ holder' = [holder EXCEPT ![r] = p]
  BY DEF AppendAuditEvent, Resources
<1>10. /\ \A q \in Procs \ {p} : \A l \in DOMAIN task[q].rows : holder'[l] = q
       /\ \A l \in DOMAIN Added(p).rows : holder'[l] = p
  <2>1. \A l \in DOMAIN task[p].rows : holder'[l] = p
    BY DEF TruthInv, AppendAuditEvent, ChainInv, Shape
  <2> QED
    BY <1>4, <1>9, <2>1, OthersKeepTheirLocks DEF ChainInv
<1>11. task' = [task EXCEPT ![p] = Added(p)] /\ row' = row /\ log' = log
  BY DEF AppendAuditEvent
<1>12. Added(p).op = "other" => p \in Requests
  BY <1>4 DEF TruthInv
<1> QED
  BY <1>7, <1>8, <1>10, <1>11, <1>12, PrivateStep DEF ChainInv

LEMMA ChangeIsTrue ==
    ASSUME TruthInv, Shape, NEW p \in Procs, NEW l \in Listings,
           NEW r \in RowType, NEW events,
           task[p].at = "lock", CanLock(p, l), Change(p, l, r, events),
           EventsOK(events), events # << >>,
           \A i \in 1..Len(events) : \A k, m : events[i] = <<k, m>> => m = l,
           \A k \in Kinds :
               Behind(r, k) = Behind(Seen(p, l), k) + Pending(events, <<k, l>>)
    PROVE  TruthInv'
<1> DEFINE t == [task[p] EXCEPT !.at = "audit", !.events = events,
                                !.rows = Write(p, l, r)]
           S == log \cup task[p].added
<1>1. TaskOK(task[p]) /\ OwnTruth(p) /\ IsFiniteSet(log)
  BY DEF TruthInv
<1>2. task[p].events = << >> /\ task[p].op # "other"
  BY <1>1 DEF TaskOK
<1>3. /\ t.at = "audit" /\ t.events = events /\ t.rows = Write(p, l, r)
      /\ t.added = task[p].added /\ t.op = task[p].op
  BY DEF Shape, Fields
<1>4. task' = [task EXCEPT ![p] = t] /\ row' = row /\ log' = log
  BY DEF Change, Become
<1>5. CanLock(p, l) /\ holder' = [holder EXCEPT ![l] = p] /\ l \in Resources
  BY DEF Change, Take, Resources
<1> HIDE DEF t
<1>6. DOMAIN Write(p, l, r) = DOMAIN task[p].rows \cup {l}
  BY DEF Write
<1>7. /\ Write(p, l, r)[l] = r
      /\ \A m \in DOMAIN task[p].rows : m # l => Write(p, l, r)[m] = task[p].rows[m]
  BY DEF Write
<1>8. IsFiniteSet(S) /\ IsFiniteSet(task[p].added)
  BY <1>1, FS_Union DEF TaskOK
<1>9. TaskOK(t)
  <2>1. \A m \in DOMAIN t.rows : m \in Listings /\ t.rows[m] \in RowType
    BY <1>1, <1>3, <1>6, <1>7 DEF TaskOK
  <2>2. \A e \in t.added : Covered(e.says, t.rows)
    BY <1>1, <1>3, <1>6 DEF TaskOK, Covered
  <2>3. \A i \in 1..Len(t.events) : Covered(t.events[i], t.rows)
    BY <1>3, <1>6 DEF Covered
  <2> QED
    BY <1>2, <1>3, <1>8, <2>1, <2>2, <2>3 DEF TaskOK
<1>10. ASSUME NEW k \in Kinds, NEW m \in DOMAIN t.rows
       PROVE  Cardinality(Told(log \cup t.added, k, m))
                 + Pending(t.events, <<k, m>>) = Behind(t.rows[m], k)
  <2>1. m \in Listings /\ log \cup t.added = S
    BY <1>3, <1>9 DEF TaskOK
  <2>2. Cardinality(Told(S, k, m)) = Behind(Seen(p, m), k)
    <3>1. CASE m \in DOMAIN task[p].rows
      <4>1. Cardinality(Told(S, k, m)) + Pending(<< >>, <<k, m>>) = Behind(task[p].rows[m], k)
        BY <1>1, <1>2, <3>1 DEF OwnTruth
      <4>2. Cardinality(Told(S, k, m)) \in Nat
        BY <1>8, ToldIsFinite
      <4> QED
        BY <3>1, <4>1, <4>2, NothingPending DEF Seen
    <3>2. CASE m \notin DOMAIN task[p].rows
      <4>1. \A e \in task[p].added : e.says # <<k, m>>
        BY <1>1, <2>1, <3>2 DEF TaskOK, Covered
      <4>2. Told(S, k, m) = Told(log, k, m)
        BY <4>1 DEF Told
      <4> QED
        BY <2>1, <3>2, <4>2 DEF TruthInv, Seen
    <3> QED
      BY <3>1, <3>2
  <2>3. CASE m = l
    BY <1>3, <1>7, <2>1, <2>2, <2>3
  <2>4. CASE m # l
    <3>1. m \in DOMAIN task[p].rows /\ t.rows[m] = Seen(p, m)
      BY <1>3, <1>6, <1>7, <2>4 DEF Seen
    <3>2. Pending(t.events, <<k, m>>) = 0
      BY <1>3, <2>4 DEF Pending
    <3>3. Cardinality(Told(S, k, m)) \in Nat
      BY <1>8, ToldIsFinite
    <3> HIDE DEF S
    <3>4. Cardinality(Told(S, k, m)) + Pending(t.events, <<k, m>>) = Behind(t.rows[m], k)
      BY <2>2, <3>1, <3>2, <3>3
    <3> QED
      BY <2>1, <3>4, Zenon
  <2> QED
    BY <2>3, <2>4
<1>11. /\ \A q \in Procs \ {p} : \A m \in DOMAIN task[q].rows : holder'[m] = q
       /\ \A m \in DOMAIN t.rows : holder'[m] = p
  <2>1. \A m \in DOMAIN t.rows : holder'[m] = p
    BY <1>1, <1>3, <1>5, <1>6 DEF TruthInv, TaskOK, Shape, Resources
  <2> QED
    BY <1>5, <2>1, OthersKeepTheirLocks
<1>12. t.op = "other" => p \in Requests
  BY <1>2, <1>3
<1> QED
  BY <1>4, <1>9, <1>10, <1>11, <1>12, PrivateStep

-----------------------------------------------------------------------------
(***************************************************************************)
(* Every action keeps the log true.                                        *)
(***************************************************************************)
LEMMA ListingIsResource ==
    ASSUME NEW p \in Procs, NEW l \in Listings, CanLock(p, l), Take(p, l)
    PROVE  \E r \in Resources : CanLock(p, r) /\ holder' = [holder EXCEPT ![r] = p]
BY DEF Take, Resources

LEMMA OnListingIsTrue ==
    ASSUME TruthInv, ChainInv, NEW p \in Procs, NEW l \in Listings,
           \/ PlaceBid(p, l) \/ BidOnClosed(p, l) \/ BidOnEnded(p, l)
           \/ CloseListing(p, l) \/ ExpireOffer(p, l)
    PROVE  TruthInv'
<1>1. Shape /\ DOMAIN task[p] = Fields
  BY DEF ChainInv, Shape
<1>2. TaskOK(task[p]) /\ row[l] \in RowType
  BY DEF TruthInv
<1>3. task[p].at = "lock" /\ CanLock(p, l)
  BY DEF PlaceBid, BidOnClosed, BidOnEnded, CloseListing, ExpireOffer, Locking
<1>4. task[p].events = << >> /\ task[p].op # "other"
  BY <1>2, <1>3 DEF TaskOK
<1>5. task[p].op # "sweep" => task[p].rows = << >> /\ task[p].added = {} /\ Seen(p, l) = row[l]
  BY <1>2, <1>3 DEF TaskOK, Seen
<1>6. Seen(p, l) \in RowType
  BY <1>2 DEF TaskOK, Seen
<1>7. ASSUME NEW x, NEW y
      PROVE  Pending(<<x>>, y) = IF x = y THEN 1 ELSE 0
  BY DEF Pending
<1>8. ASSUME NEW k \in Kinds, NEW m
      PROVE  /\ EventsOK(<<<<k, m>>>>) /\ <<<<k, m>>>> # << >>
             /\ \A i \in 1..Len(<<<<k, m>>>>) : \A j, n : <<<<k, m>>>>[i] = <<j, n>> => n = m
  BY DEF EventsOK
<1>9. CASE PlaceBid(p, l)
  <2> DEFINE r == [row[l] EXCEPT !.bids = @ + 1]
             e == <<<<"accepted", l>>>>
             t == [task[p] EXCEPT !.at = "audit", !.op = "refuse",
                                  !.events = <<<<"refused", l>>>>]
  <2>1. task[p].op = "bid" /\ row[l].status = "active"
    BY <1>9 DEF PlaceBid, Locking
  <2>2. r \in RowType /\ r.bids = row[l].bids + 1 /\ r.status = "active"
    BY <1>2, <2>1 DEF RowType
  <2>3. ASSUME NEW k \in Kinds
        PROVE  Behind(r, k) = Behind(Seen(p, l), k) + Pending(e, <<k, l>>)
    <3>1. Pending(e, <<k, l>>) = IF "accepted" = k THEN 1 ELSE 0
      BY <1>7
    <3>2. Seen(p, l) = row[l]
      BY <1>5, <2>1
    <3> HIDE DEF r, e
    <3> QED
      BY <1>2, <2>1, <2>2, <3>1, <3>2 DEF Behind, Once, Kinds, RowType
  <2>4. t.rows = << >> /\ t.op # "other" /\ TaskOK(t)
    <3>1. /\ t.at = "audit" /\ t.op = "refuse" /\ t.events = <<<<"refused", l>>>>
          /\ t.rows = << >> /\ t.added = {}
      BY <1>1, <1>5, <2>1 DEF Fields
    <3>2. EventsOK(t.events) /\ t.events # << >>
      BY <3>1 DEF EventsOK
    <3>3. \A i \in 1..Len(t.events) : Covered(t.events[i], t.rows)
      BY <3>1 DEF Covered, Kinds
    <3> HIDE DEF t
    <3> QED
      BY <3>1, <3>2, <3>3, FS_EmptySet DEF TaskOK
  <2>5. \/ Change(p, l, r, e)
        \/ /\ Take(p, l) /\ task' = [task EXCEPT ![p] = t]
           /\ row' = row /\ log' = log
    BY <1>9 DEF PlaceBid, Become
  <2>6. "accepted" \in Kinds
    BY DEF Kinds
  <2>7. /\ EventsOK(e) /\ e # << >>
        /\ \A i \in 1..Len(e) : \A k, m : e[i] = <<k, m>> => m = l
    BY <1>8, <2>6
  <2> HIDE DEF r, e, t
  <2>8. CASE Change(p, l, r, e)
    BY <1>1, <1>3, <2>2, <2>3, <2>7, <2>8, ChangeIsTrue
  <2>9. CASE ~Change(p, l, r, e)
    BY <1>1, <1>3, <2>4, <2>5, <2>9, TaskWithoutRows, ListingIsResource
  <2> QED
    BY <2>8, <2>9
<1>10. CASE BidOnClosed(p, l)
  BY <1>1, <1>10, RollbackIsTrue DEF BidOnClosed
<1>11. CASE BidOnEnded(p, l)
  <2> DEFINE t == [task[p] EXCEPT !.at = "sweep", !.op = "sweep", !.todo = Active(p)]
  <2>1. task' = [task EXCEPT ![p] = t] /\ row' = row /\ log' = log /\ Take(p, l)
    BY <1>11 DEF BidOnEnded, Become
  <2>2. /\ t.at = "sweep" /\ t.op = "sweep" /\ t.events = task[p].events
        /\ t.rows = task[p].rows /\ t.added = task[p].added
    BY <1>1 DEF Fields
  <2> HIDE DEF t
  <2>3. TaskOK(t) /\ t.op # "other"
    BY <1>2, <1>4, <2>2 DEF TaskOK
  <2> QED
    BY <1>1, <1>3, <2>1, <2>2, <2>3, TaskGoesOn, ListingIsResource
<1>12. CASE CloseListing(p, l)
  <2> DEFINE r == Closed(Seen(p, l))
             e == <<<<r.status, l>>>>
             t == [task[p] EXCEPT !.at = "sweep"]
  <2>1. CASE Seen(p, l).status = "active"
    <3>1. Change(p, l, r, e)
      BY <1>12, <2>1 DEF CloseListing
    <3>2. r \in RowType /\ r.bids = Seen(p, l).bids /\ r.status \in {"sold", "unsold"}
      BY <1>6 DEF Closed, RowType
    <3>3. ASSUME NEW k \in Kinds
          PROVE  Behind(r, k) = Behind(Seen(p, l), k) + Pending(e, <<k, l>>)
      <4>1. Pending(e, <<k, l>>) = IF r.status = k THEN 1 ELSE 0
        BY <1>7
      <4> HIDE DEF r, e
      <4> QED
        BY <1>6, <2>1, <3>2, <4>1 DEF Behind, Once, Kinds, RowType
    <3>4. r.status \in Kinds
      BY <3>2 DEF Kinds
    <3>5. /\ EventsOK(e) /\ e # << >>
          /\ \A i \in 1..Len(e) : \A k, m : e[i] = <<k, m>> => m = l
      BY <1>8, <3>4
    <3> HIDE DEF r, e
    <3> QED
      BY <1>1, <1>3, <3>1, <3>2, <3>3, <3>5, ChangeIsTrue
  <2>2. CASE Commit(p)
    BY <1>4, <2>2, CommitIsTrue
  <2>3. CASE Seen(p, l).status # "active" /\ ~Commit(p)
    <3>1. task' = [task EXCEPT ![p] = t] /\ row' = row /\ log' = log /\ Take(p, l)
      BY <1>12, <2>3 DEF CloseListing, Become
    <3>2. /\ t.at = "sweep" /\ t.op = task[p].op /\ t.events = task[p].events
          /\ t.rows = task[p].rows /\ t.added = task[p].added
      BY <1>1 DEF Fields
    <3> HIDE DEF t
    <3>3. TaskOK(t) /\ t.op # "other"
      BY <1>2, <1>3, <1>4, <3>2 DEF TaskOK
    <3> QED
      BY <1>1, <1>3, <3>1, <3>2, <3>3, TaskGoesOn, ListingIsResource
  <2> QED
    BY <2>1, <2>2, <2>3
<1>13. CASE ExpireOffer(p, l)
  <2> DEFINE r == [row[l] EXCEPT !.status = "expired"]
             e == <<<<"missed", l>>, <<"expired", l>>>>
  <2>1. CASE row[l].status = "sold" /\ l \in due
    <3>1. Change(p, l, r, e)
      BY <1>13, <2>1 DEF ExpireOffer
    <3>2. r \in RowType /\ r.bids = row[l].bids /\ r.status = "expired"
      BY <1>2 DEF RowType
    <3>3. ASSUME NEW k \in Kinds
          PROVE  Behind(r, k) = Behind(Seen(p, l), k) + Pending(e, <<k, l>>)
      <4>1. Pending(e, <<k, l>>) = IF k \in {"missed", "expired"} THEN 1 ELSE 0
        BY DEF Pending
      <4>2. Seen(p, l) = row[l]
        BY <1>5, <1>13 DEF ExpireOffer, Locking
      <4> HIDE DEF r, e
      <4> QED
        BY <1>2, <2>1, <3>2, <4>1, <4>2 DEF Behind, Once, Kinds, RowType
    <3>4. EventsOK(e) /\ e # << >>
      <4>1. <<"missed", l>> # <<"expired", l>>
        OBVIOUS
      <4> QED
        BY <4>1 DEF EventsOK
    <3>5. \A i \in 1..Len(e) : \A k, m : e[i] = <<k, m>> => m = l
      OBVIOUS
    <3> HIDE DEF r, e
    <3> QED
      BY <1>1, <1>3, <3>1, <3>2, <3>3, <3>4, <3>5, ChangeIsTrue
  <2>2. CASE ~(row[l].status = "sold" /\ l \in due)
    BY <1>4, <1>13, <2>2, CommitIsTrue DEF ExpireOffer
  <2> QED
    BY <2>1, <2>2
<1> QED
  BY <1>9, <1>10, <1>11, <1>12, <1>13

LEMMA StepIsTrue ==
    ASSUME TruthInv, ChainInv, NEW p \in Procs, Step(p)
    PROVE  TruthInv'
<1>1. Shape /\ DOMAIN task[p] = Fields
  BY DEF ChainInv, Shape
<1>2. TaskOK(task[p]) /\ (task[p].op = "other" => p \in Requests)
  BY DEF TruthInv
<1>3. CASE Connect(p)
  <2> DEFINE a == IF task[p].op = "other" THEN "audit" ELSE "lock"
             t == [task[p] EXCEPT !.at = a]
  <2>1. /\ task' = [task EXCEPT ![p] = t] \/ task' = [task EXCEPT ![p] = After(p, TRUE)]
        /\ row' = row /\ log' = log /\ holder' = holder
        /\ task[p].at = "connect"
    BY <1>1, <1>3 DEF Connect, Shape
  <2>2. /\ t.at = a /\ t.op = task[p].op /\ t.events = task[p].events
        /\ t.rows = task[p].rows /\ t.added = task[p].added
    BY <1>1 DEF Fields
  <2> HIDE DEF t
  <2>3. task[p].op = "other" => task[p].events # << >>
    BY <1>2, <2>1 DEF TaskOK
  <2>4. TaskOK(t)
    BY <1>2, <2>1, <2>2, <2>3 DEF TaskOK
  <2>5. CASE task' = [task EXCEPT ![p] = t]
    BY <1>1, <1>2, <2>1, <2>2, <2>4, <2>5, TaskGoesOn
  <2>6. CASE task' = [task EXCEPT ![p] = After(p, TRUE)]
    BY <1>1, <2>1, <2>6, EndedTaskOK, TaskWithoutRows
  <2> QED
    BY <2>1, <2>5, <2>6
<1>4. CASE Sweep(p)
  <2>1. CASE Rollback(p)
    BY <1>1, <2>1, RollbackIsTrue
  <2>2. CASE ~Rollback(p)
    <3> DEFINE l == First(task[p].todo)
               a == IF l \in ended THEN "lock" ELSE "sweep"
               t == [task[p] EXCEPT !.todo = @ \ {l}, !.want = l, !.at = a]
    <3>1. /\ task' = [task EXCEPT ![p] = t]
          /\ row' = row /\ log' = log /\ holder' = holder
          /\ task[p].at = "sweep"
      BY <1>4, <2>2 DEF Sweep, Become
    <3>2. /\ t.at = a /\ a \in {"lock", "sweep"} /\ t.op = task[p].op
          /\ t.events = task[p].events /\ t.rows = task[p].rows /\ t.added = task[p].added
      BY <1>1 DEF Fields
    <3> HIDE DEF t, a
    <3>3. TaskOK(t)
      BY <1>2, <3>1, <3>2 DEF TaskOK
    <3> QED
      BY <1>1, <1>2, <3>1, <3>2, <3>3, TaskGoesOn
  <2> QED
    BY <2>1, <2>2
<1>5. CASE Finish(p)
  <2> DEFINE t == [task[p] EXCEPT !.at = "sweep"]
  <2>1. task[p].at = "audited" /\ task[p].events = << >>
    BY <1>2, <1>5 DEF Finish, TaskOK
  <2>2. \/ Rollback(p) \/ Commit(p)
        \/ /\ task[p].op = "sweep" /\ task' = [task EXCEPT ![p] = t]
           /\ row' = row /\ log' = log /\ holder' = holder
    BY <1>5 DEF Finish, Become
  <2>3. /\ t.at = "sweep" /\ t.op = task[p].op
        /\ t.events = task[p].events /\ t.rows = task[p].rows /\ t.added = task[p].added
    BY <1>1 DEF Fields
  <2> HIDE DEF t
  <2>4. task[p].op = "sweep" => TaskOK(t)
    BY <1>2, <2>1, <2>3 DEF TaskOK
  <2> QED
    BY <1>1, <1>2, <2>1, <2>2, <2>3, <2>4, RollbackIsTrue, CommitIsTrue, TaskGoesOn
<1>6. CASE NextOfPass(p)
  <2>1. /\ task[p].at = "list" /\ task[p].op # "other"
        /\ task[p].events = << >>
    BY <1>2, <1>6 DEF NextOfPass, TaskOK
  <2>2. PICK t : /\ task' = [task EXCEPT ![p] = t]
                 /\ \/ t = NoTask
                    \/ \E l : t = [task[p] EXCEPT !.todo = @ \ {l}, !.want = l,
                              !.at = IF task[p].op = "expire" \/ l \in ended
                                     THEN "connect" ELSE "list"]
                    \/ t = [task[p] EXCEPT !.op = "expire",
                               !.todo = {l \in Listings : row[l].status = "sold"}]
    BY <1>6 DEF NextOfPass, Become
  <2>3. row' = row /\ log' = log /\ holder' = holder
    BY <1>6 DEF NextOfPass
  <2>4. CASE t = NoTask
    <3>1. /\ t.rows = << >> /\ t.events = << >> /\ t.added = {}
          /\ t.at = "idle" /\ t.op = "none"
      BY <2>4 DEF NoTask
    <3>2. TaskOK(t)
      BY <3>1, FS_EmptySet DEF TaskOK, EventsOK
    <3> QED
      BY <1>1, <2>2, <2>3, <3>1, <3>2, TaskWithoutRows
  <2>5. CASE t # NoTask
    <3>1. /\ t.at \in {"list", "connect"} /\ t.op \in {task[p].op, "expire"}
          /\ t.events = task[p].events /\ t.rows = task[p].rows /\ t.added = task[p].added
          /\ task[p].op = "sweep" => t.op = "sweep" \/ t.op = "expire"
      BY <1>1, <2>1, <2>2, <2>5 DEF Fields
    <3>2. TaskOK(t)
      BY <1>2, <2>1, <3>1 DEF TaskOK
    <3> QED
      BY <1>1, <1>2, <2>1, <2>2, <2>3, <3>1, <3>2, TaskGoesOn
  <2> QED
    BY <2>4, <2>5
<1> QED
  BY <1>3, <1>4, <1>5, <1>6 DEF Step

LEMMA StartIsTrue ==
    ASSUME TruthInv, ChainInv, NEW p \in Procs,
           (\E l \in Listings : SendBid(p, l)) \/ SendOther(p) \/ StartPass(p)
    PROVE  TruthInv'
<1>1. ASSUME NEW t, task' = [task EXCEPT ![p] = t],
             t.rows = << >>, t.added = {},
             \/ t.events = << >> /\ t.op \in {"bid", "close"}
                                 /\ t.at \in {"connect", "list"}
             \/ /\ t.events = <<<<"other", 0>>>> /\ t.op = "other"
                /\ t.at = "connect" /\ p \in Requests,
             row' = row, log' = log, holder' = holder
      PROVE  TruthInv'
  <2>1. EventsOK(t.events)
    BY <1>1 DEF EventsOK
  <2>2. \A i \in 1..Len(t.events) : Covered(t.events[i], t.rows)
    BY <1>1 DEF Covered, Kinds
  <2>3. TaskOK(t) /\ (t.op = "other" => p \in Requests)
    BY <1>1, <2>1, <2>2, FS_EmptySet DEF TaskOK
  <2> QED
    BY <1>1, <2>3, TaskWithoutRows DEF ChainInv
<1>2. CASE \E l \in Listings : SendBid(p, l)
  <2>1. PICK l \in Listings : SendBid(p, l)
    BY <1>2
  <2> DEFINE t == [NoTask EXCEPT !.at = "connect", !.op = "bid", !.want = l]
  <2>2. /\ t.rows = << >> /\ t.added = {} /\ t.events = << >>
        /\ t.op = "bid" /\ t.at = "connect"
    BY DEF NoTask
  <2>3. task' = [task EXCEPT ![p] = t] /\ row' = row /\ log' = log /\ holder' = holder
    BY <2>1 DEF SendBid, Become
  <2> HIDE DEF t
  <2> QED
    BY <1>1, <2>2, <2>3
<1>3. CASE SendOther(p)
  <2> DEFINE t == [NoTask EXCEPT !.at = "connect", !.op = "other",
                                 !.events = <<<<"other", 0>>>>]
  <2>1. /\ t.rows = << >> /\ t.added = {} /\ t.events = <<<<"other", 0>>>>
        /\ t.op = "other" /\ t.at = "connect"
    BY DEF NoTask
  <2>2. /\ task' = [task EXCEPT ![p] = t] /\ row' = row /\ log' = log /\ holder' = holder
        /\ p \in Requests
    BY <1>3 DEF SendOther, Become
  <2> HIDE DEF t
  <2> QED
    BY <1>1, <2>1, <2>2
<1>4. CASE StartPass(p)
  <2> DEFINE t == [NoTask EXCEPT !.at = "list", !.op = "close", !.todo = Active(p)]
  <2>1. /\ t.rows = << >> /\ t.added = {} /\ t.events = << >>
        /\ t.op = "close" /\ t.at = "list"
    BY DEF NoTask
  <2>2. task' = [task EXCEPT ![p] = t] /\ row' = row /\ log' = log /\ holder' = holder
    BY <1>4 DEF StartPass, Become
  <2> HIDE DEF t
  <2> QED
    BY <1>1, <2>1, <2>2
<1> QED
  BY <1>2, <1>3, <1>4

LEMMA TruthInvHolds == Spec => []TruthInv
<1>1. Init => TruthInv
  <2> SUFFICES ASSUME Init PROVE TruthInv
    OBVIOUS
  <2>1. row \in [Listings -> RowType] /\ IsFiniteSet(log)
    BY FS_EmptySet DEF Init, NewRow, RowType
  <2>2. ASSUME NEW k \in Kinds, NEW l \in Listings
        PROVE  Cardinality(Told(log, k, l)) = Behind(row[l], k)
    <3>1. Told(log, k, l) = {}
      BY DEF Init, Told
    <3>2. row[l].status = "active" /\ row[l].bids = 0
      BY DEF Init, NewRow
    <3> QED
      BY <3>1, <3>2, FS_EmptySet DEF Behind, Once, Kinds
  <2>3. ASSUME NEW p \in Procs
        PROVE  /\ TaskOK(task[p])
               /\ task[p].op = "other" => p \in Requests
               /\ OwnTruth(p)
               /\ \A l \in DOMAIN task[p].rows : holder[l] = p
    <3>1. /\ task[p].rows = << >> /\ task[p].events = << >> /\ task[p].added = {}
          /\ task[p].at = "idle" /\ task[p].op = "none"
      BY DEF Init, NoTask
    <3>2. DOMAIN task[p].rows = {}
      BY <3>1
    <3>3. TaskOK(task[p])
      BY <3>1, <3>2, FS_EmptySet DEF TaskOK, EventsOK
    <3> QED
      BY <3>1, <3>2, <3>3 DEF OwnTruth
  <2> QED
    BY <2>1, <2>2, <2>3 DEF TruthInv
<1>2. TruthInv /\ ChainInv /\ [Next]_vars => TruthInv'
  <2> SUFFICES ASSUME TruthInv, ChainInv, [Next]_vars PROVE TruthInv'
    OBVIOUS
  <2>1. CASE row' = row /\ log' = log /\ holder' = holder /\ task' = task
    BY <2>1 DEF TruthInv, OwnTruth
  <2>2. ASSUME NEW p \in Procs,
               \/ (\E l \in Listings : SendBid(p, l))
               \/ SendOther(p) \/ StartPass(p)
               \/ Step(p) \/ OnListing(p) \/ AppendAuditEvent(p) \/ Abort(p)
        PROVE  TruthInv'
    BY <2>2, StartIsTrue, StepIsTrue, OnListingIsTrue, AppendIsTrue, RollbackIsTrue
       DEF OnListing, Abort, ChainInv
  <2> QED
    BY <2>1, <2>2 DEF Next, vars, EndTimePasses, DeadlinePasses
<1> QED
  BY <1>1, <1>2, ChainInvHolds, PTL DEF Spec

(***************************************************************************)
(* For every listing the committed log holds one row for each bid of the   *)
(* committed row, one for its closing and two for its missed deadline, and *)
(* none for what was rolled back: placeBid, closeEndedActiveListing and    *)
(* processOverduePaymentForListing append inside their own transaction.    *)
(***************************************************************************)
THEOREM CommittedLogIsTrue == Spec => []LogTellsTheTruth
<1>1. TruthInv => LogTellsTheTruth
  <2> SUFFICES ASSUME TruthInv, NEW l \in Listings
               PROVE  /\ Count("accepted", l) = row[l].bids
                      /\ Count("sold", l) = Once(row[l].status \in {"sold", "expired"})
                      /\ Count("unsold", l) = Once(row[l].status = "unsold")
                      /\ Count("missed", l) = Once(row[l].status = "expired")
                      /\ Count("expired", l) = Once(row[l].status = "expired")
    BY DEF LogTellsTheTruth
  <2>1. \A k \in Kinds : Count(k, l) = Behind(row[l], k)
    BY DEF TruthInv, Count, Told
  <2> QED
    BY <2>1 DEF Kinds, Behind
<1> QED
  BY <1>1, TruthInvHolds, PTL
=============================================================================
