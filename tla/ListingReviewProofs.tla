------------------------- MODULE ListingReviewProofs -------------------------
(***************************************************************************)
(* Theorems about ListingReview.tla, for every set of administrators,      *)
(* every set of windows and end dates and every bound.                     *)
(***************************************************************************)
EXTENDS ListingReview, SequenceTheorems, TLAPS

Verdicts == {"pending", "approved", "rejected", "deleted"}
CharityRow == [status : Verdicts]

Columns == {"status", "content", "note", "stage", "start", "end", "campaign"}

Shape(r) == /\ DOMAIN r = Columns
            /\ r.start \in Int /\ r.end \in Int /\ r.start < r.end

\* The note and the stage of a row belong to its status.
Agrees(r) ==
  r.status # "cancelled" =>
    /\ r.note # {} <=> r.status \in {"changes_requested", "rejected"}
    /\ r.status = "rejected" => RejectedBy(r) # "a_reviewer"
    /\ r.status # "rejected" =>
         r.stage = CASE r.status = "charity_review" -> "charity"
                     [] r.status = "changes_requested" -> "admin"
                     [] OTHER -> None

\* Every row, as stored or as some handler read it, has passed the stages that
\* lie before its status.
Passed(r, t) ==
  /\ r.status = "charity_review" => r.content \in t.forwarded \cup t.admin
  /\ r.status = "active" => r.content \in (t.forwarded \cap t.accepted) \cup t.admin

\* A note was written on the text it stands beside.
Answers(r, t) == r.note \subseteq {r.content} \/ r.content \in t.admin

RowOK(r, t) == Shape(r) /\ Agrees(r) /\ Passed(r, t) /\ Answers(r, t)

Ops == {"approve", "changes", "reject", "accept", "decline", "edit", "delete"}

JobOK(a, j, t) ==
  /\ "row" \in DOMAIN j => /\ DOMAIN j = {"op", "row"}
                           /\ j.op \in Ops
                           /\ Accepts(j.op, a \in Admins, j.row)
                           /\ RowOK(j.row, t)
  /\ j.op = "submit" => j.window \in Windows /\ FormAccepts(j.window)
  /\ j.op = "decide" => j.decision \in Verdicts

(***************************************************************************)
(* The inductive invariant.  The properties speak of the stored row; it is *)
(* written from what a handler read, so the rows in flight need the same.   *)
(***************************************************************************)
ReviewInv ==
  /\ charities \in Seq(CharityRow)
  /\ \A i \in DOMAIN campaign : DOMAIN campaign[i] = {"status", "end"}
  /\ DOMAIN job = Users
  /\ \A a \in Users : JobOK(a, job[a], trail)
  /\ listing # NoListing => RowOK(listing, trail)
  /\ clock \in Nat
  /\ DOMAIN trail = {"next", "forwarded", "accepted", "admin"}

-----------------------------------------------------------------------------
(***************************************************************************)
(* Data.                                                                   *)
(***************************************************************************)
LEMMA RowReplaced ==
  ASSUME NEW S, NEW rows \in Seq(S), NEW k, NEW r \in S
  PROVE  [rows EXCEPT ![k] = r] \in Seq(S)
<1>1. CASE k \in 1 .. Len(rows)
  BY <1>1, ExceptSeq
<1>2. CASE k \notin 1 .. Len(rows)
  <2>1. DOMAIN rows = 1 .. Len(rows) /\ rows \in [1 .. Len(rows) -> S]
    BY LenProperties
  <2>2. [rows EXCEPT ![k] = r] = rows
    BY <1>2, <2>1
  <2> QED
    BY <2>2
<1> QED
  BY <1>1, <1>2

LEMMA CharityTyped ==
  ASSUME NEW s \in Verdicts
  PROVE  Charity(s) \in CharityRow
BY DEF Charity, CharityRow, Verdicts

LEMMA MaxWithOne ==
  ASSUME NEW d \in Int
  PROVE  Max({d, 1}) \in Int /\ Max({d, 1}) >= 1
<1>1. \E x \in {d, 1} : \A y \in {d, 1} : x >= y
  <2>1. CASE d >= 1
    BY <2>1
  <2>2. CASE ~(d >= 1)
    BY <2>2
  <2> QED
    BY <2>1, <2>2
<1>2. /\ Max({d, 1}) \in {d, 1}
      /\ \A y \in {d, 1} : Max({d, 1}) >= y
  BY <1>1 DEF Max
<1> QED
  BY <1>2

\* What the row carries after its window was moved, or kept.
LEMMA ReanchoredRow ==
  ASSUME NEW r, Shape(r), clock \in Nat
  PROVE  /\ Shape(Reanchored(r))
         /\ Reanchored(r).content = r.content
         /\ Reanchored(r).end > clock
         /\ r.start > clock => /\ Reanchored(r).start = r.start
                               /\ Reanchored(r).end = r.end
<1>1. /\ Max({r.end - r.start, 1}) \in Int
      /\ Max({r.end - r.start, 1}) >= 1
  BY MaxWithOne DEF Shape
<1>2. CASE r.start <= clock \/ r.end <= clock
  <2> DEFINE m == Max({r.end - r.start, 1})
             s == [r EXCEPT !.start = clock, !.end = clock + m]
  <2>1. Reanchored(r) = s
    BY <1>2 DEF Reanchored
  <2>2. m \in Int /\ m >= 1
    BY <1>1
  <2> HIDE DEF m
  <2>3. /\ DOMAIN s = Columns /\ s.content = r.content
        /\ s.start = clock /\ s.end = clock + m
    BY DEF Shape, Columns
  <2> HIDE DEF s
  <2> QED
    BY <1>2, <2>1, <2>2, <2>3 DEF Shape
<1>3. CASE ~(r.start <= clock \/ r.end <= clock)
  BY <1>3 DEF Reanchored, Shape
<1> QED
  BY <1>2, <1>3

-----------------------------------------------------------------------------
(***************************************************************************)
(* What a handler writes.                                                  *)
(***************************************************************************)
LEMMA Monotone ==
  ASSUME ReviewInv, NEW op \in Ops, NEW isAdmin \in BOOLEAN, NEW r
  PROVE  /\ DOMAIN Recorded(op, isAdmin, r) = DOMAIN trail
         /\ trail.forwarded \subseteq Recorded(op, isAdmin, r).forwarded
         /\ trail.accepted \subseteq Recorded(op, isAdmin, r).accepted
         /\ trail.admin \subseteq Recorded(op, isAdmin, r).admin
         /\ op = "approve" => r.content \in Recorded(op, isAdmin, r).forwarded
         /\ op = "accept" => r.content \in Recorded(op, isAdmin, r).accepted
         /\ op = "edit" /\ isAdmin => trail.next \in Recorded(op, isAdmin, r).admin
<1>1. CASE op = "approve"
  BY <1>1 DEF Recorded, ReviewInv
<1>2. CASE op = "accept"
  BY <1>2 DEF Recorded, ReviewInv
<1>3. CASE op = "edit"
  BY <1>3 DEF Recorded, ReviewInv
<1>4. CASE op \notin {"approve", "accept", "edit"}
  BY <1>4 DEF Recorded, ReviewInv
<1> QED
  BY <1>1, <1>2, <1>3, <1>4

LEMMA StillOK ==
  ASSUME NEW t, NEW u, NEW r, RowOK(r, t),
         t.forwarded \subseteq u.forwarded, t.accepted \subseteq u.accepted,
         t.admin \subseteq u.admin
  PROVE  RowOK(r, u)
BY DEF RowOK, Passed, Answers

LEMMA WrittenOK ==
  ASSUME ReviewInv, NEW op \in Ops, NEW isAdmin \in BOOLEAN, NEW r,
         RowOK(r, trail), Accepts(op, isAdmin, r)
  PROVE  RowOK(Written(op, isAdmin, r), Recorded(op, isAdmin, r))
<1> DEFINE w == Written(op, isAdmin, r)
           u == Recorded(op, isAdmin, r)
<1>0. /\ trail.forwarded \subseteq u.forwarded
      /\ trail.accepted \subseteq u.accepted
      /\ trail.admin \subseteq u.admin
      /\ op = "approve" => r.content \in u.forwarded
      /\ op = "accept" => r.content \in u.accepted
      /\ op = "edit" /\ isAdmin => trail.next \in u.admin
  BY Monotone
<1> HIDE DEF u
<1>1. CASE op = "approve"
  <2>1. w = [r EXCEPT !.status = "charity_review", !.note = {}, !.stage = "charity"]
    BY <1>1 DEF Written
  <2>2. /\ Shape(w) /\ w.status = "charity_review" /\ w.note = {}
        /\ w.stage = "charity" /\ w.content = r.content
    BY <2>1 DEF RowOK, Shape, Columns
  <2> HIDE DEF w
  <2> QED
    BY <1>0, <1>1, <2>2 DEF RowOK, Agrees, Passed, Answers, u, w
<1>2. CASE op = "changes"
  <2>1. w = [r EXCEPT !.status = "changes_requested", !.note = {r.content}, !.stage = "admin"]
    BY <1>2 DEF Written
  <2>2. /\ Shape(w) /\ w.status = "changes_requested"
        /\ w.note = {r.content} /\ w.content = r.content /\ w.stage = "admin"
    BY <2>1 DEF RowOK, Shape, Columns
  <2> HIDE DEF w
  <2> QED
    BY <2>2 DEF RowOK, Agrees, Passed, Answers, w
<1>3. CASE op = "reject"
  <2>1. w = [r EXCEPT !.status = "rejected", !.note = {r.content}, !.stage = "admin"]
    BY <1>3 DEF Written
  <2>2. /\ Shape(w) /\ w.status = "rejected"
        /\ w.note = {r.content} /\ w.content = r.content /\ w.stage = "admin"
    BY <2>1 DEF RowOK, Shape, Columns
  <2> HIDE DEF w
  <2> QED
    BY <2>2 DEF RowOK, Agrees, Passed, Answers, RejectedBy, w
<1>4. CASE op = "accept"
  <2>1. w = [Reanchored(r) EXCEPT !.status = "active", !.note = {}, !.stage = None]
    BY <1>4 DEF Written
  <2>2. Shape(Reanchored(r)) /\ Reanchored(r).content = r.content
    BY ReanchoredRow DEF RowOK, ReviewInv
  <2>3. /\ Shape(w) /\ w.status = "active" /\ w.note = {}
        /\ w.stage = None /\ w.content = r.content
    BY <2>1, <2>2 DEF Shape, Columns
  <2>4. r.status = "charity_review"
    BY <1>4 DEF Accepts
  <2>5. r.content \in trail.forwarded \cup trail.admin /\ r.content \in u.accepted
    BY <1>0, <1>4, <2>4 DEF RowOK, Passed
  <2> HIDE DEF w
  <2> QED
    BY <1>0, <2>3, <2>5 DEF RowOK, Agrees, Passed, Answers, u, w
<1>5. CASE op = "decline"
  <2>1. w = [r EXCEPT !.status = "rejected", !.note = {r.content}, !.stage = "charity"]
    BY <1>5 DEF Written
  <2>2. /\ Shape(w) /\ w.status = "rejected"
        /\ w.note = {r.content} /\ w.content = r.content /\ w.stage = "charity"
    BY <2>1 DEF RowOK, Shape, Columns
  <2> HIDE DEF w
  <2> QED
    BY <2>2 DEF RowOK, Agrees, Passed, Answers, RejectedBy, w
<1>6. CASE op = "edit" /\ isAdmin
  <2>1. w = [r EXCEPT !.content = trail.next]
    BY <1>6 DEF Written
  <2>2. /\ Shape(w) /\ w.status = r.status /\ w.note = r.note
        /\ w.stage = r.stage /\ w.content = trail.next
    BY <2>1 DEF RowOK, Shape, Columns
  <2> HIDE DEF w
  <2> QED
    BY <1>0, <1>6, <2>2 DEF RowOK, Agrees, Passed, Answers, RejectedBy, u, w
<1>7. CASE op = "edit" /\ ~isAdmin
  <2>1. r.status \in Editable
    BY <1>7 DEF Accepts
  <2>2. CASE r.status \in {"changes_requested", "rejected"}
    <3>1. w = [Resubmitted(r) EXCEPT !.content = trail.next]
      BY <1>7, <2>2 DEF Written
    <3>2. Shape(w) /\ w.status = "pending" /\ w.note = {} /\ w.stage = None
      BY <3>1 DEF Resubmitted, RowOK, Shape, Columns
    <3> HIDE DEF w
    <3> QED
      BY <3>2 DEF RowOK, Agrees, Passed, Answers, w
  <2>3. CASE r.status \notin {"changes_requested", "rejected"}
    <3>1. w = [r EXCEPT !.content = trail.next] /\ r.status = "pending"
      BY <1>7, <2>1, <2>3 DEF Written, Editable
    <3>2. /\ Shape(w) /\ w.status = "pending" /\ w.note = r.note
          /\ w.stage = r.stage
      BY <3>1 DEF RowOK, Shape, Columns
    <3> HIDE DEF w
    <3> QED
      BY <3>1, <3>2 DEF RowOK, Agrees, Passed, Answers, w
  <2> QED
    BY <2>2, <2>3
<1>8. CASE op = "delete"
  <2>1. w = [r EXCEPT !.status = "cancelled"]
    BY <1>8 DEF Written
  <2>2. /\ Shape(w) /\ w.status = "cancelled" /\ w.note = r.note
        /\ w.content = r.content
    BY <2>1 DEF RowOK, Shape, Columns
  <2> HIDE DEF w
  <2>3. Agrees(w) /\ Passed(w, u)
    BY <2>2 DEF Agrees, Passed
  <2>4. Answers(w, u)
    BY <1>0, <2>2 DEF RowOK, Answers
  <2> QED
    BY <2>2, <2>3, <2>4 DEF RowOK, u, w
<1> QED
  BY <1>1, <1>2, <1>3, <1>4, <1>5, <1>6, <1>7, <1>8 DEF Ops

-----------------------------------------------------------------------------
(***************************************************************************)
(* Steps.                                                                  *)
(***************************************************************************)
LEMMA JobReplaced ==
  ASSUME ReviewInv, NEW a \in Users, NEW j, job' = [job EXCEPT ![a] = j]
  PROVE  /\ DOMAIN job' = Users
         /\ job'[a] = j
         /\ \A b \in Users : b # a => job'[b] = job[b]
BY DEF ReviewInv

\* A step that leaves the listing alone.
LEMMA OtherStep ==
  ASSUME ReviewInv, NEW a \in Users, NEW j, job' = [job EXCEPT ![a] = j],
         JobOK(a, j, trail),
         UNCHANGED rowVars,
         charities' \in Seq(CharityRow),
         \A i \in DOMAIN campaign' : DOMAIN campaign'[i] = {"status", "end"}
  PROVE  ReviewInv'
<1>1. /\ DOMAIN job' = Users
      /\ job'[a] = j
      /\ \A b \in Users : b # a => job'[b] = job[b]
  BY JobReplaced
<1>2. \A b \in Users : JobOK(b, job'[b], trail)
  BY <1>1 DEF ReviewInv
<1>3. trail' = trail /\ listing' = listing /\ clock' = clock
  BY DEF rowVars
<1> QED
  BY <1>1, <1>2, <1>3 DEF ReviewInv

LEMMA IdleOK ==
  ASSUME NEW a, NEW t
  PROVE  JobOK(a, Idle, t)
BY DEF JobOK, Idle

LEMMA RegistryKeeps ==
  ASSUME ReviewInv, RegistryNext, UNCHANGED rowVars
  PROVE  ReviewInv'
<1> USE DEF Users, Managers
<1>0. /\ charities \in Seq(CharityRow)
      /\ \A i \in DOMAIN campaign : DOMAIN campaign[i] = {"status", "end"}
  BY DEF ReviewInv
<1>1. CASE ReadApplication
  <2> DEFINE j == [op |-> IF OwnerStatus = "rejected" THEN "reapply" ELSE "apply",
                   id |-> OwnerCharity]
  <2>1. JobOK(Owner, j, trail)
    BY DEF JobOK
  <2>2. job' = [job EXCEPT ![Owner] = j] /\ UNCHANGED registryVars
    BY <1>1 DEF ReadApplication, Begin
  <2> HIDE DEF j
  <2> QED
    BY <1>0, <2>1, <2>2, OtherStep DEF registryVars
<1>2. CASE DeleteRejected
  <2> DEFINE j == [op |-> "apply", id |-> 0]
             c == Charity("deleted")
  <2>1. JobOK(Owner, j, trail)
    BY DEF JobOK
  <2>2. c \in CharityRow
    BY CharityTyped DEF Verdicts
  <2>3. /\ job' = [job EXCEPT ![Owner] = j]
        /\ charities' = [charities EXCEPT ![job[Owner].id] = c]
        /\ campaign' = [campaign EXCEPT ![job[Owner].id] = NoCampaign]
    BY <1>2 DEF DeleteRejected, Continue
  <2>4. \A i \in DOMAIN campaign' : DOMAIN campaign'[i] = {"status", "end"}
    BY <1>0, <2>3 DEF NoCampaign
  <2> HIDE DEF j, c
  <2>5. charities' \in Seq(CharityRow)
    BY <1>0, <2>2, <2>3, RowReplaced
  <2> QED
    BY <2>1, <2>3, <2>4, <2>5, OtherStep
<1>3. CASE InsertApplication \/ RefuseApplication
  <2>1. Charity("pending") \in CharityRow
    BY CharityTyped DEF Verdicts
  <2>2. charities' = Append(charities, Charity("pending")) \/ charities' = charities
    BY <1>3 DEF InsertApplication, RefuseApplication, registryVars
  <2>3. charities' \in Seq(CharityRow)
    BY <1>0, <2>1, <2>2, AppendProperties
  <2>4. job' = [job EXCEPT ![Owner] = Idle] /\ campaign' = campaign
    BY <1>3 DEF InsertApplication, RefuseApplication, End, Continue, registryVars
  <2> QED
    BY <1>0, <2>3, <2>4, IdleOK, OtherStep
<1>4. ASSUME NEW a \in Admins, NEW i, NEW d \in {"approved", "rejected"},
             ReadForDecision(a, i, d)
      PROVE  ReviewInv'
  <2> DEFINE j == [op |-> "decide", id |-> i, decision |-> d]
  <2>1. JobOK(a, j, trail)
    BY DEF JobOK, Verdicts
  <2>2. job' = [job EXCEPT ![a] = j] /\ UNCHANGED registryVars
    BY <1>4 DEF ReadForDecision, Begin
  <2> HIDE DEF j
  <2> QED
    BY <1>0, <2>1, <2>2, OtherStep DEF registryVars
<1>5. ASSUME NEW a \in Admins, WriteDecision(a)
      PROVE  ReviewInv'
  <2>1. job[a].decision \in Verdicts
    BY <1>5 DEF WriteDecision, ReviewInv, JobOK
  <2>2. Charity(job[a].decision) \in CharityRow
    BY <2>1, CharityTyped
  <2>3. \/ charities' = charities
        \/ charities' = [charities EXCEPT ![job[a].id] = Charity(job[a].decision)]
    BY <1>5 DEF WriteDecision
  <2>4. charities' \in Seq(CharityRow)
    BY <1>0, <2>2, <2>3, RowReplaced
  <2>5. job' = [job EXCEPT ![a] = Idle] /\ campaign' = campaign
    BY <1>5 DEF WriteDecision, End, Continue
  <2> QED
    BY <1>0, <2>4, <2>5, IdleOK, OtherStep
<1> QED
  BY <1>1, <1>2, <1>3, <1>4, <1>5 DEF RegistryNext

\* The row a campaign operation writes has a campaign's columns, and a closed
\* campaign stays closed or is deleted.
LEMMA CampaignWritten ==
  ASSUME ReviewInv, NEW a \in Managers, WriteCampaign(a)
  PROVE  /\ \A i \in DOMAIN campaign' : DOMAIN campaign'[i] = {"status", "end"}
         /\ \A i \in DOMAIN campaign : campaign[i].status = "closed"
                                          => campaign'[i].status = "closed"
<1> DEFINE j == job[a]
           row == campaign[j.id]
           new == CASE j.op = "open" -> [status |-> "active", end |-> j.end]
                    [] j.op = "amend" -> AmendedCampaign(row, j.end)
                    [] j.op = "close" -> ClosedCampaign(row)
<1>0. \A i \in DOMAIN campaign : DOMAIN campaign[i] = {"status", "end"}
  BY DEF ReviewInv
<1>1. CASE campaign' = campaign
  BY <1>0, <1>1
<1>2. CASE j.id \notin DOMAIN campaign
  <2>1. DOMAIN campaign' = DOMAIN campaign /\ \A i \in DOMAIN campaign : campaign'[i] = campaign[i]
    BY <1>2 DEF WriteCampaign
  <2> QED
    BY <1>0, <2>1
<1>3. CASE campaign' # campaign /\ j.id \in DOMAIN campaign
  <2>1. /\ campaign' = [campaign EXCEPT ![j.id] = new]
        /\ j.op = "open" => row = NoCampaign
        /\ j.op \in {"open", "amend", "close"}
    BY <1>3 DEF WriteCampaign
  <2>2. DOMAIN row = {"status", "end"}
    BY <1>0, <1>3
  <2>3. DOMAIN new = {"status", "end"} /\ (row.status = "closed" => new.status = "closed")
    <3>1. CASE j.op = "open"
      BY <2>1, <3>1 DEF NoCampaign
    <3>2. CASE j.op = "amend"
      <4>1. new = [row EXCEPT !.end = j.end]
        BY <3>2 DEF AmendedCampaign
      <4> HIDE DEF new, row
      <4> QED
        BY <2>2, <4>1
    <3>3. CASE j.op = "close"
      <4>1. new = [row EXCEPT !.status = "closed"]
        BY <3>3 DEF ClosedCampaign
      <4> HIDE DEF new, row
      <4> QED
        BY <2>2, <4>1
    <3> QED
      BY <2>1, <3>1, <3>2, <3>3
  <2> HIDE DEF new
  <2>4. /\ DOMAIN campaign' = DOMAIN campaign
        /\ campaign'[j.id] = new
        /\ \A i \in DOMAIN campaign : i # j.id => campaign'[i] = campaign[i]
    BY <1>3, <2>1
  <2> QED
    BY <1>0, <2>3, <2>4
<1> QED
  BY <1>1, <1>2, <1>3

LEMMA CampaignKeeps ==
  ASSUME ReviewInv, NEW a \in Managers, UNCHANGED rowVars,
         \/ WriteCampaign(a)
         \/ \E op \in {"open", "amend", "close"}, end \in CampaignEnds :
               ReadForCampaign(a, op, end)
  PROVE  ReviewInv'
<1>0. charities \in Seq(CharityRow) /\ a \in Users
  BY DEF ReviewInv, Users
<1>1. CASE WriteCampaign(a)
  <2>1. job' = [job EXCEPT ![a] = Idle] /\ charities' = charities
    BY <1>1 DEF WriteCampaign, End, Continue
  <2>2. \A i \in DOMAIN campaign' : DOMAIN campaign'[i] = {"status", "end"}
    BY <1>1, CampaignWritten
  <2> QED
    BY <1>0, <2>1, <2>2, IdleOK, OtherStep
<1>2. ASSUME NEW op \in {"open", "amend", "close"}, NEW end,
             ReadForCampaign(a, op, end)
      PROVE  ReviewInv'
  <2> DEFINE j == [op |-> op, id |-> CharityOf(a), end |-> end]
  <2>1. JobOK(a, j, trail)
    BY DEF JobOK
  <2>2. /\ job' = [job EXCEPT ![a] = j]
        /\ charities' = charities /\ campaign' = campaign
    BY <1>2 DEF ReadForCampaign, Begin, registryVars
  <2> HIDE DEF j
  <2>3. \A i \in DOMAIN campaign' : DOMAIN campaign'[i] = {"status", "end"}
    BY <2>2 DEF ReviewInv
  <2> QED
    BY <1>0, <2>1, <2>2, <2>3, OtherStep
<1> QED
  BY <1>1, <1>2

LEMMA ReadKeeps ==
  ASSUME ReviewInv,
         \/ \E i \in DOMAIN charities, w \in Windows : ReadForSubmit(i, w)
         \/ \E a \in Managers :
               (\E op \in {"accept", "decline"} : ReadCharity(a, op)) \/ ReadAssigned(a)
         \/ \E a \in Users \ Managers :
               \E op \in {"approve", "changes", "reject", "edit", "delete"} : ReadListing(a, op)
  PROVE  ReviewInv'
<1>0. /\ charities \in Seq(CharityRow) /\ Donor \in Users /\ Managers \subseteq Users
      /\ \A i \in DOMAIN campaign : DOMAIN campaign[i] = {"status", "end"}
  BY DEF ReviewInv, Users
<1>1. \E a \in Users : \E j : /\ job' = [job EXCEPT ![a] = j] /\ JobOK(a, j, trail)
                              /\ UNCHANGED <<registryVars, rowVars>>
  <2>1. ASSUME NEW i, NEW w \in Windows, ReadForSubmit(i, w)
        PROVE  /\ job' = [job EXCEPT ![Donor] = [op |-> "submit", id |-> i, window |-> w]]
               /\ JobOK(Donor, [op |-> "submit", id |-> i, window |-> w], trail)
               /\ UNCHANGED <<registryVars, rowVars>>
    BY <2>1 DEF ReadForSubmit, Begin, JobOK
  <2>2. ASSUME NEW a \in Managers, NEW op \in {"accept", "decline"}, ReadCharity(a, op)
        PROVE  /\ job' = [job EXCEPT ![a] = [op |-> op, charity |-> CharityOf(a)]]
               /\ JobOK(a, [op |-> op, charity |-> CharityOf(a)], trail)
               /\ UNCHANGED <<registryVars, rowVars>>
    BY <2>2 DEF ReadCharity, Begin, JobOK
  <2>3. ASSUME NEW a \in Managers, ReadAssigned(a)
        PROVE  \E j : /\ job' = [job EXCEPT ![a] = j] /\ JobOK(a, j, trail)
                      /\ UNCHANGED <<registryVars, rowVars>>
    <3> DEFINE j == [op |-> job[a].op, row |-> listing]
    <3>1. /\ job[a].op \in {"accept", "decline"}
          /\ UNCHANGED <<registryVars, rowVars>>
          /\ \/ job' = [job EXCEPT ![a] = Idle]
             \/ /\ job' = [job EXCEPT ![a] = j]
                /\ Accepts(job[a].op, FALSE, listing)
      BY <2>3 DEF ReadAssigned, Continue
    <3>2. CASE job' = [job EXCEPT ![a] = Idle]
      BY <3>1, <3>2, IdleOK
    <3>3. CASE job' = [job EXCEPT ![a] = j] /\ Accepts(job[a].op, FALSE, listing)
      <4>1. listing.status = "charity_review"
        BY <3>1, <3>3 DEF Accepts
      <4>2. RowOK(listing, trail)
        BY <4>1 DEF ReviewInv, NoListing
      <4>3. JobOK(a, j, trail)
        BY <3>1, <4>1, <4>2 DEF JobOK, Accepts, Ops
      <4> HIDE DEF j
      <4> QED
        BY <3>1, <3>3, <4>3
    <3> QED
      BY <3>1, <3>2, <3>3
  <2>4. ASSUME NEW a \in Users \ Managers,
               NEW op \in {"approve", "changes", "reject", "edit", "delete"},
               ReadListing(a, op)
        PROVE  /\ job' = [job EXCEPT ![a] = [op |-> op, row |-> listing]]
               /\ JobOK(a, [op |-> op, row |-> listing], trail)
               /\ UNCHANGED <<registryVars, rowVars>>
    <3>1. /\ job' = [job EXCEPT ![a] = [op |-> op, row |-> listing]]
          /\ listing # NoListing /\ Accepts(op, a \in Admins, listing)
          /\ UNCHANGED <<registryVars, rowVars>>
      BY <2>4 DEF ReadListing, Begin
    <3>2. RowOK(listing, trail)
      BY <3>1 DEF ReviewInv
    <3>3. op \in Ops /\ op # "submit" /\ op # "decide"
      BY DEF Ops
    <3> DEFINE j == [op |-> op, row |-> listing]
    <3>4. DOMAIN j = {"op", "row"} /\ j.op = op /\ j.row = listing
      OBVIOUS
    <3> HIDE DEF j
    <3>5. JobOK(a, j, trail)
      BY <3>1, <3>2, <3>3, <3>4 DEF JobOK
    <3> QED
      BY <3>1, <3>5 DEF j
  <2> QED
    BY <1>0, <2>1, <2>2, <2>3, <2>4
<1>2. PICK a \in Users : \E j : /\ job' = [job EXCEPT ![a] = j] /\ JobOK(a, j, trail)
                                /\ UNCHANGED <<registryVars, rowVars>>
  BY <1>1
<1>3. PICK j : /\ job' = [job EXCEPT ![a] = j] /\ JobOK(a, j, trail)
               /\ UNCHANGED <<registryVars, rowVars>>
  BY <1>2
<1> QED
  BY <1>0, <1>3, OtherStep DEF registryVars

LEMMA InsertKeeps ==
  ASSUME ReviewInv, InsertListing
  PROVE  ReviewInv'
<1> DEFINE w == job[Donor].window
           r == Submitted(job[Donor].id, w)
<1>0. Donor \in Users
  BY DEF Users
<1>1. w \in Nat \X Nat /\ w[1] < w[2]
  BY <1>0, ListingReviewAssumption DEF ReviewInv, JobOK, InsertListing, FormAccepts
<1>2. /\ DOMAIN r = Columns /\ r.status = "pending" /\ r.note = {}
      /\ r.stage = None /\ r.start = w[1] /\ r.end = w[2]
  BY DEF Submitted, Columns
<1>3. /\ listing' = r /\ job' = [job EXCEPT ![Donor] = Idle]
      /\ UNCHANGED <<registryVars, clock, trail>>
  BY DEF InsertListing, End, Continue
<1>4. w[1] \in Nat /\ w[2] \in Nat
  BY <1>1
<1> HIDE DEF r, w
<1>5. RowOK(r, trail)
  BY <1>1, <1>2, <1>4 DEF RowOK, Shape, Agrees, Passed, Answers
<1>6. DOMAIN job' = Users /\ job'[Donor] = Idle
      /\ \A b \in Users : b # Donor => job'[b] = job[b]
  BY <1>0, <1>3, JobReplaced
<1>7. \A b \in Users : JobOK(b, job'[b], trail)
  BY <1>6, IdleOK DEF ReviewInv
<1> QED
  BY <1>3, <1>5, <1>6, <1>7 DEF ReviewInv, registryVars

LEMMA WriteKeeps ==
  ASSUME ReviewInv, NEW a \in Users, WriteListing(a)
  PROVE  ReviewInv'
<1> DEFINE j == job[a]
           isAdmin == a \in Admins
<1>1. /\ "row" \in DOMAIN j
      /\ listing' = Written(j.op, isAdmin, j.row)
      /\ trail' = Recorded(j.op, isAdmin, j.row)
      /\ job' = [job EXCEPT ![a] = Idle]
      /\ UNCHANGED <<registryVars, clock>>
  BY DEF WriteListing, UpdateListing, End, Continue
<1>2. /\ j.op \in Ops /\ RowOK(j.row, trail)
      /\ Accepts(j.op, isAdmin, j.row)
  BY <1>1 DEF ReviewInv, JobOK
<1>3. isAdmin \in BOOLEAN
  OBVIOUS
<1> HIDE DEF isAdmin, j
<1>4. RowOK(listing', trail')
  BY <1>1, <1>2, <1>3, WrittenOK
<1>5. /\ DOMAIN trail' = DOMAIN trail
      /\ trail.forwarded \subseteq trail'.forwarded
      /\ trail.accepted \subseteq trail'.accepted
      /\ trail.admin \subseteq trail'.admin
  BY <1>1, <1>2, <1>3, Monotone
<1>6. DOMAIN job' = Users /\ job'[a] = Idle
      /\ \A b \in Users : b # a => job'[b] = job[b]
  BY <1>1, JobReplaced
<1>7. \A b \in Users : JobOK(b, job'[b], trail')
  <2> TAKE b \in Users
  <2>1. CASE b = a
    BY <1>6, <2>1, IdleOK
  <2>2. CASE b # a
    <3>1. JobOK(b, job[b], trail)
      BY DEF ReviewInv
    <3>2. "row" \in DOMAIN job[b] => RowOK(job[b].row, trail')
      BY <1>5, <3>1, StillOK DEF JobOK
    <3> QED
      BY <1>6, <2>2, <3>1, <3>2 DEF JobOK
  <2> QED
    BY <2>1, <2>2
<1> QED
  BY <1>1, <1>4, <1>5, <1>6, <1>7 DEF ReviewInv, registryVars

LEMMA ReviewInvHolds == Spec => []ReviewInv
<1>1. Init => ReviewInv
  <2> SUFFICES ASSUME Init PROVE ReviewInv
    OBVIOUS
  <2>1. charities \in Seq(CharityRow)
    <3>1. Charity("approved") \in CharityRow
      BY CharityTyped DEF Verdicts
    <3>2. charities = <<>> \/ charities = <<Charity("approved")>>
      BY DEF Init, RegistryInit
    <3>3. \A c \in CharityRow : <<c>> \in Seq(CharityRow)
      OBVIOUS
    <3>4. <<Charity("approved")>> \in Seq(CharityRow)
      BY <3>1, <3>3
    <3>5. CASE charities = <<>>
      BY <3>5
    <3>6. CASE charities = <<Charity("approved")>>
      BY <3>4, <3>6
    <3> QED
      BY <3>2, <3>5, <3>6
  <2>2. \A i \in DOMAIN campaign : DOMAIN campaign[i] = {"status", "end"}
    <3>1. DOMAIN campaign = 1 .. MaxCharities
      BY DEF Init, RegistryInit
    <3>2. ASSUME NEW i \in 1 .. MaxCharities
          PROVE  \/ campaign[i] = NoCampaign
                 \/ campaign[i] = [status |-> "active", end |-> Max(CampaignEnds)]
      <4> DEFINE open == [status |-> "active", end |-> Max(CampaignEnds)]
      <4>1. \/ campaign = [k \in 1 .. MaxCharities |-> NoCampaign]
            \/ campaign = [k \in 1 .. MaxCharities |-> IF k = 1 THEN open ELSE NoCampaign]
        BY DEF Init, RegistryInit
      <4> HIDE DEF open
      <4>2. campaign[i] = NoCampaign \/ campaign[i] = open
        BY <4>1
      <4> QED
        BY <4>2 DEF open
    <3> QED
      BY <3>1, <3>2 DEF NoCampaign
  <2>3. DOMAIN job = Users /\ \A a \in Users : JobOK(a, job[a], trail)
    BY IdleOK DEF Init, RegistryInit
  <2>4. listing # NoListing => RowOK(listing, trail)
    <3> SUFFICES ASSUME NEW i, NEW w \in Windows, FormAccepts(w)
                 PROVE  RowOK(Submitted(i, w), trail)
      BY DEF Init
    <3> DEFINE r == Submitted(i, w)
    <3>1. w \in Nat \X Nat /\ w[1] < w[2]
      BY ListingReviewAssumption DEF FormAccepts
    <3>2. /\ DOMAIN r = Columns /\ r.status = "pending" /\ r.note = {}
          /\ r.stage = None /\ r.start = w[1] /\ r.end = w[2]
      BY DEF Submitted, Columns
    <3>3. w[1] \in Nat /\ w[2] \in Nat
      BY <3>1
    <3> HIDE DEF r
    <3>4. RowOK(r, trail)
      BY <3>1, <3>2, <3>3 DEF RowOK, Shape, Agrees, Passed, Answers
    <3> QED
      BY <3>4 DEF r
  <2> QED
    BY <2>1, <2>2, <2>3, <2>4 DEF Init, ReviewInv
<1>2. ReviewInv /\ [Next]_vars => ReviewInv'
  <2> SUFFICES ASSUME ReviewInv, [Next]_vars PROVE ReviewInv'
    OBVIOUS
  <2>1. CASE UNCHANGED vars \/ Tick
    BY <2>1 DEF vars, Tick, registryVars, ReviewInv
  <2>2. CASE RegistryNext /\ UNCHANGED <<rowVars, offered>>
    BY <2>2, RegistryKeeps
  <2>3. CASE \/ \E i \in DOMAIN charities, w \in Windows : ReadForSubmit(i, w)
             \/ \E a \in Managers :
                   (\E op \in {"accept", "decline"} : ReadCharity(a, op)) \/ ReadAssigned(a)
             \/ \E a \in Users \ Managers :
                   \E op \in {"approve", "changes", "reject", "edit", "delete"} : ReadListing(a, op)
    BY <2>3, ReadKeeps
  <2>4. CASE InsertListing
    BY <2>4, InsertKeeps
  <2>5. ASSUME NEW a \in Managers,
               \/ \E op \in {"open", "amend", "close"}, end \in CampaignEnds : AskCampaign(a, op, end)
               \/ WriteCampaign(a) /\ UNCHANGED <<offered, rowVars>>
        PROVE  ReviewInv'
    BY <2>5, CampaignKeeps DEF AskCampaign
  <2>6. ASSUME NEW a \in Users, WriteListing(a) PROVE ReviewInv'
    BY <2>6, WriteKeeps
  <2>7. ASSUME NEW a \in Users, NEW p, Open(a, p) PROVE ReviewInv'
    BY <2>7 DEF Open, rowVars, ReviewInv
  <2> QED
    BY <2>1, <2>2, <2>3, <2>4, <2>5, <2>6, <2>7 DEF Next
<1> QED
  BY <1>1, <1>2, PTL DEF Spec

-----------------------------------------------------------------------------
(***************************************************************************)
(* What the public sees was forwarded by an administrator and accepted by  *)
(* the charity as it stands, or written by an administrator (updateListing, *)
(* reviewListing, reviewAssignedListing): whatever was read before          *)
(* whatever was written, by any number of administrators.                   *)
(***************************************************************************)
THEOREM OnlyReviewedContentIsPublished == Spec => []PublicContentReviewed
<1>1. ReviewInv => PublicContentReviewed
  BY DEF ReviewInv, RowOK, Passed, PublicContentReviewed, PubliclyVisible
<1> QED
  BY <1>1, ReviewInvHolds, PTL

(***************************************************************************)
(* The note and the stage of a listing belong to its status, and the note  *)
(* to its text (reviewListing, reviewAssignedListing, updateListingDetails): *)
(* a donor is never shown a reason that was given to another text, unless  *)
(* an administrator wrote this one.                                        *)
(***************************************************************************)
THEOREM ReasonsAgreeAlways == Spec => []ReasonsAgree
<1>1. ReviewInv => ReasonsAgree
  BY DEF ReviewInv, RowOK, Agrees, Answers, ReasonsAgree
<1> QED
  BY <1>1, ReviewInvHolds, PTL

(***************************************************************************)
(* A closed campaign stays closed (updateManagedCampaign reads the status,  *)
(* updateCampaign does not write it), whichever requests were read before.  *)
(***************************************************************************)
THEOREM ClosedCampaignsStayClosed == Spec => ClosedCampaignStaysClosed
<1>1. ReviewInv /\ [Next]_vars =>
        [\A i \in DOMAIN campaign :
            campaign[i].status = "closed" => campaign'[i].status \in {"closed", "none"}]_vars
  <2> SUFFICES ASSUME ReviewInv, Next, NEW i \in DOMAIN campaign,
                      campaign[i].status = "closed"
               PROVE  campaign'[i].status \in {"closed", "none"}
    OBVIOUS
  <2>1. CASE campaign' = campaign
    BY <2>1
  <2>2. CASE campaign' = [campaign EXCEPT ![job[Owner].id] = NoCampaign]
    BY <2>2 DEF NoCampaign
  <2>3. ASSUME NEW a \in Managers, WriteCampaign(a)
        PROVE  campaign'[i].status \in {"closed", "none"}
    BY <2>3, CampaignWritten
  <2>4. \/ campaign' = campaign
        \/ campaign' = [campaign EXCEPT ![job[Owner].id] = NoCampaign]
        \/ \E a \in Managers : WriteCampaign(a)
    BY DEF Next, RegistryNext, ReadApplication, DeleteRejected, InsertApplication,
           RefuseApplication, ReadForDecision, WriteDecision, ReadForSubmit,
           InsertListing, ReadCharity, ReadAssigned, AskCampaign, ReadForCampaign,
           ReadListing, Open, WriteListing, Tick, registryVars
  <2> QED
    BY <2>1, <2>2, <2>3, <2>4
<1> QED
  BY <1>1, ReviewInvHolds, PTL DEF Spec, ClosedCampaignStaysClosed

\* Only the write of an acceptance ends it.
LEMMA AcceptanceEnds ==
  ASSUME ReviewInv, Next, NEW a \in Users, job[a].op = "accept",
         "row" \in DOMAIN job[a], job'[a] = Idle
  PROVE  WriteListing(a)
<1> DEFINE Elsewhere(b) ==
             /\ job[b] = Idle \/ job[b].op # "accept" \/ "charity" \in DOMAIN job[b]
             /\ \E j : job' = [job EXCEPT ![b] = j]
<1>1. /\ job[a] # Idle /\ "charity" \notin DOMAIN job[a]
      /\ DOMAIN job = Users
  BY DEF Idle, ReviewInv, JobOK
<1>2. ASSUME NEW b \in Users, Elsewhere(b) PROVE FALSE
  <2>1. b # a
    BY <1>1, <1>2
  <2>2. job'[a] = job[a]
    BY <1>1, <1>2, <2>1
  <2> QED
    BY <1>1, <2>2
<1>3. CASE RegistryNext
  <2>1. ReadApplication => Elsewhere(Owner)
    BY DEF ReadApplication, Free, Begin
  <2>2. DeleteRejected => Elsewhere(Owner)
    BY DEF DeleteRejected, Continue
  <2>3. InsertApplication \/ RefuseApplication => Elsewhere(Owner)
    BY DEF InsertApplication, RefuseApplication, End, Continue
  <2>4. \A b \in Admins : \A i, d : ReadForDecision(b, i, d) => Elsewhere(b)
    BY DEF ReadForDecision, Free, Begin
  <2>5. \A b \in Admins : WriteDecision(b) => Elsewhere(b)
    BY DEF WriteDecision, End, Continue
  <2> HIDE DEF Elsewhere
  <2> QED
    BY <1>2, <1>3, <2>1, <2>2, <2>3, <2>4, <2>5 DEF RegistryNext, Users, Managers
<1>4. CASE (\E i \in DOMAIN charities, w \in Windows : ReadForSubmit(i, w)) \/ InsertListing
  <2>1. \A i, w : ReadForSubmit(i, w) => Elsewhere(Donor)
    BY DEF ReadForSubmit, Free, Begin
  <2>2. InsertListing => Elsewhere(Donor)
    BY DEF InsertListing, End, Continue
  <2> HIDE DEF Elsewhere
  <2> QED
    BY <1>2, <1>4, <2>1, <2>2 DEF Users
<1>5. ASSUME NEW b \in Managers,
             \/ \E op \in {"accept", "decline"} : ReadCharity(b, op)
             \/ ReadAssigned(b)
             \/ \E op \in {"open", "amend", "close"}, end \in CampaignEnds : AskCampaign(b, op, end)
             \/ WriteCampaign(b)
      PROVE  FALSE
  <2>1. \A op : ReadCharity(b, op) => Elsewhere(b)
    BY DEF ReadCharity, Free, Begin
  <2>2. ReadAssigned(b) => Elsewhere(b)
    BY DEF ReadAssigned, Continue
  <2>3. \A op, end : AskCampaign(b, op, end) => Elsewhere(b)
    BY DEF AskCampaign, ReadForCampaign, Free, Begin
  <2>4. WriteCampaign(b) => Elsewhere(b)
    BY DEF WriteCampaign, End, Continue
  <2> HIDE DEF Elsewhere
  <2> QED
    BY <1>2, <1>5, <2>1, <2>2, <2>3, <2>4 DEF Users
<1>6. ASSUME NEW b \in Users, NEW op, ReadListing(b, op) PROVE FALSE
  <2>1. Elsewhere(b)
    BY <1>6 DEF ReadListing, Free, Begin
  <2> HIDE DEF Elsewhere
  <2> QED
    BY <1>2, <2>1
<1>7. ASSUME NEW b \in Users, b # a, WriteListing(b) PROVE FALSE
  <2>1. job' = [job EXCEPT ![b] = Idle]
    BY <1>7 DEF WriteListing, End, Continue
  <2>2. job'[a] = job[a]
    BY <1>1, <1>7, <2>1
  <2> QED
    BY <1>1, <2>2
<1>8. (\E b \in Users : \E p : Open(b, p)) \/ Tick => job' = job
  BY DEF Open, Tick
<1> HIDE DEF Elsewhere
<1> QED
  BY <1>1, <1>3, <1>4, <1>5, <1>6, <1>7, <1>8 DEF Next

(***************************************************************************)
(* A charity's acceptance publishes an auction that can still be bid on,   *)
(* with the window the donor asked for when it lies ahead                  *)
(* (reviewAssignedListing), however much time passed between its read and   *)
(* its write.                                                              *)
(***************************************************************************)
THEOREM AcceptedAuctionsCanBeBidOn == Spec => PublishedAuctionIsOpen
<1>1. ReviewInv /\ [Next]_vars => [AcceptancesOpen]_vars
  <2> SUFFICES ASSUME ReviewInv, Next, NEW a \in Users, job[a].op = "accept",
                      "row" \in DOMAIN job[a], job'[a] = Idle
               PROVE  /\ listing'.end > clock
                      /\ job[a].row.start > clock =>
                           /\ listing'.start = job[a].row.start
                           /\ listing'.end = job[a].row.end
                           /\ TrackingFilter' = "upcoming"
    BY DEF AcceptancesOpen
  <2> DEFINE r == job[a].row
  <2>1. Shape(r) /\ clock \in Nat
    BY DEF ReviewInv, JobOK, RowOK
  <2>2. /\ Shape(Reanchored(r))
        /\ Reanchored(r).end > clock
        /\ r.start > clock => /\ Reanchored(r).start = r.start
                              /\ Reanchored(r).end = r.end
    BY <2>1, ReanchoredRow
  <2>3. WriteListing(a)
    BY AcceptanceEnds
  <2>4. /\ listing' = [Reanchored(r) EXCEPT !.status = "active", !.note = {},
                                            !.stage = None]
        /\ clock' = clock
    BY <2>3 DEF WriteListing, UpdateListing, Written
  <2>5. /\ listing'.status = "active"
        /\ listing'.start = Reanchored(r).start
        /\ listing'.end = Reanchored(r).end
    BY <2>2, <2>4 DEF Shape, Columns
  <2> HIDE DEF r
  <2>6. r.start > clock => TrackingFilter' = "upcoming"
    BY <2>2, <2>4, <2>5 DEF TrackingFilter
  <2> QED
    BY <2>2, <2>5, <2>6 DEF r
<1> QED
  BY <1>1, ReviewInvHolds, PTL DEF Spec, PublishedAuctionIsOpen
=============================================================================
