--------------------------- MODULE CharityRegistry ---------------------------
(* Charity applications and their campaigns: charity.service.ts,              *)
(* campaign.service.ts and the pages that call them.  One charity              *)
(* representative (Owner) applies, administrators decide; the representative   *)
(* and a staff member of the first charity (Staff) manage its campaigns.       *)
(*                                                                            *)
(* A handler reads its row in one query and writes it in a later one, and      *)
(* other handlers run in between, so every operation is a read step, which     *)
(* evaluates the guards and leaves the decision in job[a], and write steps.    *)
(* A user's page disables its buttons while a call is in flight: one job each. *)
EXTENDS Naturals, Sequences, FiniteSets, FiniteSetsExt

CONSTANTS Admins, Owner, Staff, Donor, \* the users, each with a page open
          CampaignEnds,         \* the hours a campaign may be set to end at
          MaxCharities,         \* bound on the applications ever inserted
          MaxRequests           \* bound on the requests ever started

VARIABLES charities, \* the charities table: applications in creation order
          campaign,  \* campaign[i]: status and end of the campaign of charity i
          job,       \* job[a]: the request user a has in flight
          requests   \* requests started so far
registryVars == <<charities, campaign>>

Managers == {Owner, Staff}
Users == Admins \cup Managers \cup {Donor}
Idle == [op |-> "idle"]
NoCampaign == [status |-> "none", end |-> 0]
\* The reason of a rejection, which the handler does not insist on, is left out.
Charity(status) == [status |-> status]

RegistryInit ==
  /\ \/ charities = <<>> /\ campaign = [i \in 1 .. MaxCharities |-> NoCampaign]
     \/ /\ charities = <<Charity("approved")>>
        /\ campaign = [i \in 1 .. MaxCharities |->
               IF i = 1 THEN [status |-> "active", end |-> Max(CampaignEnds)] ELSE NoCampaign]
  /\ job = [a \in Users |-> Idle]
  /\ requests = 0

\* What a page allows: no call of its own in flight.
Free(a) == job[a] = Idle /\ requests < MaxRequests
Begin(a, j) == job' = [job EXCEPT ![a] = j] /\ requests' = requests + 1
Continue(a, j) == job' = [job EXCEPT ![a] = j] /\ UNCHANGED requests
End(a) == Continue(a, Idle)

Exists(i) == charities[i].status # "deleted"
Live == {i \in DOMAIN charities : Exists(i)}
\* getCharityByOwnerUserId, and listCharities().find: the newest row.
OwnerCharity == IF Live = {} THEN 0 ELSE Max(Live)
OwnerStatus == IF Live = {} THEN "none" ELSE charities[Max(Live)].status
\* A staff account keeps the charity it was created for.
CharityOf(a) == IF a = Staff THEN (IF 1 \in Live THEN 1 ELSE 0) ELSE OwnerCharity
Approved(i) == i \in DOMAIN charities /\ charities[i].status = "approved"

(* registerCharity: the newest application decides; a rejected one is deleted *)
(* before the new one has been validated.                                      *)
ReadApplication ==
  /\ Free(Owner)
  /\ OwnerStatus # "pending"
  /\ Begin(Owner, [op |-> IF OwnerStatus = "rejected" THEN "reapply" ELSE "apply",
                   id |-> OwnerCharity])
  /\ UNCHANGED registryVars

\* ON DELETE CASCADE takes the campaigns along, and no listing with them.
DeleteRejected ==
  /\ job[Owner].op = "reapply"
  /\ charities' = [charities EXCEPT ![job[Owner].id] = Charity("deleted")]
  /\ campaign' = [campaign EXCEPT ![job[Owner].id] = NoCampaign]
  /\ Continue(Owner, [op |-> "apply", id |-> 0])

InsertApplication ==
  /\ job[Owner].op = "apply"
  /\ Len(charities) < MaxCharities
  /\ charities' = Append(charities, Charity("pending"))
  /\ End(Owner)
  /\ UNCHANGED campaign

\* The name, the description or the document is refused.
RefuseApplication == job[Owner].op = "apply" /\ End(Owner) /\ UNCHANGED registryVars

(* reviewCharity *)
ReadForDecision(a, i, decision) ==
  /\ Free(a)
  /\ Exists(i) /\ charities[i].status = "pending"
  /\ Begin(a, [op |-> "decide", id |-> i, decision |-> decision])
  /\ UNCHANGED registryVars

\* The whole row is written; a row deleted meanwhile stays deleted.
WriteDecision(a) ==
  /\ job[a].op = "decide"
  /\ charities' = IF Exists(job[a].id)
                  THEN [charities EXCEPT ![job[a].id] = Charity(job[a].decision)]
                  ELSE charities
  /\ End(a)
  /\ UNCHANGED campaign

-----------------------------------------------------------------------------
(* createManagedCampaign, updateManagedCampaign and closeManagedCampaign, and  *)
(* the two pages that call them.  One campaign for each charity.               *)
\* What the campaign page and the campaigns tab of the dashboard draw: the form
\* of a new campaign, and the buttons on the card of one that is not closed.
CampaignFormShown(i) == Approved(i) /\ campaign[i] = NoCampaign
CardButtons(i) == IF Approved(i) /\ campaign[i].status = "active" THEN {"amend", "close"} ELSE {}
CampaignButtons(i) == CardButtons(i) \cup {op \in {"open"} : CampaignFormShown(i)}

\* The status each handler asks for; requireApproved comes before it.  A charity
\* may open any number of campaigns, of which the first is followed here.
CampaignAccepts(op, i) ==
  /\ Approved(i)
  /\ campaign[i].status = (IF op = "open" THEN "none" ELSE "active")

\* end is the end date the form sends; closing sends none.
ReadForCampaign(a, op, end) ==
  /\ Free(a)
  /\ CharityOf(a) # 0
  /\ CampaignAccepts(op, CharityOf(a))
  /\ Begin(a, [op |-> op, id |-> CharityOf(a), end |-> end])
  /\ UNCHANGED registryVars

\* Mutant of AmendedCampaign: the row is written back as it was read.
AmendedWholeRow(row, end) == [status |-> "active", end |-> end]

\* updateCampaign sets the name, the description and the end date, not the status.
AmendedCampaign(row, end) == [row EXCEPT !.end = end]
ClosedCampaign(row) == [row EXCEPT !.status = "closed"]

WriteCampaign(a) ==
  /\ job[a].op \in {"open", "amend", "close"}
  /\ LET j == job[a]
         row == campaign[j.id]
         new == CASE j.op = "open" -> [status |-> "active", end |-> j.end]
                  [] j.op = "amend" -> AmendedCampaign(row, j.end)
                  [] j.op = "close" -> ClosedCampaign(row)
         writes == Exists(j.id) /\ (j.op = "open" => row = NoCampaign)
     IN campaign' = IF writes THEN [campaign EXCEPT ![j.id] = new] ELSE campaign
  /\ End(a)
  /\ UNCHANGED charities

RegistryNext ==
  \/ ReadApplication \/ DeleteRejected \/ InsertApplication \/ RefuseApplication
  \/ \E a \in Admins : \/ \E i \in DOMAIN charities, d \in {"approved", "rejected"} :
                             ReadForDecision(a, i, d)
                       \/ WriteDecision(a)
=============================================================================
