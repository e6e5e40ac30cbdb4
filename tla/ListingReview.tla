---------------------------- MODULE ListingReview ----------------------------
(* The two-stage review of a listing: a donor submits it, an administrator     *)
(* forwards it to the charity, the charity publishes it.  One listing, followed *)
(* through listing.service.ts and listingReview.service.ts and the pages of the *)
(* donor, two administrators and the charity, over the registry of charities   *)
(* and campaigns it is submitted for.                                          *)
(*                                                                            *)
(* updateListing writes every column back as the handler read them, so what    *)
(* one user decided can be undone by what another had read before.             *)
EXTENDS CharityRegistry

CONSTANTS Windows,     \* the auction windows a donor may ask for: <<start, end>>
          MaxContents, \* bound on the versions of the listing's text and images
          MaxClock     \* bound on the hours that pass

ASSUME ListingReviewAssumption ==
  /\ Windows \subseteq Nat \X Nat
  /\ MaxClock \in Nat

VARIABLES listing, \* the row of listings, or NoListing
          offered, \* offered[a]: the operations the page a has open draws buttons for
          clock,
          trail    \* history: the next content version, and the versions forwarded
                   \* by an administrator, accepted by the charity, written by an administrator
vars == <<charities, campaign, job, requests, listing, offered, clock, trail>>
rowVars == <<listing, clock, trail>>

Statuses == {"pending", "changes_requested", "charity_review", "active", "rejected", "cancelled"}
Editable == {"pending", "changes_requested", "rejected"}       \* DONOR_EDITABLE_STATUSES
Deletable == Editable \cup {"expired", "cancelled"}            \* DONOR_DELETABLE_STATUSES
NoListing == [status |-> "none"]

-----------------------------------------------------------------------------
(* The pages.  A page shows the listing in the status it last read, None when  *)
(* it leaves the listing out, and draws the buttons of that status.            *)
None == "none"
PagesOf(a) == IF a \in Admins THEN {"AdminListings", "AdminDashboard"}
              ELSE IF a \in Managers THEN {"CharityReview", "CharityDashboard"}
              ELSE {"DonorListings"}

\* getCharityDashboard: what is routed to the charity's dashboard.
CharityRouted == {"charity_review", "active", "cancelled"}

AdminListingsShows(row) == IF row.status = "pending" THEN row.status ELSE None
AdminDashboardShows(row) == row.status
CharityReviewShows(row) == IF row.status = "charity_review" THEN row.status ELSE None
CharityDashboardShows(row) ==
  IF row.status \in CharityRouted \/ (row.status = "rejected" /\ row.stage = "charity")
  THEN row.status ELSE None
DonorListingsShows(row) == row.status
Shows(p, row) ==
  CASE p = "AdminListings" -> AdminListingsShows(row)
    [] p = "AdminDashboard" -> AdminDashboardShows(row)
    [] p = "CharityReview" -> CharityReviewShows(row)
    [] p = "CharityDashboard" -> CharityDashboardShows(row)
    [] p = "DonorListings" -> DonorListingsShows(row)

\* The buttons beside a listing a page shows in status s.
AdminListingsButtons(s) == IF s = "pending" THEN {"approve", "changes", "reject"} ELSE {}
AdminDashboardButtons(s) == IF s = "pending" THEN {"approve", "reject"} ELSE {}
CharityReviewButtons(s) == IF s = "charity_review" THEN {"accept", "decline"} ELSE {}
CharityDashboardButtons(s) == IF s = "charity_review" THEN {"accept", "decline"} ELSE {}
DonorListingsButtons(s) ==
  {op \in {"edit"} : s \in Editable} \cup {op \in {"delete"} : s \in Deletable}
Buttons(p, s) ==
  CASE p = "AdminListings" -> AdminListingsButtons(s)
    [] p = "AdminDashboard" -> AdminDashboardButtons(s)
    [] p = "CharityReview" -> CharityReviewButtons(s)
    [] p = "CharityDashboard" -> CharityDashboardButtons(s)
    [] p = "DonorListings" -> DonorListingsButtons(s)

\* What the page shows after its own operation left the listing as row.
AdminListingsAfter(op, row) == None
AdminDashboardAfter(op, row) == IF op = "approve" THEN row.status ELSE None
CharityReviewAfter(op, row) == None
CharityDashboardAfter(op, row) == CharityDashboardShows(row)
DonorListingsAfter(op, row) == DonorListingsShows(row)
After(p, op, row) ==
  CASE p = "AdminListings" -> AdminListingsAfter(op, row)
    [] p = "AdminDashboard" -> AdminDashboardAfter(op, row)
    [] p = "CharityReview" -> CharityReviewAfter(op, row)
    [] p = "CharityDashboard" -> CharityDashboardAfter(op, row)
    [] p = "DonorListings" -> DonorListingsAfter(op, row)

\* The pages of a charity that is not approved draw no buttons.
Offers(a, p) ==
  IF a \in Managers /\ ~Approved(CharityOf(a)) THEN {}
  ELSE Buttons(p, Shows(p, listing))

Open(a, p) ==
  /\ job[a] = Idle
  /\ p \in PagesOf(a)
  /\ offered' = [offered EXCEPT ![a] = Offers(a, p)]
  /\ offered' # offered
  /\ UNCHANGED <<charities, campaign, job, requests, rowVars>>

\* Requests no page draws a button for: an administrator may edit or cancel any
\* listing through the API.
ApiOnly(a) == IF a \in Admins THEN {"edit", "delete"} ELSE {}

\* The form's own checks of the window; createListing repeats them.
FormAccepts(w) == w[1] < w[2]
\* note: the version of the content a reviewer's note was written on, if any.
Submitted(i, w) ==
  [status |-> "pending", content |-> 1, note |-> {}, stage |-> None,
   start |-> w[1], end |-> w[2], campaign |-> i]

\* The registry is empty, or a charity runs a campaign, for which a donor has or
\* has not submitted the listing yet.
Init ==
  /\ RegistryInit
  /\ listing \in {NoListing} \cup {Submitted(i, w) : i \in DOMAIN charities, w \in {v \in Windows : FormAccepts(v)}}
  /\ offered = [a \in Users |-> {}]
  /\ clock = 0
  /\ trail = [next |-> 2, forwarded |-> {}, accepted |-> {}, admin |-> {}]

-----------------------------------------------------------------------------
(* The handlers *)
\* listPublicCampaigns: what the form offers to choose from.
PublicCampaigns == {i \in DOMAIN charities : campaign[i].status = "active" /\ Approved(i)}
\* ensureCampaignCoversAuctionWindow
CampaignCovers(i, w) == w[2] <= campaign[i].end

\* createListing reads the campaign and its charity before it inserts.  The two
\* reads are one step: what the first has found open may close until the insert.
ReadForSubmit(i, w) ==
  /\ Free(Donor) /\ listing = NoListing
  /\ i \in PublicCampaigns /\ FormAccepts(w) /\ CampaignCovers(i, w)
  /\ Begin(Donor, [op |-> "submit", id |-> i, window |-> w])
  /\ UNCHANGED <<registryVars, offered, rowVars>>

InsertListing ==
  /\ job[Donor].op = "submit"
  /\ listing' = Submitted(job[Donor].id, job[Donor].window)
  /\ End(Donor)
  /\ UNCHANGED <<registryVars, offered, clock, trail>>

\* The end dates the forms let through: the form of a new campaign on the
\* dashboard does not look at the date.
CampaignPageAccepts(op, end) == op \in {"open", "amend"} => end > clock
DashboardAccepts(op, end) == op = "amend" => end > clock

\* Both pages draw a button in the status its handler asks for, so a page just
\* loaded allows every request; closing sends no date.
AskCampaign(a, op, end) ==
  /\ op \in CampaignButtons(CharityOf(a))
  /\ CampaignPageAccepts(op, end) \/ DashboardAccepts(op, end)
  /\ op = "close" => end = Max(CampaignEnds)
  /\ ReadForCampaign(a, op, end)
  /\ UNCHANGED <<offered, rowVars>>

\* resolveReviewingCharity, the first read of the charity's two operations.
ReadCharity(a, op) ==
  /\ Free(a) /\ op \in offered[a]
  /\ Approved(CharityOf(a))
  /\ Begin(a, [op |-> op, charity |-> CharityOf(a)])
  /\ UNCHANGED <<registryVars, offered, rowVars>>

\* The status in which each handler finds the row, or refuses.
Accepts(op, isAdmin, row) ==
  CASE op \in {"approve", "changes", "reject"} -> row.status = "pending"
    [] op \in {"accept", "decline"} -> row.status = "charity_review"
    [] op = "edit" -> isAdmin \/ row.status \in Editable
    [] op = "delete" -> isAdmin \/ row.status \in Deletable

\* getListingByUuid of every other operation: the snapshot its write starts from.
ReadListing(a, op) ==
  /\ Free(a) /\ listing # NoListing
  /\ op \in offered[a] \cup ApiOnly(a)
  /\ Accepts(op, a \in Admins, listing)
  /\ Begin(a, [op |-> op, row |-> listing])
  /\ UNCHANGED <<registryVars, offered, rowVars>>

\* The charity's read: its own campaign only, and only a forwarded listing.
ReadAssigned(a) ==
  /\ job[a].op \in {"accept", "decline"} /\ "charity" \in DOMAIN job[a]
  /\ LET j == job[a]
         mine == listing.campaign = j.charity /\ campaign[j.charity] # NoCampaign
     IN Continue(a, IF mine /\ Accepts(j.op, FALSE, listing)
                        THEN [op |-> j.op, row |-> listing] ELSE Idle)
  /\ UNCHANGED <<registryVars, offered, rowVars>>

\* Mutant of Reanchored: the hidden review window is published as it was.
AsSubmitted(row) == row

\* The auction window at publication: kept when it lies ahead, else moved to
\* start now with the same length.
Reanchored(row) ==
  IF row.start <= clock \/ row.end <= clock
  THEN [row EXCEPT !.start = clock, !.end = clock + Max({row.end - row.start, 1})]
  ELSE row

\* Mutant of Resubmitted: the stale note is kept.
ResubmittedWithNote(row) == [row EXCEPT !.status = "pending", !.stage = None]

\* A donor's edit of a returned listing sends it back to the administrator.
Resubmitted(row) == [row EXCEPT !.status = "pending", !.note = {}, !.stage = None]

\* The row each handler writes, from the row it read.
Written(op, isAdmin, row) ==
  CASE op = "approve" -> [row EXCEPT !.status = "charity_review", !.note = {}, !.stage = "charity"]
    [] op = "changes" -> [row EXCEPT !.status = "changes_requested", !.note = {row.content}, !.stage = "admin"]
    [] op = "reject" -> [row EXCEPT !.status = "rejected", !.note = {row.content}, !.stage = "admin"]
    [] op = "accept" -> [Reanchored(row) EXCEPT !.status = "active", !.note = {}, !.stage = None]
    [] op = "decline" -> [row EXCEPT !.status = "rejected", !.note = {row.content}, !.stage = "charity"]
    [] op = "edit" -> [(IF ~isAdmin /\ row.status \in {"changes_requested", "rejected"}
                        THEN Resubmitted(row) ELSE row)
                       EXCEPT !.content = trail.next]
    [] op = "delete" -> [row EXCEPT !.status = "cancelled"]

\* Mutant of UpdateListing: a decision leaves the newest text and images alone.
UpdateDecision(old, new) == [new EXCEPT !.content = Max({old.content, @})]

\* updateListing: the UPDATE sets every column.
UpdateListing(old, new) == new

Recorded(op, isAdmin, row) ==
  CASE op = "approve" -> [trail EXCEPT !.forwarded = @ \cup {row.content}]
    [] op = "accept" -> [trail EXCEPT !.accepted = @ \cup {row.content}]
    [] op = "edit" -> [trail EXCEPT !.next = @ + 1,
                                    !.admin = IF isAdmin THEN @ \cup {trail.next} ELSE @]
    [] OTHER -> trail

\* The write of every operation, and what the page that asked for it shows then.
WriteListing(a) ==
  /\ "row" \in DOMAIN job[a]
  /\ LET j == job[a] IN
     /\ j.op = "edit" => trail.next <= MaxContents
     /\ listing' = UpdateListing(listing, Written(j.op, a \in Admins, j.row))
     /\ trail' = Recorded(j.op, a \in Admins, j.row)
  /\ \E p \in PagesOf(a) :
        offered' = [offered EXCEPT ![a] = Buttons(p, After(p, job[a].op, listing'))]
  /\ End(a)
  /\ UNCHANGED <<registryVars, clock>>

Tick ==
  /\ clock < MaxClock
  /\ clock' = clock + 1
  /\ UNCHANGED <<registryVars, job, requests, offered, listing, trail>>

Next ==
  \/ RegistryNext /\ UNCHANGED <<rowVars, offered>>
  \/ \E i \in DOMAIN charities, w \in Windows : ReadForSubmit(i, w)
  \/ InsertListing
  \/ \E a \in Managers :
        \/ \E op \in {"accept", "decline"} : ReadCharity(a, op)
        \/ ReadAssigned(a)
        \/ \E op \in {"open", "amend", "close"}, end \in CampaignEnds : AskCampaign(a, op, end)
        \/ WriteCampaign(a) /\ UNCHANGED <<offered, rowVars>>
  \/ \E a \in Users \ Managers :
        \E op \in {"approve", "changes", "reject", "edit", "delete"} : ReadListing(a, op)
  \/ \E a \in Users : (\E p \in PagesOf(a) : Open(a, p)) \/ WriteListing(a)
  \/ Tick

Spec == Init /\ [][Next]_vars

-----------------------------------------------------------------------------
(* What the public sees: isPubliclyBiddableNow, which searchPublicListings and  *)
(* getPublicListing ask of a listing for anybody but its donor and the          *)
(* administrators.                                                             *)
PubliclyVisible == listing.status = "active" /\ listing.start <= clock /\ clock < listing.end

(* The donor's dashboard: the filter a listing is counted under.               *)
TrackingFilter ==
  CASE listing.status \in {"pending", "changes_requested", "charity_review"} -> "pending"
    [] listing.status = "active" -> IF listing.start > clock THEN "upcoming" ELSE "active"
    [] OTHER -> listing.status

\* Whom the dashboard names as the one who rejected the listing.
RejectedBy(row) == CASE row.stage = "charity" -> "the_charity"
                     [] row.stage = "admin" -> "an_administrator"
                     [] OTHER -> "a_reviewer"

-----------------------------------------------------------------------------
(* Properties *)
Typed ==
  /\ listing = NoListing \/ listing \in [status : Statuses, content : 1 .. MaxContents, note : SUBSET (1 .. MaxContents),
                                         stage : {None, "admin", "charity"}, start : 0 .. 2 * MaxClock,
                                         end : 1 .. 2 * MaxClock + 1, campaign : 1 .. MaxCharities]
  /\ \A i \in DOMAIN charities : charities[i].status \in {"pending", "approved", "rejected", "deleted"}

\* Nothing reaches the public that did not pass both stages as it stands: the
\* text and images on show were forwarded by an administrator and accepted by
\* the charity, or written by an administrator, whatever edits, resubmissions and
\* stale writes came in between (listing.service.ts, "two-stage review").
PublicContentReviewed ==
  listing # NoListing /\ PubliclyVisible =>
    \/ listing.content \in trail.forwarded \cap trail.accepted
    \/ listing.content \in trail.admin

\* The reviewer's note and stage on the row belong to the status and to the
\* text on the row: a donor never reads an old reason on a resubmitted listing,
\* a rejection without one or by nobody in particular, or a reason given to a
\* text other than the one beside it, unless an administrator has rewritten it
\* since, whichever decisions and edits overlapped.
ReasonsAgree ==
  /\ listing # NoListing /\ listing.status # "cancelled" =>
       /\ listing.note # {} <=> listing.status \in {"changes_requested", "rejected"}
       /\ listing.status = "rejected" => RejectedBy(listing) # "a_reviewer"
       /\ listing.status # "rejected" =>
            listing.stage = CASE listing.status = "charity_review" -> "charity"
                              [] listing.status = "changes_requested" -> "admin"
                              [] OTHER -> None
  /\ listing # NoListing =>
       listing.note \subseteq {listing.content} \/ listing.content \in trail.admin

\* A campaign its charity has closed stays closed: an edit of its end date that
\* was read while it was open, by the other manager or from the other page, does
\* not open it again (campaign.service.ts, closeManagedCampaign).
ClosedCampaignStaysClosed ==
  [][\A i \in DOMAIN campaign :
       campaign[i].status = "closed" => campaign'[i].status \in {"closed", "none"}]_vars

\* What a step that ends an acceptance leaves behind.
AcceptancesOpen ==
  \A a \in Users :
    job[a].op = "accept" /\ "row" \in DOMAIN job[a] /\ job'[a] = Idle =>
      /\ listing'.end > clock
      /\ job[a].row.start > clock => /\ <<listing'.start, listing'.end>> = <<job[a].row.start, job[a].row.end>>
                                    /\ TrackingFilter' = "upcoming"

\* A charity's acceptance publishes an auction that can still be bid on: it does
\* not end at once, however long the review took, and a window that lies ahead
\* is kept, so the donor's dashboard counts it as upcoming.
PublishedAuctionIsOpen == [][AcceptancesOpen]_vars
=============================================================================
