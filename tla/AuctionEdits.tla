---------------------------- MODULE AuctionEdits ----------------------------
(***************************************************************************)
(* Auction.tla together with the handlers that write the listing row       *)
(* without its lock, and with what becomes of the offer.  An administrator *)
(* may edit the details of an active listing (updateListingDetails) or     *)
(* cancel it (deleteListing); both handlers, in                            *)
(* backend/src/services/listing.service.ts, read the whole row, change     *)
(* their own columns in memory and write the whole row back.  The write    *)
(* waits for the row lock, the read does not: whatever was committed in    *)
(* between is overwritten, the closing of the auction and the payment of   *)
(* its offer included.                                                     *)
(***************************************************************************)
EXTENDS Auction

CONSTANTS
    MaxEdits,           \* bound on the number of such requests
    PaymentWindow       \* PAYMENT_DEADLINE_HOURS

ASSUME AuctionEditsAssumption ==
    /\ MaxEdits \in Nat
    /\ PaymentWindow \in Nat \ {0}

VARIABLES
    edit,               \* the row an administrator's request has read
    edits,              \* how many such requests there were
    due,                \* payment_deadline of the pending offer
    found,              \* the worker's scan has found the listing sold
    resolved            \* the payments rows that are no longer pending

editVars == <<vars, edit, edits, due, found, resolved>>
editing  == <<edit, edits>>
paying   == <<due, found, resolved>>

NoEdit == [op |-> "none", row |-> NewListing]

EditInit ==
    /\ Init
    /\ edit = NoEdit /\ edits = 0
    /\ due = 0 /\ found = FALSE /\ resolved = << >>

\* getListingByUuid in updateListingDetails and deleteListing.  The donor may
\* do neither while the auction is active; the administrator may at any time.
ReadListing(op) ==
    /\ edit = NoEdit
    /\ edits < MaxEdits
    /\ edits' = edits + 1
    /\ edit' = [op |-> op, row |-> CommittedListing]
    /\ UNCHANGED <<vars, paying>>

\* updateListing: the columns the handler did not change are written as read.
WriteListing ==
    /\ edit # NoEdit
    /\ tx.phase = "idle"
    /\ listing' = IF edit.op = "delete"
                  THEN [edit.row EXCEPT !.status = "cancelled"]
                  ELSE edit.row
    /\ edit' = NoEdit
    /\ UNCHANGED <<bids, autoBids, offer, tx, saved, now, edits, paying>>

\* Invalid input or a failed request: nothing was written.
AbandonEdit ==
    /\ edit # NoEdit
    /\ edit' = NoEdit
    /\ UNCHANGED <<vars, edits, paying>>

-----------------------------------------------------------------------------
(***************************************************************************)
(* What becomes of the offer, each under the listing row lock              *)
(* (payment.service.ts).                                                   *)
(***************************************************************************)
Payment(o, status) == [bidder |-> o.bidder, amount |-> o.amount, status |-> status]

\* isDeadlineOver
Overdue == due <= now

\* The pending payment gets another status.
Resolve(status) ==
    /\ resolved' = Append(resolved, Payment(offer, status))
    /\ offer' = NoOffer
    /\ due' = 0

\* completePayment.  Too late, it throws and rolls back whatever it wrote.
CompletePayment ==
    /\ tx.phase = "idle"
    /\ offer # NoOffer
    /\ ~ Overdue
    /\ listing.status = "sold"
    /\ listing.winner_id = offer.bidder
    /\ listing' = [listing EXCEPT !.current_bid = offer.amount]
    /\ Resolve("successful")
    /\ UNCHANGED <<bids, autoBids, tx, saved, now, editing, found>>

\* The second half of processAuctionDeadlines looks for sold listings without
\* the lock ...
FindSold ==
    /\ ~ found
    /\ CommittedListing.status = "sold"
    /\ found' = TRUE
    /\ UNCHANGED <<vars, editing, due, resolved>>

\* ... and handles each under it, whatever its status has become by then.
ProcessOverduePayment ==
    /\ found
    /\ tx.phase = "idle"
    /\ found' = FALSE
    /\ IF offer # NoOffer /\ Overdue
       THEN /\ Resolve("expired")
            /\ listing' = [listing EXCEPT !.status = "expired",
                                          !.winner_id = NoBidder]
       ELSE UNCHANGED <<listing, offer, due, resolved>>
    /\ UNCHANGED <<bids, autoBids, tx, saved, now, editing>>

\* A step of Auction; the offer it makes gets its deadline.
AuctionGoesOn ==
    /\ due' = CASE offer' = offer -> due
                [] offer' # offer /\ offer' = NoOffer -> 0
                [] offer' # offer /\ offer' # NoOffer -> now + PaymentWindow
    /\ UNCHANGED <<editing, found, resolved>>

-----------------------------------------------------------------------------
EditNext ==
    \/ Next /\ AuctionGoesOn
    \/ \E op \in {"details", "delete"} : ReadListing(op)
    \/ WriteListing
    \/ AbandonEdit
    \/ CompletePayment
    \/ FindSold
    \/ ProcessOverduePayment

EditSpec == EditInit /\ [][EditNext]_editVars

\* The requests and the deadline worker run as in Auction.  Administrators
\* are free to edit or not, the winner to pay or not.
EditFairSpec ==
    /\ EditSpec
    /\ WF_editVars(ReadAutoBids /\ AuctionGoesOn)
    /\ WF_editVars(Respond /\ AuctionGoesOn)
    /\ WF_editVars(Commit /\ AuctionGoesOn)
    /\ WF_editVars(tx.phase = "failed" /\ Rollback /\ AuctionGoesOn)
    /\ WF_editVars(Tick /\ AuctionGoesOn)
    /\ SF_editVars(CloseEndedActiveListing(FALSE) /\ AuctionGoesOn)
    /\ SF_editVars(FindSold)
    /\ SF_editVars(ProcessOverduePayment)

-----------------------------------------------------------------------------
(***************************************************************************)
(* A pending offer stands as it was made, its deadline included, until it  *)
(* is paid in time or expires: a stale write may make the sold listing     *)
(* active again, and neither the worker, a forced closing nor a late bid   *)
(* then gives it a second one ("if another worker already created a        *)
(* payment offer, do not create duplicates", payment.service.ts).          *)
(***************************************************************************)
OpenOfferStands ==
    [][IF CommittedOffer = NoOffer
       THEN resolved' = resolved
       ELSE \/ UNCHANGED <<CommittedOffer, due, resolved>>
            \/ /\ CommittedOffer' = NoOffer
               /\ resolved' = Append(resolved, Payment(CommittedOffer,
                      IF Overdue THEN "expired" ELSE "successful"))]_editVars

(***************************************************************************)
(* The item is offered once, and once more for each administrator's edit   *)
(* or cancellation at most: no second offer without a stale write.         *)
(***************************************************************************)
OffersMade == Len(resolved) + (IF CommittedOffer = NoOffer THEN 0 ELSE 1)
FurtherOffersTakeEdits == OffersMade <= 1 + edits

(***************************************************************************)
(* An item that was paid for is not offered again (the same comment).  It  *)
(* does not hold: see "Refuted" in the README.                             *)
(***************************************************************************)
PaidItemNotOfferedAgain ==
    (\E k \in DOMAIN resolved : resolved[k].status = "successful")
        => CommittedOffer = NoOffer

(***************************************************************************)
(* An offer is always for a bid that was really placed, by that bidder and *)
(* at that amount, whatever the overwritten row says.                      *)
(***************************************************************************)
OfferIsForARecordedBid ==
    offer # NoOffer =>
        \E i \in DOMAIN bids : /\ bids[i].bidder = offer.bidder
                               /\ bids[i].amount = offer.amount

(***************************************************************************)
(* Of several manual bids for the same amount only one is accepted         *)
(* (TESTING.md, SFR10: "must be serialised so that only one succeeds").    *)
(***************************************************************************)
OneBidPerAmount ==
    \A i, j \in DOMAIN bids :
        ~ bids[i].auto /\ ~ bids[j].auto /\ bids[i].amount = bids[j].amount
            => i = j

(***************************************************************************)
(* The worker closes overdue auctions by itself ("without requiring        *)
(* users/admins to click a button just to close overdue auctions",         *)
(* index.ts), also when administrators edit them meanwhile.  It does not   *)
(* hold: see "Refuted" in the README.                                      *)
(***************************************************************************)
OverdueAuctionClosesUnderEdits == EndedAuctionCloses
=============================================================================
