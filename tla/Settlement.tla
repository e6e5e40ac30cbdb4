----------------------------- MODULE Settlement -----------------------------
(***************************************************************************)
(* From the end of an auction to the release of the money: the payment     *)
(* offer, its completion or expiry (backend/src/services/payment.service), *)
(* and the shipping and delivery of the item (listing.service).            *)
(*                                                                         *)
(* Closing, expiring and completing run under the listing row lock; none   *)
(* of them is observable half-way, so each is one step.  Shipping,         *)
(* confirming, editing and cancelling take no lock: each of their          *)
(* statements is a step of its own, on rows read by earlier steps, and the *)
(* request may stop after any of them.                                     *)
(***************************************************************************)
EXTENDS Integers, Sequences

CONSTANTS
    Bidders,            \* users who bid on the listing
    Admins,             \* administrators
    NoBidder,           \* listings.winner_id IS NULL
    Requests,           \* concurrent unlocked requests (bound)
    Ops,                \* the unlocked operations that occur
    EndTime,            \* listings.end_time
    PayPeriod,          \* PAYMENT_DEADLINE_HOURS
    MaxClock,           \* bound on the clock
    MaxPayments,        \* bound on the payment offers of the listing
    Failures            \* TRUE when requests may stop half-way

ASSUME SettlementAssumption ==
    /\ NoBidder \notin Bidders
    /\ Ops \subseteq {"ship", "confirm", "edit", "delete"}
    /\ EndTime \in Nat /\ PayPeriod \in Nat \ {0} /\ MaxClock \in Nat
    /\ MaxPayments \in Nat
    /\ Failures \in BOOLEAN

VARIABLES
    listing,            \* status and winner_id of the listings row
    bidders,            \* who has bids rows on the listing
    payments,           \* the payments rows, oldest first
    receipts,           \* payment_id of the receipts rows (UNIQUE)
    deliveries,         \* the deliveries rows
    found,              \* the worker's scan has found the listing sold
    req,                \* what each unlocked request holds in memory
    reply,              \* what a payment request was answered in this step
    now

locked == <<listing, bidders, payments, receipts>>
vars == <<listing, bidders, payments, receipts, deliveries, found, req, reply,
          now>>

NoDelivery == [shipped |-> FALSE, confirmed |-> FALSE]

\* A step that answers no payment request.
NoReply == reply' = "none"

IdleRequest == [op |-> "none", pc |-> "idle",
                row |-> [status |-> "active", winner |-> NoBidder],
                id |-> 0, delivery |-> NoDelivery]

Pending(k) == payments[k].status = "pending"
Overdue(k) == payments[k].deadline <= now
Held(k)    == payments[k].escrow = "held"

Init ==
    /\ listing = [status |-> "active", winner |-> NoBidder]
    /\ bidders = {}
    /\ payments = << >>
    /\ receipts = {}
    /\ deliveries = << >>
    /\ found = FALSE
    /\ req = [r \in Requests |-> IdleRequest]
    /\ reply = "none"
    /\ now = 0

-----------------------------------------------------------------------------
(***************************************************************************)
(* Under the listing row lock.                                             *)
(***************************************************************************)
\* Bidding, see Auction: while it lasts the lead passes to whoever bids.
Bid(b) ==
    /\ listing.status = "active"
    /\ now < EndTime
    /\ listing' = [listing EXCEPT !.winner = b]
    /\ bidders' = bidders \cup {b}
    /\ UNCHANGED <<payments, receipts, deliveries, found, req, now>>
    /\ NoReply

\* The offer goes to the highest bidder: the leader, or another one who stands
\* at the same price (Auction, OfferGoesToLeader).
OfferPayment ==
    \E b \in bidders :
        /\ Len(payments) < MaxPayments
        /\ listing' = [status |-> "sold", winner |-> b]
        /\ payments' = Append(payments,
              [bidder |-> b, status |-> "pending", escrow |-> "not_held",
               deadline |-> now + PayPeriod])

\* Variant of CloseEndedActiveListing that trusts the status its caller saw.
CloseWithoutStatus(force) ==
    /\ force \/ EndTime <= now
    /\ ~ \E k \in DOMAIN payments : Pending(k)
    /\ OfferPayment
    /\ UNCHANGED <<bidders, receipts, deliveries, found, req, now>>
    /\ NoReply

CloseEndedActiveListing(force) ==
    /\ listing.status = "active"
    /\ force \/ EndTime <= now
    /\ ~ \E k \in DOMAIN payments : Pending(k)
    /\ \/ /\ bidders = {}
          /\ listing' = [status |-> "expired", winner |-> NoBidder]
          /\ UNCHANGED payments
       \/ OfferPayment
    /\ UNCHANGED <<bidders, receipts, deliveries, found, req, now>>
    /\ NoReply

\* processAuctionDeadlines looks for sold listings without a lock ...
FindSold ==
    /\ ~ found
    /\ listing.status = "sold"
    /\ found' = TRUE
    /\ UNCHANGED <<locked, deliveries, req, now>>
    /\ NoReply

\* Variants of ProcessOverduePayment: one expires a payment whatever became of
\* it, one throws at the end as completePayment does.
ProcessOverdueAsFound ==
    /\ found
    /\ found' = FALSE
    /\ \E k \in DOMAIN payments :
          /\ Overdue(k)
          /\ payments' = [payments EXCEPT ![k].status = "expired",
                                          ![k].escrow = "not_held"]
    /\ listing' = [status |-> "expired", winner |-> NoBidder]
    /\ UNCHANGED <<bidders, receipts, deliveries, req, now>>
    /\ NoReply
ProcessOverdueThrows ==
    /\ found
    /\ found' = FALSE
    /\ UNCHANGED <<locked, deliveries, req, now>>
    /\ NoReply

\* ... and expireOverduePaymentAndListing looks again under the lock, at the
\* pending payment only.
ProcessOverduePayment ==
    /\ found
    /\ found' = FALSE
    /\ \/ \E k \in DOMAIN payments :
             /\ Pending(k)
             /\ Overdue(k)
             /\ payments' = [payments EXCEPT ![k].status = "expired",
                                             ![k].escrow = "not_held"]
             /\ listing' = [status |-> "expired", winner |-> NoBidder]
       \/ /\ ~ \E k \in DOMAIN payments : Pending(k) /\ Overdue(k)
          /\ UNCHANGED <<payments, listing>>
    /\ UNCHANGED <<bidders, receipts, deliveries, req, now>>
    /\ NoReply

\* Variant of CompletePayment that leaves the receipt for later.
CompleteWithoutReceipt(k) ==
    /\ Pending(k)
    /\ ~ Overdue(k)
    /\ listing = [status |-> "sold", winner |-> payments[k].bidder]
    /\ payments' = [payments EXCEPT ![k].status = "successful",
                                    ![k].escrow = "held"]
    /\ reply' = "completed"
    /\ UNCHANGED <<listing, bidders, receipts, deliveries, found, req, now>>

CompletePayment(k) ==
    /\ Pending(k)
    /\ ~ Overdue(k)
    /\ listing = [status |-> "sold", winner |-> payments[k].bidder]
    /\ k \notin receipts
    /\ payments' = [payments EXCEPT ![k].status = "successful",
                                    ![k].escrow = "held"]
    /\ receipts' = receipts \cup {k}
    /\ reply' = "completed"
    /\ UNCHANGED <<listing, bidders, deliveries, found, req, now>>

\* After the deadline completePayment expires the offer and the auction, then
\* throws inside the transaction: both are rolled back, the answer is not.
CompletePaymentLate(k) ==
    /\ Pending(k)
    /\ Overdue(k)
    /\ reply' = "auction_has_expired"
    /\ UNCHANGED <<locked, deliveries, found, req, now>>

\* regenerateReceipt inserts a second receipts row for the payment, which its
\* UNIQUE payment_id refuses.
RegenerateReceipt(k) ==
    /\ payments[k].escrow \in {"held", "released"}
    /\ \/ /\ k \notin receipts
          /\ receipts' = receipts \cup {k}
          /\ reply' = "receipt_regenerated"
       \/ /\ k \in receipts
          /\ reply' = "receipt_failed"
          /\ UNCHANGED receipts
    /\ UNCHANGED <<listing, bidders, payments, deliveries, found, req, now>>

-----------------------------------------------------------------------------
(***************************************************************************)
(* provideTracking, confirmDelivery, updateListingDetails and              *)
(* deleteListing, statement by statement.  pc names the next statement.    *)
(***************************************************************************)
\* Variant of NextStatement in which shipping does not check the payment.
ShipUnpaid(op) == IF op \in {"ship", "confirm"} THEN "get_delivery"
                                               ELSE "write_listing"

NextStatement(op) == CASE op = "ship"    -> "check_payment"
                       [] op = "confirm" -> "get_delivery"
                       [] OTHER          -> "write_listing"

\* getListingByUuid; confirmDelivery checks its caller on the row it has read.
ReadListing(r, op) ==
    /\ req[r].pc = "idle"
    /\ op = "confirm" => listing.winner \in Bidders \/ Admins # {}
    /\ req' = [req EXCEPT ![r] = [IdleRequest EXCEPT
                  !.op = op, !.pc = NextStatement(op), !.row = listing]]
    /\ UNCHANGED <<locked, deliveries, found, now>>
    /\ NoReply

CheckPaymentHeld(r) ==
    /\ req[r].pc = "check_payment"
    /\ req' = IF \E k \in DOMAIN payments : Held(k)
              THEN [req EXCEPT ![r].pc = "get_delivery"]
              ELSE [req EXCEPT ![r] = IdleRequest]
    /\ UNCHANGED <<locked, deliveries, found, now>>
    /\ NoReply

\* getDeliveryByListingId returns any one of the listing's rows.
GetDelivery(r) ==
    /\ req[r].pc = "get_delivery"
    /\ \/ \E i \in DOMAIN deliveries :
             /\ req[r].op = "ship" \/ ~ deliveries[i].confirmed
             /\ req' = [req EXCEPT ![r].pc = "write_delivery", ![r].id = i,
                                   ![r].delivery = deliveries[i]]
       \/ /\ req[r].op = "ship" /\ deliveries = << >>
          /\ req' = [req EXCEPT ![r].pc = "add_delivery"]
       \/ /\ req[r].op = "confirm"
          /\ \/ deliveries = << >>
             \/ \E i \in DOMAIN deliveries : deliveries[i].confirmed
          /\ req' = [req EXCEPT ![r] = IdleRequest]
    /\ UNCHANGED <<locked, deliveries, found, now>>
    /\ NoReply

AddDelivery(r) ==
    /\ req[r].pc = "add_delivery"
    /\ deliveries' = Append(deliveries, NoDelivery)
    /\ req' = [req EXCEPT ![r].pc = "write_delivery",
                          ![r].id = Len(deliveries) + 1]
    /\ UNCHANGED <<locked, found, now>>
    /\ NoReply

\* updateDelivery writes every column of the row it was given.
UpdateDelivery(r) ==
    /\ req[r].pc = "write_delivery"
    /\ deliveries' = [deliveries EXCEPT ![req[r].id] =
          IF req[r].op = "ship" THEN [req[r].delivery EXCEPT !.shipped = TRUE]
                                ELSE [req[r].delivery EXCEPT !.confirmed = TRUE]]
    /\ req' = [req EXCEPT ![r] = [IdleRequest EXCEPT
                  !.op = req[r].op, !.pc = "write_listing", !.row = req[r].row]]
    /\ UNCHANGED <<locked, found, now>>
    /\ NoReply

StatusAfter(request) == CASE request.op = "ship"    -> "shipped"
                          [] request.op = "confirm" -> "delivered"
                          [] request.op = "delete"  -> "cancelled"
                          [] OTHER                  -> request.row.status

\* Variant of UpdateListing after which confirmDelivery releases nothing.
UpdateListingOnly(r) ==
    /\ req[r].pc = "write_listing"
    /\ listing' = [req[r].row EXCEPT !.status = StatusAfter(req[r])]
    /\ req' = [req EXCEPT ![r] = IdleRequest]
    /\ UNCHANGED <<bidders, payments, receipts, deliveries, found, now>>
    /\ NoReply

\* updateListing writes every column of the row read at the start.
UpdateListing(r) ==
    /\ req[r].pc = "write_listing"
    /\ listing' = [req[r].row EXCEPT !.status = StatusAfter(req[r])]
    /\ req' = IF req[r].op = "confirm"
              THEN [req EXCEPT ![r] = [IdleRequest EXCEPT
                      !.op = "confirm", !.pc = "find_held_payment"]]
              ELSE [req EXCEPT ![r] = IdleRequest]
    /\ UNCHANGED <<bidders, payments, receipts, deliveries, found, now>>
    /\ NoReply

\* Variant of FindHeldPayment without its early return.
FindAnyPayment(r) ==
    /\ req[r].pc = "find_held_payment"
    /\ \E k \in {0} \cup DOMAIN payments :
          /\ k # 0 => Held(k)
          /\ req' = [req EXCEPT ![r].pc = "release", ![r].id = k]
    /\ UNCHANGED <<locked, deliveries, found, now>>
    /\ NoReply

\* releaseEscrowForListing takes the oldest payment that is held.
FindHeldPayment(r) ==
    /\ req[r].pc = "find_held_payment"
    /\ \/ \E k \in DOMAIN payments :
             /\ Held(k)
             /\ \A j \in 1..(k-1) : ~ Held(j)
             /\ req' = [req EXCEPT ![r].pc = "release", ![r].id = k]
       \/ /\ ~ \E k \in DOMAIN payments : Held(k)
          /\ req' = [req EXCEPT ![r] = IdleRequest]
    /\ UNCHANGED <<locked, deliveries, found, now>>
    /\ NoReply

\* The payments row is written as read, when it was successful and held.
ReleaseEscrow(r) ==
    /\ req[r].pc = "release"
    /\ payments' = [payments EXCEPT ![req[r].id].status = "successful",
                                    ![req[r].id].escrow = "released"]
    /\ req' = [req EXCEPT ![r] = IdleRequest]
    /\ UNCHANGED <<listing, bidders, receipts, deliveries, found, now>>
    /\ NoReply

Statement(r) ==
    \/ CheckPaymentHeld(r) \/ GetDelivery(r) \/ AddDelivery(r)
    \/ UpdateDelivery(r) \/ UpdateListing(r)
    \/ FindHeldPayment(r) \/ ReleaseEscrow(r)

\* A failed statement or a restart of the server: the rest is not executed.
Fail(r) ==
    /\ Failures
    /\ req[r].pc # "idle"
    /\ req' = [req EXCEPT ![r] = IdleRequest]
    /\ UNCHANGED <<locked, deliveries, found, now>>
    /\ NoReply

\* Bound: the clock leaves room for the payment period after the closing.
Tick ==
    /\ now < MaxClock
    /\ listing.status = "active" => now + PayPeriod < MaxClock
    /\ now' = now + 1
    /\ UNCHANGED <<locked, deliveries, found, req>>
    /\ NoReply

-----------------------------------------------------------------------------
Next ==
    \/ \E b \in Bidders : Bid(b)
    \/ \E force \in BOOLEAN : CloseEndedActiveListing(force)
    \/ FindSold \/ ProcessOverduePayment
    \/ \E k \in DOMAIN payments :
          CompletePayment(k) \/ CompletePaymentLate(k) \/ RegenerateReceipt(k)
    \/ \E r \in Requests :
          \/ \E op \in Ops : ReadListing(r, op)
          \/ Statement(r)
          \/ Fail(r)
    \/ Tick

Spec == Init /\ [][Next]_vars

(***************************************************************************)
(* A request that has started runs on by itself, the worker is started     *)
(* every minute and time passes.  Nobody is obliged to pay, to ship or to  *)
(* confirm.                                                                *)
(***************************************************************************)
Fairness ==
    /\ \A r \in Requests : WF_vars(Statement(r))
    /\ WF_vars(CloseEndedActiveListing(FALSE))
    /\ SF_vars(FindSold)
    /\ WF_vars(ProcessOverduePayment)
    /\ WF_vars(Tick)

FairSpec == Spec /\ Fairness

-----------------------------------------------------------------------------
Statuses == {"active", "sold", "shipped", "delivered", "expired", "cancelled"}
Listings == [status : Statuses, winner : Bidders \cup {NoBidder}]
Payments == [bidder : Bidders, status : {"pending", "successful", "expired"},
             escrow : {"not_held", "held", "released"}, deadline : Nat]
Deliveries == [shipped : BOOLEAN, confirmed : BOOLEAN]
RequestStates ==
    [op : Ops \cup {"none"},
     pc : {"idle", "check_payment", "get_delivery", "add_delivery",
           "write_delivery", "write_listing", "find_held_payment", "release"},
     row : Listings, id : Nat, delivery : Deliveries]

\* The rows and the requests keep their shape, and a row number held by a
\* request is that of a row which exists.
TypeOK ==
    /\ listing \in Listings
    /\ bidders \subseteq Bidders
    /\ payments \in Seq(Payments)
    /\ receipts \subseteq DOMAIN payments
    /\ deliveries \in Seq(Deliveries)
    /\ found \in BOOLEAN
    /\ req \in [Requests -> RequestStates]
    /\ \A r \in Requests :
          /\ req[r].pc = "write_delivery" => req[r].id \in DOMAIN deliveries
          /\ req[r].pc = "release"        => req[r].id \in DOMAIN payments
    /\ reply \in {"none", "completed", "auction_has_expired",
                  "receipt_regenerated", "receipt_failed"}
    /\ now \in Nat

(***************************************************************************)
(* Money, status and receipt of a payment agree in every committed state:  *)
(* a receipt exists exactly for a successful payment, whose money is held  *)
(* or released, and no other payment has money in escrow.  completePayment *)
(* writes them together, the release later, from a row read before.        *)
(***************************************************************************)
MoneyAgrees ==
    \A k \in DOMAIN payments :
        /\ k \in receipts <=> payments[k].status = "successful"
        /\ payments[k].status = "successful" <=> payments[k].escrow # "not_held"

(***************************************************************************)
(* Money that came in is never taken back: no deadline, retry or late      *)
(* write makes a successful payment anything else, and escrow that has     *)
(* been released is not held again.                                        *)
(***************************************************************************)
PaidStaysPaid ==
    [][\A k \in DOMAIN payments :
          payments[k].status = "successful" =>
              /\ payments'[k].status = "successful"
              /\ payments[k].escrow = "released" =>
                     payments'[k].escrow = "released"]_vars

(***************************************************************************)
(* The deadline worker and a payment that arrives in time never both win:  *)
(* the auction of a paid item does not expire, and it is sold once.        *)
(***************************************************************************)
PaidItemIsSoldOnce ==
    \A k \in DOMAIN payments :
        payments[k].status = "successful" =>
            /\ listing.status \in {"sold", "shipped", "delivered"}
            /\ \A j \in DOMAIN payments : j # k => payments[j].status = "expired"

(***************************************************************************)
(* Nothing is shipped, and no parcel is on record, before the money is     *)
(* there ("Verify payment is held (bidder paid)", provideTracking).        *)
(***************************************************************************)
ShippedOnlyAfterPayment ==
    listing.status \in {"shipped", "delivered"} \/ deliveries # << >> =>
        \E k \in DOMAIN payments : payments[k].status = "successful"

(***************************************************************************)
(* A payment offer does not stay open: it is paid or the worker expires it *)
(* after its deadline.                                                     *)
(***************************************************************************)
OffersAreResolved ==
    (\E k \in DOMAIN payments : Pending(k))
        ~> (\A k \in DOMAIN payments : ~ Pending(k))

(***************************************************************************)
(* "After a valid POST /:uuid/deliver, the listing status is delivered and *)
(* the payment escrow_state is released" (TESTING.md), when no request     *)
(* fails half-way.                                                         *)
(***************************************************************************)
DeliveryReleasesEscrow ==
    listing.status = "delivered"
        ~> \E k \in DOMAIN payments : payments[k].escrow = "released"

(***************************************************************************)
(* Under edits and cancellations an open offer is still resolved:          *)
(* deleteListing says that cancelling "prevents orphaned bid/payment       *)
(* records later".  It does not hold: see "Refuted" in the README.         *)
(***************************************************************************)
NoOrphanedOffer == OffersAreResolved

(***************************************************************************)
(* When a late payer is told "The auction has expired", it has.  It does   *)
(* not hold: see "Refuted" in the README.                                  *)
(***************************************************************************)
ExpiryIsAsAnnounced ==
    [][reply # "auction_has_expired" /\ reply' = "auction_has_expired" =>
          listing'.status = "expired"]_vars
=============================================================================
