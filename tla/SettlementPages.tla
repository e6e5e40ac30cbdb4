--------------------------- MODULE SettlementPages ---------------------------
(***************************************************************************)
(* What the dashboards offer over the rows of Settlement: each party sees  *)
(* the settlement through queries of its own, and can only take the step   *)
(* its page has a button for.  The views are functions of the committed    *)
(* rows; a page that was loaded earlier shows an earlier state of them.    *)
(***************************************************************************)
EXTENDS Settlement

(***************************************************************************)
(* BidderDashboard, over listPaymentsByBidder.                             *)
(***************************************************************************)
\* The pending section: pageTime is what the page's minute clock shows.
PayNow(k, pageTime) == Pending(k) /\ pageTime < payments[k].deadline

\* The LEFT JOIN gives a row of the payment for every delivery.
PaymentRows(k) ==
    IF deliveries = << >> THEN {NoDelivery}
    ELSE {deliveries[i] : i \in DOMAIN deliveries}

\* Variant that goes by the status of the listing.
ReceivedOfShipped(k) == Held(k) /\ listing.status = "shipped"

\* "Item Received", in one of the rows of the paid section.
ItemReceived(k) == Held(k) /\ \E row \in PaymentRows(k) : row.shipped

HistoryStatus(k) ==
    CASE payments[k].status # "successful" -> "Pending"
      [] payments[k].escrow = "released"   -> "Delivered"
      [] OTHER                             -> "Paid"

\* "View PDF" opens the receipt of the payment.
ReceiptLink(k) == HistoryStatus(k) # "Pending"

\* What GET /receipts/by-payment finds, the receipt being the caller's own.
ReceiptFound(k) == k \in receipts

(***************************************************************************)
(* DonorDashboard, over getDonorListings: the flags are computed for sold  *)
(* listings only, from any one of the delivery rows.                       *)
(***************************************************************************)
DeliveryRead ==
    IF deliveries = << >> THEN {NoDelivery}
    ELSE {deliveries[i] : i \in DOMAIN deliveries}

IsHeld     == \E k \in DOMAIN payments : Held(k)
IsReleased == \E k \in DOMAIN payments : payments[k].escrow = "released"

DonorView(delivery) ==
    LET sold == listing.status = "sold" IN
    [sold             |-> sold,
     can_ship         |-> sold /\ IsHeld /\ ~ delivery.shipped,
     payment_held     |-> sold /\ IsHeld,
     has_shipped      |-> sold /\ delivery.shipped,
     payment_released |-> sold /\ IsReleased]

ReadyToShip(view)     == view.sold /\ view.can_ship
AwaitingPayment(view) == view.sold /\ ~ view.payment_held /\ ~ view.has_shipped
ShownAsShipped(view)  == view.sold /\ view.has_shipped

ProceedsStatus(view) ==
    CASE ~ view.sold           -> "not_listed"
      [] view.payment_released -> "Released"
      [] view.payment_held     -> "Holding"
      [] OTHER                 -> "Pending"

(***************************************************************************)
(* CharityDashboard, over getCharityDashboard: the funds of its listings.  *)
(***************************************************************************)
CharityView ==
    LET sold == listing.status = "sold" IN
    [sold             |-> sold,
     payment_held     |-> sold /\ IsHeld,
     payment_released |-> sold /\ IsReleased]

FundsStatus == ProceedsStatus(CharityView)

-----------------------------------------------------------------------------
Confirmed == \E i \in DOMAIN deliveries : deliveries[i].confirmed

(***************************************************************************)
(* Whatever requests raced or stopped half-way, the money can go on: an    *)
(* offer the winner is asked to pay is one completePayment accepts; money  *)
(* in escrow has a page on which the donor can still ship or the winner    *)
(* can still confirm; nobody is shown as waiting for a payment that was    *)
(* made; and a receipt that is linked exists.  A confirmation that stopped *)
(* after its first write is the exception: confirmDelivery then refuses to *)
(* be repeated.                                                            *)
(***************************************************************************)
MoneyIsNeverStranded ==
    \A k \in DOMAIN payments, delivery \in DeliveryRead :
        LET donor == DonorView(delivery) IN
        /\ PayNow(k, now) =>
              /\ listing = [status |-> "sold", winner |-> payments[k].bidder]
              /\ k \notin receipts
        /\ Held(k) /\ ~ Confirmed => ReadyToShip(donor) \/ ItemReceived(k)
        /\ AwaitingPayment(donor) => ~ ReceiptLink(k)
        /\ ReceiptLink(k) => ReceiptFound(k)

(***************************************************************************)
(* confirmDelivery takes the winner who is shown the button.  Refuted by   *)
(* TLC: a shipping request that read the listing before the auction ended, *)
(* and goes on after the payment, writes an earlier leader back as winner. *)
(***************************************************************************)
WinnerCanConfirm ==
    \A k \in DOMAIN payments :
        ItemReceived(k) => listing.winner = payments[k].bidder

(***************************************************************************)
(* Money that is in escrow or was released is shown as such to the charity *)
(* and to the donor.  Refuted by TLC: from the shipping on the listing is  *)
(* no longer "sold", and neither page counts it.                           *)
(***************************************************************************)
FundsAreShown ==
    \A delivery \in DeliveryRead :
        /\ IsHeld => FundsStatus = "Holding"
                     /\ ProceedsStatus(DonorView(delivery)) = "Holding"
        /\ IsReleased => FundsStatus = "Released"

(***************************************************************************)
(* The donor finds an item he has shipped in the shipped section.  Refuted *)
(* by TLC: the section lists the items still "sold" only.                  *)
(***************************************************************************)
ShippedItemsAreShown ==
    \A delivery \in DeliveryRead :
        listing.status = "shipped" => ShownAsShipped(DonorView(delivery))

(***************************************************************************)
(* A payment appears once on the bidder's page.  Refuted by TLC: two       *)
(* requests that both find no delivery row insert two.                     *)
(***************************************************************************)
PaymentShownOnce == Len(deliveries) <= 1
=============================================================================
