------------------------------ MODULE Auction ------------------------------
(***************************************************************************)
(* The life of one active auction: manual bids, automatic bids and the     *)
(* closing of the auction into a payment offer                             *)
(* (backend/src/services/bid.service.ts and the closing half of            *)
(* payment.service.ts).                                                    *)
(*                                                                         *)
(* Bidding and closing run inside withListingLock: a PostgreSQL            *)
(* transaction that first takes the listing row FOR UPDATE.  The variables *)
(* listing, bids, autoBids and offer are the rows as the transaction that  *)
(* holds the lock sees them; saved is what ROLLBACK brings back, and       *)
(* Committed* is what everybody else reads.  cancelAutoBid takes no lock   *)
(* and interleaves with the transaction.                                   *)
(***************************************************************************)
EXTENDS ProxyBidding, Sequences

CONSTANTS
    Bidders,            \* user ids with the bidder role
    Donor,              \* user id of the listing's donor
    StartingPrice,      \* listings.starting_price
    Amounts,            \* amounts a client may send (bound)
    Increments,         \* auto-bid increments a client may send (bound)
    StartTime,          \* listings.start_time
    EndTime,            \* listings.end_time
    MaxClock,           \* bound on the clock
    LockWait,           \* bound on how long a request waits for the row lock
    ResponseLimit       \* the loop guard of resolveAutoBids: 10_000

ASSUME AuctionAssumption ==
    /\ Bidders \subseteq Nat \ {NoBidder}
    /\ Donor \in Nat \ {NoBidder}
    /\ StartingPrice \in Nat \ {0}
    /\ Amounts \subseteq Nat
    /\ Increments \subseteq Nat
    /\ StartTime \in Nat /\ EndTime \in Nat /\ StartTime < EndTime
    /\ MaxClock \in Nat /\ LockWait \in Nat
    /\ ResponseLimit \in Nat \ {0}

VARIABLES
    listing,            \* the auction columns of the listings row
    bids,               \* the bids rows, in the order they were inserted
    autoBids,           \* the auto_bids row of each bidder
    offer,              \* the pending payments row, made when the auction closes
    tx,                 \* the transaction that holds the listing row lock
    saved,              \* what that transaction's ROLLBACK restores
    now                 \* the clock (Date.now() and NOW())

vars == <<listing, bids, autoBids, offer, tx, saved, now>>

-----------------------------------------------------------------------------
NoSetting == [max |-> 0, inc |-> 0, active |-> FALSE, updatedAt |-> 0]
NoOffer   == [bidder |-> NoBidder, amount |-> 0]
Idle      == [phase |-> "idle", op |-> "none", bidder |-> NoBidder,
              at |-> 0, candidates |-> {}, rounds |-> 0]

NewListing == [status |-> "active", current_bid |-> StartingPrice,
               bid_count |-> 0, winner_id |-> NoBidder]

NothingSaved == [listing |-> NewListing, bids |-> << >>,
                 setting |-> NoSetting, offer |-> NoOffer]

CommittedListing == IF tx.phase = "idle" THEN listing ELSE saved.listing
CommittedBids    == IF tx.phase = "idle" THEN bids    ELSE saved.bids
CommittedOffer   == IF tx.phase = "idle" THEN offer   ELSE saved.offer

\* NOW() is the instant the transaction began, before it waited for the lock.
Stamps == { t \in 0..now : now - LockWait <= t }

\* Variant of NextMinimumBid without the increment.
NextBidFromPrice == Larger(StartingPrice, listing.current_bid)

NextMinimumBid == Larger(StartingPrice, listing.current_bid) + MinIncrement

Init ==
    /\ listing = NewListing
    /\ bids = << >>
    /\ autoBids = [b \in Bidders |-> NoSetting]
    /\ offer = NoOffer
    /\ tx = Idle
    /\ saved = NothingSaved
    /\ now = 0

-----------------------------------------------------------------------------
(***************************************************************************)
(* The locked part of a bidding request.                                   *)
(***************************************************************************)
\* withListingLock and assertActiveBiddableListing
Biddable(b) ==
    /\ tx.phase = "idle"
    /\ listing.status = "active"
    /\ StartTime <= now
    /\ now < EndTime
    /\ b # Donor

Begin(b, op, at, phase) ==
    /\ tx' = [Idle EXCEPT !.phase = phase, !.op = op, !.bidder = b, !.at = at]
    /\ saved' = [listing |-> listing, bids |-> bids, setting |-> autoBids[b],
                 offer |-> offer]

\* Variant of RecordBid that leaves the bid count behind.
RecordBidUncounted(b, amount, auto, at) ==
    /\ bids' = Append(bids, [bidder |-> b, amount |-> amount,
                             auto |-> auto, at |-> at])
    /\ listing' = [listing EXCEPT !.current_bid = amount, !.winner_id = b]

RecordBid(b, amount, auto, at) ==
    /\ bids' = Append(bids, [bidder |-> b, amount |-> amount,
                             auto |-> auto, at |-> at])
    /\ listing' = [listing EXCEPT !.current_bid = amount,
                                  !.bid_count = @ + 1,
                                  !.winner_id = b]

PlaceBid(b, amount) ==
    /\ Biddable(b)
    /\ amount >= NextMinimumBid
    /\ \E at \in Stamps :
          /\ Begin(b, "place_bid", at, "recorded")
          /\ RecordBid(b, amount, FALSE, at)
    /\ UNCHANGED <<autoBids, offer, now>>

\* Variant of SetAutoBid in which the leader may choose any maximum.
SetAutoBidFreely(b, max, inc) ==
    /\ Biddable(b)
    /\ MinIncrement <= inc /\ inc <= max
    /\ listing.winner_id # b => max >= NextMinimumBid
    /\ \E at \in Stamps :
          /\ Begin(b, "set_auto_bid", at, "recorded")
          /\ autoBids' = [autoBids EXCEPT ![b] =
                            [max |-> max, inc |-> inc, active |-> TRUE,
                             updatedAt |-> at]]
          /\ IF listing.winner_id = b
             THEN UNCHANGED <<listing, bids>>
             ELSE RecordBid(b, Smaller(max, NextMinimumBid), TRUE, at)
    /\ UNCHANGED <<offer, now>>

SetAutoBid(b, max, inc) ==
    /\ Biddable(b)
    /\ inc >= MinIncrement
    /\ inc <= max
    /\ IF listing.winner_id = b THEN max >= listing.current_bid
                                ELSE max >= NextMinimumBid
    /\ \E at \in Stamps :
          /\ Begin(b, "set_auto_bid", at, "recorded")
          /\ autoBids' = [autoBids EXCEPT ![b] =
                            [max |-> max, inc |-> inc, active |-> TRUE,
                             updatedAt |-> at]]
          /\ IF listing.winner_id = b
             THEN UNCHANGED <<listing, bids>>
             ELSE RecordBid(b, Smaller(max, NextMinimumBid), TRUE, at)
    /\ UNCHANGED <<offer, now>>

(***************************************************************************)
(* resolveAutoBids: read the active settings once, then let one candidate  *)
(* after another answer the public price until nobody can.                 *)
(***************************************************************************)
ReadAutoBids ==
    /\ tx.phase = "recorded"
    /\ tx' = [tx EXCEPT !.phase = "resolving",
                        !.candidates = { Candidate(b, autoBids[b]) :
                            b \in { x \in Bidders : autoBids[x].active } }]
    /\ UNCHANGED <<listing, bids, autoBids, offer, saved, now>>

Respond ==
    /\ tx.phase = "resolving"
    /\ tx.rounds < ResponseLimit
    /\ \E c \in tx.candidates :
          /\ IsNextCandidate(c, listing.current_bid, listing.winner_id,
                             tx.candidates)
          /\ IsLegalResponse(c, listing.current_bid, listing.winner_id,
                             tx.candidates)
          /\ RecordBid(c.bidder,
                       TargetAmount(c, listing.current_bid,
                                    listing.winner_id, tx.candidates),
                       TRUE, tx.at)
    /\ tx' = [tx EXCEPT !.rounds = @ + 1]
    /\ UNCHANGED <<autoBids, offer, saved, now>>

Commit ==
    /\ tx.phase = "resolving"
    /\ \/ tx.rounds = ResponseLimit
       \/ Settled(listing.current_bid, listing.winner_id, tx.candidates)
    /\ tx' = Idle
    /\ saved' = NothingSaved
    /\ UNCHANGED <<listing, bids, autoBids, offer, now>>

\* Variant of Rollback in which the listing row was written outside the
\* transaction.
RollbackBidsOnly ==
    /\ tx.phase # "idle"
    /\ bids' = saved.bids
    /\ offer' = saved.offer
    /\ tx' = Idle
    /\ saved' = NothingSaved
    /\ UNCHANGED <<listing, autoBids, now>>

\* An error, a lost connection or a crash anywhere in the request: ROLLBACK.
Rollback ==
    /\ tx.phase # "idle"
    /\ listing' = saved.listing
    /\ bids' = saved.bids
    /\ offer' = saved.offer
    /\ autoBids' = IF tx.op = "set_auto_bid"
                   THEN [autoBids EXCEPT ![tx.bidder] = saved.setting]
                   ELSE autoBids
    /\ tx' = Idle
    /\ saved' = NothingSaved
    /\ UNCHANGED now

-----------------------------------------------------------------------------
\* The row of the bidder's own running setAutoBid is locked until it ends.
CancelAutoBid(b) ==
    /\ autoBids[b] # NoSetting
    /\ ~ (tx.op = "set_auto_bid" /\ tx.bidder = b)
    /\ \E at \in Stamps :
          autoBids' = [autoBids EXCEPT ![b].active = FALSE,
                                       ![b].updatedAt = at]
    /\ UNCHANGED <<listing, bids, offer, tx, saved, now>>

(***************************************************************************)
(* Closing.  getBidsForListing returns the bids highest amount first and,  *)
(* at equal amounts, earliest created_at first; rows equal in both come in *)
(* any order.  uniqueHighestBid keeps the first.                           *)
(***************************************************************************)
\* Variant of ComesFirst that sorts by time alone.
ComesFirstInTime(i, rows) == \A j \in DOMAIN rows : rows[i].at <= rows[j].at

ComesFirst(i, rows) ==
    \A j \in DOMAIN rows :
        \/ rows[i].amount > rows[j].amount
        \/ rows[i].amount = rows[j].amount /\ rows[i].at <= rows[j].at

\* Variants of CloseAuction: one trusts the listing row instead of the bids,
\* one writes a status the table does not have.
CloseFromListingRow ==
    /\ offer' = [bidder |-> listing.winner_id, amount |-> listing.current_bid]
    /\ listing' = [listing EXCEPT !.status = "sold"]
CloseAsClosed ==
    /\ listing' = [listing EXCEPT !.status = "closed"]
    /\ UNCHANGED offer

CloseAuction ==
    \/ /\ bids = << >>
       /\ listing' = [listing EXCEPT !.status = "expired",
                                     !.winner_id = NoBidder]
       /\ UNCHANGED offer
    \/ \E i \in DOMAIN bids :
          /\ ComesFirst(i, bids)
          /\ offer' = [bidder |-> bids[i].bidder, amount |-> bids[i].amount]
          /\ listing' = [listing EXCEPT !.status = "sold",
                                        !.winner_id = bids[i].bidder,
                                        !.current_bid = bids[i].amount]

\* Variants of CloseEndedActiveListing: one forgets auctions without bids, one
\* does not look for a pending offer.
CloseOnlyWithBids(force) ==
    /\ tx.phase = "idle" /\ listing.status = "active" /\ offer = NoOffer
    /\ force \/ EndTime <= now
    /\ bids # << >>
    /\ CloseAuction
    /\ UNCHANGED <<bids, autoBids, tx, saved, now>>
CloseWithoutLooking(force) ==
    /\ tx.phase = "idle" /\ listing.status = "active"
    /\ force \/ EndTime <= now
    /\ CloseAuction
    /\ UNCHANGED <<bids, autoBids, tx, saved, now>>

\* force is the administrator's force-close, which ignores end_time.  Only a
\* pending payment keeps the auction from being closed: offer is that row, and
\* here, where nobody pays and nothing expires, it stays; AuctionEdits goes on.
\* The charity is approved, as the search for overdue auctions demands.
CloseEndedActiveListing(force) ==
    /\ tx.phase = "idle"
    /\ listing.status = "active"
    /\ force \/ EndTime <= now
    /\ offer = NoOffer
    /\ CloseAuction
    /\ UNCHANGED <<bids, autoBids, tx, saved, now>>

\* A bid that arrives too late closes the auction inside its own transaction
\* and then throws, so the closing is rolled back with it.
BidOnEndedAuction(b) ==
    /\ tx.phase = "idle"
    /\ listing.status = "active"
    /\ EndTime <= now
    /\ Begin(b, "late_bid", now, "failed")
    /\ IF offer = NoOffer THEN CloseAuction ELSE UNCHANGED <<listing, offer>>
    /\ UNCHANGED <<bids, autoBids, now>>

Tick ==
    /\ now < MaxClock
    /\ now' = now + 1
    /\ UNCHANGED <<listing, bids, autoBids, offer, tx, saved>>

-----------------------------------------------------------------------------
Next ==
    \/ \E b \in Bidders :
          \/ \E amount \in Amounts : PlaceBid(b, amount)
          \/ \E max \in Amounts, inc \in Increments : SetAutoBid(b, max, inc)
          \/ CancelAutoBid(b)
          \/ BidOnEndedAuction(b)
    \/ ReadAutoBids \/ Respond \/ Commit \/ Rollback
    \/ \E force \in BOOLEAN : CloseEndedActiveListing(force)
    \/ Tick

Spec == Init /\ [][Next]_vars

(***************************************************************************)
(* The statements of one request follow each other without waiting for     *)
(* anyone, so a transaction always takes its next step.  The deadline      *)
(* worker runs every minute and queues for the row lock, which PostgreSQL  *)
(* grants in order: it gets it infinitely often.                           *)
(***************************************************************************)
Fairness ==
    /\ WF_vars(ReadAutoBids)
    /\ WF_vars(Respond)
    /\ WF_vars(Commit)
    /\ WF_vars(tx.phase = "failed" /\ Rollback)
    /\ WF_vars(Tick)
    /\ SF_vars(CloseEndedActiveListing(FALSE))

FairSpec == Spec /\ Fairness

-----------------------------------------------------------------------------
Settings   == [max : Nat, inc : Nat, active : BOOLEAN, updatedAt : Nat]
Listings   == [status : {"active", "sold", "expired", "cancelled"},
               current_bid : Nat, bid_count : Nat,
               winner_id : Bidders \cup {NoBidder}]
BidRows    == [bidder : Bidders, amount : Nat, auto : BOOLEAN, at : Nat]
Offers     == [bidder : Bidders \cup {NoBidder}, amount : Nat]
Candidates == [bidder : Bidders, max : Nat, inc : Nat, updatedAt : Nat]

\* Every row keeps the shape of its table, committed or not.
TypeOK ==
    /\ listing \in Listings
    /\ bids \in Seq(BidRows)
    /\ autoBids \in [Bidders -> Settings]
    /\ offer \in Offers
    /\ tx \in [phase : {"idle", "recorded", "resolving", "failed"},
               op : {"none", "place_bid", "set_auto_bid", "late_bid"},
               bidder : Bidders \cup {NoBidder}, at : Nat,
               candidates : SUBSET Candidates, rounds : Nat]
    /\ saved \in [listing : Listings, bids : Seq(BidRows),
                  setting : Settings, offer : Offers]
    /\ now \in Nat

(***************************************************************************)
(* The price, the bid count and the winner on an active listing are those  *)
(* of the last bid recorded: recordBid writes two tables and everything    *)
(* that follows (minimum bid, automatic responses, tracking) trusts the    *)
(* listing row alone.                                                      *)
(***************************************************************************)
RowAgreesWithBids ==
    listing.status = "active" =>
        /\ listing.bid_count = Len(bids)
        /\ IF bids = << >>
           THEN /\ listing.winner_id = NoBidder
                /\ listing.current_bid = StartingPrice
           ELSE /\ listing.winner_id = bids[Len(bids)].bidder
                /\ listing.current_bid = bids[Len(bids)].amount

(***************************************************************************)
(* Every public bid beats the one before it by the donor's minimum         *)
(* increment; the only exception is the same-price handover, which an      *)
(* automatic bid makes and which changes the leader (comment above         *)
(* resolveAutoBids).                                                       *)
(***************************************************************************)
PublicLadder ==
    \A i \in DOMAIN bids :
        LET before == IF i = 1 THEN StartingPrice ELSE bids[i-1].amount
        IN  \/ bids[i].amount >= before + MinIncrement
            \/ /\ i > 1
               /\ bids[i].amount = before
               /\ bids[i].auto
               /\ bids[i].bidder # bids[i-1].bidder

(***************************************************************************)
(* No automatic bid was ever placed above the maximum its bidder has set,  *)
(* not even above a maximum lowered since: setAutoBid lets the leader      *)
(* lower it to the current bid and no further.                             *)
(***************************************************************************)
AutoBidsWithinMax ==
    \A i \in DOMAIN bids :
        bids[i].auto => bids[i].amount <= autoBids[bids[i].bidder].max

(***************************************************************************)
(* Between requests an active auction has a stable winner: no active       *)
(* auto-bid of anybody else could still make the next legal bid.           *)
(***************************************************************************)
StableWinner ==
    tx.phase = "idle" /\ listing.status = "active" =>
        \A b \in Bidders :
            autoBids[b].active /\ b # listing.winner_id =>
                autoBids[b].max < listing.current_bid + MinIncrement

(***************************************************************************)
(* The offer made at closing is for the highest bid on record, and the     *)
(* listing row names the bidder it was made to.                            *)
(***************************************************************************)
OfferMatchesHighestBid ==
    offer # NoOffer =>
        /\ \A i \in DOMAIN bids : bids[i].amount <= offer.amount
        /\ \E i \in DOMAIN bids : /\ bids[i].amount = offer.amount
                                  /\ bids[i].bidder = offer.bidder
        /\ listing.status = "sold"
        /\ listing.winner_id = offer.bidder
        /\ listing.current_bid = offer.amount

(***************************************************************************)
(* The committed rows, transaction by transaction, are an open ascending   *)
(* auction: no commit, rollback, cancellation or closing lowers the price, *)
(* skips the increment or awards the item below the highest bid.           *)
(***************************************************************************)
English == INSTANCE EnglishAuction WITH
    Bidder     <- Bidders,
    NoOne      <- NoBidder,
    Increment  <- MinIncrement,
    Opening    <- StartingPrice,
    state      <- IF CommittedListing.status = "active" THEN "open"
                                        ELSE CommittedListing.status,
    price      <- CommittedListing.current_bid,
    leader     <- CommittedListing.winner_id,
    contenders <- { b \in Bidders :
                      \E i \in DOMAIN CommittedBids :
                        /\ CommittedBids[i].bidder = b
                        /\ CommittedBids[i].amount =
                             CommittedListing.current_bid }

ImplementsEnglishAuction == English!Spec

(***************************************************************************)
(* The payment offer goes to the bidder who led when the auction closed.   *)
(* createPaymentOffer says of winner_id that it "points to the original    *)
(* winning bidder", and canTakeTiePriority that an auto-bidder whose       *)
(* maximum is matched "keeps the tie priority at the same amount".  It     *)
(* does not hold: see "Refuted" in the README.                             *)
(***************************************************************************)
OfferGoesToLeader ==
    [][CommittedOffer' # CommittedOffer =>
          CommittedOffer'.bidder = CommittedListing.winner_id]_vars

(***************************************************************************)
(* The resolution of automatic bids terminates: a transaction that records *)
(* a bid ends, whatever settings it meets.                                 *)
(***************************************************************************)
ResolutionEnds == tx.phase = "resolving" ~> tx.phase = "idle"

(***************************************************************************)
(* An auction whose end has passed leaves the active state, even if late   *)
(* bids keep closing it inside transactions that roll back.                *)
(***************************************************************************)
EndedAuctionCloses ==
    CommittedListing.status = "active" /\ EndTime <= now
        ~> CommittedListing.status # "active"
=============================================================================
