--------------------------- MODULE AuctionProofs ---------------------------
(***************************************************************************)
(* Theorems about Auction.tla and AuctionEdits.tla, for every set of       *)
(* bidders, every price, increment, schedule and response limit.           *)
(***************************************************************************)
EXTENDS AuctionEdits, TLAPS

-----------------------------------------------------------------------------
(***************************************************************************)
(* The inductive invariant.  A rollback brings back rows of another        *)
(* moment, so what is claimed of the rows in the transaction is claimed of *)
(* the saved ones too, and the auto-bid settings are compared with the     *)
(* saved bids as the rollback would leave them.                            *)
(***************************************************************************)
RowOK(l, bs) ==
    l.status = "active" =>
        /\ l.bid_count = Len(bs)
        /\ IF bs = << >>
           THEN l.winner_id = NoBidder /\ l.current_bid = StartingPrice
           ELSE /\ l.winner_id = bs[Len(bs)].bidder
                /\ l.current_bid = bs[Len(bs)].amount

StepOK(i, bs) ==
    IF i = 1
    THEN bs[i].amount >= StartingPrice + MinIncrement
    ELSE \/ bs[i].amount >= bs[i-1].amount + MinIncrement
         \/ /\ bs[i].amount = bs[i-1].amount
            /\ bs[i].auto
            /\ bs[i].bidder # bs[i-1].bidder

LadderOK(bs)   == \A i \in 1 .. Len(bs) : StepOK(i, bs)
TopOK(l, bs)   == \A i \in 1 .. Len(bs) : bs[i].amount <= l.current_bid
WithinOK(bs, settings) ==
    \A i \in 1 .. Len(bs) :
        bs[i].auto => bs[i].amount <= settings[bs[i].bidder].max

RowsOK(l, bs, settings) ==
    /\ RowOK(l, bs)
    /\ LadderOK(bs)
    /\ TopOK(l, bs)
    /\ WithinOK(bs, settings)

SettingsAfterRollback ==
    IF tx.op = "set_auto_bid"
    THEN [autoBids EXCEPT ![tx.bidder] = saved.setting]
    ELSE autoBids

TxOK ==
    /\ tx.phase = "idle" => tx = Idle
    /\ tx.op = "set_auto_bid" => tx.bidder \in Bidders
    /\ tx.phase \in {"recorded", "resolving"} =>
          listing.status = "active" /\ bids # << >>
    /\ \A c \in tx.candidates : autoBids[c.bidder].max = c.max

SavedOK ==
    tx.phase # "idle" =>
        /\ RowsOK(saved.listing, saved.bids, SettingsAfterRollback)
        /\ saved.listing.status = "active"
        /\ saved.offer = NoOffer

OfferOK ==
    /\ listing.status # "sold" => offer = NoOffer
    /\ OfferMatchesHighestBid

IInv ==
    /\ TypeOK
    /\ RowsOK(listing, bids, autoBids)
    /\ TxOK
    /\ SavedOK
    /\ OfferOK

-----------------------------------------------------------------------------
(***************************************************************************)
(* The resolution inside a transaction is a run of the loop of             *)
(* ResolveLoop.tla: it starts at the bid the request has recorded, which   *)
(* is as many bids back as there were responses.                           *)
(***************************************************************************)
LoopStart ==
    LET i == Len(bids) - tx.rounds
    IN  [price |-> bids[i].amount, leader |-> bids[i].bidder,
         candidates |-> tx.candidates]

Loop == INSTANCE ResolveLoopProofs WITH
    Maxima   <- Amounts,
    Times    <- Nat,
    Prices   <- Nat,
    start    <- LoopStart,
    price    <- listing.current_bid,
    leader   <- listing.winner_id,
    rounds   <- tx.rounds,
    returned <- tx.phase # "resolving"

LEMMA LoopAssumptions ==
    Loop!ResolveLoopAssumption /\ Loop!MinIncrementAssumption
BY AuctionAssumption, MinIncrementAssumption
   DEF Loop!ResolveLoopAssumption, Loop!MinIncrementAssumption

\* The rules are the same inside and outside the instance.
LEMMA SameRules ==
    ASSUME NEW p, NEW l, NEW cs, NEW c
    PROVE  /\ Loop!IsNextCandidate(c, p, l, cs) <=> IsNextCandidate(c, p, l, cs)
           /\ Loop!IsLegalResponse(c, p, l, cs) <=> IsLegalResponse(c, p, l, cs)
           /\ Loop!TargetAmount(c, p, l, cs) = TargetAmount(c, p, l, cs)
           /\ Loop!Responders(p, l, cs) = Responders(p, l, cs)
<1>1. \A x, y : Loop!Outranks(x, y) <=> Outranks(x, y)
  BY DEF Outranks, Loop!Outranks
<1>2. \A x : Loop!CanTakeTiePriority(x, p, l, cs) <=> CanTakeTiePriority(x, p, l, cs)
  BY <1>1 DEF CanTakeTiePriority, Loop!CanTakeTiePriority
<1>3. Loop!Responders(p, l, cs) = Responders(p, l, cs)
  BY <1>2 DEF Responders, Loop!Responders
<1>4. Loop!TargetAmount(c, p, l, cs) = TargetAmount(c, p, l, cs)
  BY <1>2 DEF TargetAmount, Loop!TargetAmount, Smaller, Loop!Smaller
<1>5. Loop!IsNextCandidate(c, p, l, cs) <=> IsNextCandidate(c, p, l, cs)
  BY <1>1, <1>3 DEF IsNextCandidate, Loop!IsNextCandidate
<1>6. Loop!IsLegalResponse(c, p, l, cs) <=> IsLegalResponse(c, p, l, cs)
  BY <1>2, <1>4 DEF IsLegalResponse, Loop!IsLegalResponse
<1> QED
  BY <1>3, <1>4, <1>5, <1>6

\* A response never exceeds the private maximum of the candidate who makes it.
LEMMA TargetWithinMax ==
    ASSUME NEW p \in Nat, NEW l, NEW cs,
           NEW c \in [bidder : Nat, max : Nat, inc : Nat, updatedAt : Nat]
    PROVE  /\ TargetAmount(c, p, l, cs) \in Nat
           /\ TargetAmount(c, p, l, cs) <= c.max
BY LoopAssumptions, SameRules, Loop!TargetWithinMax

-----------------------------------------------------------------------------
\* Appending a bid at or above the current price keeps the rows consistent,
\* if it is a legal raise or an automatic same-price handover.
LEMMA RecordBidOK ==
    ASSUME NEW l \in Listings, NEW bs \in Seq(BidRows),
           NEW settings \in [Bidders -> Settings],
           NEW b \in Bidders, NEW amount \in Nat, NEW auto \in BOOLEAN,
           NEW at \in Nat,
           l.status = "active",
           RowsOK(l, bs, settings),
           \/ /\ amount >= l.current_bid + MinIncrement
           \/ /\ amount = l.current_bid /\ auto
              /\ bs # << >> /\ b # l.winner_id,
           auto => amount <= settings[b].max
    PROVE  LET row == [bidder |-> b, amount |-> amount, auto |-> auto,
                       at |-> at]
               new == [l EXCEPT !.current_bid = amount,
                                !.bid_count = @ + 1,
                                !.winner_id = b]
           IN  /\ Append(bs, row) \in Seq(BidRows)
               /\ new \in Listings
               /\ RowsOK(new, Append(bs, row), settings)
               /\ Append(bs, row) # << >>
<1> DEFINE row == [bidder |-> b, amount |-> amount, auto |-> auto, at |-> at]
           new == [l EXCEPT !.current_bid = amount, !.bid_count = @ + 1,
                            !.winner_id = b]
           nbs == Append(bs, row)
<1>1. row \in BidRows /\ new \in Listings
  <2>1. row \in BidRows
    BY Zenon DEF BidRows
  <2>2. l.bid_count + 1 \in Nat
    BY DEF Listings
  <2>3. new \in Listings
    BY <2>2 DEF Listings
  <2> QED
    BY <2>1, <2>3
<1>2. /\ nbs \in Seq(BidRows)
      /\ Len(nbs) = Len(bs) + 1
      /\ Len(bs) \in Nat
      /\ \A i \in 1 .. Len(bs) : nbs[i] = bs[i] /\ bs[i] \in BidRows
      /\ nbs[Len(bs) + 1] = row
      /\ nbs # << >>
  BY <1>1
<1>3. /\ new.current_bid = amount /\ new.winner_id = b
      /\ new.bid_count = l.bid_count + 1 /\ new.status = l.status
      /\ l.current_bid \in Nat /\ l.bid_count \in Nat
      /\ row.amount = amount /\ row.bidder = b /\ row.auto = auto
  BY DEF Listings
<1> HIDE DEF row, new, nbs
<1>4. RowOK(new, nbs)
  BY <1>2, <1>3 DEF RowOK, RowsOK
<1>5. l.current_bid <= amount
  BY <1>3, MinIncrementAssumption
<1>6. TopOK(new, nbs)
  <2>1. SUFFICES ASSUME NEW i \in 1 .. Len(nbs)
                 PROVE  nbs[i].amount <= amount
    BY <1>3 DEF TopOK
  <2>2. CASE i = Len(bs) + 1
    BY <2>2, <1>2, <1>3
  <2>3. CASE i \in 1 .. Len(bs)
    <3>1. bs[i].amount <= l.current_bid /\ bs[i].amount \in Nat
      BY <2>3, <1>2 DEF TopOK, RowsOK, BidRows
    <3> QED
      BY <3>1, <2>3, <1>2, <1>3, <1>5
  <2> QED
    BY <2>2, <2>3, <1>2
<1>7. WithinOK(nbs, settings)
  BY <1>2, <1>3 DEF WithinOK, RowsOK
<1>8. LadderOK(nbs)
  <2>1. SUFFICES ASSUME NEW i \in 1 .. Len(nbs)
                 PROVE  StepOK(i, nbs)
    BY DEF LadderOK
  <2>2. CASE i \in 1 .. Len(bs)
    <3>1. StepOK(i, bs)
      BY <2>2 DEF LadderOK, RowsOK
    <3>2. nbs[i] = bs[i] /\ (i # 1 => nbs[i-1] = bs[i-1])
      <4>1. i # 1 => i - 1 \in 1 .. Len(bs)
        BY <2>2, <1>2
      <4> QED
        BY <4>1, <2>2, <1>2
    <3> QED
      BY <3>1, <3>2 DEF StepOK
  <2>3. CASE i = Len(bs) + 1 /\ bs = << >>
    <3>1. l.current_bid = StartingPrice /\ Len(bs) = 0
      BY <2>3 DEF RowsOK, RowOK
    <3> QED
      BY <3>1, <2>3, <1>2, <1>3 DEF StepOK
  <2>4. CASE i = Len(bs) + 1 /\ bs # << >>
    <3>1. /\ l.current_bid = bs[Len(bs)].amount
          /\ l.winner_id = bs[Len(bs)].bidder
          /\ Len(bs) > 0
      BY <2>4 DEF RowsOK, RowOK
    <3>2. i # 1 /\ nbs[i-1] = bs[Len(bs)] /\ nbs[i] = row
      BY <3>1, <2>4, <1>2
    <3> QED
      BY <3>1, <3>2, <1>3 DEF StepOK
  <2> QED
    BY <2>2, <2>3, <2>4, <1>2
<1> QED
  BY <1>1, <1>2, <1>4, <1>6, <1>7, <1>8 DEF RowsOK, row, new, nbs

-----------------------------------------------------------------------------
\* The first state.
LEMMA InitOK == Init => IInv
<1> SUFFICES ASSUME Init PROVE IInv
  OBVIOUS
<1> USE AuctionAssumption
    DEF Init, NewListing, NothingSaved, NoSetting, NoOffer, Idle, NoBidder
<1>1. TypeOK
  <2>1. listing \in Listings /\ saved.listing \in Listings
    BY DEF Listings
  <2>2. bids \in Seq(BidRows) /\ saved.bids \in Seq(BidRows)
    OBVIOUS
  <2>3. autoBids \in [Bidders -> Settings]
    BY DEF Settings
  <2>4. offer \in Offers /\ saved.offer \in Offers
    BY DEF Offers
  <2>5. saved.setting \in Settings
    BY DEF Settings
  <2> QED
    BY <2>1, <2>2, <2>3, <2>4, <2>5 DEF TypeOK
<1>2. RowsOK(listing, bids, autoBids)
  BY DEF RowsOK, RowOK, LadderOK, TopOK, WithinOK
<1>3. TxOK /\ SavedOK
  BY DEF TxOK, SavedOK
<1>4. OfferOK
  BY DEF OfferOK, OfferMatchesHighestBid
<1> QED
  BY <1>1, <1>2, <1>3, <1>4 DEF IInv

\* An accepted manual bid.
LEMMA PlaceBidOK ==
    ASSUME IInv, NEW b \in Bidders, NEW amount \in Amounts,
           PlaceBid(b, amount)
    PROVE  IInv'
<1>1. PICK at \in Stamps :
         /\ Begin(b, "place_bid", at, "recorded")
         /\ RecordBid(b, amount, FALSE, at)
  BY DEF PlaceBid
<1>2. /\ listing \in Listings /\ bids \in Seq(BidRows)
      /\ autoBids \in [Bidders -> Settings] /\ offer \in Offers
      /\ now \in Nat /\ at \in Nat /\ amount \in Nat
      /\ RowsOK(listing, bids, autoBids)
  BY AuctionAssumption DEF IInv, TypeOK, Stamps
<1>3. /\ listing.status = "active" /\ offer = NoOffer
      /\ amount >= listing.current_bid + MinIncrement
      /\ UNCHANGED <<autoBids, offer, now>>
  BY <1>2, AuctionAssumption, MinIncrementAssumption
     DEF PlaceBid, Biddable, NextMinimumBid, Larger, IInv, OfferOK, Listings
<1>4. /\ bids' \in Seq(BidRows) /\ listing' \in Listings
      /\ RowsOK(listing', bids', autoBids) /\ bids' # << >>
  BY <1>1, <1>2, <1>3, RecordBidOK DEF RecordBid
<1>5. /\ tx' = [phase |-> "recorded", op |-> "place_bid", bidder |-> b,
                at |-> at, candidates |-> {}, rounds |-> 0]
      /\ saved' = [listing |-> listing, bids |-> bids,
                   setting |-> autoBids[b], offer |-> offer]
  BY <1>1 DEF Begin, Idle
<1>6. listing'.status = "active"
  BY <1>1, <1>2, <1>3 DEF RecordBid, Listings
<1>7. TypeOK'
  BY <1>2, <1>3, <1>4, <1>5 DEF TypeOK
<1>8. TxOK'
  BY <1>4, <1>5, <1>6 DEF TxOK
<1>9. SavedOK'
  BY <1>2, <1>3, <1>5 DEF SavedOK, SettingsAfterRollback
<1>10. OfferOK'
  BY <1>3, <1>6 DEF OfferOK, OfferMatchesHighestBid
<1> QED
  BY <1>3, <1>4, <1>7, <1>8, <1>9, <1>10 DEF IInv

\* A saved auto-bid setting, with the opening bid it makes for a bidder who is
\* not winning.
LEMMA SetAutoBidOK ==
    ASSUME IInv, NEW b \in Bidders, NEW max \in Amounts,
           NEW inc \in Increments, SetAutoBid(b, max, inc)
    PROVE  IInv'
<1> DEFINE Setting(at) == [max |-> max, inc |-> inc, active |-> TRUE,
                           updatedAt |-> at]
<1>1. PICK at \in Stamps :
         /\ Begin(b, "set_auto_bid", at, "recorded")
         /\ autoBids' = [autoBids EXCEPT ![b] = Setting(at)]
         /\ IF listing.winner_id = b
            THEN UNCHANGED <<listing, bids>>
            ELSE RecordBid(b, Smaller(max, NextMinimumBid), TRUE, at)
  BY DEF SetAutoBid
<1>2. /\ listing \in Listings /\ bids \in Seq(BidRows)
      /\ autoBids \in [Bidders -> Settings] /\ offer \in Offers
      /\ now \in Nat /\ at \in Nat /\ max \in Nat /\ inc \in Nat
      /\ RowsOK(listing, bids, autoBids)
  BY AuctionAssumption DEF IInv, TypeOK, Stamps
<1>3. /\ listing.status = "active" /\ offer = NoOffer
      /\ UNCHANGED <<offer, now>>
      /\ IF listing.winner_id = b THEN max >= listing.current_bid
                                  ELSE max >= NextMinimumBid
  BY DEF SetAutoBid, Biddable, IInv, OfferOK
<1>4. /\ NextMinimumBid \in Nat
      /\ NextMinimumBid >= listing.current_bid + MinIncrement
      /\ listing.current_bid \in Nat
  BY <1>2, AuctionAssumption, MinIncrementAssumption
     DEF NextMinimumBid, Larger, Listings
<1>5. max >= listing.current_bid
  BY <1>2, <1>3, <1>4, MinIncrementAssumption
<1>6. autoBids' \in [Bidders -> Settings]
  <2>1. Setting(at) \in Settings
    BY <1>2 DEF Settings
  <2> QED
    BY <1>1, <1>2, <2>1
<1>7. /\ autoBids'[b].max = max
      /\ \A x \in Bidders : x # b => autoBids'[x] = autoBids[x]
  BY <1>1, <1>2
<1>8. RowsOK(listing, bids, autoBids')
  <2>1. SUFFICES ASSUME NEW i \in 1 .. Len(bids), bids[i].auto
                 PROVE  bids[i].amount <= autoBids'[bids[i].bidder].max
    BY <1>2 DEF RowsOK, WithinOK
  <2>2. bids[i] \in BidRows
    BY <1>2
  <2>3. bids[i].bidder \in Bidders /\ bids[i].amount \in Nat
    BY <2>2 DEF BidRows
  <2>4. bids[i].amount <= listing.current_bid
    BY <1>2 DEF RowsOK, TopOK
  <2>5. CASE bids[i].bidder = b
    BY <2>3, <2>4, <2>5, <1>2, <1>4, <1>5, <1>7
  <2>6. CASE bids[i].bidder # b
    BY <2>1, <2>3, <2>6, <1>2, <1>7 DEF RowsOK, WithinOK
  <2> QED
    BY <2>5, <2>6
<1>9. /\ bids' \in Seq(BidRows) /\ listing' \in Listings
      /\ RowsOK(listing', bids', autoBids') /\ bids' # << >>
      /\ listing'.status = "active"
  <2>1. CASE listing.winner_id = b
    <3>1. b # NoBidder
      BY AuctionAssumption
    <3>2. bids # << >>
      BY <1>2, <1>3, <2>1, <3>1 DEF RowsOK, RowOK
    <3> QED
      BY <1>1, <1>2, <1>3, <1>8, <2>1, <3>2
  <2>2. CASE listing.winner_id # b
    <3>1. RecordBid(b, NextMinimumBid, TRUE, at)
      <4>1. Smaller(max, NextMinimumBid) = NextMinimumBid
        BY <1>2, <1>3, <1>4, <2>2 DEF Smaller
      <4> QED
        BY <1>1, <2>2, <4>1 DEF RecordBid
    <3>2. NextMinimumBid <= autoBids'[b].max
      BY <1>2, <1>3, <1>4, <1>7, <2>2
    <3>3. /\ bids' \in Seq(BidRows) /\ listing' \in Listings
          /\ RowsOK(listing', bids', autoBids') /\ bids' # << >>
      BY <1>2, <1>3, <1>4, <1>6, <1>8, <3>1, <3>2, RecordBidOK
         DEF RecordBid
    <3>4. listing'.status = "active"
      BY <3>1, <1>2, <1>3 DEF RecordBid, Listings
    <3> QED
      BY <3>3, <3>4
  <2> QED
    BY <2>1, <2>2
<1>10. /\ tx' = [phase |-> "recorded", op |-> "set_auto_bid", bidder |-> b,
                 at |-> at, candidates |-> {}, rounds |-> 0]
       /\ saved' = [listing |-> listing, bids |-> bids,
                    setting |-> autoBids[b], offer |-> offer]
  BY <1>1 DEF Begin, Idle
<1>11. TypeOK'
  BY <1>2, <1>3, <1>6, <1>9, <1>10 DEF TypeOK
<1>12. TxOK'
  BY <1>9, <1>10 DEF TxOK
<1>13. SavedOK'
  <2>1. SettingsAfterRollback' = autoBids
    BY <1>1, <1>2, <1>10 DEF SettingsAfterRollback
  <2> QED
    BY <2>1, <1>2, <1>3, <1>10 DEF SavedOK
<1>14. OfferOK'
  BY <1>3, <1>9 DEF OfferOK, OfferMatchesHighestBid
<1> QED
  BY <1>9, <1>11, <1>12, <1>13, <1>14 DEF IInv

\* Reading the active settings: the candidates carry the private maximums.
LEMMA ReadAutoBidsOK == IInv /\ ReadAutoBids => IInv'
<1> SUFFICES ASSUME IInv, ReadAutoBids PROVE IInv'
  OBVIOUS
<1> DEFINE active == { x \in Bidders : autoBids[x].active }
           read == { Candidate(b, autoBids[b]) : b \in active }
<1>1. /\ tx.phase = "recorded"
      /\ tx' = [tx EXCEPT !.phase = "resolving", !.candidates = read]
      /\ UNCHANGED <<listing, bids, autoBids, offer, saved, now>>
  BY DEF ReadAutoBids
<1>2. \A c \in read : c \in Candidates /\ autoBids[c.bidder].max = c.max
  <2>1. SUFFICES ASSUME NEW c \in read
                 PROVE  c \in Candidates /\ autoBids[c.bidder].max = c.max
    OBVIOUS
  <2>2. PICK b \in Bidders : c = Candidate(b, autoBids[b])
    OBVIOUS
  <2>3. autoBids[b] \in Settings
    BY DEF IInv, TypeOK
  <2>4. Larger(autoBids[b].inc, MinIncrement) \in Nat
    BY <2>3, MinIncrementAssumption DEF Settings, Larger
  <2> QED
    BY <2>2, <2>3, <2>4 DEF Settings, Candidates, Candidate
<1> HIDE DEF read
<1>3. /\ tx'.phase = "resolving" /\ tx'.op = tx.op /\ tx'.bidder = tx.bidder
      /\ tx'.candidates = read
  BY <1>1 DEF IInv, TypeOK
<1>4. TypeOK'
  BY <1>1, <1>2 DEF IInv, TypeOK
<1>5. TxOK'
  BY <1>1, <1>2, <1>3 DEF IInv, TxOK
<1>6. SavedOK'
  BY <1>1, <1>3 DEF IInv, SavedOK, SettingsAfterRollback
<1>7. OfferOK' /\ RowsOK(listing, bids, autoBids)'
  BY <1>1 DEF IInv, OfferOK, OfferMatchesHighestBid, RowsOK, RowOK, LadderOK,
              StepOK, TopOK, WithinOK
<1> QED
  BY <1>4, <1>5, <1>6, <1>7 DEF IInv

\* One automatic response.
LEMMA RespondOK == IInv /\ Respond => IInv'
<1> SUFFICES ASSUME IInv, Respond PROVE IInv'
  OBVIOUS
<1> DEFINE price == listing.current_bid
           leader == listing.winner_id
<1>1. PICK c \in tx.candidates :
         /\ IsNextCandidate(c, price, leader, tx.candidates)
         /\ IsLegalResponse(c, price, leader, tx.candidates)
         /\ RecordBid(c.bidder, TargetAmount(c, price, leader, tx.candidates),
                      TRUE, tx.at)
  BY DEF Respond
<1> DEFINE target == TargetAmount(c, price, leader, tx.candidates)
<1>2. /\ listing \in Listings /\ bids \in Seq(BidRows)
      /\ autoBids \in [Bidders -> Settings] /\ tx.at \in Nat
      /\ RowsOK(listing, bids, autoBids)
      /\ c \in Candidates /\ c.bidder \in Bidders
  BY DEF IInv, TypeOK, Candidates
<1>3. /\ tx.phase = "resolving"
      /\ listing.status = "active" /\ bids # << >>
      /\ autoBids[c.bidder].max = c.max
      /\ tx' = [tx EXCEPT !.rounds = @ + 1]
      /\ UNCHANGED <<autoBids, offer, saved, now>>
  BY DEF IInv, TxOK, Respond
<1>4. price \in Nat
  BY <1>2 DEF Listings
<1>5. c \in [bidder : Nat, max : Nat, inc : Nat, updatedAt : Nat]
  BY <1>2, AuctionAssumption DEF Candidates
<1>6. target \in Nat /\ target <= c.max
  BY <1>4, <1>5, TargetWithinMax
<1>7. \/ target >= price + MinIncrement
      \/ target = price /\ c.bidder # leader
  BY <1>1 DEF IsLegalResponse, IsNextCandidate, Responders, TargetAmount
<1>8. /\ bids' \in Seq(BidRows) /\ listing' \in Listings
      /\ RowsOK(listing', bids', autoBids) /\ bids' # << >>
  <2> HIDE DEF target
  <2> QED
    BY <1>1, <1>2, <1>3, <1>4, <1>6, <1>7, RecordBidOK DEF RecordBid, target
<1>9. listing'.status = "active"
  BY <1>1, <1>2, <1>3 DEF RecordBid, Listings
<1>10. /\ tx'.phase = "resolving" /\ tx'.op = tx.op /\ tx'.bidder = tx.bidder
       /\ tx'.candidates = tx.candidates /\ tx'.at = tx.at
  BY <1>3 DEF IInv, TypeOK
<1>11. TypeOK'
  <2>1. tx.rounds + 1 \in Nat
    BY DEF IInv, TypeOK
  <2> QED
    BY <1>3, <1>8, <2>1 DEF IInv, TypeOK
<1>12. TxOK'
  BY <1>3, <1>8, <1>9, <1>10 DEF IInv, TxOK
<1>13. SavedOK'
  BY <1>3, <1>10 DEF IInv, SavedOK, SettingsAfterRollback
<1>14. OfferOK'
  BY <1>3, <1>9 DEF IInv, OfferOK, OfferMatchesHighestBid
<1> QED
  BY <1>3, <1>8, <1>11, <1>12, <1>13, <1>14 DEF IInv

\* The end of a transaction, by COMMIT or by ROLLBACK.
LEMMA CommitOK == IInv /\ Commit => IInv'
<1> SUFFICES ASSUME IInv, Commit PROVE IInv'
  OBVIOUS
<1>1. /\ tx' = Idle /\ saved' = NothingSaved
      /\ UNCHANGED <<listing, bids, autoBids, offer, now>>
  BY DEF Commit
<1>2. NothingSaved \in [listing : Listings, bids : Seq(BidRows),
                        setting : Settings, offer : Offers]
  BY AuctionAssumption
     DEF NothingSaved, NewListing, NoSetting, NoOffer, Listings, Settings,
         Offers
<1>3. TypeOK'
  BY <1>1, <1>2 DEF IInv, TypeOK, Idle
<1>4. TxOK' /\ SavedOK'
  BY <1>1 DEF TxOK, SavedOK, Idle
<1>5. OfferOK' /\ RowsOK(listing, bids, autoBids)'
  BY <1>1 DEF IInv, OfferOK, OfferMatchesHighestBid, RowsOK, RowOK, LadderOK,
              StepOK, TopOK, WithinOK
<1> QED
  BY <1>3, <1>4, <1>5 DEF IInv

LEMMA RollbackOK == IInv /\ Rollback => IInv'
<1> SUFFICES ASSUME IInv, Rollback PROVE IInv'
  OBVIOUS
<1>1. /\ tx.phase # "idle" /\ tx' = Idle /\ saved' = NothingSaved
      /\ listing' = saved.listing /\ bids' = saved.bids
      /\ offer' = saved.offer /\ autoBids' = SettingsAfterRollback
      /\ now' = now
  BY DEF Rollback, SettingsAfterRollback
<1>2. NothingSaved \in [listing : Listings, bids : Seq(BidRows),
                        setting : Settings, offer : Offers]
  BY AuctionAssumption
     DEF NothingSaved, NewListing, NoSetting, NoOffer, Listings, Settings,
         Offers
<1>3. SettingsAfterRollback \in [Bidders -> Settings]
  BY DEF SettingsAfterRollback, IInv, TypeOK
<1>4. TypeOK'
  BY <1>1, <1>2, <1>3 DEF IInv, TypeOK, Idle
<1>5. TxOK' /\ SavedOK'
  BY <1>1 DEF TxOK, SavedOK, Idle
<1>6. RowsOK(listing', bids', autoBids')
  BY <1>1 DEF IInv, SavedOK
<1>7. OfferOK'
  BY <1>1 DEF IInv, SavedOK, OfferOK, OfferMatchesHighestBid
<1> QED
  BY <1>4, <1>5, <1>6, <1>7 DEF IInv

\* A cancellation, which may come in the middle of somebody else's transaction:
\* the private maximum stays in the row.
LEMMA CancelAutoBidOK ==
    ASSUME IInv, NEW b \in Bidders, CancelAutoBid(b)
    PROVE  IInv'
<1>1. PICK at \in Stamps :
         autoBids' = [autoBids EXCEPT ![b].active = FALSE, ![b].updatedAt = at]
  BY DEF CancelAutoBid
<1>2. /\ UNCHANGED <<listing, bids, offer, tx, saved, now>>
      /\ ~ (tx.op = "set_auto_bid" /\ tx.bidder = b)
      /\ autoBids \in [Bidders -> Settings] /\ at \in Nat
  BY DEF CancelAutoBid, IInv, TypeOK, Stamps
<1>3. /\ autoBids' \in [Bidders -> Settings]
      /\ \A x \in Bidders : autoBids'[x].max = autoBids[x].max
  <2>1. \A x \in Bidders : autoBids[x] \in Settings
    BY <1>2
  <2> QED
    BY <1>1, <1>2, <2>1 DEF Settings
<1>4. TypeOK'
  BY <1>2, <1>3 DEF IInv, TypeOK
<1>5. ASSUME NEW bs \in Seq(BidRows), NEW settings, NEW new,
             settings \in [Bidders -> Settings], new \in [Bidders -> Settings],
             \A x \in Bidders : new[x].max = settings[x].max,
             WithinOK(bs, settings)
      PROVE  WithinOK(bs, new)
  <2>1. \A i \in 1 .. Len(bs) : bs[i] \in BidRows
    OBVIOUS
  <2> QED
    BY <1>5, <2>1 DEF WithinOK, BidRows
<1>6. RowsOK(listing, bids, autoBids)'
  <2>1. WithinOK(bids, autoBids')
    BY <1>2, <1>3, <1>5 DEF IInv, TypeOK, RowsOK
  <2> QED
    BY <1>2, <2>1 DEF IInv, RowsOK, RowOK, LadderOK, StepOK, TopOK
<1>7. TxOK'
  <2>1. \A c \in tx.candidates : c.bidder \in Bidders
    BY DEF IInv, TypeOK, Candidates
  <2> QED
    BY <1>2, <1>3, <2>1 DEF IInv, TxOK
<1>8. SavedOK'
  <2>1. SUFFICES ASSUME tx.phase # "idle"
                 PROVE  RowsOK(saved.listing, saved.bids, SettingsAfterRollback')
    BY <1>2 DEF IInv, SavedOK
  <2>2. /\ SettingsAfterRollback \in [Bidders -> Settings]
        /\ SettingsAfterRollback' \in [Bidders -> Settings]
    BY <1>2, <1>3 DEF SettingsAfterRollback, IInv, TypeOK
  <2>3. \A x \in Bidders :
           SettingsAfterRollback'[x].max = SettingsAfterRollback[x].max
    <3>1. CASE tx.op = "set_auto_bid"
      BY <3>1, <1>2, <1>3 DEF SettingsAfterRollback, IInv, TypeOK
    <3>2. CASE tx.op # "set_auto_bid"
      BY <3>2, <1>2, <1>3 DEF SettingsAfterRollback
    <3> QED
      BY <3>1, <3>2
  <2>4. saved.bids \in Seq(BidRows)
    BY DEF IInv, TypeOK
  <2>5. RowsOK(saved.listing, saved.bids, SettingsAfterRollback)
    BY <2>1 DEF IInv, SavedOK
  <2>6. WithinOK(saved.bids, SettingsAfterRollback')
    BY <1>5, <2>2, <2>3, <2>4, <2>5 DEF RowsOK
  <2> QED
    BY <2>5, <2>6 DEF RowsOK
<1>9. OfferOK'
  BY <1>2 DEF IInv, OfferOK, OfferMatchesHighestBid
<1> QED
  BY <1>4, <1>6, <1>7, <1>8, <1>9 DEF IInv

\* Closing an active auction, in a transaction of its own or in a late bid's.
LEMMA CloseAuctionOK ==
    ASSUME IInv, listing.status = "active", CloseAuction,
           UNCHANGED <<bids, autoBids>>
    PROVE  /\ listing' \in Listings /\ offer' \in Offers
           /\ RowsOK(listing', bids', autoBids')
           /\ OfferOK'
<1>1. /\ listing \in Listings /\ bids \in Seq(BidRows) /\ offer = NoOffer
      /\ RowsOK(listing, bids, autoBids)
  BY DEF IInv, TypeOK, OfferOK
<1>2. CASE /\ bids = << >>
           /\ listing' = [listing EXCEPT !.status = "expired",
                                         !.winner_id = NoBidder]
           /\ UNCHANGED offer
  <2>1. listing' \in Listings /\ listing'.status = "expired"
    BY <1>1, <1>2 DEF Listings
  <2>2. RowsOK(listing', bids', autoBids')
    BY <1>2, <2>1 DEF RowsOK, RowOK, LadderOK, TopOK, WithinOK
  <2> QED
    BY <1>1, <1>2, <2>1, <2>2
       DEF OfferOK, OfferMatchesHighestBid, IInv, TypeOK
<1>3. CASE \E i \in DOMAIN bids :
             /\ ComesFirst(i, bids)
             /\ offer' = [bidder |-> bids[i].bidder, amount |-> bids[i].amount]
             /\ listing' = [listing EXCEPT !.status = "sold",
                                           !.winner_id = bids[i].bidder,
                                           !.current_bid = bids[i].amount]
  <2>1. PICK i \in DOMAIN bids :
             /\ ComesFirst(i, bids)
             /\ offer' = [bidder |-> bids[i].bidder, amount |-> bids[i].amount]
             /\ listing' = [listing EXCEPT !.status = "sold",
                                           !.winner_id = bids[i].bidder,
                                           !.current_bid = bids[i].amount]
    BY <1>3
  <2>2. /\ bids[i] \in BidRows
        /\ bids[i].bidder \in Bidders /\ bids[i].amount \in Nat
        /\ \A j \in DOMAIN bids : bids[j].amount \in Nat
    <3>1. \A j \in DOMAIN bids : bids[j] \in BidRows
      BY <1>1
    <3> QED
      BY <3>1 DEF BidRows
  <2>3. /\ listing' \in Listings /\ listing'.status = "sold"
        /\ listing'.winner_id = bids[i].bidder
        /\ listing'.current_bid = bids[i].amount
    BY <1>1, <2>1, <2>2 DEF Listings
  <2>4. /\ offer' \in Offers /\ offer'.bidder = bids[i].bidder
        /\ offer'.amount = bids[i].amount
    BY <2>1, <2>2 DEF Offers
  <2>5. \A j \in DOMAIN bids : bids[j].amount <= bids[i].amount
    BY <2>1, <2>2 DEF ComesFirst
  <2>6. RowsOK(listing', bids', autoBids')
    <3>1. TopOK(listing', bids)
      BY <2>3, <2>5, <1>1 DEF TopOK
    <3> QED
      BY <3>1, <2>3, <1>1 DEF RowsOK, RowOK, LadderOK, StepOK, TopOK, WithinOK
  <2> QED
    BY <2>3, <2>4, <2>5, <2>6 DEF OfferOK, OfferMatchesHighestBid
<1> QED
  BY <1>2, <1>3 DEF CloseAuction

LEMMA CloseEndedActiveListingOK ==
    ASSUME IInv, NEW force \in BOOLEAN, CloseEndedActiveListing(force)
    PROVE  IInv'
<1>1. /\ tx.phase = "idle" /\ listing.status = "active" /\ CloseAuction
      /\ UNCHANGED <<bids, autoBids, tx, saved, now>>
  BY DEF CloseEndedActiveListing
<1>2. /\ listing' \in Listings /\ offer' \in Offers
      /\ RowsOK(listing', bids', autoBids') /\ OfferOK'
  BY <1>1, CloseAuctionOK
<1>3. TypeOK'
  BY <1>1, <1>2 DEF IInv, TypeOK
<1>4. TxOK' /\ SavedOK'
  <2>1. tx = Idle
    BY <1>1 DEF IInv, TxOK
  <2> QED
    BY <1>1, <2>1 DEF TxOK, SavedOK, Idle
<1> QED
  BY <1>2, <1>3, <1>4 DEF IInv

LEMMA BidOnEndedAuctionOK ==
    ASSUME IInv, NEW b \in Bidders, BidOnEndedAuction(b)
    PROVE  IInv'
<1>1. /\ listing.status = "active" /\ CloseAuction /\ offer = NoOffer
      /\ UNCHANGED <<bids, autoBids, now>>
      /\ Begin(b, "late_bid", now, "failed")
  BY DEF BidOnEndedAuction, IInv, OfferOK
<1>2. /\ listing' \in Listings /\ offer' \in Offers
      /\ RowsOK(listing', bids', autoBids') /\ OfferOK'
  BY <1>1, CloseAuctionOK
<1>3. /\ tx' = [phase |-> "failed", op |-> "late_bid", bidder |-> b,
                at |-> now, candidates |-> {}, rounds |-> 0]
      /\ saved' = [listing |-> listing, bids |-> bids,
                   setting |-> autoBids[b], offer |-> offer]
  BY <1>1 DEF Begin, Idle
<1>4. TypeOK'
  BY <1>1, <1>2, <1>3 DEF IInv, TypeOK
<1>5. TxOK'
  BY <1>3 DEF TxOK
<1>6. SavedOK'
  BY <1>1, <1>3 DEF IInv, SavedOK, SettingsAfterRollback
<1> QED
  BY <1>2, <1>4, <1>5, <1>6 DEF IInv

\* The passing of time, and steps of the rest of the system.
LEMMA TickOK == IInv /\ (Tick \/ UNCHANGED vars) => IInv'
<1> SUFFICES ASSUME IInv, Tick \/ UNCHANGED vars PROVE IInv'
  OBVIOUS
<1>1. /\ UNCHANGED <<listing, bids, autoBids, offer, tx, saved>>
      /\ now' \in Nat
  BY DEF Tick, vars, IInv, TypeOK
<1> QED
  BY <1>1 DEF IInv, TypeOK, RowsOK, RowOK, LadderOK, StepOK, TopOK, WithinOK,
              TxOK, SavedOK, SettingsAfterRollback, OfferOK,
              OfferMatchesHighestBid

-----------------------------------------------------------------------------
\* The invariant holds in every reachable state.
THEOREM Invariance == Spec => []IInv
<1>1. IInv /\ [Next]_vars => IInv'
  <2> SUFFICES ASSUME IInv, [Next]_vars PROVE IInv'
    OBVIOUS
  <2>1. CASE \E b \in Bidders : \E amount \in Amounts : PlaceBid(b, amount)
    BY <2>1, PlaceBidOK
  <2>2. CASE \E b \in Bidders : \E max \in Amounts, inc \in Increments :
               SetAutoBid(b, max, inc)
    BY <2>2, SetAutoBidOK
  <2>3. CASE \E b \in Bidders : CancelAutoBid(b)
    BY <2>3, CancelAutoBidOK
  <2>4. CASE \E b \in Bidders : BidOnEndedAuction(b)
    BY <2>4, BidOnEndedAuctionOK
  <2>5. CASE ReadAutoBids \/ Respond \/ Commit \/ Rollback
    BY <2>5, ReadAutoBidsOK, RespondOK, CommitOK, RollbackOK
  <2>6. CASE \E force \in BOOLEAN : CloseEndedActiveListing(force)
    BY <2>6, CloseEndedActiveListingOK
  <2>7. CASE Tick \/ UNCHANGED vars
    BY <2>7, TickOK
  <2> QED
    BY <2>1, <2>2, <2>3, <2>4, <2>5, <2>6, <2>7 DEF Next
<1> QED
  BY <1>1, InitOK, PTL DEF Spec

\* Every row keeps the shape of its table.
THEOREM TypeCorrectness == Spec => []TypeOK
BY Invariance, PTL DEF IInv

(***************************************************************************)
(* The listing row and the bids agree while the auction is active: what    *)
(* recordBid writes in two tables is never seen torn, neither after a      *)
(* rollback nor in the middle of a resolution.                             *)
(***************************************************************************)
THEOREM RowAlwaysAgreesWithBids == Spec => []RowAgreesWithBids
<1>1. IInv => RowAgreesWithBids
  BY DEF IInv, RowsOK, RowOK, RowAgreesWithBids
<1> QED
  BY <1>1, Invariance, PTL

(***************************************************************************)
(* Every bid on record beats the one before it by the donor's increment or *)
(* is an automatic same-price handover to somebody else.                   *)
(***************************************************************************)
THEOREM BidsFormALadder == Spec => []PublicLadder
<1>1. IInv => PublicLadder
  <2> SUFFICES ASSUME IInv, NEW i \in DOMAIN bids
               PROVE  LET before == IF i = 1 THEN StartingPrice
                                             ELSE bids[i-1].amount
                      IN  \/ bids[i].amount >= before + MinIncrement
                          \/ /\ i > 1
                             /\ bids[i].amount = before
                             /\ bids[i].auto
                             /\ bids[i].bidder # bids[i-1].bidder
    BY DEF PublicLadder
  <2>1. bids \in Seq(BidRows) /\ LadderOK(bids)
    BY DEF IInv, TypeOK, RowsOK
  <2>2. i \in 1 .. Len(bids) /\ StepOK(i, bids)
    BY <2>1 DEF LadderOK
  <2> QED
    BY <2>2 DEF StepOK
<1> QED
  BY <1>1, Invariance, PTL

(***************************************************************************)
(* No automatic bid exceeds the maximum its bidder keeps in the auto_bids  *)
(* row, whatever settings, cancellations and rollbacks came in between.    *)
(***************************************************************************)
THEOREM AutoBidsStayWithinMax == Spec => []AutoBidsWithinMax
<1>1. IInv => AutoBidsWithinMax
  BY DEF IInv, TypeOK, RowsOK, WithinOK, AutoBidsWithinMax
<1> QED
  BY <1>1, Invariance, PTL

(***************************************************************************)
(* The payment offer is for the highest bid on record, made to a bidder    *)
(* who placed it, and the listing row says the same.                       *)
(***************************************************************************)
THEOREM OfferIsForHighestBid == Spec => []OfferMatchesHighestBid
BY Invariance, PTL DEF IInv, OfferOK

-----------------------------------------------------------------------------
(***************************************************************************)
(* The committed rows are an open ascending auction.  A transaction is one *)
(* step of it, so what a running transaction has done since its snapshot   *)
(* must add up to a raise or to a handover.                                *)
(***************************************************************************)
Progress ==
    tx.phase \in {"recorded", "resolving"} =>
        \/ listing.current_bid >= saved.listing.current_bid + MinIncrement
        \/ /\ listing.current_bid = saved.listing.current_bid
           /\ saved.listing.winner_id # NoBidder
           /\ Len(saved.bids) <= Len(bids)
           /\ \A i \in 1 .. Len(saved.bids) : bids[i] = saved.bids[i]

LEMMA ProgressInductive ==
    ASSUME IInv, IInv', Progress, [Next]_vars
    PROVE  Progress'
<1>1. CASE \E b \in Bidders, amount \in Amounts : PlaceBid(b, amount)
  <2>1. PICK b \in Bidders, amount \in Amounts : PlaceBid(b, amount)
    BY <1>1
  <2>2. /\ saved'.listing = listing /\ listing \in Listings
        /\ listing'.current_bid = amount
        /\ amount \in Nat
    BY <2>1, AuctionAssumption
       DEF PlaceBid, Begin, RecordBid, IInv, TypeOK, Listings
  <2>3. amount >= listing.current_bid + MinIncrement
    BY <2>1, <2>2, AuctionAssumption, MinIncrementAssumption
       DEF PlaceBid, NextMinimumBid, Larger, Listings
  <2> QED
    BY <2>2, <2>3 DEF Progress
<1>2. CASE \E b \in Bidders : \E max \in Amounts, inc \in Increments :
             SetAutoBid(b, max, inc)
  <2>1. PICK b \in Bidders, max \in Amounts, inc \in Increments :
          SetAutoBid(b, max, inc)
    BY <1>2
  <2>2. /\ saved'.listing = listing /\ saved'.bids = bids
        /\ listing \in Listings /\ bids \in Seq(BidRows)
        /\ listing.status = "active"
        /\ b # NoBidder /\ max \in Nat
    BY <2>1, AuctionAssumption
       DEF SetAutoBid, Biddable, Begin, IInv, TypeOK
  <2>3. CASE listing.winner_id = b
    <3>1. listing' = listing /\ bids' = bids
      BY <2>1, <2>3 DEF SetAutoBid
    <3> QED
      BY <2>2, <2>3, <3>1 DEF Progress
  <2>4. CASE listing.winner_id # b
    <3>1. /\ NextMinimumBid \in Nat
          /\ NextMinimumBid >= listing.current_bid + MinIncrement
          /\ max >= NextMinimumBid
      BY <2>1, <2>2, <2>4, AuctionAssumption, MinIncrementAssumption
         DEF SetAutoBid, NextMinimumBid, Larger, Listings
    <3>2. Smaller(max, NextMinimumBid) = NextMinimumBid
      BY <2>2, <3>1 DEF Smaller
    <3>3. listing'.current_bid = NextMinimumBid
      BY <2>1, <2>2, <2>4, <3>2 DEF SetAutoBid, RecordBid, Listings
    <3> QED
      BY <2>2, <3>1, <3>3 DEF Progress
  <2> QED
    BY <2>3, <2>4
<1>3. CASE Respond
  <2> DEFINE price == listing.current_bid
             leader == listing.winner_id
  <2>1. PICK c \in tx.candidates :
           /\ IsNextCandidate(c, price, leader, tx.candidates)
           /\ IsLegalResponse(c, price, leader, tx.candidates)
           /\ RecordBid(c.bidder, TargetAmount(c, price, leader, tx.candidates),
                        TRUE, tx.at)
    BY <1>3 DEF Respond
  <2> DEFINE target == TargetAmount(c, price, leader, tx.candidates)
  <2>2. /\ tx.phase = "resolving" /\ saved' = saved
        /\ bids \in Seq(BidRows) /\ listing \in Listings
        /\ saved.listing \in Listings /\ saved.bids \in Seq(BidRows)
        /\ c \in [bidder : Nat, max : Nat, inc : Nat, updatedAt : Nat]
    BY <1>3, AuctionAssumption DEF Respond, IInv, TypeOK, Candidates
  <2>3. price \in Nat /\ saved.listing.current_bid \in Nat
    BY <2>2 DEF Listings
  <2>4. target \in Nat /\ target >= price
        /\ (target = price \/ target >= price + MinIncrement)
    BY <2>1, <2>2, <2>3, TargetWithinMax
       DEF IsLegalResponse, TargetAmount
  <2>5. listing'.current_bid = target
    BY <2>1, <2>2 DEF RecordBid, Listings
  <2>6. /\ Len(bids') = Len(bids) + 1 /\ Len(bids) \in Nat
        /\ \A i \in 1 .. Len(bids) : bids'[i] = bids[i]
    BY <2>1, <2>2 DEF RecordBid
  <2> HIDE DEF target
  <2>7. CASE listing.current_bid >= saved.listing.current_bid + MinIncrement
    BY <2>2, <2>3, <2>4, <2>5, <2>7, MinIncrementAssumption DEF Progress
  <2>8. CASE /\ listing.current_bid = saved.listing.current_bid
             /\ saved.listing.winner_id # NoBidder
             /\ Len(saved.bids) <= Len(bids)
             /\ \A i \in 1 .. Len(saved.bids) : bids[i] = saved.bids[i]
    <3>1. Len(saved.bids) \in Nat
      BY <2>2
    <3>2. /\ Len(saved.bids) <= Len(bids')
          /\ \A i \in 1 .. Len(saved.bids) : bids'[i] = saved.bids[i]
      BY <2>6, <2>8, <3>1
    <3> QED
      BY <2>2, <2>3, <2>4, <2>5, <2>8, <3>2 DEF Progress
  <2> QED
    BY <2>2, <2>7, <2>8 DEF Progress
<1>4. CASE ReadAutoBids
  BY <1>4 DEF ReadAutoBids, Progress
<1>5. CASE Commit \/ Rollback
  BY <1>5 DEF Commit, Rollback, Idle, Progress
<1>6. CASE \E b \in Bidders : CancelAutoBid(b)
  BY <1>6 DEF CancelAutoBid, Progress
<1>7. CASE \E b \in Bidders : BidOnEndedAuction(b)
  BY <1>7 DEF BidOnEndedAuction, Begin, Idle, Progress
<1>8. CASE \E force \in BOOLEAN : CloseEndedActiveListing(force)
  BY <1>8 DEF CloseEndedActiveListing, Progress
<1>9. CASE Tick \/ UNCHANGED vars
  BY <1>9 DEF Tick, vars, Progress
<1> QED
  BY <1>1, <1>2, <1>3, <1>4, <1>5, <1>6, <1>7, <1>8, <1>9 DEF Next

\* The bidders who stand at the price, as the refinement maps them.
Contenders(l, bs) ==
    { b \in Bidders : \E i \in DOMAIN bs : /\ bs[i].bidder = b
                                         /\ bs[i].amount = l.current_bid }

EnglishState(l) == IF l.status = "active" THEN "open" ELSE l.status

\* A commit is a raise or a handover.
LEMMA CommitImplements ==
    ASSUME IInv, Progress, Commit
    PROVE  English!Next \/ UNCHANGED English!vars
<1>1. /\ tx.phase = "resolving" /\ tx'.phase = "idle"
      /\ listing' = listing /\ bids' = bids
      /\ listing.status = "active" /\ bids # << >>
      /\ saved.listing.status = "active"
  BY DEF Commit, Idle, IInv, TxOK, SavedOK
<1>2. /\ CommittedListing = saved.listing /\ CommittedBids = saved.bids
      /\ CommittedListing' = listing /\ CommittedBids' = bids
  BY <1>1 DEF CommittedListing, CommittedBids
<1>3. /\ bids \in Seq(BidRows) /\ saved.bids \in Seq(BidRows)
      /\ listing.winner_id = bids[Len(bids)].bidder
      /\ listing.current_bid = bids[Len(bids)].amount
      /\ Len(bids) \in DOMAIN bids
  BY <1>1 DEF IInv, TypeOK, RowsOK, RowOK
<1>4. bids[Len(bids)] \in BidRows
  BY <1>3
<1>5. listing.winner_id \in Contenders(listing, bids)
  BY <1>3, <1>4 DEF Contenders, BidRows
<1>6. Contenders(listing, bids) \subseteq Bidders
  BY DEF Contenders
<1>7. CASE listing.current_bid >= saved.listing.current_bid + MinIncrement
  <2>1. English!Raise
    BY <1>1, <1>2, <1>5, <1>6, <1>7 DEF English!Raise, Contenders
  <2> QED
    BY <2>1 DEF English!Next
<1>8. CASE /\ listing.current_bid = saved.listing.current_bid
           /\ saved.listing.winner_id # NoBidder
           /\ Len(saved.bids) <= Len(bids)
           /\ \A i \in 1 .. Len(saved.bids) : bids[i] = saved.bids[i]
  <2>1. Contenders(saved.listing, saved.bids) \subseteq Contenders(listing, bids)
    <3>1. \A i \in DOMAIN saved.bids :
            i \in DOMAIN bids /\ bids[i] = saved.bids[i]
      BY <1>3, <1>8
    <3> QED
      BY <3>1, <1>8 DEF Contenders
  <2>2. English!Handover
    BY <1>1, <1>2, <1>5, <1>6, <1>8, <2>1 DEF English!Handover, Contenders
  <2> QED
    BY <2>2 DEF English!Next
<1> QED
  BY <1>1, <1>7, <1>8 DEF Progress

\* Closing is an award to a bidder standing at the price, or an expiry.
LEMMA CloseImplements ==
    ASSUME IInv, NEW force \in BOOLEAN, CloseEndedActiveListing(force)
    PROVE  English!Next
<1>1. /\ tx.phase = "idle" /\ tx' = tx /\ bids' = bids
      /\ listing.status = "active" /\ CloseAuction
      /\ listing \in Listings /\ bids \in Seq(BidRows)
      /\ RowsOK(listing, bids, autoBids)
  BY DEF CloseEndedActiveListing, IInv, TypeOK
<1>2. /\ CommittedListing = listing /\ CommittedBids = bids
      /\ CommittedListing' = listing' /\ CommittedBids' = bids
  BY <1>1 DEF CommittedListing, CommittedBids
<1>3. CASE bids = << >> /\ listing' = [listing EXCEPT !.status = "expired",
                                                   !.winner_id = NoBidder]
  <2>1. /\ listing.winner_id = NoBidder
        /\ listing'.status = "expired" /\ listing'.winner_id = NoBidder
        /\ listing'.current_bid = listing.current_bid
    BY <1>1, <1>3 DEF RowsOK, RowOK, Listings
  <2>2. English!Expire
    BY <1>1, <1>2, <2>1 DEF English!Expire
  <2> QED
    BY <2>2 DEF English!Next
<1>4. CASE \E i \in DOMAIN bids :
             /\ ComesFirst(i, bids)
             /\ listing' = [listing EXCEPT !.status = "sold",
                                           !.winner_id = bids[i].bidder,
                                           !.current_bid = bids[i].amount]
  <2>1. PICK i \in DOMAIN bids :
             /\ ComesFirst(i, bids)
             /\ listing' = [listing EXCEPT !.status = "sold",
                                           !.winner_id = bids[i].bidder,
                                           !.current_bid = bids[i].amount]
    BY <1>4
  <2>2. \A j \in DOMAIN bids : bids[j] \in BidRows
    BY <1>1
  <2>3. \A j \in DOMAIN bids : bids[j].bidder \in Bidders
                              /\ bids[j].amount \in Nat
    BY <2>2 DEF BidRows
  <2>4. bids[i].amount = listing.current_bid
    <3>1. bids # << >> /\ Len(bids) \in DOMAIN bids
      BY <1>1
    <3>2. bids[Len(bids)].amount = listing.current_bid
      BY <1>1, <3>1 DEF RowsOK, RowOK
    <3>3. bids[i].amount <= listing.current_bid
      BY <1>1 DEF RowsOK, TopOK
    <3>4. bids[i].amount >= bids[Len(bids)].amount
      BY <2>1, <2>3, <3>1 DEF ComesFirst
    <3> QED
      BY <2>3, <3>1, <3>2, <3>3, <3>4
  <2>5. /\ listing'.status = "sold"
        /\ listing'.winner_id = bids[i].bidder
        /\ listing'.current_bid = listing.current_bid
    BY <1>1, <2>1, <2>4 DEF Listings
  <2>6. bids[i].bidder \in Contenders(listing, bids)
    BY <2>3, <2>4 DEF Contenders
  <2>7. English!Award
    BY <1>1, <1>2, <2>5, <2>6 DEF English!Award, Contenders
  <2> QED
    BY <2>7 DEF English!Next
<1> QED
  BY <1>1, <1>3, <1>4 DEF CloseAuction

\* Every other step leaves the committed rows alone.
LEMMA OthersStutter ==
    ASSUME IInv, [Next]_vars, ~ Commit,
           ~ \E force \in BOOLEAN : CloseEndedActiveListing(force)
    PROVE  CommittedListing' = CommittedListing /\ CommittedBids' = CommittedBids
<1>1. CASE \E b \in Bidders, amount \in Amounts : PlaceBid(b, amount)
  BY <1>1 DEF PlaceBid, Biddable, Begin, Idle, CommittedListing, CommittedBids
<1>2. CASE \E b \in Bidders : \E max \in Amounts, inc \in Increments :
             SetAutoBid(b, max, inc)
  BY <1>2 DEF SetAutoBid, Biddable, Begin, Idle, CommittedListing, CommittedBids
<1>3. CASE \E b \in Bidders : BidOnEndedAuction(b)
  BY <1>3 DEF BidOnEndedAuction, Begin, Idle, CommittedListing, CommittedBids
<1>4. CASE Respond
  <2>1. tx.phase = "resolving" /\ tx'.phase = "resolving" /\ saved' = saved
    BY <1>4 DEF Respond, IInv, TypeOK
  <2> QED
    BY <2>1 DEF CommittedListing, CommittedBids
<1>5. CASE ReadAutoBids
  <2>1. tx.phase = "recorded" /\ tx'.phase = "resolving" /\ saved' = saved
    BY <1>5 DEF ReadAutoBids, IInv, TypeOK
  <2> QED
    BY <2>1 DEF CommittedListing, CommittedBids
<1>6. CASE Rollback
  BY <1>6 DEF Rollback, Idle, CommittedListing, CommittedBids
<1>7. CASE (\E b \in Bidders : CancelAutoBid(b)) \/ Tick \/ UNCHANGED vars
  BY <1>7 DEF CancelAutoBid, Tick, vars, CommittedListing, CommittedBids
<1> QED
  BY <1>1, <1>2, <1>3, <1>4, <1>5, <1>6, <1>7 DEF Next

(***************************************************************************)
(* Bidding and closing implement the open ascending auction: seen from     *)
(* outside a transaction the price only rises, by at least the increment,  *)
(* or the lead changes hands at the same price, and the item goes at the   *)
(* final price to a bidder who stands at it.                               *)
(***************************************************************************)
THEOREM Refinement == Spec => ImplementsEnglishAuction
<1>1. Init => English!Init
  BY DEF Init, NewListing, Idle, CommittedListing, CommittedBids, English!Init
<1>2. IInv /\ Progress /\ [Next]_vars => [English!Next]_(English!vars)
  <2> SUFFICES ASSUME IInv, Progress, [Next]_vars
               PROVE  [English!Next]_(English!vars)
    OBVIOUS
  <2>1. CASE Commit
    BY <2>1, CommitImplements
  <2>2. CASE \E force \in BOOLEAN : CloseEndedActiveListing(force)
    BY <2>2, CloseImplements
  <2>3. CASE /\ ~ Commit
             /\ ~ \E force \in BOOLEAN : CloseEndedActiveListing(force)
    BY <2>3, OthersStutter DEF English!vars
  <2> QED
    BY <2>1, <2>2, <2>3
<1>3. Init => Progress
  BY DEF Init, Idle, Progress
<1>4. IInv /\ IInv' /\ Progress /\ [Next]_vars => Progress'
  BY ProgressInductive
<1>5. Spec => [](IInv /\ Progress)
  BY <1>3, <1>4, Invariance, PTL DEF Spec
<1> QED
  BY <1>1, <1>2, <1>5, PTL DEF Spec, ImplementsEnglishAuction, English!Spec

-----------------------------------------------------------------------------
(***************************************************************************)
(* Between requests the winner is stable.                                  *)
(***************************************************************************)
StableRows(l, settings) ==
    l.status = "active" =>
        \A b \in Bidders :
            settings[b].active /\ b # l.winner_id =>
                settings[b].max < l.current_bid + MinIncrement

AboveStart(bs) == \A i \in 1 .. Len(bs) : bs[i].amount >= StartingPrice

\* A cancellation may deactivate a setting the loop has read, and nothing
\* activates one the loop has not read.
LoopOK ==
    tx.phase = "resolving" =>
        /\ tx.rounds < Len(bids)
        /\ Loop!LoopInv
        /\ \A b \in Bidders :
              autoBids[b].active => \E c \in tx.candidates : c.bidder = b

StableInv ==
    /\ tx.phase = "idle" => StableRows(listing, autoBids)
    /\ tx.phase # "idle" => StableRows(saved.listing, SettingsAfterRollback)
    /\ \A b \in Bidders : autoBids[b].active => autoBids[b].max \in Amounts
    /\ saved.setting.active => saved.setting.max \in Amounts
    /\ AboveStart(bids) /\ AboveStart(saved.bids)
    /\ tx.phase = "recorded" => tx.rounds = 0
    /\ LoopOK

LEMMA RespondsAsLoop ==
    ASSUME IInv, Respond, tx.rounds < Len(bids)
    PROVE  Loop!Respond /\ tx'.rounds < Len(bids')
<1> DEFINE price == listing.current_bid
           leader == listing.winner_id
<1>1. PICK c \in tx.candidates :
         /\ IsNextCandidate(c, price, leader, tx.candidates)
         /\ IsLegalResponse(c, price, leader, tx.candidates)
         /\ RecordBid(c.bidder, TargetAmount(c, price, leader, tx.candidates),
                      TRUE, tx.at)
  BY DEF Respond
<1> DEFINE target == TargetAmount(c, price, leader, tx.candidates)
<1>2. /\ bids \in Seq(BidRows) /\ listing \in Listings /\ tx.rounds \in Nat
      /\ tx' = [tx EXCEPT !.rounds = @ + 1]
      /\ tx.phase = "resolving" /\ tx.rounds < ResponseLimit
  BY DEF IInv, TypeOK, Respond
<1>3. /\ tx'.phase = tx.phase /\ tx'.candidates = tx.candidates
      /\ tx'.rounds = tx.rounds + 1
  BY <1>2 DEF IInv, TypeOK
<1>4. listing'.current_bid = target /\ listing'.winner_id = c.bidder
  BY <1>1, <1>2 DEF RecordBid, Listings
<1>5. /\ Len(bids') = Len(bids) + 1 /\ Len(bids) \in Nat
      /\ \A i \in 1 .. Len(bids) : bids'[i] = bids[i]
  BY <1>1, <1>2 DEF RecordBid
<1>6. tx'.rounds < Len(bids')
  BY <1>2, <1>3, <1>5
<1>7. LoopStart' = LoopStart
  <2> DEFINE i == Len(bids) - tx.rounds
  <2>1. Len(bids') - tx'.rounds = i
    BY <1>2, <1>3, <1>5
  <2>2. i \in 1 .. Len(bids)
    BY <1>2, <1>5
  <2>3. bids'[i] = bids[i]
    BY <1>5, <2>2
  <2> HIDE DEF i
  <2> QED
    BY <1>3, <2>1, <2>3 DEF LoopStart, i
<1>8. Loop!candidates = tx.candidates
  BY DEF Loop!candidates, LoopStart
<1> HIDE DEF target
<1> QED
  BY <1>1, <1>2, <1>3, <1>4, <1>6, <1>7, <1>8, SameRules DEF Loop!Respond, target

\* The loop begins with the settings that are active when it reads them.
LEMMA ReadBegins ==
    ASSUME IInv, StableInv, ReadAutoBids
    PROVE  LoopOK'
<1> DEFINE active == { x \in Bidders : autoBids[x].active }
           read == { Candidate(b, autoBids[b]) : b \in active }
<1>1. /\ tx.phase = "recorded" /\ tx.rounds = 0
      /\ tx' = [tx EXCEPT !.phase = "resolving", !.candidates = read]
      /\ UNCHANGED <<listing, bids, autoBids, offer, saved, now>>
      /\ listing.status = "active" /\ bids # << >>
  BY DEF ReadAutoBids, StableInv, IInv, TxOK
<1>2. /\ bids \in Seq(BidRows) /\ listing \in Listings
      /\ autoBids \in [Bidders -> Settings]
      /\ listing.current_bid = bids[Len(bids)].amount
  BY <1>1 DEF IInv, TypeOK, RowsOK, RowOK
<1>3. ASSUME NEW b \in active
      PROVE  /\ Candidate(b, autoBids[b]) \in Loop!Rows
             /\ Candidate(b, autoBids[b]).bidder = b
             /\ Candidate(b, autoBids[b]).inc >= MinIncrement
             /\ Candidate(b, autoBids[b]).max \in Amounts
  <2>1. b \in Nat /\ autoBids[b] \in Settings /\ autoBids[b].max \in Amounts
    BY <1>2, AuctionAssumption DEF StableInv
  <2>2. /\ autoBids[b].max \in Nat /\ autoBids[b].inc \in Nat
        /\ autoBids[b].updatedAt \in Nat
    BY <2>1 DEF Settings
  <2> QED
    BY <2>1, <2>2, MinIncrementAssumption DEF Candidate, Larger, Loop!Rows
<1>4. \A c \in read : c.bidder \in active /\ c = Candidate(c.bidder, autoBids[c.bidder])
  BY <1>3
<1>5. /\ read \in SUBSET Loop!Rows
      /\ \A c \in read : c.inc >= MinIncrement /\ c.max \in Amounts
      /\ \A c, d \in read : c.bidder = d.bidder => c = d
      /\ \A b \in Bidders : autoBids[b].active => \E c \in read : c.bidder = b
  <2>1. /\ read \in SUBSET Loop!Rows
        /\ \A c \in read : c.inc >= MinIncrement /\ c.max \in Amounts
    BY <1>3
  <2>2. \A c, d \in read : c.bidder = d.bidder => c = d
    BY <1>4
  <2>3. \A b \in Bidders : autoBids[b].active => \E c \in read : c.bidder = b
    BY <1>3
  <2> QED
    BY <2>1, <2>2, <2>3
<1> HIDE DEF read
<1>6. /\ tx'.phase = "resolving" /\ tx'.rounds = 0 /\ tx'.candidates = read
  BY <1>1 DEF IInv, TypeOK
<1>7. Len(bids) \in Nat \ {0} /\ bids[Len(bids)] \in BidRows
  BY <1>1, <1>2
<1>8. listing.current_bid \in Nat
  BY <1>2 DEF Listings
<1>9. LoopStart'.price = listing.current_bid /\ LoopStart'.candidates = read
  BY <1>1, <1>2, <1>6, <1>7 DEF LoopStart
<1>10. Loop!StartOK'
  BY <1>5, <1>8, <1>9 DEF Loop!StartOK
<1>11. Loop!Paced'
  BY <1>1, <1>6, <1>8, <1>9, MinIncrementAssumption DEF Loop!Paced
<1>12. Loop!LoopInv'
  BY <1>1, <1>6, <1>8, <1>9, <1>10, <1>11 DEF Loop!LoopInv
<1> QED
  BY <1>1, <1>5, <1>6, <1>7, <1>12 DEF LoopOK

\* It goes on as the loop does.
LEMMA RespondContinues ==
    ASSUME IInv, StableInv, Respond
    PROVE  LoopOK'
<1>1. /\ tx.phase = "resolving" /\ tx' = [tx EXCEPT !.rounds = @ + 1]
      /\ autoBids' = autoBids
  BY DEF Respond
<1>2. /\ Loop!LoopInv /\ tx.rounds < Len(bids)
      /\ \A b \in Bidders : autoBids[b].active => \E c \in tx.candidates : c.bidder = b
  BY <1>1 DEF StableInv, LoopOK
<1>3. tx'.candidates = tx.candidates
  BY <1>1 DEF IInv, TypeOK
<1>4. Loop!Respond /\ tx'.rounds < Len(bids')
  BY <1>2, RespondsAsLoop
<1>5. Loop!LoopInv'
  BY <1>2, <1>4, LoopAssumptions, Loop!RespondKeeps
<1> QED
  BY <1>1, <1>2, <1>3, <1>4, <1>5 DEF LoopOK

\* The steps of others do not touch it.
LEMMA LoopUntouched ==
    ASSUME LoopOK, UNCHANGED <<listing, bids, tx>>,
           \A b \in Bidders : autoBids'[b].active => autoBids[b].active
    PROVE  LoopOK'
<1>1. CASE tx.phase # "resolving"
  BY <1>1 DEF LoopOK
<1>2. CASE tx.phase = "resolving"
  <2>1. UNCHANGED Loop!vars
    BY DEF Loop!vars, LoopStart
  <2>2. Loop!LoopInv'
    BY <1>2, <2>1, LoopAssumptions, Loop!StutterKeeps DEF LoopOK
  <2> QED
    BY <1>2, <2>2 DEF LoopOK
<1> QED
  BY <1>1, <1>2

\* A request begins: what its rollback would bring back was stable.
LEMMA BeginStable ==
    ASSUME IInv, StableInv, tx.phase = "idle", tx'.phase \in {"recorded", "failed"},
           tx'.rounds = 0, saved'.listing = listing, saved'.bids = bids,
           NEW b \in Bidders, saved'.setting = autoBids[b],
           SettingsAfterRollback' = autoBids,
           \A x \in Bidders : autoBids'[x].active => autoBids'[x].max \in Amounts,
           AboveStart(bids')
    PROVE  StableInv'
BY DEF StableInv, LoopOK

LEMMA RecordAbove ==
    ASSUME IInv, AboveStart(bids), NEW b, NEW amount \in Nat, NEW auto, NEW at,
           amount >= StartingPrice, b \in Bidders, auto \in BOOLEAN, at \in Nat,
           bids' = Append(bids, [bidder |-> b, amount |-> amount, auto |-> auto, at |-> at])
    PROVE  AboveStart(bids')
<1> DEFINE row == [bidder |-> b, amount |-> amount, auto |-> auto, at |-> at]
<1>1. row \in BidRows /\ bids \in Seq(BidRows) /\ row.amount = amount
  BY DEF BidRows, IInv, TypeOK
<1> HIDE DEF row
<1>2. /\ Len(bids') = Len(bids) + 1 /\ Len(bids) \in Nat
      /\ \A i \in 1 .. Len(bids) : bids'[i] = bids[i]
      /\ bids'[Len(bids) + 1] = row
  BY <1>1 DEF row
<1> QED
  BY <1>1, <1>2 DEF AboveStart

LEMMA StableStep ==
    ASSUME IInv, StableInv, [Next]_vars,
           \A m \in Amounts : m - StartingPrice < (ResponseLimit - 1) * MinIncrement
    PROVE  StableInv'
<1>0. /\ listing \in Listings /\ bids \in Seq(BidRows)
      /\ autoBids \in [Bidders -> Settings] /\ now \in Nat
      /\ NextMinimumBid \in Nat /\ NextMinimumBid >= StartingPrice
      /\ StartingPrice \in Nat
  BY AuctionAssumption, MinIncrementAssumption
     DEF IInv, TypeOK, NextMinimumBid, Larger, Listings
<1>1. ASSUME NEW b \in Bidders, NEW amount \in Amounts, PlaceBid(b, amount)
      PROVE  StableInv'
  <2>1. PICK at \in Stamps :
           /\ Begin(b, "place_bid", at, "recorded")
           /\ RecordBid(b, amount, FALSE, at)
    BY <1>1 DEF PlaceBid
  <2>2. /\ tx.phase = "idle" /\ autoBids' = autoBids
        /\ amount >= NextMinimumBid /\ amount \in Nat /\ at \in Nat
    BY <1>1, AuctionAssumption DEF PlaceBid, Biddable, Stamps
  <2>3. /\ tx'.phase = "recorded" /\ tx'.rounds = 0 /\ tx'.op = "place_bid"
        /\ saved'.listing = listing /\ saved'.bids = bids /\ saved'.setting = autoBids[b]
    BY <2>1 DEF Begin, Idle
  <2>4. AboveStart(bids')
    <3>1. amount >= StartingPrice
      BY <1>0, <2>2
    <3>2. bids' = Append(bids, [bidder |-> b, amount |-> amount,
                                auto |-> FALSE, at |-> at])
      BY <2>1 DEF RecordBid
    <3>3. FALSE \in BOOLEAN /\ AboveStart(bids)
      BY DEF StableInv
    <3> QED
      BY <2>2, <3>1, <3>2, <3>3, RecordAbove
  <2>5. SettingsAfterRollback' = autoBids
    BY <2>2, <2>3 DEF SettingsAfterRollback
  <2> QED
    BY <2>2, <2>3, <2>4, <2>5, BeginStable DEF StableInv
<1>2. ASSUME NEW b \in Bidders, NEW max \in Amounts, NEW inc \in Increments,
             SetAutoBid(b, max, inc)
      PROVE  StableInv'
  <2> DEFINE Setting(at) == [max |-> max, inc |-> inc, active |-> TRUE,
                             updatedAt |-> at]
  <2>1. PICK at \in Stamps :
           /\ Begin(b, "set_auto_bid", at, "recorded")
           /\ autoBids' = [autoBids EXCEPT ![b] = Setting(at)]
           /\ IF listing.winner_id = b
              THEN UNCHANGED <<listing, bids>>
              ELSE RecordBid(b, Smaller(max, NextMinimumBid), TRUE, at)
    BY <1>2 DEF SetAutoBid
  <2>2. /\ tx.phase = "idle" /\ max \in Nat /\ at \in Nat
        /\ listing.winner_id # b => max >= NextMinimumBid
    BY <1>2, AuctionAssumption DEF SetAutoBid, Biddable, Stamps
  <2>3. /\ tx'.phase = "recorded" /\ tx'.rounds = 0 /\ tx'.op = "set_auto_bid"
        /\ tx'.bidder = b
        /\ saved'.listing = listing /\ saved'.bids = bids /\ saved'.setting = autoBids[b]
    BY <2>1 DEF Begin, Idle
  <2>4. AboveStart(bids')
    <3>1. CASE listing.winner_id = b
      BY <2>1, <3>1 DEF StableInv
    <3>2. CASE listing.winner_id # b
      <4>1. Smaller(max, NextMinimumBid) = NextMinimumBid
        BY <1>0, <2>2, <3>2 DEF Smaller
      <4> QED
        BY <1>0, <2>1, <2>2, <3>2, <4>1, RecordAbove DEF RecordBid, StableInv
    <3> QED
      BY <3>1, <3>2
  <2>5. SettingsAfterRollback' = autoBids
    BY <1>0, <2>1, <2>3 DEF SettingsAfterRollback
  <2>6. \A x \in Bidders : autoBids'[x].active => autoBids'[x].max \in Amounts
    <3>1. autoBids'[b].max = max /\ \A x \in Bidders : x # b => autoBids'[x] = autoBids[x]
      BY <1>0, <2>1
    <3> QED
      BY <3>1 DEF StableInv
  <2> QED
    BY <2>2, <2>3, <2>4, <2>5, <2>6, BeginStable
<1>3. ASSUME NEW b \in Bidders, BidOnEndedAuction(b)
      PROVE  StableInv'
  <2>1. /\ tx.phase = "idle" /\ UNCHANGED <<bids, autoBids>>
        /\ tx'.phase = "failed" /\ tx'.rounds = 0 /\ tx'.op = "late_bid"
        /\ saved'.listing = listing /\ saved'.bids = bids /\ saved'.setting = autoBids[b]
    BY <1>3 DEF BidOnEndedAuction, Begin, Idle
  <2>2. SettingsAfterRollback' = autoBids
    BY <2>1 DEF SettingsAfterRollback
  <2> QED
    BY <2>1, <2>2, BeginStable DEF StableInv
<1>4. CASE ReadAutoBids
  <2>1. /\ tx.phase = "recorded" /\ UNCHANGED <<listing, bids, autoBids, saved>>
        /\ tx'.phase = "resolving" /\ tx'.op = tx.op /\ tx'.bidder = tx.bidder
    BY <1>4 DEF ReadAutoBids, IInv, TypeOK
  <2>2. SettingsAfterRollback' = SettingsAfterRollback
    BY <2>1 DEF SettingsAfterRollback
  <2> QED
    BY <1>4, <2>1, <2>2, ReadBegins DEF StableInv, StableRows, AboveStart
<1>5. CASE Respond
  <2>1. PICK c \in tx.candidates :
           /\ IsLegalResponse(c, listing.current_bid, listing.winner_id, tx.candidates)
           /\ RecordBid(c.bidder, TargetAmount(c, listing.current_bid, listing.winner_id, tx.candidates),
                        TRUE, tx.at)
    BY <1>5 DEF Respond
  <2> DEFINE target == TargetAmount(c, listing.current_bid, listing.winner_id, tx.candidates)
  <2>2. /\ tx.phase = "resolving" /\ UNCHANGED <<autoBids, saved>>
        /\ tx'.phase = "resolving" /\ tx'.op = tx.op /\ tx'.bidder = tx.bidder
        /\ tx.at \in Nat
    BY <1>5 DEF Respond, IInv, TypeOK
  <2>3. /\ c.bidder \in Bidders /\ listing.current_bid \in Nat
        /\ c \in [bidder : Nat, max : Nat, inc : Nat, updatedAt : Nat]
    BY <1>0, AuctionAssumption DEF IInv, TypeOK, Candidates, Listings
  <2>4. target \in Nat /\ target >= listing.current_bid
    BY <2>1, <2>3, TargetWithinMax DEF IsLegalResponse
  <2>5. listing.current_bid >= StartingPrice
    <3>1. bids # << >> /\ listing.status = "active"
      BY <2>2 DEF IInv, TxOK
    <3>2. Len(bids) \in 1 .. Len(bids) /\ listing.current_bid = bids[Len(bids)].amount
      BY <1>0, <3>1 DEF IInv, RowsOK, RowOK
    <3> QED
      BY <3>2 DEF StableInv, AboveStart
  <2> HIDE DEF target
  <2>6. AboveStart(bids')
    <3>1. target >= StartingPrice
      BY <1>0, <2>3, <2>4, <2>5
    <3> QED
      BY <2>1, <2>2, <2>3, <2>4, <3>1, RecordAbove DEF RecordBid, StableInv, target
  <2>7. SettingsAfterRollback' = SettingsAfterRollback
    BY <2>2 DEF SettingsAfterRollback
  <2> QED
    BY <1>5, <2>2, <2>6, <2>7, RespondContinues DEF StableInv
<1>6. CASE Commit
  <2>1. /\ tx.phase = "resolving" /\ tx' = Idle /\ saved' = NothingSaved
        /\ UNCHANGED <<listing, bids, autoBids>>
        /\ \/ tx.rounds = ResponseLimit
           \/ Settled(listing.current_bid, listing.winner_id, tx.candidates)
    BY <1>6 DEF Commit
  <2>2. /\ Loop!LoopInv /\ tx.rounds < Len(bids)
        /\ \A b \in Bidders : autoBids[b].active => \E c \in tx.candidates : c.bidder = b
    BY <2>1 DEF StableInv, LoopOK
  <2>3. Loop!candidates = tx.candidates
    BY DEF Loop!candidates, LoopStart
  <2>4. tx.rounds # ResponseLimit
    <3>1. LoopStart.price \in Nat /\ LoopStart.price >= StartingPrice
      <4>1. Len(bids) - tx.rounds \in 1 .. Len(bids)
        BY <1>0, <2>2 DEF IInv, TypeOK
      <4>2. bids[Len(bids) - tx.rounds] \in BidRows
        BY <1>0, <4>1
      <4> QED
        BY <4>1, <4>2 DEF LoopStart, StableInv, AboveStart, BidRows
    <3>2. \A m \in Amounts : m - LoopStart.price < (ResponseLimit - 1) * MinIncrement
      <4> TAKE m \in Amounts
      <4> DEFINE reach == (ResponseLimit - 1) * MinIncrement
      <4>1. m \in Nat /\ reach \in Int /\ m - StartingPrice < reach
        BY AuctionAssumption, MinIncrementAssumption
      <4> HIDE DEF reach
      <4>2. m - LoopStart.price < reach
        BY <1>0, <3>1, <4>1
      <4> QED
        BY <4>2 DEF reach
    <3> QED
      BY <2>2, <3>2, LoopAssumptions, Loop!GuardNotReached
  <2>5. Loop!Settled(listing.current_bid, listing.winner_id, tx.candidates)
    BY <2>1, <2>4, SameRules DEF Settled, Loop!Settled
  <2>6. Responders(listing.current_bid, listing.winner_id, tx.candidates) = {}
    BY <2>2, <2>3, <2>5, LoopAssumptions, SameRules, Loop!SettledMeansNobody
  <2>7. ASSUME NEW b \in Bidders, autoBids[b].active, b # listing.winner_id
        PROVE  autoBids[b].max < listing.current_bid + MinIncrement
    <3>1. PICK c \in tx.candidates : c.bidder = b
      BY <2>2, <2>7
    <3>2. autoBids[b].max = c.max
      BY <3>1 DEF IInv, TxOK
    <3>3. ~(c.max >= listing.current_bid + MinIncrement)
      BY <2>6, <2>7, <3>1 DEF Responders
    <3>4. autoBids[b].max \in Nat /\ listing.current_bid \in Nat
      BY <1>0 DEF Settings, Listings
    <3> QED
      BY <3>2, <3>3, <3>4, MinIncrementAssumption
  <2>8. StableRows(listing', autoBids')
    BY <2>1, <2>7 DEF StableRows
  <2>9. /\ saved'.setting.active = FALSE /\ AboveStart(saved'.bids)
        /\ tx'.phase = "idle"
    BY <2>1 DEF NothingSaved, NoSetting, AboveStart, Idle
  <2> QED
    BY <2>1, <2>8, <2>9 DEF StableInv, LoopOK, AboveStart
<1>7. CASE Rollback
  <2>1. /\ tx.phase # "idle" /\ tx' = Idle /\ saved' = NothingSaved
        /\ listing' = saved.listing /\ bids' = saved.bids
        /\ autoBids' = SettingsAfterRollback
    BY <1>7 DEF Rollback, SettingsAfterRollback
  <2>2. /\ saved'.setting.active = FALSE /\ AboveStart(saved'.bids)
        /\ tx'.phase = "idle"
    BY <2>1 DEF NothingSaved, NoSetting, AboveStart, Idle
  <2>3. StableRows(listing', autoBids') /\ AboveStart(bids')
    BY <2>1 DEF StableInv
  <2>4. \A b \in Bidders : autoBids'[b].active => autoBids'[b].max \in Amounts
    <3>1. \A b \in Bidders : autoBids'[b] \in {autoBids[b], saved.setting}
      BY <1>0, <2>1 DEF SettingsAfterRollback
    <3> QED
      BY <3>1 DEF StableInv
  <2> QED
    BY <2>1, <2>2, <2>3, <2>4 DEF StableInv, LoopOK
<1>8. ASSUME NEW b \in Bidders, CancelAutoBid(b)
      PROVE  StableInv'
  <2>1. PICK at \in Stamps :
           autoBids' = [autoBids EXCEPT ![b].active = FALSE, ![b].updatedAt = at]
    BY <1>8 DEF CancelAutoBid
  <2>2. /\ UNCHANGED <<listing, bids, offer, tx, saved, now>>
        /\ ~ (tx.op = "set_auto_bid" /\ tx.bidder = b)
    BY <1>8 DEF CancelAutoBid
  <2>3. \A x \in Bidders : /\ autoBids'[x].max = autoBids[x].max
                           /\ autoBids'[x].active => autoBids[x].active
    BY <1>0, <2>1 DEF Settings
  <2>4. \A x \in Bidders :
          /\ SettingsAfterRollback'[x].max = SettingsAfterRollback[x].max
          /\ SettingsAfterRollback'[x].active => SettingsAfterRollback[x].active
    <3>1. CASE tx.op = "set_auto_bid"
      <4>1. DOMAIN autoBids' = Bidders
        BY <1>0, <2>1
      <4> QED
        BY <1>0, <2>2, <2>3, <3>1, <4>1 DEF SettingsAfterRollback
    <3>2. CASE tx.op # "set_auto_bid"
      BY <2>2, <2>3, <3>2 DEF SettingsAfterRollback
    <3> QED
      BY <3>1, <3>2
  <2>5. LoopOK'
    BY <2>2, <2>3, LoopUntouched DEF StableInv
  <2>6. /\ StableRows(listing, autoBids) => StableRows(listing', autoBids')
        /\ StableRows(saved.listing, SettingsAfterRollback)
             => StableRows(saved'.listing, SettingsAfterRollback')
    BY <2>2, <2>3, <2>4 DEF StableRows
  <2> QED
    BY <2>2, <2>3, <2>5, <2>6 DEF StableInv, AboveStart
<1>9. ASSUME NEW force \in BOOLEAN, CloseEndedActiveListing(force)
      PROVE  StableInv'
  <2>1. /\ tx.phase = "idle" /\ CloseAuction
        /\ UNCHANGED <<bids, autoBids, tx, saved>>
    BY <1>9 DEF CloseEndedActiveListing
  <2>2. listing'.status # "active"
    BY <1>0, <2>1 DEF CloseAuction, Listings
  <2> QED
    BY <2>1, <2>2 DEF StableInv, StableRows, AboveStart, LoopOK
<1>10. CASE Tick \/ UNCHANGED vars
  <2>1. UNCHANGED <<listing, bids, autoBids, tx, saved>>
    BY <1>10 DEF Tick, vars
  <2>2. LoopOK'
    BY <2>1, LoopUntouched DEF StableInv
  <2> QED
    BY <2>1, <2>2 DEF StableInv, StableRows, AboveStart, SettingsAfterRollback
<1> QED
  BY <1>1, <1>2, <1>3, <1>4, <1>5, <1>6, <1>7, <1>8, <1>9, <1>10 DEF Next

LEMMA StableInit == Init => StableInv
BY DEF Init, StableInv, StableRows, AboveStart, LoopOK, NoSetting, NothingSaved, Idle

(***************************************************************************)
(* Between requests an active auction has a stable winner: no active       *)
(* auto-bid of anybody else could still make the next legal bid, as long   *)
(* as no maximum is further from the starting price than the guard of      *)
(* resolveAutoBids, 10 000 responses, covers.                              *)
(***************************************************************************)
THEOREM WinnerIsStable ==
    ASSUME \A m \in Amounts : m - StartingPrice < (ResponseLimit - 1) * MinIncrement
    PROVE  Spec => []StableWinner
<1>1. StableInv => StableWinner
  BY DEF StableInv, StableRows, StableWinner
<1>2. IInv /\ StableInv /\ [Next]_vars => StableInv'
  BY StableStep
<1> QED
  BY <1>1, <1>2, StableInit, Invariance, PTL DEF Spec

-----------------------------------------------------------------------------
(***************************************************************************)
(* Administrators' edits (AuctionEdits.tla) write the listing row as it    *)
(* was some time ago, so of the invariant above almost nothing remains.    *)
(* What remains is that bids are only appended or rolled back, and that a  *)
(* request leaves a pending offer alone, and one which can commit makes    *)
(* none.                                                                   *)
(***************************************************************************)
ForARecordedBid(o, bs) ==
    o # NoOffer =>
        \E i \in 1 .. Len(bs) : bs[i].bidder = o.bidder /\ bs[i].amount = o.amount

Transactions ==
    [phase : {"idle", "recorded", "resolving", "failed"},
     op : {"none", "place_bid", "set_auto_bid", "late_bid"},
     bidder : Bidders \cup {NoBidder}, at : Nat,
     candidates : SUBSET Candidates, rounds : Nat]

EditRows ==
    /\ listing \in Listings /\ saved.listing \in Listings /\ edit.row \in Listings
    /\ bids \in Seq(BidRows) /\ saved.bids \in Seq(BidRows)
    /\ autoBids \in [Bidders -> Settings] /\ saved.setting \in Settings
    /\ tx \in Transactions /\ now \in Nat

EditInv ==
    /\ EditRows
    /\ ForARecordedBid(offer, bids)
    /\ ForARecordedBid(saved.offer, saved.bids)
    /\ tx.phase \in {"recorded", "resolving"} => offer = saved.offer
    /\ tx.phase = "failed" /\ saved.offer # NoOffer => offer = saved.offer

LEMMA RecordKeepsOffer ==
    ASSUME NEW bs \in Seq(BidRows), NEW b \in Bidders, NEW amount \in Nat,
           NEW auto \in BOOLEAN, NEW at \in Nat, listing \in Listings,
           NEW o, ForARecordedBid(o, bs), bs = bids,
           RecordBid(b, amount, auto, at)
    PROVE  /\ bids' \in Seq(BidRows) /\ listing' \in Listings
           /\ ForARecordedBid(o, bids')
<1> DEFINE row == [bidder |-> b, amount |-> amount, auto |-> auto, at |-> at]
<1>1. row \in BidRows /\ bids' = Append(bids, row)
  BY DEF BidRows, RecordBid
<1> HIDE DEF row
<1>2. /\ bids' \in Seq(BidRows) /\ Len(bids') = Len(bids) + 1 /\ Len(bids) \in Nat
      /\ \A i \in 1 .. Len(bids) : bids'[i] = bids[i]
  BY <1>1
<1>3. listing' \in Listings
  <2>1. listing.bid_count + 1 \in Nat
    BY DEF Listings
  <2> QED
    BY <2>1 DEF Listings, RecordBid
<1> QED
  BY <1>2, <1>3 DEF ForARecordedBid

LEMMA CloseMakesOffer ==
    ASSUME EditRows, CloseAuction, offer = NoOffer
    PROVE  listing' \in Listings /\ ForARecordedBid(offer', bids)
<1>1. CASE bids = << >> /\ listing' = [listing EXCEPT !.status = "expired",
                                                      !.winner_id = NoBidder]
           /\ UNCHANGED offer
  BY <1>1 DEF EditRows, Listings, ForARecordedBid
<1>2. ASSUME NEW i \in DOMAIN bids,
             offer' = [bidder |-> bids[i].bidder, amount |-> bids[i].amount],
             listing' = [listing EXCEPT !.status = "sold",
                                        !.winner_id = bids[i].bidder,
                                        !.current_bid = bids[i].amount]
      PROVE  listing' \in Listings /\ ForARecordedBid(offer', bids)
  <2>1. i \in 1 .. Len(bids) /\ bids[i] \in BidRows
    BY <1>2 DEF EditRows
  <2>2. bids[i].bidder \in Bidders /\ bids[i].amount \in Nat
    BY <2>1 DEF BidRows
  <2> QED
    BY <1>2, <2>1, <2>2 DEF EditRows, Listings, ForARecordedBid
<1> QED
  BY <1>1, <1>2 DEF CloseAuction

LEMMA BeginEdits ==
    ASSUME EditInv, NEW b \in Bidders, NEW at \in Nat,
           NEW op \in {"place_bid", "set_auto_bid", "late_bid"},
           NEW phase \in {"recorded", "failed"},
           Begin(b, op, at, phase), UNCHANGED <<now, edit>>,
           listing' \in Listings, bids' \in Seq(BidRows),
           autoBids' \in [Bidders -> Settings], ForARecordedBid(offer', bids'),
           phase = "recorded" \/ offer # NoOffer => offer' = offer
    PROVE  EditInv'
<1>1. /\ saved'.listing = listing /\ saved'.bids = bids /\ saved'.offer = offer
      /\ saved'.setting = autoBids[b] /\ tx' \in Transactions
      /\ tx'.phase = phase
  BY DEF Begin, Idle, Transactions
<1>2. autoBids[b] \in Settings
  BY DEF EditInv, EditRows
<1> QED
  BY <1>1, <1>2 DEF EditInv, EditRows

LEMMA EditStep ==
    ASSUME EditInv, [EditNext]_editVars
    PROVE  EditInv'
<1>0. /\ NextMinimumBid \in Nat /\ EditRows
      /\ \A at \in Stamps : at \in Nat
  BY AuctionAssumption, MinIncrementAssumption
     DEF EditInv, EditRows, NextMinimumBid, Larger, Listings, Stamps
<1>1. ASSUME NEW b \in Bidders, NEW amount \in Amounts, PlaceBid(b, amount),
             UNCHANGED edit
      PROVE  EditInv'
  <2>1. PICK at \in Stamps :
           /\ Begin(b, "place_bid", at, "recorded")
           /\ RecordBid(b, amount, FALSE, at)
    BY <1>1 DEF PlaceBid
  <2>2. UNCHANGED <<autoBids, offer, now>> /\ amount \in Nat /\ at \in Nat
    BY <1>0, <1>1, AuctionAssumption DEF PlaceBid
  <2>3. /\ bids' \in Seq(BidRows) /\ listing' \in Listings
        /\ ForARecordedBid(offer, bids')
    BY <2>1, <2>2, RecordKeepsOffer, FALSE \in BOOLEAN DEF EditInv, EditRows
  <2> QED
    BY <1>1, <2>1, <2>2, <2>3, BeginEdits DEF EditInv, EditRows
<1>2. ASSUME NEW b \in Bidders, NEW max \in Amounts, NEW inc \in Increments,
             SetAutoBid(b, max, inc), UNCHANGED edit
      PROVE  EditInv'
  <2> DEFINE Setting(at) == [max |-> max, inc |-> inc, active |-> TRUE,
                             updatedAt |-> at]
  <2>1. PICK at \in Stamps :
           /\ Begin(b, "set_auto_bid", at, "recorded")
           /\ autoBids' = [autoBids EXCEPT ![b] = Setting(at)]
           /\ IF listing.winner_id = b
              THEN UNCHANGED <<listing, bids>>
              ELSE RecordBid(b, Smaller(max, NextMinimumBid), TRUE, at)
    BY <1>2 DEF SetAutoBid
  <2>2. /\ UNCHANGED <<offer, now>> /\ max \in Nat /\ inc \in Nat /\ at \in Nat
    BY <1>0, <1>2, AuctionAssumption DEF SetAutoBid
  <2>3. Setting(at) \in Settings
    BY <2>2 DEF Settings
  <2>4. autoBids' \in [Bidders -> Settings]
    BY <2>1, <2>3 DEF EditInv, EditRows
  <2>5. /\ bids' \in Seq(BidRows) /\ listing' \in Listings
        /\ ForARecordedBid(offer, bids')
    <3>1. CASE listing.winner_id = b
      BY <2>1, <3>1 DEF EditInv, EditRows
    <3>2. CASE listing.winner_id # b
      <4>1. Smaller(max, NextMinimumBid) \in Nat
        BY <1>0, <2>2 DEF Smaller
      <4> QED
        BY <2>1, <2>2, <3>2, <4>1, RecordKeepsOffer, TRUE \in BOOLEAN
           DEF EditInv, EditRows
    <3> QED
      BY <3>1, <3>2
  <2> QED
    BY <1>2, <2>1, <2>2, <2>4, <2>5, BeginEdits DEF EditInv, EditRows
<1>3. ASSUME NEW b \in Bidders, CancelAutoBid(b), UNCHANGED edit
      PROVE  EditInv'
  <2>1. PICK at \in Stamps :
           autoBids' = [autoBids EXCEPT ![b].active = FALSE, ![b].updatedAt = at]
    BY <1>3 DEF CancelAutoBid
  <2> DEFINE new == [autoBids[b] EXCEPT !.active = FALSE, !.updatedAt = at]
  <2>2. new \in Settings
    BY <1>0, <1>3 DEF EditInv, EditRows, Settings
  <2>3. autoBids' = [autoBids EXCEPT ![b] = new]
    BY <1>0, <1>3, <2>1 DEF EditInv, EditRows, Settings
  <2> HIDE DEF new
  <2> QED
    BY <1>3, <2>2, <2>3 DEF CancelAutoBid, EditInv, EditRows
<1>4. ASSUME NEW b \in Bidders, BidOnEndedAuction(b), UNCHANGED edit
      PROVE  EditInv'
  <2>1. /\ Begin(b, "late_bid", now, "failed") /\ now \in Nat
        /\ UNCHANGED <<bids, autoBids, now>>
        /\ IF offer = NoOffer THEN CloseAuction ELSE UNCHANGED <<listing, offer>>
    BY <1>4 DEF BidOnEndedAuction, EditInv, EditRows
  <2>2. listing' \in Listings /\ ForARecordedBid(offer', bids)
    BY <1>0, <2>1, CloseMakesOffer DEF EditInv, EditRows
  <2>3. ForARecordedBid(offer', bids')
    BY <2>1, <2>2
  <2> QED
    BY <1>4, <2>1, <2>2, <2>3, BeginEdits DEF EditInv, EditRows
<1>5. ASSUME ReadAutoBids, UNCHANGED edit PROVE EditInv'
  <2> DEFINE cs == { Candidate(b, autoBids[b]) :
                       b \in { x \in Bidders : autoBids[x].active } }
  <2>1. cs \in SUBSET Candidates
    <3>1. \A b \in Bidders : autoBids[b] \in Settings
      BY DEF EditInv, EditRows
    <3>2. ASSUME NEW s \in Settings PROVE Larger(s.inc, MinIncrement) \in Nat
      BY MinIncrementAssumption DEF Settings, Larger
    <3>3. ASSUME NEW b \in Bidders PROVE Candidate(b, autoBids[b]) \in Candidates
      BY <3>1, <3>2 DEF Candidates, Candidate, Settings
    <3> QED
      BY <3>3
  <2>2. /\ tx' \in Transactions /\ tx'.phase = "resolving"
        /\ tx.phase = "recorded"
        /\ UNCHANGED <<listing, bids, autoBids, offer, saved, now>>
    BY <1>5, <2>1 DEF ReadAutoBids, EditInv, EditRows, Transactions
  <2> HIDE DEF cs
  <2> QED
    BY <1>5, <2>1, <2>2 DEF EditInv, EditRows
<1>6. ASSUME Respond, UNCHANGED edit PROVE EditInv'
  <2>1. PICK c \in tx.candidates :
           RecordBid(c.bidder,
                     TargetAmount(c, listing.current_bid, listing.winner_id,
                                  tx.candidates), TRUE, tx.at)
    BY <1>6 DEF Respond
  <2>2. /\ c \in Candidates /\ c.bidder \in Bidders
        /\ c \in [bidder : Nat, max : Nat, inc : Nat, updatedAt : Nat]
        /\ listing.current_bid \in Nat /\ tx.at \in Nat
    BY <2>1, AuctionAssumption
       DEF EditInv, EditRows, Candidates, Listings, Transactions
  <2>3. TargetAmount(c, listing.current_bid, listing.winner_id, tx.candidates) \in Nat
    BY <2>2, TargetWithinMax
  <2>4. /\ bids' \in Seq(BidRows) /\ listing' \in Listings
        /\ ForARecordedBid(offer, bids')
    BY <2>1, <2>2, <2>3, RecordKeepsOffer, TRUE \in BOOLEAN DEF EditInv, EditRows
  <2>5. /\ tx' \in Transactions /\ tx.phase = "resolving"
        /\ UNCHANGED <<autoBids, offer, saved, now>>
    <3>1. tx' = [tx EXCEPT !.rounds = tx.rounds + 1] /\ tx.rounds + 1 \in Nat
      BY <1>6 DEF Respond, EditInv, EditRows, Transactions
    <3> QED
      BY <1>6, <3>1 DEF Respond, EditInv, EditRows, Transactions
  <2> QED
    BY <1>6, <2>4, <2>5 DEF EditInv, EditRows
<1>7. ASSUME Commit \/ Rollback, UNCHANGED edit PROVE EditInv'
  <2>0. tx' = Idle /\ saved' = NothingSaved
    BY <1>7 DEF Commit, Rollback
  <2>1. /\ tx'.phase = "idle" /\ tx' \in Transactions
        /\ saved'.listing = NewListing /\ saved'.bids = << >>
        /\ saved'.offer = NoOffer /\ saved'.setting = NoSetting
        /\ saved'.listing \in Listings /\ saved'.setting \in Settings
    <3>1. NewListing \in Listings
      BY AuctionAssumption DEF NewListing, Listings
    <3>2. NoSetting \in Settings
      BY DEF NoSetting, Settings
    <3>3. Idle \in Transactions /\ Idle.phase = "idle"
      BY DEF Idle, Transactions
    <3>4. /\ NothingSaved.listing = NewListing /\ NothingSaved.bids = << >>
          /\ NothingSaved.offer = NoOffer /\ NothingSaved.setting = NoSetting
      BY DEF NothingSaved
    <3> QED
      BY <2>0, <3>1, <3>2, <3>3, <3>4
  <2>2. CASE Commit
    BY <1>7, <2>1, <2>2 DEF Commit, EditInv, EditRows, ForARecordedBid
  <2>3. CASE Rollback
    <3>1. autoBids' \in [Bidders -> Settings]
      BY <2>3 DEF Rollback, EditInv, EditRows
    <3> QED
      BY <1>7, <2>1, <2>3, <3>1 DEF Rollback, EditInv, EditRows, ForARecordedBid
  <2> QED
    BY <1>7, <2>2, <2>3
<1>8. ASSUME NEW force \in BOOLEAN, CloseEndedActiveListing(force), UNCHANGED edit
      PROVE  EditInv'
  <2>1. /\ CloseAuction /\ offer = NoOffer /\ tx.phase = "idle"
        /\ UNCHANGED <<bids, autoBids, tx, saved, now>>
    BY <1>8 DEF CloseEndedActiveListing
  <2>2. listing' \in Listings /\ ForARecordedBid(offer', bids)
    BY <1>0, <2>1, CloseMakesOffer
  <2>3. ForARecordedBid(offer', bids')
    BY <2>1, <2>2
  <2> QED
    BY <1>8, <2>1, <2>2, <2>3 DEF EditInv, EditRows
<1>9. ASSUME Tick, UNCHANGED edit PROVE EditInv'
  BY <1>9 DEF Tick, EditInv, EditRows
<1>10. ASSUME NEW op, ReadListing(op) PROVE EditInv'
  <2>1. edit'.row \in Listings /\ UNCHANGED vars
    BY <1>10 DEF ReadListing, CommittedListing, EditInv, EditRows
  <2> QED
    BY <2>1 DEF vars, EditInv, EditRows
<1>11. ASSUME WriteListing PROVE EditInv'
  <2>1. listing' \in Listings /\ edit'.row \in Listings
    BY <1>11, AuctionAssumption
       DEF WriteListing, NoEdit, NewListing, Listings, EditInv, EditRows
  <2> QED
    BY <1>11, <2>1 DEF WriteListing, EditInv, EditRows
<1>12. ASSUME CompletePayment, UNCHANGED edit PROVE EditInv'
  <2>1. listing' = [listing EXCEPT !.current_bid = offer.amount] /\ tx.phase = "idle"
    BY <1>12 DEF CompletePayment
  <2>2. offer.amount \in Nat
    <3>1. offer # NoOffer /\ bids \in Seq(BidRows)
      BY <1>0, <1>12 DEF CompletePayment, EditRows
    <3>2. PICK i \in 1 .. Len(bids) : bids[i].amount = offer.amount
      BY <3>1 DEF EditInv, ForARecordedBid
    <3>3. bids[i] \in BidRows
      BY <3>1, <3>2
    <3> QED
      BY <3>2, <3>3 DEF BidRows
  <2>3. listing' \in Listings
    BY <1>0, <2>1, <2>2 DEF EditRows, Listings
  <2>4. ForARecordedBid(offer', bids')
    BY <1>12 DEF CompletePayment, Resolve, ForARecordedBid
  <2> QED
    BY <1>12, <2>1, <2>3, <2>4 DEF CompletePayment, EditInv, EditRows
<1>13. ASSUME ProcessOverduePayment, UNCHANGED edit PROVE EditInv'
  <2>1. listing' \in Listings
    BY <1>0, <1>13 DEF ProcessOverduePayment, EditRows, Listings
  <2>2. ForARecordedBid(offer', bids')
    BY <1>13 DEF ProcessOverduePayment, Resolve, EditInv, ForARecordedBid
  <2>3. tx'.phase = "idle"
    BY <1>13 DEF ProcessOverduePayment
  <2> QED
    BY <1>13, <2>1, <2>2, <2>3 DEF ProcessOverduePayment, EditInv, EditRows
<1>14. CASE FindSold
  BY <1>14 DEF FindSold, vars, editing, EditInv, EditRows
<1>15. CASE AbandonEdit \/ UNCHANGED editVars
  <2>1. edit'.row \in Listings /\ UNCHANGED vars
    BY <1>15, AuctionAssumption
       DEF AbandonEdit, NoEdit, NewListing, Listings, editVars, EditInv, EditRows
  <2> QED
    BY <2>1 DEF vars, EditInv, EditRows
<1> QED
  BY <1>1, <1>2, <1>3, <1>4, <1>5, <1>6, <1>7, <1>8, <1>9, <1>10, <1>11, <1>12,
     <1>13, <1>14, <1>15
     DEF EditNext, Next, AuctionGoesOn, CompletePayment, ProcessOverduePayment,
         editing

LEMMA EditInvariance == EditSpec => []EditInv
<1>1. EditInit => EditInv
  BY AuctionAssumption
     DEF EditInit, Init, EditInv, EditRows, ForARecordedBid, NewListing,
         NothingSaved, NoSetting, NoEdit, Idle, Listings, Settings,
         Transactions
<1>2. EditInv /\ [EditNext]_editVars => EditInv'
  BY EditStep
<1> QED
  BY <1>1, <1>2, PTL DEF EditSpec

\* An offer is always for a bid that was really placed, by that bidder and at
\* that amount, whatever stale rows administrators write back.
THEOREM OffersAreForRecordedBids == EditSpec => []OfferIsForARecordedBid
<1>1. EditInv => OfferIsForARecordedBid
  BY DEF EditInv, EditRows, ForARecordedBid, OfferIsForARecordedBid
<1> QED
  BY <1>1, EditInvariance, PTL

(***************************************************************************)
(* A pending offer stands as it was made, its deadline included, until it  *)
(* is paid in time or expires (closeEndedActiveListing, completePayment,   *)
(* expireOverduePaymentAndListing): no closing of a listing that a stale   *)
(* write made active again replaces or repeats it.                         *)
(***************************************************************************)
THEOREM OpenOffersStand == EditSpec => OpenOfferStands
<1> DEFINE Stands == UNCHANGED <<CommittedOffer, due, resolved>>
           Paid == /\ CommittedOffer' = NoOffer
                   /\ resolved' = Append(resolved, Payment(CommittedOffer,
                          IF Overdue THEN "expired" ELSE "successful"))
           Allowed == IF CommittedOffer = NoOffer THEN resolved' = resolved
                      ELSE Stands \/ Paid
<1>1. ASSUME EditInv, [EditNext]_editVars PROVE Allowed
  <2>1. ASSUME Next, AuctionGoesOn PROVE Allowed
    <3>0. resolved' = resolved
      BY <2>1 DEF AuctionGoesOn
    <3> SUFFICES ASSUME CommittedOffer # NoOffer
                 PROVE  offer' = offer /\ CommittedOffer' = CommittedOffer
      BY <2>1, <3>0 DEF AuctionGoesOn
    <3>1. offer = CommittedOffer
      BY <1>1 DEF CommittedOffer, EditInv, EditRows, Transactions
    <3>2. ASSUME NEW b \in Bidders, NEW op, NEW at, NEW phase, phase # "idle",
                 tx.phase = "idle", Begin(b, op, at, phase)
          PROVE  CommittedOffer' = CommittedOffer
      BY <3>2 DEF Begin, Idle, CommittedOffer
    <3>3. ASSUME NEW b \in Bidders, NEW amount \in Amounts, PlaceBid(b, amount)
          PROVE  offer' = offer /\ CommittedOffer' = CommittedOffer
      BY <3>2, <3>3 DEF PlaceBid, Biddable
    <3>4. ASSUME NEW b \in Bidders, NEW max \in Amounts, NEW inc \in Increments,
                 SetAutoBid(b, max, inc)
          PROVE  offer' = offer /\ CommittedOffer' = CommittedOffer
      BY <3>2, <3>4 DEF SetAutoBid, Biddable
    <3>5. ASSUME NEW b \in Bidders, BidOnEndedAuction(b)
          PROVE  offer' = offer /\ CommittedOffer' = CommittedOffer
      BY <3>1, <3>2, <3>5 DEF BidOnEndedAuction
    <3>6. ASSUME NEW force \in BOOLEAN, CloseEndedActiveListing(force) PROVE FALSE
      BY <3>1, <3>6 DEF CloseEndedActiveListing
    <3>7. CASE Commit
      BY <3>1, <3>7 DEF Commit, CommittedOffer, Idle
    <3>8. CASE Rollback
      BY <3>1, <3>8 DEF Rollback, CommittedOffer, Idle
    <3>9. CASE ReadAutoBids \/ Respond
      BY <1>1, <3>9
         DEF ReadAutoBids, Respond, CommittedOffer, EditInv, EditRows, Transactions
    <3>10. ASSUME NEW b \in Bidders, CancelAutoBid(b)
           PROVE  offer' = offer /\ CommittedOffer' = CommittedOffer
      BY <3>10 DEF CancelAutoBid, CommittedOffer
    <3>11. CASE Tick
      BY <3>11 DEF Tick, CommittedOffer
    <3> QED
      BY <2>1, <3>3, <3>4, <3>5, <3>6, <3>7, <3>8, <3>9, <3>10, <3>11 DEF Next
  <2>2. CASE CompletePayment
    <3>1. /\ CommittedOffer = offer /\ CommittedOffer' = NoOffer /\ offer # NoOffer
          /\ ~ Overdue /\ resolved' = Append(resolved, Payment(offer, "successful"))
      BY <2>2 DEF CompletePayment, Resolve, CommittedOffer
    <3> QED
      BY <3>1
  <2>3. CASE ProcessOverduePayment
    <3>1. CommittedOffer = offer /\ CommittedOffer' = offer'
      BY <2>3 DEF ProcessOverduePayment, CommittedOffer
    <3>2. CASE offer # NoOffer /\ Overdue
      <4>1. /\ offer' = NoOffer
            /\ resolved' = Append(resolved, Payment(offer, "expired"))
        BY <2>3, <3>2 DEF ProcessOverduePayment, Resolve
      <4> QED
        BY <3>1, <3>2, <4>1
    <3>3. CASE ~ (offer # NoOffer /\ Overdue)
      BY <2>3, <3>1, <3>3 DEF ProcessOverduePayment
    <3> QED
      BY <3>2, <3>3
  <2>4. CASE \/ WriteListing \/ AbandonEdit \/ FindSold \/ UNCHANGED editVars
             \/ \E op \in {"details", "delete"} : ReadListing(op)
    BY <2>4
       DEF WriteListing, AbandonEdit, ReadListing, FindSold, editVars, vars,
           paying, editing, CommittedOffer
  <2> QED
    BY <1>1, <2>1, <2>2, <2>3, <2>4 DEF EditNext
<1>2. EditInv /\ [EditNext]_editVars =>
        [IF CommittedOffer = NoOffer
         THEN resolved' = resolved
         ELSE \/ UNCHANGED <<CommittedOffer, due, resolved>>
              \/ /\ CommittedOffer' = NoOffer
                 /\ resolved' = Append(resolved, Payment(CommittedOffer,
                        IF Overdue THEN "expired" ELSE "successful"))]_editVars
  BY <1>1
<1> QED
  BY <1>2, EditInvariance, PTL DEF EditSpec, OpenOfferStands

-----------------------------------------------------------------------------
(***************************************************************************)
(* How often the item is offered.  An offer is made of a listing that is   *)
(* active, and the closing ends that; only an edit that has read an active *)
(* listing can bring it back.  CountInv counts the offers made together    *)
(* with the one an active row, and the one a row in memory, still allows.  *)
(***************************************************************************)
OneIf(p) == IF p THEN 1 ELSE 0

\* The same of the rows as they are and as ROLLBACK would restore them.
Open == OneIf(offer # NoOffer) + OneIf(listing.status = "active")
SavedOpen == OneIf(saved.offer # NoOffer) + OneIf(saved.listing.status = "active")
Stale == OneIf(/\ edit # NoEdit /\ edit.op # "delete"
               /\ edit.row.status = "active")

Payments == [bidder : Bidders, amount : Nat, status : {"successful", "expired"}]

CountInv ==
    /\ resolved \in Seq(Payments) /\ edits \in Nat
    /\ Len(resolved) + Open + Stale <= 1 + edits
    /\ tx.phase # "idle" => Len(resolved) + SavedOpen + Stale <= 1 + edits

LEMMA CountsTyped ==
    /\ Open \in Nat /\ SavedOpen \in Nat /\ Stale \in Nat
    /\ Open' \in Nat /\ SavedOpen' \in Nat /\ Stale' \in Nat
BY DEF Open, SavedOpen, Stale, OneIf

LEMMA PaymentTyped ==
    ASSUME EditInv, offer # NoOffer, NEW status \in {"successful", "expired"}
    PROVE  Payment(offer, status) \in Payments
<1>1. PICK i \in 1 .. Len(bids) :
         bids[i].bidder = offer.bidder /\ bids[i].amount = offer.amount
  BY DEF EditInv, ForARecordedBid
<1>2. bids[i] \in BidRows
  BY <1>1 DEF EditInv, EditRows
<1> QED
  BY <1>1, <1>2 DEF Payment, Payments, BidRows

LEMMA RecordKeepsStatus ==
    ASSUME listing \in Listings, NEW b, NEW amount, NEW auto, NEW at,
           RecordBid(b, amount, auto, at)
    PROVE  listing'.status = listing.status
BY DEF RecordBid, Listings

\* A closing takes the active row away before the offer comes.
LEMMA CloseCounts ==
    ASSUME listing \in Listings, listing.status = "active", offer = NoOffer,
           CloseAuction
    PROVE  Open' <= Open
<1>1. Open = 1
  BY DEF Open, OneIf
<1>2. listing'.status # "active"
  BY DEF CloseAuction, Listings
<1>3. Open' = OneIf(offer' # NoOffer)
  BY <1>2 DEF Open, OneIf
<1> QED
  BY <1>1, <1>3 DEF OneIf

\* What the steps of Auction do to the rows and to what they would restore.
LEMMA AuctionCounts ==
    ASSUME EditInv, Next
    PROVE  /\ \/ Open' <= Open
              \/ tx.phase # "idle" /\ Open' = SavedOpen
           /\ \/ tx'.phase = "idle"
              \/ tx.phase # "idle" /\ SavedOpen' = SavedOpen
              \/ SavedOpen' = Open
<1> USE DEF EditInv, EditRows
<1>1. ASSUME NEW b \in Bidders, NEW op, NEW at, NEW phase, Begin(b, op, at, phase)
      PROVE  SavedOpen' = Open
  BY <1>1 DEF Begin, SavedOpen, Open
<1>2. ASSUME UNCHANGED offer, listing'.status = listing.status
      PROVE  Open' <= Open
  BY <1>2, CountsTyped DEF Open
<1>3. ASSUME UNCHANGED saved PROVE SavedOpen' = SavedOpen
  BY <1>3 DEF SavedOpen
<1>4. ASSUME NEW b \in Bidders, NEW amount \in Amounts, PlaceBid(b, amount)
      PROVE  Open' <= Open /\ SavedOpen' = Open
  BY <1>1, <1>2, <1>4, RecordKeepsStatus DEF PlaceBid
<1>5. ASSUME NEW b \in Bidders, NEW max \in Amounts, NEW inc \in Increments,
             SetAutoBid(b, max, inc)
      PROVE  Open' <= Open /\ SavedOpen' = Open
  BY <1>1, <1>2, <1>5, RecordKeepsStatus DEF SetAutoBid
<1>6. ASSUME NEW b \in Bidders, BidOnEndedAuction(b)
      PROVE  Open' <= Open /\ SavedOpen' = Open
  BY <1>1, <1>2, <1>6, CloseCounts DEF BidOnEndedAuction
<1>7. ASSUME NEW b \in Bidders, CancelAutoBid(b)
      PROVE  Open' <= Open /\ UNCHANGED tx /\ SavedOpen' = SavedOpen
  BY <1>2, <1>3, <1>7 DEF CancelAutoBid
<1>8. ASSUME ReadAutoBids \/ Respond
      PROVE  Open' <= Open /\ tx.phase # "idle" /\ SavedOpen' = SavedOpen
  BY <1>2, <1>3, <1>8, RecordKeepsStatus DEF ReadAutoBids, Respond
<1>9. ASSUME Commit PROVE Open' <= Open /\ tx'.phase = "idle"
  BY <1>2, <1>9 DEF Commit, Idle
<1>10. ASSUME Rollback
       PROVE  tx.phase # "idle" /\ Open' = SavedOpen /\ tx'.phase = "idle"
  BY <1>10 DEF Rollback, Idle, Open, SavedOpen
<1>11. ASSUME NEW force \in BOOLEAN, CloseEndedActiveListing(force)
       PROVE  Open' <= Open /\ tx'.phase = "idle"
  BY <1>11, CloseCounts DEF CloseEndedActiveListing
<1>12. ASSUME Tick PROVE Open' <= Open /\ UNCHANGED tx /\ SavedOpen' = SavedOpen
  BY <1>2, <1>3, <1>12 DEF Tick
<1> QED
  BY <1>4, <1>5, <1>6, <1>7, <1>8, <1>9, <1>10, <1>11, <1>12 DEF Next

LEMMA CountStep ==
    ASSUME EditInv, CountInv, [EditNext]_editVars
    PROVE  CountInv'
<1>0. Len(resolved) \in Nat /\ edits \in Nat
  BY DEF CountInv
<1>1. ASSUME Next, AuctionGoesOn PROVE CountInv'
  <2>1. UNCHANGED <<edit, edits, resolved>> /\ Stale' = Stale
    BY <1>1 DEF AuctionGoesOn, editing, Stale
  <2> QED
    BY <1>0, <1>1, <2>1, AuctionCounts, CountsTyped DEF CountInv
<1>2. ASSUME NEW op \in {"details", "delete"}, ReadListing(op) PROVE CountInv'
  <2>1. /\ edits' = edits + 1 /\ UNCHANGED <<resolved, tx>> /\ Open' = Open
        /\ SavedOpen' = SavedOpen
    BY <1>2 DEF ReadListing, vars, paying, Open, SavedOpen
  <2>2. Stale' <= Stale + 1
    BY DEF Stale, OneIf
  <2> QED
    BY <1>0, <2>1, <2>2, CountsTyped DEF CountInv
<1>3. ASSUME WriteListing PROVE CountInv'
  <2>1. UNCHANGED <<edits, resolved>> /\ tx'.phase = "idle" /\ UNCHANGED offer
    BY <1>3 DEF WriteListing, paying
  <2>2. Stale' = 0
    BY <1>3 DEF WriteListing, Stale, OneIf
  <2>3. listing'.status = "active" => Stale = 1
    <3>1. edit.row \in Listings
      BY DEF EditInv, EditRows
    <3> QED
      BY <1>3, <3>1 DEF WriteListing, Stale, OneIf, Listings
  <2>4. Open' <= Open + Stale
    BY <2>1, <2>3, CountsTyped DEF Open, OneIf
  <2> QED
    BY <1>0, <2>1, <2>2, <2>4, CountsTyped DEF CountInv
<1>4. ASSUME CompletePayment \/ (ProcessOverduePayment /\ resolved' # resolved)
      PROVE  CountInv'
  <2>1. /\ UNCHANGED <<edit, edits>> /\ tx'.phase = "idle" /\ Stale' = Stale
        /\ offer # NoOffer /\ offer' = NoOffer
    BY <1>4 DEF CompletePayment, ProcessOverduePayment, Resolve, editing, Stale
  <2>2. listing'.status # "active"
    BY <1>4 DEF CompletePayment, ProcessOverduePayment, EditInv, EditRows, Listings
  <2>3. PICK status \in {"successful", "expired"} :
           resolved' = Append(resolved, Payment(offer, status))
    BY <1>4 DEF CompletePayment, ProcessOverduePayment, Resolve
  <2>4. resolved' \in Seq(Payments) /\ Len(resolved') = Len(resolved) + 1
    BY <2>1, <2>3, PaymentTyped DEF CountInv
  <2>5. Open' = 0 /\ Open >= 1
    BY <2>1, <2>2, CountsTyped DEF Open, OneIf
  <2> QED
    BY <1>0, <2>1, <2>4, <2>5, CountsTyped DEF CountInv
<1>5. ASSUME ProcessOverduePayment, resolved' = resolved PROVE CountInv'
  <2>1. UNCHANGED <<listing, offer, edit, edits, resolved, tx, saved>>
    <3>1. CASE offer # NoOffer /\ Overdue
      <4>1. resolved' = Append(resolved, Payment(offer, "expired"))
        BY <1>5, <3>1 DEF ProcessOverduePayment, Resolve
      <4>2. Len(resolved') = Len(resolved) + 1
        BY <3>1, <4>1, PaymentTyped DEF CountInv
      <4> QED
        BY <1>0, <1>5, <4>2
    <3>2. CASE ~ (offer # NoOffer /\ Overdue)
      BY <1>5, <3>2 DEF ProcessOverduePayment, editing
    <3> QED
      BY <3>1, <3>2
  <2> QED
    BY <2>1 DEF CountInv, Open, SavedOpen, Stale
<1>6. CASE FindSold \/ UNCHANGED editVars
  BY <1>6 DEF FindSold, editVars, vars, editing, CountInv, Open, SavedOpen, Stale
<1>7. ASSUME AbandonEdit PROVE CountInv'
  <2>1. UNCHANGED <<edits, resolved, tx>> /\ Open' = Open /\ SavedOpen' = SavedOpen
    BY <1>7 DEF AbandonEdit, vars, paying, Open, SavedOpen
  <2>2. Stale' = 0
    BY <1>7 DEF AbandonEdit, Stale, OneIf
  <2> QED
    BY <1>0, <2>1, <2>2, CountsTyped DEF CountInv
<1> QED
  BY <1>1, <1>2, <1>3, <1>4, <1>5, <1>6, <1>7 DEF EditNext

(***************************************************************************)
(* However many requests, closings, payments and expiries there are, the   *)
(* item is offered once and at most once more for each administrator's     *)
(* request: a second offer, which the pending-only check of                *)
(* closeEndedActiveListing cannot prevent, always takes a stale write.      *)
(***************************************************************************)
THEOREM NoSecondOfferWithoutEdit == EditSpec => []FurtherOffersTakeEdits
<1>1. EditInit => CountInv
  <2> SUFFICES ASSUME EditInit PROVE CountInv
    OBVIOUS
  <2>1. /\ resolved = << >> /\ edits = 0 /\ tx.phase = "idle" /\ offer = NoOffer
        /\ edit = NoEdit
    BY DEF EditInit, Init, Idle
  <2>2. Open <= 1 /\ Stale = 0 /\ Len(resolved) = 0
    BY <2>1 DEF Open, Stale, OneIf
  <2> QED
    BY <2>1, <2>2, CountsTyped DEF CountInv
<1>2. EditInv /\ CountInv /\ [EditNext]_editVars => CountInv'
  BY CountStep
<1>3. EditInv /\ CountInv => FurtherOffersTakeEdits
  <2> SUFFICES ASSUME EditInv, CountInv PROVE FurtherOffersTakeEdits
    OBVIOUS
  <2>1. Len(resolved) \in Nat /\ edits \in Nat
    BY DEF CountInv
  <2>2. CASE tx.phase = "idle"
    <3>1. OffersMade = Len(resolved) + OneIf(offer # NoOffer)
      BY <2>2 DEF OffersMade, CommittedOffer, OneIf
    <3>2. OneIf(offer # NoOffer) <= Open
      BY DEF Open, OneIf
    <3> QED
      BY <2>1, <3>1, <3>2, CountsTyped DEF CountInv, FurtherOffersTakeEdits, OneIf
  <2>3. CASE tx.phase # "idle"
    <3>1. OffersMade = Len(resolved) + OneIf(saved.offer # NoOffer)
      BY <2>3 DEF OffersMade, CommittedOffer, OneIf
    <3>2. OneIf(saved.offer # NoOffer) <= SavedOpen
      BY DEF SavedOpen, OneIf
    <3> QED
      BY <2>1, <2>3, <3>1, <3>2, CountsTyped DEF CountInv, FurtherOffersTakeEdits, OneIf
  <2> QED
    BY <2>2, <2>3
<1> QED
  BY <1>1, <1>2, <1>3, EditInvariance, PTL DEF EditSpec
=============================================================================
