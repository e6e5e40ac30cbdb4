---------------------------- MODULE ResolveLoop ----------------------------
(***************************************************************************)
(* The loop of resolveAutoBids (backend/src/services/bid.service.ts) on    *)
(* its own: the listing row is locked and the settings were read once, so  *)
(* a call is a sequential run from a price, a leader and a set of          *)
(* candidates.  Auction.tla has the same loop among the other requests;    *)
(* here it can be given every start and the limit of 10 000 responses.     *)
(***************************************************************************)
EXTENDS ProxyBidding

CONSTANTS
    Bidders,            \* bidders of the listing
    Maxima,             \* private maximums (bound)
    Increments,         \* auto-bid increments (bound)
    Times,              \* instants at which settings were saved (bound)
    Prices,             \* prices a call may start from (bound)
    ResponseLimit       \* the loop guard: 10_000

ASSUME ResolveLoopAssumption ==
    /\ Bidders \subseteq Nat /\ Maxima \subseteq Nat /\ Increments \subseteq Nat
    /\ Times \subseteq Nat /\ Prices \subseteq Nat
    /\ ResponseLimit \in Nat \ {0}

VARIABLES
    start,              \* where this call started
    price,              \* listing.current_bid
    leader,             \* listing.winner_id
    rounds,             \* the loop counter guard
    returned            \* resolveAutoBids has returned

vars == <<start, price, leader, rounds, returned>>

candidates == start.candidates

(***************************************************************************)
(* Calls come after a bid on an auction that was stable before: at most    *)
(* one other candidate (the leader of before) reaches the new price.  When *)
(* the leader changes a setting there is no bid, and nobody else can make  *)
(* the next legal bid.                                                     *)
(***************************************************************************)
IsCallable(s) ==
    LET others == { c \in s.candidates : c.bidder # s.leader }
    IN  /\ \A c, d \in s.candidates : c.bidder = d.bidder => c = d
        /\ \/ \A c, d \in others :
                 c.max >= s.price /\ d.max >= s.price => c = d
           \/ \A c \in others : c.max < s.price + MinIncrement

Settings == [max : Maxima, inc : Increments, updatedAt : Times]

Init ==
    /\ \E S \in SUBSET Bidders, p \in Prices, l \in Bidders :
          \E setting \in [S -> Settings] :
             start = [price |-> p, leader |-> l,
                      candidates |-> { Candidate(b, setting[b]) : b \in S }]
    /\ IsCallable(start)
    /\ price = start.price
    /\ leader = start.leader
    /\ rounds = 0
    /\ returned = FALSE

Respond ==
    /\ ~ returned
    /\ rounds < ResponseLimit
    /\ \E c \in candidates :
          /\ IsNextCandidate(c, price, leader, candidates)
          /\ IsLegalResponse(c, price, leader, candidates)
          /\ price' = TargetAmount(c, price, leader, candidates)
          /\ leader' = c.bidder
    /\ rounds' = rounds + 1
    /\ UNCHANGED <<start, returned>>

Return ==
    /\ ~ returned
    /\ \/ rounds = ResponseLimit
       \/ Settled(price, leader, candidates)
    /\ returned' = TRUE
    /\ UNCHANGED <<start, price, leader, rounds>>

Next == Respond \/ Return

Spec == Init /\ [][Next]_vars

-----------------------------------------------------------------------------
(***************************************************************************)
(* "Resolve automatic bidding until the auction reaches a stable winner":  *)
(* when the call returns nobody can answer any more.                       *)
(***************************************************************************)
StableOnReturn ==
    returned => Responders(price, leader, candidates) = {}

(***************************************************************************)
(* A same-price handover is the last response of a call: the comment on    *)
(* the loop guard counts on "one final same-price tie-priority handover".  *)
(***************************************************************************)
HandoverIsFinal ==
    [][price' = price /\ leader' # leader =>
          Settled(price', leader', candidates')]_vars

(***************************************************************************)
(* Nobody pays more than the competition required: an automatic response   *)
(* leaves the price at most one step of the winner's own increment above   *)
(* everything the others were ready to pay.                                *)
(***************************************************************************)
NoNeedlessRaise ==
    returned /\ rounds > 0 =>
        \E w \in candidates :
            /\ w.bidder = leader
            /\ price <= w.max
            /\ \/ price <= start.price + w.inc
               \/ \E c \in candidates :
                     c.bidder # leader /\ price <= c.max + w.inc

(***************************************************************************)
(* The number of responses is bounded by the distance the price travelled  *)
(* and one handover: this is what ends the loop.                           *)
(***************************************************************************)
RoundsBounded == (rounds - 1) * MinIncrement <= price - start.price
=============================================================================
