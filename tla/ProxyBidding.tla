---------------------------- MODULE ProxyBidding ----------------------------
(***************************************************************************)
(* The rules of automatic ("proxy") bidding in                             *)
(* backend/src/services/bid.service.ts: which auto-bid setting answers the *)
(* public price next and with how much.  Every operator here is a pure     *)
(* function of its arguments; Auction.tla runs the loop against the        *)
(* database rows, ResolveLoop.tla runs it on its own.                      *)
(*                                                                         *)
(* Money is an integer number of cents: roundMoney keeps every amount of   *)
(* the service on that grid.                                               *)
(***************************************************************************)
EXTENDS Integers

CONSTANT MinIncrement       \* listings.min_increment, chosen by the donor

ASSUME MinIncrementAssumption == MinIncrement \in Nat \ {0}

NoBidder == 0               \* listings.winner_id IS NULL

Larger(a, b)  == IF a >= b THEN a ELSE b
Smaller(a, b) == IF a <= b THEN a ELSE b

(***************************************************************************)
(* A candidate is an active auto_bids row as resolveAutoBids reads it.     *)
(***************************************************************************)
Candidate(b, setting) ==
    [bidder    |-> b,
     max       |-> setting.max,
     inc       |-> Larger(setting.inc, MinIncrement),
     updatedAt |-> setting.updatedAt]

\* compareAutoBidPriority(a, b) < 0
Outranks(a, b) ==
    \/ a.max > b.max
    \/ a.max = b.max /\ a.updatedAt < b.updatedAt
    \/ a.max = b.max /\ a.updatedAt = b.updatedAt /\ a.bidder < b.bidder

\* Variant of CanTakeTiePriority that forgets to compare with the leader's
\* own setting.
TakesAnyTie(c, price, leader, candidates) == c.max = price

\* A candidate whose maximum has just been matched takes the lead over at the
\* same price, unless the leader's own auto-bid has priority over it.
CanTakeTiePriority(c, price, leader, candidates) ==
    /\ c.max = price
    /\ \A w \in candidates : w.bidder = leader => Outranks(c, w)

\* Variant of Responders that asks for a full step of the bidder's own
\* increment.
RespondersByOwnStep(price, leader, candidates) ==
    { c \in candidates : c.bidder # leader /\ c.max >= price + c.inc }

Responders(price, leader, candidates) ==
    { c \in candidates :
        /\ c.bidder # leader
        /\ \/ c.max >= price + MinIncrement
           \/ CanTakeTiePriority(c, price, leader, candidates) }

\* The head of the filtered candidates after the sort by priority.
IsNextCandidate(c, price, leader, candidates) ==
    /\ c \in Responders(price, leader, candidates)
    /\ \A d \in Responders(price, leader, candidates) \ {c} : Outranks(c, d)

\* Variant of TargetAmount that goes straight to the private maximum.
TargetIsMaximum(c, price, leader, candidates) == c.max

TargetAmount(c, price, leader, candidates) ==
    IF CanTakeTiePriority(c, price, leader, candidates)
    THEN price
    ELSE Smaller(c.max, price + c.inc)

\* What the three early returns after the target is computed let through.
IsLegalResponse(c, price, leader, candidates) ==
    LET target == TargetAmount(c, price, leader, candidates)
        tie    == CanTakeTiePriority(c, price, leader, candidates)
    IN  /\ target >= price
        /\ tie \/ target >= price + MinIncrement
        /\ tie \/ target # price

\* Variants of Settled: one looks at the bidders' own increments, one only
\* stops when there is no setting at all.
SettledByOwnStep(price, leader, candidates) ==
    RespondersByOwnStep(price, leader, candidates) = {}
SettledWhenNobodyIsLeft(price, leader, candidates) == candidates = {}

\* The loop has nothing left to do.
Settled(price, leader, candidates) ==
    \/ Responders(price, leader, candidates) = {}
    \/ \E c \in candidates :
          /\ IsNextCandidate(c, price, leader, candidates)
          /\ ~ IsLegalResponse(c, price, leader, candidates)
=============================================================================
