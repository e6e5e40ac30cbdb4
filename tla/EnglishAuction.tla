--------------------------- MODULE EnglishAuction ---------------------------
(***************************************************************************)
(* What the bidding service promises its users, without transactions,      *)
(* settings or clocks: an open ascending auction.  The price only rises,   *)
(* by at least the donor's increment; at an unchanged price the lead may   *)
(* pass to a bidder who then also stands at that price; once the auction   *)
(* is over nothing moves, and it is awarded at the final price to one of   *)
(* the bidders standing at it.                                             *)
(***************************************************************************)
EXTENDS Integers

CONSTANTS Bidder, NoOne, Increment, Opening

VARIABLES state,        \* "open", "sold" or "expired"
          price,        \* the highest bid
          leader,       \* who is shown as winning
          contenders    \* the bidders who have bid exactly the price

vars == <<state, price, leader, contenders>>

Init ==
    /\ state = "open"
    /\ price = Opening
    /\ leader = NoOne
    /\ contenders = {}

Raise ==
    /\ state = "open"
    /\ price' >= price + Increment
    /\ contenders' \subseteq Bidder
    /\ leader' \in contenders'
    /\ UNCHANGED state

Handover ==
    /\ state = "open"
    /\ leader # NoOne
    /\ contenders \subseteq contenders'
    /\ contenders' \subseteq Bidder
    /\ leader' \in contenders'
    /\ UNCHANGED <<state, price>>

Award ==
    /\ state = "open"
    /\ state' = "sold"
    /\ leader' \in contenders
    /\ UNCHANGED <<price, contenders>>

Expire ==
    /\ state = "open"
    /\ leader = NoOne
    /\ state' = "expired"
    /\ UNCHANGED <<price, leader, contenders>>

Next == Raise \/ Handover \/ Award \/ Expire

Spec == Init /\ [][Next]_vars
=============================================================================
