SPECIFICATION FairSpec
CONSTANTS
    Me = me
    Others = {b1}
    NoBidder = none
    MaxPrice = 2
    MaxBids = 3
    MaxDrops = 1
INVARIANTS
    ShowsACommittedBid
    ListedOnce
    CountedOnce
PROPERTIES
    OwnBidAppears
    BroadcastBidAppears
CHECK_DEADLOCK FALSE
