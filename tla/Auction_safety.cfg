SPECIFICATION Spec
CONSTANTS
    Bidders = {1, 2, 3}
    Donor = 4
    StartingPrice = 1
    MinIncrement = 1
    Amounts = {3, 4}
    Increments = {2}
    StartTime = 0
    EndTime = 2
    MaxClock = 2
    LockWait = 0
    ResponseLimit = 10000
INVARIANTS
    TypeOK
    RowAgreesWithBids
    PublicLadder
    AutoBidsWithinMax
    StableWinner
    OfferMatchesHighestBid
PROPERTY
    ImplementsEnglishAuction
CHECK_DEADLOCK FALSE
