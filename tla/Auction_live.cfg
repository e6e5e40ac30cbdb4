SPECIFICATION FairSpec
CONSTANTS
    Bidders = {1, 2}
    Donor = 3
    StartingPrice = 1
    MinIncrement = 1
    Amounts = {3, 4, 5}
    Increments = {2}
    StartTime = 0
    EndTime = 1
    MaxClock = 1
    LockWait = 1
    ResponseLimit = 10000
PROPERTIES
    ResolutionEnds
    EndedAuctionCloses
CHECK_DEADLOCK FALSE
