SPECIFICATION EditSpec
CONSTANTS
    Bidders = {1, 2}
    Donor = 3
    StartingPrice = 2
    MinIncrement = 2
    Amounts <- MCAmounts
    Increments = {2}
    StartTime = 0
    EndTime = 1
    MaxClock = 1
    LockWait = 0
    MaxEdits = 1
    PaymentWindow = 1
    ResponseLimit = 10000
INVARIANT
    OfferIsForARecordedBid
PROPERTY
    OpenOfferStands
CHECK_DEADLOCK FALSE
