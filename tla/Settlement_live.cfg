SPECIFICATION FairSpec
CONSTANTS
    r1 = r1
    r2 = r2
    b1 = b1
    b2 = b2
    Requests = {r1, r2}
    Bidders = {b1}
    Admins = {}
    NoBidder = none
    Ops = {"ship", "confirm"}
    EndTime = 1
    PayPeriod = 1
    MaxClock = 2
    MaxPayments = 2
    Failures = FALSE
PROPERTIES
    OffersAreResolved
    DeliveryReleasesEscrow
CHECK_DEADLOCK FALSE
