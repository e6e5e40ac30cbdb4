SPECIFICATION Spec
CONSTANTS
    r1 = r1
    r2 = r2
    b1 = b1
    b2 = b2
    Requests = {r1, r2}
    Bidders = {b1, b2}
    Admins = {admin}
    NoBidder = none
    Ops = {"ship", "confirm"}
    EndTime = 1
    PayPeriod = 1
    MaxClock = 2
    MaxPayments = 2
    Failures = TRUE
SYMMETRY MCSymmetry
INVARIANTS
    MoneyIsNeverStranded
    TypeOK
    MoneyAgrees
    PaidItemIsSoldOnce
    ShippedOnlyAfterPayment
PROPERTY
    PaidStaysPaid
CHECK_DEADLOCK FALSE
