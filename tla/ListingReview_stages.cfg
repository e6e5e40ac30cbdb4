SPECIFICATION Spec
CONSTANTS
    a1 = a1
    a2 = a2
    Admins = {a1, a2}
    Owner = owner
    Donor = donor
    MaxCharities = 2
    MaxRequests = 4
    Windows <- MCWindows
    Staff = staff
    CampaignEnds = {1, 2}
    MaxContents = 3
    MaxClock = 1
SYMMETRY MCSymmetry
INVARIANTS
    PublicContentReviewed
    ReasonsAgree
PROPERTIES
    PublishedAuctionIsOpen
    ClosedCampaignStaysClosed
CHECK_DEADLOCK FALSE
