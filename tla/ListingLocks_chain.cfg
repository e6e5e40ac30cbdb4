SPECIFICATION FairSpec
CONSTANTS
    Listings <- MCListings
    Requests = {r1, r2}
    Workers = {w1}
    PoolSize = 2
    Nobody = nobody
INVARIANTS
    ChainUnbroken
    LogTellsTheTruth
PROPERTIES
    PassesReachEveryListing
