SPECIFICATION FairSpec
CONSTANTS
    Requests = {r1, r2}
    Policies <- EnforcingPolicies
    NoPolicy = NoPolicy
    Asks <- MCAsks
    ExactCounts = {0, 1}
    Outcomes <- MCOutcomes
    ConcurrencyLimit = 2
    TTL = 1
    MonthLength = 3
    MaxNow = 3
    InputRate = 2
    CachedRate = 1
    OutputRate = 3
    WebRate = 1
    MultiplierBps = 3
    TokensPerMillion = 2
    BasisPoints = 2
INVARIANTS
    MonthlyCeiling
    PageAgreesWithReserve
PROPERTY
    HandlersReleaseCapacity
