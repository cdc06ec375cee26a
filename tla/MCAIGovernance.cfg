SPECIFICATION Spec
CONSTANTS
    Requests = {r1, r2, r3}
    Policies <- WidenOrNarrow
    NoPolicy = NoPolicy
    Asks <- OneAsk
    ExactCounts = {0, 1}
    Outcomes <- FewOutcomes
    ConcurrencyLimit = 2
    TTL = 1
    MonthLength = 3
    MaxNow = 3
    InputRate = 2
    CachedRate = 1
    OutputRate = 3
    WebRate = 1
    MultiplierBps = 3
    TokensPerMillion = 2
    BasisPoints = 2
SYMMETRY Symmetry
INVARIANTS
    CountersMatchLedger
PROPERTIES
    LedgerIsAppendOnly
    AdmissionFollowsLedger
    EscrowSpec
