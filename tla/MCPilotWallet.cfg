SPECIFICATION FairSpec
CONSTANTS
    Requests = {r1, r2, r3}
    Nobody = Nobody
    Trial = 3
    Amounts = {2}
    Costs = {0, 2, 4}
    Rate = 3
    Scale = 4
CHECK_DEADLOCK FALSE
INVARIANTS
    WalletMatchesLedger
PROPERTIES
    SimpleAsksNeverOverdraw
    RequestsEnd
