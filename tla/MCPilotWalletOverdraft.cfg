SPECIFICATION Spec
CONSTANTS
    Requests = {r1, r2}
    Nobody = Nobody
    Trial = 3
    Amounts = {2}
    Costs = {0, 2, 4}
    Rate = 3
    Scale = 4
SYMMETRY Symmetry
CHECK_DEADLOCK FALSE
INVARIANT
    NeverOverdrawn
