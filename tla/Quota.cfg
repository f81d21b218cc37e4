SPECIFICATION Spec
CONSTANTS
    Plan <- AccountPlan
    Reqs = {r1, r2, r3}
    MaxClock = 3
    MaxRequests = 6
SYMMETRY Symmetry
CHECK_DEADLOCK FALSE
INVARIANTS
    LimitUnlessRewound
    CountsTheAdmitted
