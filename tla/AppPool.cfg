SPECIFICATION Spec
CONSTANTS
    Reqs = {r1, r2, r3, r4}
    Conns = {c1, c2}
    Names = {n1, n2}
    Size = 2
    LockSize = 2
    Cap = 1
SYMMETRY Symmetry
CHECK_DEADLOCK FALSE
INVARIANTS
    CapKeptButForOverlap
    StandstillNeedsAFullPool
    StandstillsTimeOut
PROPERTIES
    ClashOnlyByRace
