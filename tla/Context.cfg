SPECIFICATION Spec
CONSTANTS
    Reqs = {r1, r2, r3}
    Lengths = {1, 4}
    Limit = 3
    Budget = 7
SYMMETRY Symmetry
CHECK_DEADLOCK FALSE
INVARIANTS
    UnknownIsOldOrOverlapped
    NoAnswerCutsIn
    TitleIsOfFirstQuestion
PROPERTIES
    ContextIsLongestTail
