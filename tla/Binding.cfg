SPECIFICATION Spec
CONSTANTS
    Conns = {s1, s2}
    Convs = {c1, c2}
    Reqs = {r1, r2, r3}
    Chinook = Chinook
SYMMETRY Symmetry
CHECK_DEADLOCK FALSE
INVARIANTS
    OneConnectionPerConversation
    FallbackOnlyByRace
