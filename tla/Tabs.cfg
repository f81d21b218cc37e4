SPECIFICATION Spec
CONSTANTS
    Tabs = {t1, t2}
    Calls = {k1, k2}
    MaxLogins = 2
SYMMETRY Symmetry
CHECK_DEADLOCK FALSE
INVARIANTS
    QueueHasLeader
    ActsAsShown
PROPERTIES
    RefusedOnlyWhenOver
    LogoutEndsSession
