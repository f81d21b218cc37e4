SPECIFICATION Spec
CONSTANTS
    Users = {u1}
    Convs = {c1}
    Reqs = {r1, r2}
    Queries = {q1, q2}
    Sources = {}
    Analyses = {}
    Unsaved = Unsaved
    Owner <- OneOwner
    SourceOwner <- OneSourceOwner
    MaxRetries = 1
    MaxChats = 2
    MaxTokens = 3
    SaverMayLag = FALSE
    LockMayDrop = FALSE
SYMMETRY Symmetry
INVARIANTS
    RetryBudget
    ExecutedAsApproved
PROPERTIES
    ImplementsContract
CHECK_DEADLOCK FALSE
