SPECIFICATION FairSpec
CONSTANTS
    Users = {u1}
    Convs = {c1, c2}
    Reqs = {r1, r2}
    Queries = {q1}
    Sources = {}
    Analyses = {}
    Unsaved = Unsaved
    Owner <- OneOwner
    SourceOwner <- OneSourceOwner
    MaxRetries = 0
    MaxChats = 2
    MaxTokens = 2
    SaverMayLag = FALSE
    LockMayDrop = FALSE
INVARIANT ExclusiveRuns
PROPERTY RequestsEnd
CHECK_DEADLOCK FALSE
