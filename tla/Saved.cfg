SPECIFICATION Spec
CONSTANTS
    Users = {u1}
    Convs = {c1, c2}
    Reqs = {r1}
    Queries = {q1}
    Sources = {s1}
    Analyses = {a1}
    Unsaved = Unsaved
    Owner <- OneOwner
    SourceOwner <- OneSourceOwner
    MaxRetries = 1
    MaxChats = 2
    MaxTokens = 2
    SaverMayLag = TRUE
    LockMayDrop = TRUE
SYMMETRY Symmetry
INVARIANTS
    AnswersMatchExecution
    SavedSqlIsImmutable
CHECK_DEADLOCK FALSE
