SPECIFICATION FairSpec
CONSTANTS
    Reqs = {r1, r2}
    Passwords = {p1, p2}
    VerificationRequired = TRUE
    MaxTokens = 3
    MaxLinks = 3
    MaxVersion = 1
CHECK_DEADLOCK FALSE
INVARIANTS
    RotatedOnce
    OldSessionsEnd
    LinksDieInTime
    LinksWorkOnce
PROPERTIES
    EveryChangeEndsAccess
    AuthRequestsEnd
