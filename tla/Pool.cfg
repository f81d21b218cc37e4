SPECIFICATION CatalogSpec
CONSTANTS
    Conns = {c1}
    Tasks = {t1, t2}
    Passwords = {p1, p2}
    Ttl = 0
    MaxClock = 1
    MaxSchema = 1
CHECK_DEADLOCK FALSE
INVARIANTS
    EveryOpenEngineIsCached
    StaleOnlyByRace
    UntestedOnlyByOverlap
    CatalogIsRenewed
PROPERTIES
    EvictionSparesRecent
    GetEngineReturns
