SPECIFICATION Spec
CONSTANTS
    Attempts = {a1, a2, a3}
    Keys = {k1, k2}
    NoKey = nokey
    Pipelines = {0}
    StreamNames = {"cam"}
    TTL = 1
    MaxItems = 1
    MaxTime = 2
    MaxRestarts = 1
    Kids = {kid1, kid2}
    Callers = {c1, c2}
    CacheTTL = 2
    RefreshTimeout = 1
    MaxNow = 4
    RowIds = {1, 2, 3, 4, 5}
    Foreign = {2}
    PageSize = 2
    MaxChanges = 2
    Models = {m1}
    Orphan = m0
    Versions = {v1, v2}
    Semvers = {"1.0"}
    Promoters = {p1, p2}
    MaxDbFaults = 1
SYMMETRY Symmetry
INVARIANTS DroppedKeysExpire PagesCoverEverything PromotionsAreGated
PROPERTY RetriesGetTheSameAnswer
CHECK_DEADLOCK FALSE
