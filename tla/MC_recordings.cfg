SPECIFICATION FairSpec
CONSTANTS
    w1 = w1
    w2 = w2
    c1 = c1
    h1 = h1
    h2 = h2
    NoPath = NoPath
    NoDest = NoDest
    Managed = Managed
    Paths = {p1}
    Integrations = {i1}
    Workers = {w1, w2}
    Handles <- HandlesValue
    Deleters = {c1, d1}
    CleanupOf <- CleanupOfValue
    MaxAttempts = 2
    MaxFaults = 1
INVARIANTS AudioIsKept EventsTellTheRow
PROPERTY EndedIsSettled
CHECK_DEADLOCK FALSE
