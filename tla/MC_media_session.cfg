SPECIFICATION FairSpec
CONSTANTS
    Ids = {s1}
    Capacity = 1
    MaxStarts = 2
    MaxTokens = 1
    Creators = {c1}
    Stoppers = {t1}
    Conns = {n1, n2}
INVARIANT GoneIsReleased
PROPERTIES NobodyWaits ImplementsPlane
CHECK_DEADLOCK FALSE
