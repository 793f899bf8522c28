SPECIFICATION MCSpec
CONSTANTS
    t1 = t1
    t2 = t2
    h1 = h1
    h2 = h2
    NoTrunk = NoTrunk
    Dialogs = {1, 2, 3}
    Calls = {c1}
    Trunks = {t1, t2}
    Plan <- TwoRoutes
    MaxConcurrentCalls = 1
    Tasks = {h1}
    MaxHolds = 0
    FaultyOps <- AllOps
INVARIANT AtMostOneInvite
CHECK_DEADLOCK FALSE
