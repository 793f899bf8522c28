SPECIFICATION MCSpec
CONSTANTS
    t1 = t1
    c2 = c2
    w1 = w1
    h1 = h1
    NoTrunk = NoTrunk
    Dialogs = {1}
    Trunks = {t1}
    TrunkOf <- OneTrunk
    Calls = {c1, c2}
    Workers = {w1, w2}
    Tasks = {h1, h2}
    MaxConcurrentCalls = 1
    FaultyOps = {}
INVARIANTS AdmittedIsHeld AdmittedWithinLimit
PROPERTY GoneReachesTerminal
CHECK_DEADLOCK FALSE
