SPECIFICATION MCSpec
CONSTANTS
    p1 = p1
    p2 = p2
    p3 = p3
    s1 = s1
    s2 = s2
    NoNode = NoNode
    n1 = n1
    n2 = n2
    Nodes = {n1, n2}
    Sessions = {s1, s2}
    Placers = {p1, p2, p3}
    SessionOf <- SessionOfValue
    MaxSessions = 1
    MaxFaults = 1
INVARIANTS LeasesMatchOwners WithinCapacity
PROPERTY DrainMarkReturns
CHECK_DEADLOCK FALSE
