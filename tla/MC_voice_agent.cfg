SPECIFICATION FairSpec
CONSTANTS
    w1 = w1
    w2 = w2
    a1 = a1
    a2 = a2
    t1 = t1
    Nobody = Nobody
    Workers = {w1, w2}
    Sids <- SidsValue
    Deliveries <- DeliveriesValue
    ToolRuns = {1, 2}
    MaxFaults = 1
INVARIANTS NoSessionOutlivesCall ToolRunsOnce
PROPERTY MediaEndsWithChannel
CHECK_DEADLOCK FALSE
