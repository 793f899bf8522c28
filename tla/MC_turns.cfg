SPECIFICATION FairTurnSpec
CONSTANTS
    Order <- OrderValue
    Budgets <- BudgetsValue
    Tools = {"t1", "t2"}
    EventCap = 2
    MaxQueue = 2
INVARIANTS OneStaleFrame LatencyBudget HistoryInOrder
PROPERTY StreamEnds
CHECK_DEADLOCK FALSE
