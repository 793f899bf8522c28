SPECIFICATION FairSpec
CONSTANTS
    Callers = {"c1"}
    Order <- OrderValue
    MaxBreaks = 2
INVARIANTS ReplyIsOwn ReadyIsSubscribed
PROPERTY LinkSettles
CHECK_DEADLOCK FALSE
