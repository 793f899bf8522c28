SPECIFICATION MCSpec
CONSTANTS
    Requests = {"q1", "q2", "q3"}
    NoId = "nil"
    Traffic <- AllTraffic
    Users = {"owner", "ann", "bob"}
    Logins = {"x1", "x2"}
    ExpiringSessions = {"ann"}
    Tokens = {"t1"}
    Addresses = {"a1", "a2"}
    Networks = {{"a1"}, {"a1", "a2"}}
    r1 = r1
    r2 = r2
    r3 = r3
    r4 = r4
    k1 = k1
    k2 = k2
    post = post
    other = other
    NoRequest = NoRequest
    KeyedRequests = {r1, r2, r3, r4}
    Keys = {k1, k2}
    Prints = {post, other}
    KeyOf <- KeyOfValue
    PrintOf <- PrintOfValue
CHECK_DEADLOCK FALSE
INVARIANTS
    SessionFollowsLogin
    AnswerIsOwn
    OneExecutionPerLease
    PolicyPrecedence
PROPERTIES
    AdminsAct
    RevokedStaysOut
