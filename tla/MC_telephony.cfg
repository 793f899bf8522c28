SPECIFICATION MCSpec
CONSTANTS
    Requests = {"q1", "q2", "q3"}
    NoId = NoId
    Traffic <- AllTraffic
    Endpoints = {e1, e2}
    Hosts = {h1, h2}
    SourceIPs = {{h1}, {h1, h2}}
    Checkers = {c1}
    Threshold = 2
    Directions = {"inbound", "outbound", "bidirectional"}
    Earlier = Earlier
    MaxFaults = 2
    Credentials = {"openai1", "openai2", "deepgram", "groq", "cartesia"}
    RoleOf <- CredentialRoles
    BindingRequests <- BindingBundles
    Tools = {tool1}
    Numbers = {n1}
    Invites = {i1}
CHECK_DEADLOCK FALSE
INVARIANTS
    ValidIsServed
    AdmittedWasWhole
    ActiveIsComplete
PROPERTIES
    UpIsRouted
