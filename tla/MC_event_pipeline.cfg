SPECIFICATION MCSpec
CONSTANTS
    Events = {e1}
    Endpoints = {p1}
    Workers = {w1, w2}
    BatchSize = 1
    MaxAttempts = 2
    AutoDisableAfter = 2
    MaxDeliver = 2
    MaxFaults = 1
    MaxRetries = 1
INVARIANT PublishedIsStored
PROPERTIES SettledStays EveryEventSettles
