CONSTANTS
    a = a
    b = b
    k = k
    Callers = {a, b}
    Clients = {k}
    Configs <- Differing
    MaxAdding = 1
    MaxStarts = 2
    MaxUsed = 1

SPECIFICATION FairSpec
INVARIANT OneAtATime
INVARIANT RunningHasItsParts
INVARIANT StopLeavesNothing
INVARIANT ChecksOpenServers
INVARIANT ClosedHttpIsQuiet
PROPERTY CallsReturn

CHECK_DEADLOCK FALSE
