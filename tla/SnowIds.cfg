CONSTANTS
    m = m
    n = n
    Nodes = {m, n}
    DatacenterId <- OneZero
    WorkerId <- ZeroOne
    DatacenterCount = 2
    WorkerCount = 2
    SequenceCount = 2
    Epoch = 1
    Birth = 1001
    MaxClock = 1003
    MaxBack = 1
    MaxRestarts = 1
    MaxIds = 5

SPECIFICATION FairSpec
INVARIANT IdsIncrease
INVARIANT NodesNeverClash
PROPERTY WaitEnds

CHECK_DEADLOCK FALSE
