CONSTANTS
    e1 = e1
    e2 = e2
    e3 = e3
    e4 = e4
    Events = {e1, e2, e3, e4}
    BatchSize = 2
    QueueSize = 2

SPECIFICATION FairSpec
INVARIANT WritesInOrder

PROPERTY CallsBackInOrder
PROPERTY AcceptedIsCalledBack
PROPERTY ShutdownEnds

CHECK_DEADLOCK FALSE
