CONSTANTS
    s1 = s1
    s2 = s2
    w1 = w1
    Writer = Writer
    Reader = Reader
    Free = Free
    Senders = {s1, s2}
    Workers = {w1}
    Closers = {}
    Jobs = {"logic"}
    Unpackable <- NothingUnpackable
    MaxSends = 1
    MaxJobs = 1
    QueueCap = 2

SPECIFICATION Spec
INVARIANT OnlyReceivedIsTrimmed

CHECK_DEADLOCK FALSE
