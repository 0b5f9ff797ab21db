CONSTANTS
    s1 = s1
    s2 = s2
    w1 = w1
    Writer = Writer
    Reader = Reader
    Free = Free
    Senders = {s1}
    Workers = {w1}
    Closers = {}
    Jobs = {"logic", "token"}
    Unpackable <- NothingUnpackable
    MaxSends = 2
    MaxJobs = 1
    QueueCap = 2

SPECIFICATION FairSpec
INVARIANT PendingIsNewest
INVARIANT OnlyReceivedIsTrimmed
PROPERTY WrittenAsQueued
PROPERTY CloseFinishes
PROPERTY QueuedLeaves

CHECK_DEADLOCK FALSE
