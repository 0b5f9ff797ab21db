CONSTANTS
    s1 = s1
    s2 = s2
    w1 = w1
    Writer = Writer
    Reader = Reader
    Free = Free
    Senders = {s1, s2}
    Workers = {w1}
    Closers = {}
    Jobs = {"logic"}
    Unpackable <- SecondUnpackable
    MaxSends = 2
    MaxJobs = 1
    QueueCap = 3

SPECIFICATION Spec
INVARIANT WindowExact
INVARIANT HonestAckIsTaken
INVARIANT WireInSendOrder
INVARIANT LoopsServeUntilClosed

CHECK_DEADLOCK FALSE
