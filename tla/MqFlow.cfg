CONSTANTS
    p = p
    v = v
    w = w
    Tick = Tick
    Nothing = Nothing
    Producers = {p}
    Workers = {v, w}
    HasEvent <- ButFirstOfP
    HasLogic <- AllMsg
    Panics <- FirstTwo
    Hangs <- LastAndTick
    MaxSends = 3
    QueueSize = 2
    HeadLen = 1
    BodyLen <- Long
    Garbled = Garbled

SPECIFICATION ReadFairSpec
INVARIANT NothingGoesMissing
INVARIANT PoisonKillsOnce
INVARIANT FramesInStep
PROPERTY DeliversInOrder
PROPERTY AcceptedIsTaken
PROPERTY StopEndsWorkers

CHECK_DEADLOCK FALSE
