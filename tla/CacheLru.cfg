CONSTANTS
    k1 = k1
    k2 = k2
    k3 = k3
    free = free
    held = held
    Keys = {k1, k2, k3}
    Values = {free, held}
    Held = {held}
    MinSize = 1
    CoreSize = 1
    Durations = {0, 1}
    MaxClock = 4
    MaxOps = 6

SPECIFICATION CacheSpec
SYMMETRY KeySymmetry
INVARIANT ListIsByRecency
PROPERTY HeldStays
PROPERTY InsertDropsLeastRecent

CHECK_DEADLOCK FALSE
