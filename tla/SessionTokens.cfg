CONSTANTS
    a = a
    b = b
    v = v
    w = w
    p = p
    q = q
    s = s
    t = t
    Players = {p, q}
    NoPlayer = NoPlayer
    NoConn = NoConn
    NoGuid = NoGuid
    LowMax = 3
    MaxHigh = 2
    Conns = {a, b}
    Workers = {v, w}
    Senders = {s, t}
    QueueCap = 1
    Bounds <- Scenarios

SPECIFICATION Spec
SYMMETRY Symmetry
INVARIANT GuidsDiffer
INVARIANT PlayersStayApart
INVARIANT OnlyReceivedIsCut

CHECK_DEADLOCK FALSE
