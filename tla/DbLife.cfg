CONSTANTS
    c1 = c1
    c2 = c2
    e1 = e1
    e2 = e2
    e3 = e3
    k1 = k1
    k2 = k2
    x = x
    y = y
    NoExec = NoExec
    NoKey = NoKey
    Callers = {c1, c2}
    Entities = {x, y}
    Shards = {k1, k2}
    Executors = {e1, e2, e3}
    MaxSubmits = 2

SPECIFICATION Spec
SYMMETRY Interchangeable
INVARIANT OneExecutorPerShard
INVARIANT SurvivorsAreLate
INVARIANT RegisteredIsServed

CHECK_DEADLOCK FALSE
