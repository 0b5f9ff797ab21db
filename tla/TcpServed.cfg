CONSTANTS
    a = a
    b = b
    c = c
    w1 = w1
    w2 = w2
    NoConn = NoConn
    Conns = {a}
    Adders = {}
    Checkers = {}
    MaxConn = 1
    MaxTokens = 0

SPECIFICATION Spec
SYMMETRY Symmetry
INVARIANT ServedStaysActive

CHECK_DEADLOCK FALSE
