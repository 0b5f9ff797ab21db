CONSTANTS
    a = a
    b = b
    c = c
    w1 = w1
    w2 = w2
    NoConn = NoConn
    Conns = {a, b}
    Adders = {w1}
    Checkers = {w2}
    MaxConn = 1
    MaxTokens = 1

SPECIFICATION FairSpec
INVARIANT CountCoversTable
INVARIANT CloseOkMeansQuiet
PROPERTY CloseReturns

CHECK_DEADLOCK FALSE
