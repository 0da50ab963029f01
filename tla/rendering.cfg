CONSTANTS
    Workers = {w1, w2, w3}
    w1 = w1
    w2 = w2
    w3 = w3
    MaxRow = 3
    Rows = 2
    History = 1
    l1 = l1
    l2 = l2
    l3 = l3
    b1 = b1
    b2 = b2
    Lines = {l1, l2, l3}
    Buffers = {b1, b2}
    MaxDamage = 2
    MaxChanges = 2
    Lag = 1
    Admitted = {}
    Null = Null
SPECIFICATION MCSpec
CHECK_DEADLOCK FALSE
SYMMETRY Symmetry
INVARIANTS FramesShowTheGrid FrameIsComplete NobodyIsStuck
