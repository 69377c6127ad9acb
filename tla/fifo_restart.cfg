SPECIFICATION EsbSpec
CONSTANTS
    p1 = p1
    p2 = p2
    f1 = f1
    f2 = f2
    None = None
    Payloads <- MCPayloads
    Frames <- MCFrames
    FifoSize = 2
    MaxWrites = 2
    Drains = FALSE
    Restarts = TRUE
SYMMETRY MCSymmetry
INVARIANT RingsInOrder
