SPECIFICATION EsbSpec
CONSTANTS
    p1 = p1
    p2 = p2
    f1 = f1
    f2 = f2
    None = None
    Payloads <- MCPayloads
    Frames <- MCFrames
    FifoSize = 3
    MaxWrites = 3
    Drains = TRUE
    Restarts = FALSE
SYMMETRY MCSymmetry
INVARIANTS
    EsbTypeOK
    RingsInOrder
    NothingLeftUnread
    SentAsWritten
PROPERTY
    ReceivesInOrder
