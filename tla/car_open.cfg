SPECIFICATION MCSpec
CONSTANTS
    Cars = {c1}
    Ids = {0, 1, 2}
    Stick = {0, 1}
    Junk = junk
    Follow = follow
    TIMEOUT = 2
    RETIRES = 2
    BootTime = 1
INVARIANTS
    TypeOK
    DeadMan
    OnlyOwnRemote
    AckAddressing
PROPERTY
    ImplementsModes
