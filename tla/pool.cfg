SPECIFICATION PairedSpec
CONSTANTS
    Cars = {1, 2}
    Remotes = {11, 12}
    Ids = {0, 1, 2}
    Channels = {1, 2}
    Buttons = {TRUE, FALSE}
    Stick = {0, 1}
    Positions <- OnePosition
    Junk = junk
    Follow = follow
    TIMEOUT = 20
    RETIRES = 3
    BootTime = 20
    RemoteTimeout = 5
    RemoteRetries = 6
    AdvertTimeout = 1
    DelayTime = 3
    MaxLosses = 0
    MaxResets = 0
INVARIANTS
    AwaitedIsHeard
PROPERTIES
    SlaveHasMaster
