SPECIFICATION FairSpec
CONSTANTS
    Cars = {c1}
    Remotes = {r1}
    Ids = {0, 1}
    Channels = {1}
    Buttons = {TRUE, FALSE}
    Stick = {0, 1, 2}
    Positions <- Diagonal
    Junk = junk
    Follow = follow
    TIMEOUT = 20
    RETIRES = 3
    BootTime = 20
    RemoteTimeout = 5
    RemoteRetries = 6
    AdvertTimeout = 1
    DelayTime = 3
    MaxLosses = 6
    MaxResets = 0
INVARIANTS
    NoTornSample
    ConnectedMeansAdopted
    AwaitedIsHeard
PROPERTIES
    AckSoundness
    RoundsEnd
    AbandonedCarStops
