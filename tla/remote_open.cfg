SPECIFICATION RemoteSpec
CONSTANTS
    Remotes = {r1}
    Ids = {0, 1}
    Channels = {0, 1}
    Buttons = {TRUE, FALSE}
    Stick = {0, 1}
    Positions <- TwoPositions
    Junk = junk
    RemoteTimeout = 5
    RemoteRetries = 6
    AdvertTimeout = 1
    DelayTime = 3
INVARIANTS
    RemoteTypeOK
    RetriesExhausted
