SPECIFICATION DriveSpec
CONSTANTS
    Stick <- MCStick
    Echoes <- MCEchoes
    MaxError = 100
INVARIANT SlaveDrivesForward
