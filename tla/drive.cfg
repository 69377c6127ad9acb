SPECIFICATION DriveSpec
CONSTANTS
    Stick <- MCStick
    Echoes <- MCEchoes
    MaxError = 100
INVARIANTS
    DriveTypeOK
    BridgesSafe
    SteeredByStick
    StandsStill
