CONSTANTS
    Modulus = 16
    Start = 3
    N = 3
    Channels <- MCChannels
    First <- MCFirst
    Channel <- MCChannel
    Declared <- MCDeclared
    Bytes <- MCBytes
    MaxFrame = 4
    MaxQueued = 4
    Threshold = 1
    Window = 4
    MaxInFlight = 2
    GiveUp = FALSE
SPECIFICATION Spec
PROPERTIES GapHeldOpen
