CONSTANTS
    Modulus = 16
    Start = 3
    N = 5
    Channels <- MCChannels
    First <- MCFirst
    Channel <- MCChannel
    Declared <- MCDeclared
    Bytes <- MCBytes
    MaxFrame = 4
    MaxQueued = 2
    Threshold = 1
    Window = 3
    MaxInFlight = 2
    GiveUp = FALSE
SPECIFICATION FairSpec
PROPERTIES CaughtUp
