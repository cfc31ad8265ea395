CONSTANTS
    Modulus = 8
    Start = 6
    N = 5
    Channels <- MCChannels
    First <- MCFirst
    Channel <- MCChannel
    Declared <- MCDeclared
    Bytes <- MCBytes
    MaxFrame = 4
    MaxQueued = 4
    Threshold = 1
    Window = 4
    MaxInFlight = 2
    GiveUp = TRUE
SPECIFICATION Spec
PROPERTIES ProcessedInOrder
