CONSTANTS
    Modulus = 6
    Start = 3
    N = 9
    Channels <- MCChannels
    First <- MCFirst
    Channel <- MCChannel
    Declared <- MCDeclared
    Bytes <- MCBytes
    MaxFrame = 4
    MaxQueued = 2
    Threshold = 1
    Window = 4
    MaxInFlight = 2
    GiveUp = TRUE
SPECIFICATION TurnsSpec
INVARIANTS TypeOK FrameIntegrity QueuedIsAhead QueueBounded
PROPERTIES ProcessedInOrder QueuedNotLost ImplementsInOrderDelivery
