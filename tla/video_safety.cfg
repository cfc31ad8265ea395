CONSTANTS
    Modulus = 16
    Start = 3
    N = 7
    Channels <- MCChannels
    First <- MCFirst
    Channel <- MCChannel
    Declared <- MCDeclared
    Bytes <- MCBytes
    MaxFrame = 4
    MaxQueued = 2
    Threshold = 1
    Window = 4
    MaxInFlight = 2
    GiveUp = TRUE
SPECIFICATION Spec
INVARIANTS TypeOK FrameIntegrity QueuedIsAhead QueueBounded
PROPERTIES ProcessedInOrder QueuedNotLost ImplementsInOrderDelivery
