CONSTANTS
    Modulus = 4
    Start = 3
    Sizes <- TurnMessages
    Header = 1
    Magic = 1
    Far = 1
    MaxPackets = 6
    Window = 3
SPECIFICATION TurnsSpec
INVARIANTS TypeOK MessagesWhole NothingLost
PROPERTY PacketsInOrder
CHECK_DEADLOCK FALSE
