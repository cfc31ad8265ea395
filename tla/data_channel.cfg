CONSTANTS
    Modulus = 16
    Start = 14
    Sizes <- MessageSizes
    Header = 3
    Magic = 2
    Far = 12
    MaxPackets = 4
    Window = 3
SPECIFICATION FairSpec
INVARIANTS TypeOK MessagesWhole NothingLost
PROPERTY AllAnswered
