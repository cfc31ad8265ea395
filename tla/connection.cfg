SPECIFICATION FairSpec
CONSTANTS
    Lan = Lan
    Direct = Direct
    Relay = Relay
    Turn = Turn
    Nobody = Nobody
    MaxAttempts = 3
    MaxEnds = 1
INVARIANTS
    TypeOK
    PeerAnswered
    KeyBeforeReady
PROPERTIES
    PeerFixed
    CloseEndsLoops
    ImplementsP2PClient
CHECK_DEADLOCK FALSE
