SPECIFICATION FairSpec
CONSTANTS
    Lan = Lan
    Direct = Direct
    Relay = Relay
    Turn = Turn
    Nobody = Nobody
    MaxAttempts = 3
    MaxEnds = 1
PROPERTY EveryCloseEndsLoops
CHECK_DEADLOCK FALSE
