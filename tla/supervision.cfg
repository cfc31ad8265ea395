SPECIFICATION FairSpec
CONSTANTS
    l1 = l1
    l2 = l2
    Loaders <- MCLoaders
    Supervisor = sup
    None = none
    MaxClients = 3
    MaxEnds = 1
    MaxReboots = 1
    OnLan = FALSE
INVARIANTS TypeOK LeaksBounded
PROPERTY StationRecovers
VIEW MCView
CHECK_DEADLOCK FALSE
