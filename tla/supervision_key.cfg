SPECIFICATION FairLoginsSpec
CONSTANTS
    l1 = l1
    l2 = l2
    Loaders <- MCLoaders
    Supervisor = sup
    None = none
    MaxClients = 3
    MaxEnds = 0
    MaxReboots = 0
    OnLan = FALSE
PROPERTY StationKept
CHECK_DEADLOCK FALSE
