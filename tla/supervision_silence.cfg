SPECIFICATION FairLoginsSpec
CONSTANTS
    l1 = l1
    l2 = l2
    Loaders <- MCLoaders
    Supervisor = sup
    None = none
    MaxClients = 3
    MaxEnds = 0
    MaxReboots = 1
    OnLan = TRUE
PROPERTY StationKept
CHECK_DEADLOCK FALSE
