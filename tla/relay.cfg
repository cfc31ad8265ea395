SPECIFICATION FairSpec
CONSTANTS
    c1 = c1
    c2 = c2
    c3 = c3
    Consumers <- MCConsumers
    Nobody = nobody
CHECK_DEADLOCK FALSE
INVARIANT StopBeforeExit
PROPERTIES ImplementsBroadcast HandlersEnd
