CONSTANTS
    c1 = c1
    c2 = c2
    h1 = h1
    t1 = t1
    t2 = t2
    Clients <- TwoClients
    Heartbeats <- OneHeartbeat
    Timers <- TwoTimers
    Grace = 1
    MaxID = 2
SPECIFICATION Spec
PROPERTY WatchedKept
