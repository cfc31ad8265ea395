SPECIFICATION FairSpec
CONSTANTS
    p1 = p1
    p2 = p2
    Pages <- MCPages
    Boot = boot
    Challenges <- MCChallenges
    None = 0
    MaxErrors = 1
    MaxExpiries = 1
PROPERTY SessionMaintained
CHECK_DEADLOCK FALSE
