SPECIFICATION FairSpec
CONSTANTS
    c1 = c1
    c2 = c2
    Channels <- MCChannels
    None = none
    MaxFaults = 4
PROPERTY RestartRecovers
