CONSTANTS
    maxFrames = 2
    maxBufferBytes = 3
    StaleThreshold = 1
    WarmUpStaleThreshold = 2
    badFrameRestartThreshold = 2
    restartCooldown = 1
    checkInterval = 0
    maxPTSJumpMs = 10000
    FrameInputs <- ManyInputs
    Steps = {33}
    WakeTime = 1
    MaxLate = 1
    MaxID = 3
    MaxEpoch = 2
    MaxSession = 1
SPECIFICATION Spec
INVARIANT NeverMidGOP
