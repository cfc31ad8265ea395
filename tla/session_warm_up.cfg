CONSTANTS
    maxFrames = 2
    maxBufferBytes = 3
    StaleThreshold = 1
    WarmUpStaleThreshold = 2
    badFrameRestartThreshold = 2
    restartCooldown = 1
    checkInterval = 0
    maxPTSJumpMs = 10000
    FrameInputs <- FewInputs
    Steps = {33}
    WakeTime = 1
    MaxLate = 0
    MaxID = 2
    MaxEpoch = 3
    MaxSession = 2
SPECIFICATION Spec
\* In its place, RetryAfterFailure is violated too.
PROPERTY WarmUpRespected
