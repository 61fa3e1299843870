CONSTANTS
    Capacity = 3
    Sizes = {1, 2, 3}
    DropAbove = 3
    MaxMsgs = 5
    Renames = TRUE
    Threads = {t1, t2}
    MaxFd = 2
    MaxCalls = 1
SPECIFICATION MCFairSpec
INVARIANTS BackNeverEmpty InOrderNoLoss HarmOnlyByOverlap
PROPERTIES MessageWritten FatalEndsProcess
CHECK_DEADLOCK FALSE
