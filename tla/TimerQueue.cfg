CONSTANTS
    Addrs = {a1, a2}
    None = None
    MaxDelay = 2
    MaxTimers = 2
    MaxSteps = 1
SPECIFICATION FairSpec
INVARIANTS SetsAgree ArmedForEarliest NoTimerLost CancelAfterAddSticks
PROPERTY TimerFires
