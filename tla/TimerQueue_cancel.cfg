\* Every cancel of a timer counts, also before its add has run.
CONSTANTS
    Addrs = {a1, a2}
    None = None
    MaxDelay = 2
    MaxTimers = 2
    MaxSteps = 0
SPECIFICATION HistorySpec
INVARIANT CancelSticks
