CONSTANTS
    Functors = {f1}
    Owner = main
    Threads = {main, t1}
    Channels = {c1}
    Wakeup = Wakeup
    EfdMax = 2
    kInitEventListSize = 1
SPECIFICATION TimeoutFairSpec
PROPERTY JoinTerminates
CHECK_DEADLOCK FALSE
