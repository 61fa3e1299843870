\* The owner and another thread, two functors, two I/O channels, an eventfd
\* that saturates at 1 and an event list that starts too short.
CONSTANTS
    Functors = {f1, f2}
    Owner = main
    Threads = {main, t1}
    Channels = {c1, c2}
    Wakeup = Wakeup
    EfdMax = 1
    kInitEventListSize = 1
SPECIFICATION MCFairSpec
INVARIANTS NoLostWakeup QuitTargetAlive ObjectOutlivesThread
PROPERTIES ImplementsTaskQueue FunctorRuns QuitEndsLoop ReadyChannelHandled
    StartLoopTerminates QuitWhileLoopingJoins
CHECK_DEADLOCK FALSE
