CONSTANTS
    Base = Base
    Others = {t1, t2}
    MaxThreads = 3
    Fds = 3
    MaxClients = 5
    MaxStarts = 3
SPECIFICATION FairSpec
INVARIANT InitBeforeUse
PROPERTY ServerServes
CHECK_DEADLOCK FALSE
