\* A client arrives when the process has no descriptor left.
CONSTANTS
    Base = Base
    Others = {t1}
    MaxThreads = 1
    Fds = 1
    MaxClients = 2
    MaxStarts = 1
SPECIFICATION Spec
INVARIANT FullTableSurvived
CHECK_DEADLOCK FALSE
