\* A user thread that sends, and shutdown() on connections that are down.
CONSTANTS
    c1 = c1
    c2 = c2
    Conns = {c1, c2}
    MaxThreads = 1
    None = None
    Acceptor = Acceptor
    MaxSends = 2
    Programs <- LatePrograms
SPECIFICATION Spec
INVARIANT RemoveFindsNoEvents
CHECK_DEADLOCK FALSE
