CONSTANTS
    c1 = c1
    c2 = c2
    Conns = {c1, c2}
    MaxThreads = 1
    None = None
    Acceptor = Acceptor
    MaxSends = 2
    Programs <- MCPrograms
SPECIFICATION FairSpec
INVARIANTS DestroyedAfterRemoved CallbacksPaired RemovedOnce
    ActiveChannelsStay OrderlyRemoveFindsNoEvents
PROPERTY PeerCloseCleansUp
CHECK_DEADLOCK FALSE
