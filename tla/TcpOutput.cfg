CONSTANTS
    Room = 1
    highWaterMark_ = 2
    MaxSends = 3
    MaxLen = 2
SPECIFICATION FairSpec
INVARIANTS StreamIntact FlowControl
PROPERTY OutputDrains
CHECK_DEADLOCK FALSE
