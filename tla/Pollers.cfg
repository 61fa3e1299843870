CONSTANT Channels = {3, 5}
SPECIFICATION PollersSpec
INVARIANTS PollerAgrees AsksForInterest
PROPERTY ImplementsPoller
