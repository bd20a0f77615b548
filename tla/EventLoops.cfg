SPECIFICATION Spec
CONSTANTS
    Conns = {c1}
    PollConns = {"c1", "c2"}
    EvFds = {f1}
    PollFds = {f1, f2}
    AsioFds = {f1}
    Timeouts = {0, 1, 4}
    ConnectTimeout = 3
    Late = 1
    MaxRefs = 2
    MaxOps = 3
INVARIANTS
    HeartbeatsInTime
    IdleNoticed
    LoopCountsWatchers
    WatchedForOwner
    InterestWatched
PROPERTIES
    ClosesIdleOnly
    CallsOwner
    IsFdWatch
    ConnectTimesOut
    ClosingEnds
    Served
CHECK_DEADLOCK FALSE
