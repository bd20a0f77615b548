SPECIFICATION Spec
CONSTANTS
    Conns = {c1}
    Fds = {f1}
    Timeouts = {1}
    ConnectTimeout = 2
    Late = 0
    MaxRefs = 2
INVARIANT
    TimerStopped
CHECK_DEADLOCK FALSE
