SPECIFICATION Spec
CONSTANTS
    ServerNamed = TRUE
    Refusable = {}
    MaxRefusals = 0
    MaxPubs = 0
    MaxInbox = 2
    MaxChannels = 8
    MayRelease = FALSE
    MayReorder = TRUE
    MayLose = FALSE
INVARIANTS
    ReadyNotMissed
CHECK_DEADLOCK FALSE
