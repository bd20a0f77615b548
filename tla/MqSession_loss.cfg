SPECIFICATION FairSpec
CONSTANTS
    ServerNamed = TRUE
    Refusable = {}
    MaxRefusals = 0
    MaxPubs = 0
    MaxInbox = 2
    MaxChannels = 8
    MayRelease = FALSE
    MayReorder = FALSE
    MayLose = TRUE
PROPERTIES
    LossIsReported
CHECK_DEADLOCK FALSE
