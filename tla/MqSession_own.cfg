SPECIFICATION FairSpec
CONSTANTS
    ServerNamed = TRUE
    Refusable = {}
    MaxRefusals = 0
    MaxPubs = 1
    MaxInbox = 2
    MaxChannels = 8
    MayRelease = FALSE
    MayReorder = FALSE
    MayLose = FALSE
PROPERTIES
    OwnMessageReceived
CHECK_DEADLOCK FALSE
