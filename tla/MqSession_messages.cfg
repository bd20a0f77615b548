SPECIFICATION Spec
CONSTANTS
    ServerNamed = TRUE
    Refusable = {"consume"}
    MaxRefusals = 1
    MaxPubs = 1
    MaxInbox = 2
    MaxChannels = 7
    MayRelease = TRUE
    MayReorder = TRUE
    MayLose = TRUE
INVARIANTS
    TypeOK
    ConsumersOnMain
    StatusHonest
    NoChannelLeaks
PROPERTIES
    AcksOwnChannel
CHECK_DEADLOCK FALSE
