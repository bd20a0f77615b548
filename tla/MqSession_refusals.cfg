SPECIFICATION Spec
CONSTANTS
    ServerNamed = FALSE
    Refusable = {"bind", "consume"}
    MaxRefusals = 1
    MaxPubs = 0
    MaxInbox = 1
    MaxChannels = 12
    MayRelease = FALSE
    MayReorder = FALSE
    MayLose = FALSE
INVARIANTS
    ReadyNotMissed
    SettlesConsuming
CHECK_DEADLOCK FALSE
