SPECIFICATION FairSpec
CONSTANTS
    Rounds = 2
    MaxLinks = 2
    MaxFaults = 2
    MaxPosts = 7
INVARIANTS
    TypeOK
    OneTransferEach
    ReconnectChains
    StartedTracksLink
    RecvBacklog
    ReceivesUntilFault
PROPERTIES
    ParsesOwnBytes
    IsPipe
    LoginCompletes
    FramesDelivered
