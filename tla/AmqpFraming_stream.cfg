SPECIFICATION FairSpec
CONSTANTS
    Frames = 5
    End <- MCEnd
    MaxRead = 20
    MaxThrows = 2
INVARIANTS
    TypeOK
    FramesOnce
    NoneSkipped
PROPERTIES
    NothingHeldBack
    LoopEnds
