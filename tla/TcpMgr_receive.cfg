SPECIFICATION Spec
CONSTANTS
    Rounds = 2
    MaxLinks = 2
    MaxFaults = 1
    MaxPosts = 6
INVARIANT
    ReceivesOnceConnected
