SPECIFICATION Spec
CONSTANTS
    Rounds = 2
    MaxLinks = 1
    MaxFaults = 0
    MaxPosts = 3
INVARIANT
    FinitClosesSocket
