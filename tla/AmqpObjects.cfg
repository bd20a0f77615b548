SPECIFICATION Spec
CONSTANTS
    MaxRequests = 5
    MaxCallbacks = 3
    Tags = {"a"}
    MaxSize = 3
    MaxMessages = 2
    MaxChanges = 3
    Byte = 12
    Names = {0, 1}
    MaxSets = 2
    Words = {"host", "word"}
    Ports = {"5671", "5672", "1234"}
INVARIANTS
    ChainHoldsWaiting
    Verdicts
    SentInTurn
    CallsBack
    RoundTrip
PROPERTIES
    Answered
    MessagesArrive
CHECK_DEADLOCK FALSE
