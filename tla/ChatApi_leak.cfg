\* A stream whose client leaves before it starts.
CONSTANTS
    a = a
    b = b
    call = call
    Request <- MCTwoRequests
    Streaming <- MCOneStream
    Replica = {p1}
    NoReplica = NoReplica
    MaxConcurrent = 1
    MaxTokens = 1
SPECIFICATION FairSpec
PROPERTY SaturationEnds
CHECK_DEADLOCK FALSE
