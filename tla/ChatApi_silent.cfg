\* The generation timeout while a frame is being sent.
CONSTANTS
    a = a
    b = b
    call = call
    Request <- MCTwoRequests
    Streaming <- MCOneStream
    Replica = {p1}
    NoReplica = NoReplica
    MaxConcurrent = 1
    MaxTokens = 1
SPECIFICATION Spec
INVARIANT FailureIsReported
CHECK_DEADLOCK FALSE
