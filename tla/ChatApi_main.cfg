\* Two streams and a plain call compete for the one slot of a replica.
CONSTANTS
    a = a
    b = b
    call = call
    Request <- MCRequest
    Streaming <- MCStreaming
    Replica = {p1}
    NoReplica = NoReplica
    MaxConcurrent = 1
    MaxTokens = 2
SPECIFICATION FairSpec
INVARIANTS
    TypeOK
    SlotsAccounted
    LimitHolds
    RememberedIffComplete
PROPERTIES
    ContractSpec
    EveryRequestEnds
    SaturationEndsUnlessAbandoned
CHECK_DEADLOCK FALSE
