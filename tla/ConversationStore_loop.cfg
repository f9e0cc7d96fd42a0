\* One caller: the event loop.
CONSTANTS
    Session = {s1, s2, s3}
    Caller = {loop}
    hello = hello
    answer = answer
    NoContent = NoContent
    NoSession = NoSession
    Content <- MCContent
    Transcript <- MCTranscript
    MaxTurns = 1
    TtlSeconds = 1
    MaxSessions = 2
    MaxTime = 4
    MaxTurnCount = 1
SPECIFICATION Spec
SYMMETRY Symmetry
INVARIANTS
    TypeOK
    CapacityHolds
PROPERTIES
    LossIsJustified
    SyncIsKept
