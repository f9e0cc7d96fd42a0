\* Two turns of a session and one of another at a replica with one slot and
\* room for one session; one that was restarted is a cold one.
CONSTANTS
    ask = ask
    again = again
    other = other
    mine = mine
    theirs = theirs
    question = question
    doubt = doubt
    first = first
    second = second
    third = third
    Request <- MCRequest
    Streaming <- MCStreaming
    Replica = {p}
    NoReplica = NoReplica
    MaxConcurrent = 1
    MaxTokens = 1
    Session <- MCSession
    Content <- MCContent
    NoContent = NoContent
    MaxTurns = 1
    TtlSeconds = 1
    MaxSessions = 1
    NoRequest = NoRequest
    SessionOf <- MCSessionOf
    TranscriptOf <- MCTranscriptOf
    ReplyOf <- MCReplyOf
    GenerationSeconds = 1
    MaxTime = 2
SPECIFICATION BackendSpec
INVARIANTS
    AnyReplicaAnswersAlike
    MemoryIsTranscript
PROPERTIES
    NoReplyRevives
CHECK_DEADLOCK FALSE
