\* Answers of up to four frames, in chunks of up to six parts.
CONSTANTS
    Body <- MCBody
    MaxChunk = 6
SPECIFICATION SseFairSpec
INVARIANTS
    ChunksDoNotShow
    TextsArePrefix
    SettledAtTheEnd
PROPERTIES
    StreamSettles
CHECK_DEADLOCK FALSE
