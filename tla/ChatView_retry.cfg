CONSTANTS
    MaxSubmissions = 3
    MaxChats = 1
    MaxBody = 2
    MaxMessages = 4
    MaxChars = 2
    MaxTotal = 9
    None = None
SPECIFICATION Spec
INVARIANT FailedTurnsCanBeRetried
CHECK_DEADLOCK FALSE
