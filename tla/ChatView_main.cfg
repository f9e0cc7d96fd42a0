CONSTANTS
    MaxSubmissions = 3
    MaxChats = 2
    MaxBody = 2
    MaxMessages = 4
    MaxChars = 2
    MaxTotal = 9
    None = None
SPECIFICATION FairSpec
INVARIANTS
    TypeOK
    SpinnerMeansWork
    StopHasTarget
    CursorMeansWork
    HistoryAlternates
PROPERTIES
    SpinnerEnds
CHECK_DEADLOCK FALSE
