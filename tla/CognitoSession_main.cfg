\* Two submissions and a new chat ask for tokens in one tab.
CONSTANTS
    Caller = {submit1, submit2, newChat}
    Submitting = {submit1, submit2}
    MaxLogins = 3
    MaxGenerations = 3
    None = None
    SignOut = SignOut
SPECIFICATION Spec
SYMMETRY MCSymmetry
INVARIANTS
    TypeOK
    SignedInHasTokens
    LastLoginIsStored
PROPERTIES
    FreshTokensAreKept
CHECK_DEADLOCK FALSE
