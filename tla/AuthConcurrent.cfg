SPECIFICATION Spec
CONSTANTS
    Handlers = {h1, h2}
    MaxAttempts = 2
    AccessLife = 2
    TicksPerSecond = 2
    MaxTokens = 2
    MaxPasswords = 2
    MaxTime = 6
INVARIANT TypeOK
INVARIANT GuessBound
INVARIANT LogoutHolds
PROPERTY RevokedStays
SYMMETRY MCSymmetry
CHECK_DEADLOCK FALSE
