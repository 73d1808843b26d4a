SPECIFICATION Spec
CONSTANTS
    Handlers = {h1}
    MaxAttempts = 2
    AccessLife = 2
    TicksPerSecond = 2
    MaxTokens = 2
    MaxPasswords = 2
    MaxTime = 2
INVARIANT PasswordRevokes
CHECK_DEADLOCK FALSE
