SPECIFICATION ViewSpec
CONSTANTS
    Chats = {c1, c2}
    Proxies = {}
    N = 1
    Cooldown = 1
    MaxRounds = 1
    ResponseCapture = TRUE
    DownThreshold = 2
    a = a
    b = b
    Ids = {a, b}
    MaxSequence = 2
    ChannelCap = 1
    MaxVersion = 1
    MaxSockets = 2
CHECK_DEADLOCK FALSE
INVARIANTS
    UnhealthyHasError
    PageHearsEverything
    FailuresAreShown
PROPERTIES
    IdleTurnsHealthy
    PageCatchesUp
