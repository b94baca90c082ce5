SPECIFICATION Spec
CONSTANTS
    Chats = {c1}
    Proxies = {x1}
    N = 2
    Cooldown = 1
    MaxRounds = 2
    ResponseCapture = TRUE
CHECK_DEADLOCK FALSE
PROPERTIES
    NoCooldownNeverCools
