SPECIFICATION FeedSpec
CONSTANTS
    a = a
    b = b
    Ids = {a, b}
    MaxSequence = 2
    ChannelCap = 2
    MaxVersion = 0
    MaxSockets = 1
CHECK_DEADLOCK FALSE
INVARIANTS
    NoUpdateIsDropped
