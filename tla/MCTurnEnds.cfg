SPECIFICATION EndsSpec
CONSTANTS
    MaxSends = 2
    MaxChunks = 2
    MaxFrames = 1
    ChannelCap = 1
    Flows = {f1}
    Cap = 1
    Quota = 7
    Ttl = 1
    MaxClock = 1
    MaxSeq = 0
    MaxRounds = 2
CHECK_DEADLOCK FALSE
INVARIANTS
    ArtifactTellsLastAttempt
    ArtifactIsHonest
PROPERTIES
    KilledEnds
    CaptureIsEvicted
