SPECIFICATION Spec
CONSTANTS
    Flows = {f1, f2, f3}
    Cap = 2
    Quota = 3
    Ttl = 1
    MaxClock = 3
    MaxSeq = 6
    Windows = {2, 3}
    Millis = 1
    CutCap = 3
    CutQuota = 6
    MaxTime = 4
    MaxTurns = 2
    MaxCuts = 4
    Ids = {a, b}
    Inputs <- MCInputs
    HistoryLimit = 1
    EventLimit = 2
    TextLimit = 5
    PreviewLimit = 2
    TotalLimit = 2
    Retention = 0
    MaxSequence = 4
    MaxWatched = 3
    MaxNow = 1
    ChannelCap = 2
    CapturedTurns = {t1, t2}
    MaxAge = 1
    MaxHours = 3
    MaxStarts = 3
SYMMETRY Interchangeable
CHECK_DEADLOCK FALSE
INVARIANTS
    StoreIsSound
    CutIsOneInstant
    WindowShowsRecent
    HistoryIsKept
    PageShowsRecords
    EveryCharacterIsTold
    CaptureFilesSound
