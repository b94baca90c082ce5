SPECIFICATION TurnSpec
CONSTANTS
    CanSearch = TRUE
    Vision = TRUE
    SearchRounds = 0
    SearchCeiling = 2
    ImageCeiling = 2
    RepairCeiling = 1
    MaxCalls = 2
    FrameCap = 3
    MaxBytes = 7
    MaxChunk = 4
    Calls = {1, 2, 3}
    PerCall = 2
    Total = 3
    Sizes = {1, 2}
    MaxFragments = 2
    TurnCalls = {1, 2}
    MaxRounds = 2
    MaxPieces = 2
    MaxDeltas = 2
    Clients = {"ann", "bob"}
    Images = {a, b}
    NoImage = NoImage
    Ways = {"url", "other role"}
    Answers = {"yes"}
    Models = {"glm"}
    Served <- MCServed
    Policies = {"placeholder", "reject"}
    CacheSize = 1
    MaxEntries = 1
    MaxItems <- MCMaxItems
    MaxLooks = 1
SYMMETRY Alike
INVARIANTS
    NoImageReachesText
    LooksAtOwnImages
    HistoryIsToldOnce
    EveryCallIsAnswered
    LoopIsBounded
    NothingInternalSurfaces
    ReplayTellsWhatTheClientSaw
    VerdictIsTheAnswers
    HiddenStaysHidden
    VisibleIsComplete
    StreamConforms
    NothingSaidIsLost
