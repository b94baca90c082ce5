SPECIFICATION TalkSpec
CONSTANTS
    Clients = {"ann"}
    Images = {}
    NoImage = NoImage
    Ways = {}
    Answers = {"yes"}
    Models = {"glm", "alias"}
    Served <- MCServed
    Policies = {"placeholder"}
    CacheSize = 1
    MaxEntries = 0
    MaxItems <- MCMaxItems
    MaxLooks = 0
INVARIANTS
    RecordedTurnsResume
