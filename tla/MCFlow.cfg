SPECIFICATION Spec
CONSTANTS
    Flows = {f1, f2}
    Cap = 2
    Quota = 3
    Ttl = 1
    MaxClock = 1
    MaxSeq = 0
    MaxRounds = 1
SYMMETRY Interchangeable
VIEW WithoutSeqs
CHECK_DEADLOCK FALSE
INVARIANTS
    NoRecordStuckOpen
    HubHoldsLiveGuards
    CountedOnce
PROPERTIES
    ImplementsLedger
