SPECIFICATION EgressSpec
CONSTANTS
    TurnCalls = {1}
    MaxRounds = 1
    MaxPieces = 1
    MaxDeltas = 1
INVARIANTS
    SearchIsSwallowed
