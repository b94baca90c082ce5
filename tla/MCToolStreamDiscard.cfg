SPECIFICATION StreamSpec
CONSTANTS
    Calls = {1, 2}
    PerCall = 2
    Total = 3
    Sizes = {1}
    MaxFragments = 2
INVARIANTS
    DiscardedStaysHidden
