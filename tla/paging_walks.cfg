\* Two searches; a new token, a lost answer, cursors mixed up.
SPECIFICATION Spec
CONSTANTS
    w1 = w1
    w2 = w2
    None = None
    Walkers = {w1, w2}
    Operation <- MCSearches
    Conditions <- MCConditions
    Entries = {1, 2, 3}
    MaxWeight = 1
    Limits = {0, 1, 2}
    MaxLimit = 2
    MaxResults = 2
    MaxCursorOffset = 1
    HostMay = {}
    MaxHostOps = 0
    MaxRestarts = 1
    MaxLost = 1
    MaxMistakes = 1
INVARIANTS PagingTypeOK WalkDeliversEachOnce
PROPERTIES EveryWalkEnds
