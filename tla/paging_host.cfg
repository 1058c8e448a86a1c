\* A search and a folder listing while the host changes the vault.
SPECIFICATION Spec
CONSTANTS
    w1 = w1
    w2 = w2
    None = None
    Walkers = {w1, w2}
    Operation <- MCSearchAndTree
    Conditions <- MCConditions
    Entries = {1, 2, 3}
    MaxWeight = 1
    Limits = {1, 2}
    MaxLimit = 2
    MaxResults = 1
    MaxCursorOffset = 3
    HostMay = {"create", "delete", "edit", "hide", "show"}
    MaxHostOps = 2
    MaxRestarts = 0
    MaxLost = 0
    MaxMistakes = 0
INVARIANTS GrowthMissesNothing ShrinkageRepeatsNothing
