\* A create whose arguments the SDK rejects.
SPECIFICATION Spec
CONSTANTS
    s1 = s1
    s2 = s2
    n1 = n1
    a1 = a1
    a2 = a2
    Calls = {n1}
    Tool <- MCTool
    Ends <- MCEnds
    MayHang = {}
    ScanTokens = 1
    DefaultTokens = 1
    MaxCancels = 0
INVARIANTS EveryWriteAttemptIsLogged
