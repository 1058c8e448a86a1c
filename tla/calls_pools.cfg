\* Two scans for one token, a create and two appends for two threads; one scan and one append may hang.
SPECIFICATION Spec
CONSTANTS
    s1 = s1
    s2 = s2
    n1 = n1
    a1 = a1
    a2 = a2
    Calls = {s1, s2, n1, a1, a2}
    Tool <- MCTool
    Ends <- MCEnds
    MayHang = {s1, a1}
    ScanTokens = 1
    DefaultTokens = 2
    MaxCancels = 1
INVARIANTS McpTypeOK AuditTellsTheTruth AnswerMatchesLine
PROPERTIES LightCallsReturn ScansReturn
