\* Three notes and three other entries; one change by the host and one failing call.
SPECIFICATION Spec
CONSTANTS
    Names = {1, 2, 3, 4, 5, 6}
    Hidden = {5}
    OtherFiles = {6}
    Unusable = {4}
    Titles <- MCTitles
    Fold <- MCFold
    Strip <- MCStrip
    Stem <- MCStem
    Projects <- MCProjects
    Keywords <- MCKeywords
    Mtimes = {1, 2}
    Contents <- MCContents
    Requests <- MCRequests
    None = None
    MaxHostOps = 1
    MaxFaults = 1
INVARIANTS ScanTypeOK SteadyNotesAreJudged AdviceIsSound TruncationDropsWeakest CountsAddUp
