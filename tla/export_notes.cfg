\* Some eleven thousand exports, each walked through its checks and rendered.
SPECIFICATION Spec
CONSTANTS
    Exports <- MCExports
    MaxTotalBlockChars = 24
    MaxBulletDepth = 3
INVARIANTS ExportTypeOK BulletsNest RefusedForCause BudgetBoundsThePayload NoteReadsAsSent NothingLeftOut
CHECK_DEADLOCK FALSE
