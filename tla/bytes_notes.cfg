\* Notes with any line endings, and up to two appends.
SPECIFICATION Spec
CONSTANTS
    MaxFileLength = 4
    MaxContentLength = 3
    MaxAppends = 2
    MaxNoteBytes = 10
INVARIANTS NotesReadAsWritten MixedNotesReadInOrder
CHECK_DEADLOCK FALSE
