\* Two creates that compete for names, an append and one that is refused: system calls that fail, a crash or a power loss at any step, a coarse clock.
SPECIFICATION Spec
CONSTANTS
    c1 = c1
    c2 = c2
    a1 = a1
    a2 = a2
    None = None
    Creators = {c1, c2}
    Appenders = {a1, a2}
    Malformed = {a2}
    Hung = {}
    Stem <- MCStem
    Target <- MCTarget
    Names <- MCNames
    Inodes = {i1, i2, i3, i4, i5}
    HostKinds = {"regular"}
    MaxSequenceAttempts = 2
    MaxPolls = 1
    MaxNoteBytes = 3
    MaxHostOps = 0
    MaxLockRemovals = 0
    MaxFaults = 1
    MaxCrashes = 1
    FineClock = FALSE
    HostInWindow = FALSE
SYMMETRY CreateSymmetry
INVARIANTS NotesAreWhole AnsweredIsDurable AnsweredHoldsNothing
PROPERTIES NewNoteNeverOverwrites
