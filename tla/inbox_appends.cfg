\* Two appends to one note, a create of it, a second note, one failing call, and a host that may put a file, a symlink or a folder at any name but keeps out of the window.
SPECIFICATION Spec
CONSTANTS
    c1 = c1
    c2 = c2
    a1 = a1
    a2 = a2
    None = None
    Creators = {c1}
    Appenders = {a1, a2}
    Malformed = {}
    Hung = {}
    Stem <- MCStem
    Target <- MCTarget
    Names <- MCNames
    Inodes = {i1, i2, i3, i4, i5}
    HostKinds = {"regular", "symlink", "special"}
    MaxSequenceAttempts = 1
    MaxPolls = 1
    MaxNoteBytes = 3
    MaxHostOps = 1
    MaxLockRemovals = 0
    MaxFaults = 1
    MaxCrashes = 0
    FineClock = TRUE
    HostInWindow = FALSE
SYMMETRY AppendSymmetry
INVARIANTS TypeOK RefusedLeavesNoTrace
PROPERTIES ImplementsNoteStore NoTextLost OnlyLinkCreatesNames
