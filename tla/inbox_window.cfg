\* The host deletes the target between lstat and os.replace.
SPECIFICATION Spec
CONSTANTS
    c1 = c1
    c2 = c2
    a1 = a1
    a2 = a2
    None = None
    Creators = {c1}
    Appenders = {a1}
    Malformed = {}
    Hung = {}
    Stem <- MCStem
    Target <- MCTarget
    Names <- MCNamesOne
    Inodes = {i1, i2, i3, i4, i5}
    HostKinds = {"regular"}
    MaxSequenceAttempts = 1
    MaxPolls = 1
    MaxNoteBytes = 3
    MaxHostOps = 1
    MaxLockRemovals = 0
    MaxFaults = 0
    MaxCrashes = 0
    FineClock = TRUE
    HostInWindow = TRUE
SYMMETRY InodeSymmetry
PROPERTIES OnlyLinkCreatesNames
