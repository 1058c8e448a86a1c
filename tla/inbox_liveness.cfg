\* Two appends of which one may hang with the lock held, two failing calls, and a lock file that may be removed or replaced: the other one returns and is clean.
SPECIFICATION Spec
CONSTANTS
    c1 = c1
    c2 = c2
    a1 = a1
    a2 = a2
    None = None
    Creators = {}
    Appenders = {a1, a2}
    Malformed = {}
    Hung = {a1}
    Stem <- MCStem
    Target <- MCTarget
    Names <- MCNamesOne
    Inodes = {i1, i2, i3, i4}
    HostKinds = {"symlink", "special"}
    MaxSequenceAttempts = 1
    MaxPolls = 1
    MaxNoteBytes = 3
    MaxHostOps = 0
    MaxLockRemovals = 1
    MaxFaults = 2
    MaxCrashes = 0
    FineClock = TRUE
    HostInWindow = FALSE
INVARIANTS AnsweredHoldsNothing
PROPERTIES EveryRequestReturns CheckedIsWhatWasRead
