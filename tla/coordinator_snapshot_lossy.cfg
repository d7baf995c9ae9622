\* A token added while a rotation saves the filter.
CONSTANTS
    a = a
    None = None
    Items = {a}
    ReplayLimit = 6
    Faults = {}
    MaxLsn = 3
    MaxRotations = 1
    MaxCrashes = 0
SPECIFICATION Spec
\* The bounds end the behaviours.
CHECK_DEADLOCK FALSE
INVARIANT SnapshotLossless
