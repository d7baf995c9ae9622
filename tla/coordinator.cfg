\* Two tokens, three rotations, two crashes, every failure but a torn line.
CONSTANTS
    a = a
    b = b
    None = None
    Items = {a, b}
    ReplayLimit = 2
    Faults = {"append", "apply", "rotation", "meta"}
    MaxLsn = 3
    MaxRotations = 3
    MaxCrashes = 2
SPECIFICATION Spec
SYMMETRY Symmetric
\* The bounds end the behaviours.
CHECK_DEADLOCK FALSE
INVARIANTS
    TypeOK
    LsnUnique
    RetainedComplete
    SnapshotServable
    SnapshotComplete
    CoordinatorCoverage
PROPERTY CheckpointMonotone
