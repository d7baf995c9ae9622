\* A crash that leaves half a line, and a second crash before the checkpoint.
CONSTANTS
    a = a
    b = b
    None = None
    Items = {a, b}
    ReplayLimit = 6
    Faults = {"torn"}
    MaxLsn = 3
    MaxRotations = 1
    MaxCrashes = 2
SPECIFICATION Spec
\* The bounds end the behaviours.
CHECK_DEADLOCK FALSE
INVARIANT LsnUnique
