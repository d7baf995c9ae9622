CONSTANTS
    Ids = {i1, i2}
    Tokens = {t1}
    Calls = {c1}
    Rotators = {k1}
    MaxCreations = 2
    MaxFaults = 1
SPECIFICATION Spec
\* The bounds on creations and calls end the behaviours.
CHECK_DEADLOCK FALSE
INVARIANTS
    TypeOK
    Served
    CanRetry
    NoLeak
    Refused
    ClearClears
PROPERTIES
    ShutdownEnds
    ResetAnswered
