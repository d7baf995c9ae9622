\* A token pushed while the interval's append is under way.
CONSTANTS
    a = a
    b = b
    tick1 = tick1
    closer = closer
    Items = {a, b}
    Flushes = {tick1}
    Closer = closer
    MaxBufferSize = 2
    MaxFailures = 0
    MaxCrashes = 0
SPECIFICATION Spec
\* A destroyed instance stops.
CHECK_DEADLOCK FALSE
INVARIANT NoTokenDropped
