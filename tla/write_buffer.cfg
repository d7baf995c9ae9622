\* A flush of the interval and that of shutdown, a backup, a full buffer, torn appends,
\* one crash.
CONSTANTS
    a = a
    b = b
    tick1 = tick1
    closer = closer
    Items = {a, b}
    Flushes = {tick1}
    Closer = closer
    MaxBufferSize = 2
    MaxFailures = 2
    MaxCrashes = 1
SPECIFICATION Spec
\* A destroyed instance whose process has no crash left stops.
CHECK_DEADLOCK FALSE
INVARIANTS
    TypeOK
    BufferedOrSaved
    ShutdownSaves
PROPERTY EventuallyFlushed
