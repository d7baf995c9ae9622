CONSTANTS
    DrainBatch = 1
    Window = 1
    MaxChain = 1
    MaxLsn = 3
    MaxFaults = 2
SPECIFICATION Spec
\* The bounds on the log and on the failures end the behaviours.
CHECK_DEADLOCK FALSE
INVARIANTS
    TypeOK
    NodeCoverage
    EngineConsistent
    NothingBetween
PROPERTIES
    DeliveryOrder
    ReplicatesLog
    CatchesUp
