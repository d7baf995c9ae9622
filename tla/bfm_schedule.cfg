\* Scheduled and on-demand rotations, a reset and a periodic backup in the life of one process.
CONSTANTS
    a = a
    backup = backup
    timer = timer
    demand = demand
    Items = {a}
    Tasks = {backup}
    TimerJobs = {timer}
    Demands = {demand}
    Sources = {"add", "apply"}
    Faults = {"periodic", "rotation"}
    SaturationLimit = 0
    MaxTries = 1
    MaxInsertions = 1
    Budget <- MCBudgetReset
SPECIFICATION LiveSpec
\* A destroyed manager whose process has no crash left stops.
CHECK_DEADLOCK FALSE
INVARIANTS
    TypeOK
    Coverage
    OneSchedule
    Evicted
PROPERTIES
    RotationCompletes
    ResetCompletes
    ShutdownCompletes
