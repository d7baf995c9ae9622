\* A periodic backup that a reset does not invalidate.
CONSTANTS
    a = a
    b = b
    backup = backup
    Items = {a, b}
    Tasks = {backup}
    TimerJobs = {}
    Demands = {}
    Sources = {"add"}
    Faults = {"periodic"}
    SaturationLimit = 2
    MaxTries = 2
    MaxInsertions = 2
    Budget <- MCBudgetStale
SPECIFICATION Spec
\* A destroyed manager whose process has no crash left stops.
CHECK_DEADLOCK FALSE
INVARIANT Durable
