\* A token added while a periodic backup runs.
CONSTANTS
    a = a
    backup = backup
    Items = {a}
    Tasks = {backup}
    TimerJobs = {}
    Demands = {}
    Sources = {"add"}
    Faults = {}
    SaturationLimit = 1
    MaxTries = 1
    MaxInsertions = 1
    Budget <- MCBudgetRestart
SPECIFICATION Spec
\* A destroyed manager whose process has no crash left stops.
CHECK_DEADLOCK FALSE
INVARIANT NoLossWindow
