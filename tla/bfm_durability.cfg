\* Two tokens, a periodic backup and the rotation timer, every disk fault, one crash.
CONSTANTS
    a = a
    b = b
    backup = backup
    timer = timer
    Items = {a, b}
    Tasks = {backup}
    TimerJobs = {timer}
    Demands = {}
    Sources = {"add"}
    Faults = {"torn", "periodic", "rotation"}
    SaturationLimit = 3
    MaxTries = 2
    MaxInsertions = 3
    Budget <- MCBudgetCrash
SPECIFICATION Spec
SYMMETRY Symmetric
\* A destroyed manager whose process has no crash left stops.
CHECK_DEADLOCK FALSE
INVARIANTS
    Coverage
    Durable
PROPERTIES
    StaleBackupNeverLands
