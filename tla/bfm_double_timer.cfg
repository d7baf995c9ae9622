\* Two callers of rotateOnDemand.
CONSTANTS
    a = a
    timer = timer
    demand = demand
    demand2 = demand2
    Items = {a}
    Tasks = {}
    TimerJobs = {timer}
    Demands = {demand, demand2}
    Sources = {"add"}
    Faults = {}
    SaturationLimit = 1
    MaxTries = 1
    MaxInsertions = 1
    Budget <- MCBudgetDemand
SPECIFICATION Spec
\* A destroyed manager whose process has no crash left stops.
CHECK_DEADLOCK FALSE
INVARIANT NeverDoubled
