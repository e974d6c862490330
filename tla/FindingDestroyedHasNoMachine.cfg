CONSTANTS
    s1 = s1
    n1 = n1
    n2 = n2
    NoNode = NoNode
    box = s1
    Callers = {"provision", "recovery", "sweeper"}
    Sandboxes = {s1}
    RunOwned = {}
    Demand <- UnitDemand
    Nodes = {n1}
    Capacities = {1}
    Quota = 1
    MaxLeases = 1
    LeaseBound <- LeaseBounds
    MaxGeneration = 3
    DestroyAttempts = 2
    MaxFaults = 0
SPECIFICATION ControlSpec
CHECK_DEADLOCK FALSE
INVARIANTS
    DestroyedHasNoMachine
