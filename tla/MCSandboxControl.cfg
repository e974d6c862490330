CONSTANTS
    s1 = s1
    n1 = n1
    n2 = n2
    NoNode = NoNode
    box = s1
    Callers = {"provision", "recovery", "delete"}
    Sandboxes = {s1}
    RunOwned = {}
    Demand <- UnitDemand
    Nodes = {n1, n2}
    Capacities = {1}
    Quota = 1
    MaxLeases = 2
    LeaseBound <- LeaseBounds
    MaxGeneration = 3
    DestroyAttempts = 1
    MaxFaults = 1
SPECIFICATION ControlSpec
SYMMETRY NodeSymmetry
CHECK_DEADLOCK FALSE
INVARIANTS
    OwnerNeverFenced
    RunningWasBuilt
    RollbackUnreplaced
PROPERTIES
    NewerMachineSafe
