CONSTANTS
    s1 = s1
    s2 = s2
    n1 = n1
    n2 = n2
    weight = 2
    leases1 = 3
    leases2 = 1
    NoNode = NoNode
    Sandboxes = {s1, s2}
    RunOwned = {s2}
    Demand <- EqualDemand
    Nodes = {n1, n2}
    Capacities = {3, 4}
    Quota = 2
    MaxLeases = 3
    LeaseBound <- LeaseBounds
    MaxGeneration = 3
SPECIFICATION CompetedSpec
INVARIANTS
    OneOwner
    GenerationsFence
    AssignmentFollowsLease
    CapacityNotLost
PROPERTIES
    ClosedForGood
    Latched
    StaysBalanced
