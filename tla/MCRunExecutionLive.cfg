CONSTANTS
    r1 = r1
    t1 = t1
    o1 = o1
    o2 = o2
    c1 = c1
    c2 = c2
    s1 = s1
    s2 = s2
    policy = "keep_on_failure"
    NoKey = NoKey
    NoOwner = NoOwner
    Runs = {r1}
    Tenants = {t1}
    TenantOf <- OneTenant
    KeyOf <- NoKeys
    PolicyOf <- SamePolicy
    Owners = {o1, o2}
    GlobalPending = 1
    TenantPending = 1
    MaxActive = 1
    LeaseTTL = 1
    QueueTimeout = 1
    ExecutionSeconds = 2
    RetainTTL = 1
    MaxAttempts = 1
    Cancels = {c1}
    Sweepers = {s1}
    MaxFaults = 1
    Stamps = {TRUE, FALSE}
SPECIFICATION FairExecSpec
CHECK_DEADLOCK FALSE
INVARIANTS
    CancelReleases
PROPERTIES
    EveryRunFinishes
    ComputeReturned
