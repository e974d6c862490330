CONSTANTS
    r1 = r1
    r2 = r2
    r3 = r3
    r4 = r4
    t1 = t1
    t2 = t2
    k1 = k1
    o1 = o1
    o2 = o2
    o3 = o3
    NoKey = NoKey
    NoOwner = NoOwner
    Runs = {r1, r2, r3, r4}
    Tenants = {t1, t2}
    TenantOf <- CrowdTenants
    KeyOf <- CrowdKeys
    Owners = {o1, o2, o3}
    GlobalPending = 3
    TenantPending = 2
    MaxActive = 2
    LeaseTTL = 1
    QueueTimeout = 1
    ExecutionSeconds = 1
    MaxAttempts = 1
SPECIFICATION QuietSpec
SYMMETRY CrowdSymmetry
CHECK_DEADLOCK FALSE
INVARIANTS
    WithinLimits
PROPERTIES
    IdleTenantFirst
