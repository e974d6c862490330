CONSTANTS
    r1 = r1
    r2 = r2
    r3 = r3
    r4 = r4
    t1 = t1
    t2 = t2
    k1 = k1
    o1 = o1
    o2 = o2
    o3 = o3
    NoKey = NoKey
    NoOwner = NoOwner
    Runs = {r1, r2, r3}
    Tenants = {t1, t2}
    TenantOf <- RetryTenants
    KeyOf <- RetryKeys
    Owners = {o1, o2}
    GlobalPending = 2
    TenantPending = 1
    MaxActive = 1
    LeaseTTL = 2
    QueueTimeout = 1
    ExecutionSeconds = 3
    MaxAttempts = 1
SPECIFICATION Spec
SYMMETRY RetrySymmetry
INVARIANTS
    LeaseWithinDeadline
    TeardownHasVerdict
    OneRunPerKey
PROPERTIES
    VerdictFinal
    ExecutedOnce
    OwnershipFenced
    FirstReasonKept
