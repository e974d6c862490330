CONSTANTS
    r1 = r1
    t1 = t1
    o1 = o1
    o2 = o2
    c1 = c1
    c2 = c2
    s1 = s1
    s2 = s2
    policy = "keep_on_failure"
    NoKey = NoKey
    NoOwner = NoOwner
    Runs = {r1}
    Tenants = {t1}
    TenantOf <- OneTenant
    KeyOf <- NoKeys
    PolicyOf <- SamePolicy
    Owners = {o1, o2}
    GlobalPending = 1
    TenantPending = 1
    MaxActive = 1
    LeaseTTL = 2
    QueueTimeout = 1
    ExecutionSeconds = 2
    RetainTTL = 1
    MaxAttempts = 1
    Cancels = {}
    Sweepers = {s1}
    MaxFaults = 0
    Stamps = {FALSE}
SPECIFICATION ExecSpec
SYMMETRY Symmetry
CHECK_DEADLOCK FALSE
PROPERTIES
    SuccessNotDiscarded
