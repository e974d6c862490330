CONSTANTS
    q1 = q1
    Callers = {q1}
    Routes = {"resume", "stop", "start", "delete"}
    MaxLeases = 2
    MaxPolicies = 1
    MaxFaults = 1
SPECIFICATION FairGuardSpec
CHECK_DEADLOCK FALSE
INVARIANTS
    StagesFenced
    LatchesAgree
    CompletedIsHeld
    CaptureKept
PROPERTIES
    IncidentLatches
