CONSTANTS
    q1 = q1
    Callers = {q1}
    Routes = {"pause", "resume", "stop", "start", "delete"}
    MaxLeases = 2
    MaxPolicies = 0
    MaxFaults = 1
SPECIFICATION GuardSpec
CHECK_DEADLOCK FALSE
INVARIANT CapturedStaysPaused
