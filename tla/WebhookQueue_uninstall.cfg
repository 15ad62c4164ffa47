SPECIFICATION Spec
CONSTANTS
    None = None
    Events = {e1, u1}
    Inline = {u1}
    Receivers = {r1}
    MaxAttempts = 2
    FaultKinds = {"crash", "database", "outage"}
    MaxFaults = 1
    MaxRetries = 1
CHECK_DEADLOCK FALSE
INVARIANTS
    AcknowledgedIsSafe
