SPECIFICATION FairSpec
CONSTANTS
    None = None
    Events = {e1, u1}
    Inline = {u1}
    Receivers = {r1}
    MaxAttempts = 2
    FaultKinds = {"crash", "database"}
    MaxFaults = 1
    MaxRetries = 1
PROPERTIES
    KeepsPromise
    DeliveriesSettle
CHECK_DEADLOCK FALSE
