SPECIFICATION PaymentsSpec
CONSTANTS
    None = None
    RzpOrders = {o1}
    Payments = {p1}
    ShopOrders = {n1, n2}
    Checkouts = {c1}
    Creators = {w1}
    Browsers = {}
    MaxCrashes = 1
    MaxAbandoned = 1
    PromptShopify = TRUE
    SpacedConfirmations = TRUE
    UniqueReceipts = TRUE
    NoEvent = NoEvent
    Events = {e1, e2}
    Receivers = {r1}
    Delays = 1
    FaultKinds = {"crash", "database", "slow"}
    MaxFaults = 1
INVARIANTS
    RepetitionBudget
PROPERTIES
    KeepsPromise
    PaidIsSettled
    EventsSettle
CHECK_DEADLOCK FALSE
