SPECIFICATION Spec
CONSTANTS
    None = None
    RzpOrders = {o1}
    Payments = {p1}
    ShopOrders = {n1, n2}
    Checkouts = {c1}
    Creators = {w1, w2}
    Browsers = {}
    MaxCrashes = 1
    MaxAbandoned = 1
    PromptShopify = FALSE
    SpacedConfirmations = FALSE
    UniqueReceipts = TRUE
SYMMETRY OrderSymmetry
CHECK_DEADLOCK FALSE
INVARIANTS
    LinkedToOwnOrder
PROPERTIES
    StrandedByLateRequestsOnly
    PageNeverAsksTwice
