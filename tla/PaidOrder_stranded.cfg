SPECIFICATION Spec
CONSTANTS
    None = None
    RzpOrders = {o1}
    Payments = {p1}
    ShopOrders = {n1, n2}
    Checkouts = {c1}
    Creators = {w1, w2}
    Browsers = {}
    MaxCrashes = 0
    MaxAbandoned = 0
    PromptShopify = TRUE
    SpacedConfirmations = TRUE
    UniqueReceipts = TRUE
SYMMETRY OrderSymmetry
CHECK_DEADLOCK FALSE
INVARIANTS
    NeverStranded
