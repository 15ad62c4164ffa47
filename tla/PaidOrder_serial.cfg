SPECIFICATION Spec
CONSTANTS
    None = None
    RzpOrders = {o1}
    Payments = {p1}
    ShopOrders = {n1, n2}
    Checkouts = {c1}
    Creators = {w1, w2}
    Browsers = {b1}
    MaxCrashes = 1
    MaxAbandoned = 1
    PromptShopify = TRUE
    SpacedConfirmations = TRUE
    UniqueReceipts = TRUE
SYMMETRY OrderSymmetry
CHECK_DEADLOCK FALSE
INVARIANTS
    TypeOK
    AtMostOneOrder
    AttemptsExclude
    OrderedMeansCaptured
