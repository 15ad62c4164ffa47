SPECIFICATION Spec
CONSTANTS
    None = None
    RzpOrders = {o1}
    Payments = {p1}
    ShopOrders = {n1, n2}
    Checkouts = {c1}
    Creators = {w1}
    Browsers = {b1}
    MaxCrashes = 0
    MaxAbandoned = 0
    PromptShopify = FALSE
    SpacedConfirmations = FALSE
    UniqueReceipts = TRUE
SYMMETRY OrderSymmetry
CHECK_DEADLOCK FALSE
INVARIANTS
    RefundEndsCheckout
