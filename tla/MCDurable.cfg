SPECIFICATION DurableSpec
CONSTANTS
    None = None
    Requests = {r1, r2}
    Bodies = {b1, b2}
    MaxRuns = 3
    MaxMishaps = 1
    Inputs = {i1, i2}
    Operations = {k1, k2}
    Products = {1, 2, 3}
    Editors = {c1}
    Decisions = {"REJECTED"}
    PromptShopify = TRUE
    PromptPushes = TRUE
    MaxDisturbances = 2
INVARIANTS
    EffectOnce
    ReplaysAreFaithful
PROPERTIES
    ClaimsEnd
    DraftsAreAdopted
CHECK_DEADLOCK FALSE
