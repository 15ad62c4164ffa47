SPECIFICATION Spec
CONSTANTS
    None = None
    Inputs = {i1}
    Operations = {k1}
    Products = {1}
    Editors = {e1, e2}
    Decisions = {"REJECTED"}
    PromptShopify = TRUE
    PromptPushes = TRUE
    MaxDisturbances = 2
PROPERTIES
    TerminalStays
CHECK_DEADLOCK FALSE
