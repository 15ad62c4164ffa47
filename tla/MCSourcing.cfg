SPECIFICATION Spec
CONSTANTS
    Slots = {s1, s2}
    Items = {p1, p2}
    Editors = {e1}
    References = {"coded", "uncoded"}
    Uncoded = {"uncoded"}
    Few = 1
    Many = 2
    None = None
    Prices = {1999, 100000}
    UnitCosts <- UnitCostsSeen
    ManualCosts <- ManualCostsSeen
    PriceRules <- PriceRulesSeen
    Orders = {1, 2}
    OrderKinds <- OrdersSeen
    LaterCosts <- LaterCostsSeen
    Patches <- SettingsSaved
    Market <- IndianMarket
    Entries <- FiguresTyped
    Offers <- OffersSeen
    Sheets <- SupplierSheets
    Category <- StoreCategory
    Batches = {"bulk", "one"}
    Size <- BatchSizes
    Waits = {80}
SYMMETRY Symmetry
INVARIANTS
    RunsAreReviewed
    RecommendationIsSound
    VerdictsAreEarned
    OneProductPerReference
    NobodyWaitsSilently
    CostsReachTheirVariant
    BooksAreHonest
    OneDraft
    DecisionsAreHonest
PROPERTIES
    StopsForGood
    PricesSettle
    ImportedForGood
    StagesKeepTheirTime
    SavesLeaveTheRest
    LinkIsFinal
CHECK_DEADLOCK FALSE
