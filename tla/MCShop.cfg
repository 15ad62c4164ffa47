SPECIFICATION Spec
CONSTANTS
    Slots = {s1, s2}
    Listings = {l1}
    Stocks = {5, 20}
    Limit = 10
    HalfLife = 3
    Few = 1
    Many = 2
    None = None
SYMMETRY Symmetry
INVARIANTS
    PausedOnlyWhileFailing
    CallsEndRightly
    ActiveStaysSignedIn
    RegistrationDelivers
    DeliveriesAreSafe
    ReportsAreTrue
    PurchasesHold
PROPERTIES
    ExpectationsHold
CHECK_DEADLOCK FALSE
