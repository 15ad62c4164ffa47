------------------------------ MODULE MCSourcing ------------------------------
(***************************************************************************)
(* The services that decide what the shop offers: automation and the       *)
(* prices it sets, the recommended price, research, the import of supplier *)
(* products, their orders and price lists, the books, and the push of      *)
(* candidates.  They share no state with each other: a behaviour is one of *)
(* one of them, and v1 to v11 are the variables of the service that runs.  *)
(* Prices, research and books are instantiated in SourcingFigures.         *)
(* The push is instantiated together with its theorems, for SourcingProofs.*)
(***************************************************************************)
EXTENDS SourcingFigures, TLC

CONSTANTS
    Items,          \* products; of a candidate, inputs
    Editors,        \* requests that edit or decide about a candidate
    References,     \* references of the supplier
    Uncoded,        \* those whose products carry no SKU
    Few, Many,      \* bounds on what happens
    None

\* Requests are interchangeable, and so are products (of a candidate, inputs).
Symmetry == Permutations(Slots) \cup Permutations(Items)

\* What the operator turned on; products are held for review.
Rules == {[visibility |-> TRUE, price |-> p, hold |-> TRUE] : p \in BOOLEAN}

UnitCostsSeen ==
    {[amount |-> a, currency |-> "shop"] : a \in {0, 1234, 100000}}
        \cup {[amount |-> 800, currency |-> "other"]}

ManualCostsSeen ==
    LET no == [amount |-> 0, shipping |-> -1, currency |-> "shop", override |-> FALSE]
    IN  {no, [no EXCEPT !.amount = 900, !.shipping = 300],
         [no EXCEPT !.amount = 900, !.override = TRUE]}

PriceRulesSeen ==
    LET default == [mode |-> "margin", multiplier |-> 250, uplift |-> 1000, target |-> 300,
                    floors |-> [margin |-> 100, profit |-> 0],
                    rates |-> [payment |-> 29, platform |-> 0], other |-> 0,
                    rounding |-> "charm99", up |-> 20, down |-> 20, change |-> 5,
                    needShipping |-> FALSE]
    IN  {default,
         [default EXCEPT !.mode = "multiplier", !.multiplier = 100, !.rounding = "none"],
         [default EXCEPT !.rounding = "integer", !.up = 0, !.change = 0],
         [default EXCEPT !.mode = "fixed_uplift", !.uplift = 200, !.other = 50,
                         !.floors = [margin |-> 100, profit |-> 500], !.needShipping = TRUE]}

CostRecords ==
    {[supplier |-> s, supplierCurrency |-> "shop", shipping |-> h,
      shippingCurrency |-> IF h = -1 THEN "none" ELSE c, selling |-> v] :
        s \in {-1, 0, 37, 1234, 99900}, h \in {-1, 350}, c \in {"shop", "other", "none"},
        v \in {"shop", "other", "none", "malformed"}}

PoliciesSeen ==
    {[strategy |-> s, target |-> 450, multiplier |-> u, uplift |-> 1000,
      rates |-> [payment |-> 29, platform |-> 0, advertising |-> a], other |-> 0,
      floors |-> [margin |-> m, profit |-> p], rounding |-> r] :
        s \in {"TARGET_MARGIN", "MARKUP_MULTIPLIER", "FIXED_UPLIFT"}, u \in {150, 250},
        a \in {0, 100}, m \in {0, 400}, p \in {0, 5000}, r \in {"none", "charm99", "integer"}}

IndianMarket == [country |-> "IN", region |-> "unset"]

\* Figures of the market, and of nowhere in particular; absent figures are -1000.
FiguresTyped ==
    LET full == [searches |-> 30000, momentum |-> 45, competition |-> 30, season |-> "RISING",
                 country |-> "IN", region |-> "unset", observedAt |-> 0]
    IN  {full, [full EXCEPT !.searches = -1000, !.competition = -1000, !.country = "unset"]}

OffersSeen ==
    {[margin |-> 50, price |-> 900, currency |-> "INR", days |-> 5, observedAt |-> 0],
     [margin |-> 50, price |-> 5000, currency |-> "INR", days |-> -1000, observedAt |-> -1]}

SupplierSheets ==
    LET row(v, a) == [v |-> v, id |-> v, sku |-> "unset", option |-> "unset", availability |-> a]
        sheet(a, rows) == [availability |-> a, checkedAt |-> 0, manual |-> TRUE, rows |-> rows]
    IN  {sheet("AVAILABLE", {}), sheet("UNAVAILABLE", {}),
         sheet("AVAILABLE", {row("v1", "UNAVAILABLE")}),
         sheet("AVAILABLE", {row("v1", "AVAILABLE"), row("v2", "UNAVAILABLE")})}

BatchSizes == [bulk |-> 9, one |-> 1]

StoreCategory == [products |-> 3, low |-> 500, high |-> 1500, currency |-> "INR"]

Lines == {[ours |-> TRUE, vendor |-> TRUE, prefix |-> FALSE],
          [ours |-> FALSE, vendor |-> FALSE, prefix |-> TRUE]}

ListRows ==
    [handle : {"", "h1"}, id : {""}, sku : {"", "s1", "s2"}, size : {"", "red", "blue"},
     cost : {-1, 150, 240}, price : {300}, mrp : {-1}, ship : {40}, gone : {FALSE}]

\* The operator leaves the columns alone, or takes the price for the cost.
Mappings == {<<>>, [cost |-> "price"]}

MarkupRules == {[mode |-> "MARKUP", markup |-> 0, rounding |-> "charm99", shipping |-> TRUE]}

Line(quantity, cost, ship) == [quantity |-> quantity, cost |-> cost, ship |-> ship]

OrdersSeen ==
    {[currency |-> "INR", revenue |-> 1000, lines |-> <<Line(2, 200, -1), Line(1, 300, 50)>>],
     [currency |-> "INR", revenue |-> -1, lines |-> <<Line(1, -1, 50)>>],
     [currency |-> "GBP", revenue |-> 500, lines |-> <<Line(1, 450, 50)>>],
     [currency |-> "none", revenue |-> 400, lines |-> <<>>]}

LaterCostsSeen == {-1, 70}

SettingsSaved == {[fee |-> 100], [shipping |-> FALSE], [floor |-> 400],
                  [target |-> 450, floor |-> 100]}

VARIABLES service, v9, v10, v11

pool == <<v1, v2, v3, v4, v5, v6, v7, v8, v9, v10, v11>>

Runs == INSTANCE Automation WITH
    Products <- Items, Tasks <- Slots, RuleSets <- Rules, Costs <- {0, 2},
    MaxItems <- Many, MaxPreviews <- Few, MaxEdits <- Few,
    MaxTasks <- Few + Many, product <- v1, arrived <- v2, rules <- v3,
    preview <- v4, lock <- v5, task <- v6, degraded <- v7, waiting <- v8,
    edits <- v9, begun <- v10

Recommended == INSTANCE Recommendation WITH
    Costs <- CostRecords, Policies <- PoliciesSeen, costs <- v1, policy <- v2,
    answer <- v3

Imports == INSTANCE DeodapImport WITH
    Refs <- References, SkuLess <- Uncoded, Importers <- Slots, Costs <- {1},
    MaxProducts <- Many, MaxRequests <- Many, MaxMishaps <- Many,
    ledger <- v1, shop <- v2, stored <- v3, importer <- v4, lagged <- v5,
    outlived <- v6, requests <- v7, mishaps <- v8

Forwarding == INSTANCE DeodapOrders WITH
    LineKinds <- Lines, Requests <- Slots, Hours <- {0, 30}, MaxParcels <- 1,
    MaxEvents <- 2, order <- v1, lines <- v2, now <- v3, setting <- v4,
    active <- v5, record <- v6, request <- v7, overlapped <- v8, events <- v9

PriceLists == INSTANCE DeodapCatalog WITH
    Rows <- ListRows, LaterCosts <- {-2, -1, 333}, Overrides <- Mappings,
    PricingRules <- MarkupRules, MaxRows <- 2, stage <- v1, list <- v2,
    first <- v3, override <- v4, ledger <- v5, stored <- v6, updated <- v7

Drafts == INSTANCE PushDraftProofs WITH
    Inputs <- Items, Operations <- Slots, Products <- 1..Many + 1,
    MaxDisturbances <- Many, Decisions <- {"SELECTED", "REJECTED"},
    PromptShopify <- TRUE, PromptPushes <- FALSE, doc <- v1, call <- v2,
    draft <- v3, indexed <- v4, visible <- v5, late <- v6, cost <- v7,
    edits <- v8, lost <- v9, published <- v10, faults <- v11

\* Requests have slots of their own, whose names are not those of values.
ASSUME SlotsAssumption == Drafts!PushBounds /\ "none" \notin Slots

\* A service with fewer variables leaves the others alone.
after3 == <<v4, v5, v6, v7, v8, v9, v10, v11>>
after5 == <<v6, v7, v8, v9, v10, v11>>
after7 == <<v8, v9, v10, v11>>
after8 == <<v9, v10, v11>>
after9 == <<v10, v11>>
after10 == <<v11>>

Unused10 == v11 = "unused"
Unused9 == v10 = "unused" /\ Unused10
Unused8 == v9 = "unused" /\ Unused9
Unused7 == v8 = "unused" /\ Unused8
Unused5 == v6 = "unused" /\ v7 = "unused" /\ Unused7
Unused3 == v4 = "unused" /\ v5 = "unused" /\ Unused5

Init ==
    \/ service = "automation" /\ Runs!AutomationInit /\ Unused10
    \/ service = "pricing" /\ Pricing!RepricingInit /\ Unused7
    \/ service = "recommendation" /\ Recommended!RecommendationInit /\ Unused3
    \/ service = "research" /\ Candidates!ResearchInit /\ Unused8
    \/ service = "imports" /\ Imports!DeodapInit /\ Unused8
    \/ service = "orders" /\ Forwarding!OrdersInit /\ Unused9
    \/ service = "lists" /\ PriceLists!CatalogInit /\ Unused7
    \/ service = "books" /\ Books!DropInit /\ Unused5
    \/ service = "push" /\ Drafts!Init

Next ==
    /\ UNCHANGED service
    /\ \/ service = "automation" /\ Runs!AutomationNext /\ UNCHANGED after10
       \/ service = "pricing" /\ Pricing!RepricingNext /\ UNCHANGED after7
       \/ service = "recommendation" /\ Recommended!RecommendationNext /\ UNCHANGED after3
       \/ service = "research" /\ Candidates!ResearchNext /\ UNCHANGED after8
       \/ service = "imports" /\ Imports!DeodapNext /\ UNCHANGED after8
       \/ service = "orders" /\ Forwarding!OrdersNext /\ UNCHANGED after9
       \/ service = "lists" /\ PriceLists!CatalogNext /\ UNCHANGED after7
       \/ service = "books" /\ Books!DropNext /\ UNCHANGED after5
       \/ service = "push" /\ Drafts!Next

Spec == Init /\ [][Next]_<<service, pool>>

-----------------------------------------------------------------------------
\* A run that stopped because Shopify was failing stays stopped
\* (automation.service.ts).
StopsForGood == [][service = "automation" => Runs!AbortIsFinal]_pool

\* An apply executes the plan the operator was shown, each preview once, and two
\* runs never write at the same time (preview.store.ts, automation.lock.ts).
RunsAreReviewed ==
    service = "automation" =>
        /\ Runs!OnlyReviewedIsApplied
        /\ Runs!RunsExclude

\* While nobody edits anything, runs bring a price to rest and never move it back
\* and forth, and none writes a price below a floor but after a hundred raises
\* (automation.triggers.ts, price.rules.ts).
PricesSettle == [][service = "pricing" => Pricing!FollowsTrend /\ Pricing!NeverBelow]_pool

\* A recommended price clears both floors, and no viable one is withheld
\* (recommendation.ts).
RecommendationIsSound == service = "recommendation" => Recommended!RecommendationIsSound

\* A candidate called good was researched and its supplier has it now, and time
\* that passes without news improves no verdict, but for a rejection that is lifted to
\* WATCH (scoring.service.ts, sourceability.ts).
VerdictsAreEarned ==
    service = "research" =>
        /\ Candidates!RecommendedIsResearched
        /\ Candidates!WaitingNeverHelps

\* A reference of the supplier becomes one product, however requests overlap,
\* fail and are repeated (deodap.service.ts, the claims of the import ledger).
OneProductPerReference == service = "imports" => Imports!OneProductPerReference

\* A reference recorded as imported stays so and is never offered to an import again
\* (deodap.service.ts); which product its row names, a late import may still change.
ImportedForGood == [][service = "imports" => Imports!KeepsImported]_pool

\* An order the supplier never dispatched gets attention (deodap.orders.ts).
NobodyWaitsSilently == service = "orders" => Forwarding!NobodyWaitsSilently

\* A stage keeps the time it was first reached (deodap.orders.ts).
StagesKeepTheirTime == [][service = "orders" => Forwarding!KeepsTimes]_pool

\* The cost recorded for a variant is the one of its row of the price list
\* (deodap.import.ts, deodap.sync.ts).
CostsReachTheirVariant == service = "lists" => PriceLists!CostsReachTheirVariant

\* The totals of the dashboard add up exactly the orders they say, and what is
\* unknown is counted as unknown (dropshipping.analytics.ts).
BooksAreHonest == service = "books" => Books!BooksAreHonest

\* A save of settings changes nothing it was not asked to change
\* (dropshipping.write.controller.ts).
SavesLeaveTheRest == [][service = "books" => Books!SaveIsLocal]_pool

\* A candidate becomes one draft (push.service.ts, the claim and the tag search).
OneDraft == service = "push" => Drafts!OneDraft

\* A draft and its cost are those of the decision the operator approved, and a
\* score that does not count as stale is about the inputs as they are.
DecisionsAreHonest ==
    service = "push" =>
        /\ Drafts!DraftsCarryTheirDecision
        /\ Drafts!ScoreIsHonest

\* The product a candidate is linked to is never cleared, and exchanged only for one
\* that an incident left visible to customers (push.service.ts, markSucceeded and
\* markSafetyIncident).
LinkIsFinal == [][service = "push" => Drafts!LinkStays]_pool
=============================================================================
