------------------------------- MODULE Repricing -------------------------------
(***************************************************************************)
(* The price of one variant under automation: where its cost comes from    *)
(* (suppliers/cost.ts, suppliers/manualCost.service.ts) and the price that *)
(* decideVariantPrice derives from it (automation/price.rules.ts), run     *)
(* after run, while costs, rules and the price itself are edited.          *)
(***************************************************************************)
EXTENDS Money

CONSTANTS
    Prices,         \* prices a merchant enters
    UnitCosts,      \* what Shopify says it costs, 0 when never filled in
    ManualCosts,    \* manual costs: records, see NoManual
    PriceRules,     \* rules in force
    MaxCostEdits    \* bound on edits of anything but runs

VARIABLES
    price,      \* the variant's price
    unitCost,   \* inventoryItem.unitCost: [amount, currency]
    manual,     \* the manual costs of the variant and of its product
    rules,      \* the price rules
    trend,      \* what runs did to the price since the last edit
    written,    \* how the price the last run wrote stands to the floors
    costEdits

repricingVars == <<price, unitCost, manual, rules, trend, written, costEdits>>

\* No manual cost is recorded.
NoManual == [amount |-> 0, shipping |-> Null, currency |-> "shop", override |-> FALSE]

\* DEFAULT_AUTOMATION_RULES.price, enabled
DefaultPriceRules ==
    [mode |-> "margin", multiplier |-> 250, uplift |-> 1000, target |-> 300,
     floors |-> [margin |-> 100, profit |-> 0], rates |-> [payment |-> 29, platform |-> 0],
     other |-> 0, rounding |-> "charm99", up |-> 20, down |-> 20, change |-> 5,
     needShipping |-> FALSE]

\* validateAutomationRules
Valid(r) ==
    /\ r.mode = "multiplier" => r.multiplier >= 100
    /\ r.mode = "fixed_uplift" => r.uplift > 0
    /\ r.mode = "margin" => /\ r.floors.margin <= r.target
                            /\ r.target + SumRates(r.rates) < 1000
    /\ r.target < 1000 /\ r.floors.margin < 1000 /\ r.down <= 100

RepricingInit ==
    /\ price \in Prices /\ unitCost \in UnitCosts
    /\ manual \in [{"variant", "product"} -> ManualCosts]
    /\ rules \in {r \in PriceRules : Valid(r)}
    /\ trend = "none" /\ written = "nothing" /\ costEdits = 0

-----------------------------------------------------------------------------
(* The cost: Shopify's, unless a manual cost overrides it or stands in.    *)
(* No supplier quotes through an API today.                                *)

\* loadManualCostMap: the variant's own row, else its product's
ManualCost == IF manual["variant"] # NoManual THEN manual["variant"] ELSE manual["product"]

ResolveCostSource ==
    IF ManualCost.amount > 0 /\ ManualCost.override THEN ManualCost
    ELSE IF unitCost.amount > 0 THEN unitCost
    ELSE ManualCost

\* Shipping is the manual one, and only in the currency of the cost; 0 is free.
ShippingCost ==
    IF ManualCost.currency = ResolveCostSource.currency THEN ManualCost.shipping ELSE Null

LandedCost == SumMoney(ResolveCostSource.amount, ShippingCost)

-----------------------------------------------------------------------------
(* The price *)

\* The first reasons to leave a variant alone
Unpriceable ==
    \/ ResolveCostSource.amount <= 0
    \/ ResolveCostSource.currency # "shop"
    \/ rules.needShipping /\ ~Known(ShippingCost)

Absolute(cost) == cost + rules.other

ClearsFloors(p) == ~BreachesGuards(CalculatePricing(p, Absolute(LandedCost), rules.rates), rules.floors)

\* Mutant: the markup is applied to the price the variant has.
TargetOnPrice(cost) ==
    CASE rules.mode = "multiplier" -> MultiplyMoney(price, rules.multiplier)
      [] rules.mode = "fixed_uplift" -> cost + rules.uplift
      [] rules.mode = "margin" -> CalculateSuggestedPrice(rules.target, Absolute(cost), rules.rates)

Target(cost) ==
    CASE rules.mode = "multiplier" -> MultiplyMoney(cost, rules.multiplier)
      [] rules.mode = "fixed_uplift" -> cost + rules.uplift
      [] rules.mode = "margin" -> CalculateSuggestedPrice(rules.target, Absolute(cost), rules.rates)

\* Rounded, then raised until both floors are cleared, a hundred times at most
Candidate ==
    LET rounded == ApplyRounding(Target(LandedCost), rules.rounding)
        raised(n) == rounded + n * RoundingStep(rules.rounding)
    IN  raised(StepsToClear([n \in 0..99 |-> ClearsFloors(raised(n))], 100))

\* No run moves a price further than this.
Clamp(p) ==
    LET up == RoundRatio(price * (100 + rules.up), 100)
        down == RoundRatio(price * (100 - rules.down), 100)
    IN  IF p > up THEN up ELSE IF p < down THEN down ELSE p

Differs(p) == IF p > price THEN p - price >= rules.change ELSE price - p >= rules.change

\* A clamped price below a floor is not written.
Acceptable(p) == (p # Candidate => ClearsFloors(p)) /\ Differs(p)

\* One automation run reaches the variant.
Reprice ==
    /\ ~Unpriceable
    /\ Target(LandedCost) # Null
    /\ LET p == Clamp(Candidate)
       IN  IF Acceptable(p)
           THEN /\ price' = p
                /\ trend' = IF p = Candidate THEN "settled" ELSE IF p > price THEN "up" ELSE "down"
                /\ written' = IF ClearsFloors(p) THEN "above"
                              ELSE IF p = Candidate THEN "given up" ELSE "below"
           ELSE trend' = "settled" /\ UNCHANGED <<price, written>>
    /\ UNCHANGED <<unitCost, manual, rules, costEdits>>

-----------------------------------------------------------------------------
Edited ==
    /\ costEdits < MaxCostEdits /\ costEdits' = costEdits + 1
    /\ trend' = "none" /\ written' = "nothing"

MerchantSetsPrice ==
    /\ price' \in Prices \ {price}
    /\ Edited /\ UNCHANGED <<unitCost, manual, rules>>

UnitCostChanges ==
    /\ unitCost' \in UnitCosts \ {unitCost}
    /\ Edited /\ UNCHANGED <<price, manual, rules>>

\* upsertManualCost, deleteManualCost
ManualCostChanges ==
    /\ \E row \in DOMAIN manual, cost \in ManualCosts :
          /\ cost # manual[row]
          /\ manual' = [manual EXCEPT ![row] = cost]
    /\ Edited /\ UNCHANGED <<price, unitCost, rules>>

RulesChange ==
    /\ rules' \in PriceRules \ {rules} /\ Valid(rules')
    /\ Edited /\ UNCHANGED <<price, unitCost, manual>>

RepricingNext ==
    Reprice \/ MerchantSetsPrice \/ UnitCostChanges \/ ManualCostChanges \/ RulesChange

-----------------------------------------------------------------------------
\* While nobody edits anything, runs move the price in one direction only and
\* leave it alone for good once it has arrived: automation answers its own
\* products/update notifications and must not chase itself
\* (automation.triggers.ts:13, "a fixed point").
FollowsTrend ==
    costEdits' = costEdits =>
        /\ trend = "settled" => price' = price
        /\ trend = "up" => price' >= price
        /\ trend = "down" => price' <= price

\* No run writes a price below a floor, except the one way the code has: after
\* a hundred raises the candidate is written as it is (price.rules.ts:345).
NeverBelow == written' # "below"

PricesSettle == [][FollowsTrend /\ NeverBelow]_repricingVars
================================================================================
