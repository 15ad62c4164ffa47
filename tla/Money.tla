--------------------------------- MODULE Money ---------------------------------
(***************************************************************************)
(* Amounts of money and the arithmetic of prices (common/money.ts,         *)
(* pricing/pricing.service.ts, pricing/rounding.ts).  Amounts are integers *)
(* of minor units, rates are per mille, margins and factors come in        *)
(* hundredths.  Null stands for null: an amount nobody recorded.           *)
(***************************************************************************)
EXTENDS Integers, FiniteSetsExt

Null == -1

Known(amount) == amount # Null

\* roundHalfAwayFromZero of a quotient, b > 0
RoundRatio(a, b) ==
    LET half(n) == n \div b + (IF 2 * (n % b) >= b THEN 1 ELSE 0)
    IN  IF a < 0 THEN -half(-a) ELSE half(a)

PercentageOf(value, perMille) == RoundRatio(value * perMille, 1000)

\* divideMoney by perMille / 1000
DivideMoney(value, perMille) == RoundRatio(value * 1000, perMille)

MultiplyMoney(value, hundredths) == RoundRatio(value * hundredths, 100)

\* sumMoney skips what is not known.
SumMoney(a, b) == (IF Known(a) THEN a ELSE 0) + (IF Known(b) THEN b ELSE 0)

-----------------------------------------------------------------------------
\* calculatePricing: costs are the fees at this price and the absolute costs.
CalculatePricing(price, costs, rates) ==
    LET fee(r) == PercentageOf(price, rates[r])
        profit == price - costs - MapThenSumSet(fee, DOMAIN rates)
    IN  [profit |-> profit,
         margin |-> IF price > 0 THEN RoundRatio(profit * 10000, price) ELSE Null]

SumRates(rates) == MapThenSumSet(LAMBDA r : rates[r], DOMAIN rates)

\* calculateSuggestedPrice; Null when it throws
CalculateSuggestedPrice(margin, costs, rates) ==
    LET divisor == 1000 - margin - SumRates(rates)
    IN  IF margin \notin 0..999 \/ divisor <= 0 \/ costs = 0 THEN Null
        ELSE DivideMoney(costs, divisor)

\* pricingGuardBreaches; floors is a record [margin (per mille), profit]
BreachesGuards(result, floors) ==
    \/ result.margin # Null /\ result.margin < floors.margin * 10
    \/ floors.profit > 0 /\ result.profit < floors.profit

-----------------------------------------------------------------------------
\* toCharm99 and applyRounding
ApplyRounding(value, rounding) ==
    LET whole == value \div 100
    IN  CASE rounding = "none" -> value
          [] rounding = "integer" -> Max({100, 100 * RoundRatio(value, 100)})
          [] rounding = "charm99" ->
                IF value <= 99 THEN 99
                ELSE IF value % 100 = 99 THEN value
                ELSE 100 * whole - 1

RoundingStep(rounding) == IF rounding = "integer" THEN 100 ELSE 50

\* After how many steps a price is raised no more, where clears[n] says whether n of
\* them clear the floors: the first that does, or `limit` when none does.
StepsToClear(clears, limit) ==
    CHOOSE n \in 0..limit : /\ n = limit \/ clears[n]
                            /\ \A m \in 0..(n - 1) : ~clears[m]
================================================================================
