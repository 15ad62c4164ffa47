----------------------------- MODULE Recommendation -----------------------------
(***************************************************************************)
(* The price recommendation for a research candidate: three scenarios      *)
(* around the policy, their judgement by the floors, the minimum viable    *)
(* price and the scenario to lead with (pricing/recommendation.ts).        *)
(* A question is asked and answered; nothing else happens here.            *)
(***************************************************************************)
EXTENDS Money, Sequences, FiniteSets

CONSTANTS
    Costs,      \* [supplier, supplierCurrency, shipping, shippingCurrency, selling]
    Policies    \* pricing policies, records like DefaultPolicy

VARIABLES
    costs,      \* what is recorded of the candidate's costs
    policy,     \* the policy asked about
    answer      \* the recommendation, or what blocked it

recommendationVars == <<costs, policy, answer>>

NoAnswer == [state |-> "none", scenarios |-> <<>>, recommended |-> "none", minimum |-> Null]

Blocked == [NoAnswer EXCEPT !.state = "blocked"]

\* DEFAULT_PRICING_POLICY
DefaultPolicy ==
    [strategy |-> "TARGET_MARGIN", target |-> 450, multiplier |-> 250, uplift |-> 1000,
     rates |-> [payment |-> 29, platform |-> 0, advertising |-> 0], other |-> 0,
     floors |-> [margin |-> 150, profit |-> 0], rounding |-> "charm99"]

RecommendationInit ==
    /\ costs \in Costs /\ policy \in Policies
    /\ answer = NoAnswer

-----------------------------------------------------------------------------
ValidPolicy ==
    /\ policy.target \in 0..999 /\ policy.floors.margin \in 0..999
    /\ policy.multiplier > 100
    /\ policy.target >= policy.floors.margin
    /\ SumRates(policy.rates) + policy.target < 1000

Usable(currency) == currency \in {"shop", "other"}

\* Every amount has a currency, they agree with each other and with the shop's.
CurrenciesAgree ==
    LET used == {c \in {<<costs.supplier, costs.supplierCurrency>>,
                        <<costs.shipping, costs.shippingCurrency>>} : Known(c[1])}
        codes == {c[2] : c \in used}
    IN  /\ \A c \in codes : Usable(c)
        /\ costs.selling # "malformed"
        /\ Cardinality(codes) <= 1
        /\ costs.selling = "none" \/ codes \subseteq {costs.selling}

Landed == SumMoney(costs.supplier, costs.shipping)

Evaluate(price) == CalculatePricing(price, Landed + policy.other, policy.rates)

\* Mutant: only the margin is a floor.
ViableByMargin(price) ==
    ~BreachesGuards(Evaluate(price), [policy.floors EXCEPT !.profit = 0])

Viable(price) == ~BreachesGuards(Evaluate(price), policy.floors)

-----------------------------------------------------------------------------
Names == <<"CONSERVATIVE", "BALANCED", "PREMIUM">>

\* SCENARIO_PLANS
MarginPoints == <<-100, 0, 120>>
MultiplierDelta == <<-40, 0, 60>>
UpliftFactor == <<75, 100, 135>>

ClampMargin(requested) ==
    Min({Max({0, 990 - SumRates(policy.rates)}), Max({policy.floors.margin, requested})})

Target(i) ==
    CASE policy.strategy = "MARKUP_MULTIPLIER" ->
            MultiplyMoney(Landed, Max({101, policy.multiplier + MultiplierDelta[i]}))
      [] policy.strategy = "FIXED_UPLIFT" ->
            Landed + RoundRatio(policy.uplift * UpliftFactor[i], 100)
      [] policy.strategy = "TARGET_MARGIN" ->
            CalculateSuggestedPrice(ClampMargin(policy.target + MarginPoints[i]),
                                    Landed + policy.other, policy.rates)

BuildScenario(i) ==
    LET price == ApplyRounding(Target(i), policy.rounding)
    IN  [name |-> Names[i], price |-> price, viable |-> Viable(price)]

\* The two floors solved for, rounded, and stepped up until both are cleared
ComputeMinimumViablePrice ==
    LET margin == CalculateSuggestedPrice(policy.floors.margin, Landed + policy.other, policy.rates)
        divisor == 1000 - SumRates(policy.rates)
        profit == DivideMoney(Landed + policy.other + policy.floors.profit, divisor)
        solved == {p \in {margin} : policy.floors.margin > 0 /\ Known(p)}
                    \cup (IF policy.floors.profit > 0 THEN {profit} ELSE {})
        start == ApplyRounding(Max(solved), policy.rounding)
        raised(n) == start + n * RoundingStep(policy.rounding)
        steps == StepsToClear([n \in 0..199 |-> Viable(raised(n))], 200)
    IN  IF divisor <= 0 \/ solved = {} \/ steps = 200 THEN Null ELSE raised(steps)

\* Balanced when it is viable, else the cheapest that is
ChooseRecommended(scenarios) ==
    LET viable == {i \in DOMAIN scenarios : scenarios[i].viable}
        balanced == {i \in viable : scenarios[i].name = "BALANCED"}
        cheapest == {i \in viable : \A j \in viable : scenarios[i].price <= scenarios[j].price}
    IN  IF viable = {} THEN "none"
        ELSE IF balanced # {} THEN "BALANCED"
        ELSE scenarios[Min(cheapest)].name

RecommendPrice ==
    /\ answer.state = "none"
    /\ LET computed == SelectSeq(<<1, 2, 3>>, LAMBDA i : Known(Target(i)))
           scenarios == [k \in DOMAIN computed |-> BuildScenario(computed[k])]
       IN  answer' =
             IF ~ValidPolicy \/ ~CurrenciesAgree \/ ~Known(costs.supplier) \/ computed = <<>>
             THEN Blocked
             ELSE [state |-> "answered", scenarios |-> scenarios,
                   recommended |-> ChooseRecommended(scenarios),
                   minimum |-> ComputeMinimumViablePrice]
    /\ UNCHANGED <<costs, policy>>

RecommendationNext == RecommendPrice

-----------------------------------------------------------------------------
\* What is recommended clears both floors and nothing viable is withheld; the
\* minimum viable price clears them too, and so does every dearer price a
\* scenario asks; a price is answered only for costs in one known currency
\* (recommendation.ts:404, :662, :736).
RecommendationIsSound ==
    answer.state = "answered" =>
        LET scenario(i) == answer.scenarios[i]
            offered == {i \in DOMAIN answer.scenarios : scenario(i).name = answer.recommended}
        IN  /\ \A i \in offered :
                  ~BreachesGuards(Evaluate(scenario(i).price), policy.floors)
            /\ (offered = {}) <=>
                  \A i \in DOMAIN answer.scenarios :
                     BreachesGuards(Evaluate(scenario(i).price), policy.floors)
            /\ Known(answer.minimum) =>
                  /\ ~BreachesGuards(Evaluate(answer.minimum), policy.floors)
                  /\ \A i \in DOMAIN answer.scenarios :
                        scenario(i).price >= answer.minimum => scenario(i).viable
=================================================================================
