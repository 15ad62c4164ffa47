--------------------------------- MODULE Research ---------------------------------
(***************************************************************************)
(* What the research module thinks of a candidate: the eight factors       *)
(* (intelligence/scoring), the signals they are scored from                *)
(* (intelligence/providers), and the recommendation an operator is shown   *)
(* (candidate.analysis.ts, candidate.types.ts).                            *)
(*                                                                         *)
(* The figures an operator typed and the priced offer are fixed; edits of  *)
(* them are the business of Candidate.  What moves is the world: orders of *)
(* the same category are sold, shipped, delivered, refunded and cancelled, *)
(* Shopify cannot be read, the supplier is verified, and time passes.      *)
(* Times are hours, rates tenths of a percent.                             *)
(***************************************************************************)
EXTENDS Sourceability, Shipments, Sequences

CONSTANTS
    Market,         \* [country, region]
    Entries,        \* figures typed: [searches, momentum, competition, season, country, region, observedAt]
    Offers,         \* commercials, priced: [margin, price, currency, days, observedAt]
    Sheets,         \* what an operator may find out about the supplier (checkedAt is filled in)
    Category,       \* the store's products of this category: [products, low, high, currency]
    Batches,        \* groups of orders that share a fate
    Size,           \* the number of orders in each
    Waits,          \* hours that pass at once
    MaxTime, MaxChanges

VARIABLES
    entry, offer, sheet,
    orders,         \* the order each batch consists of, or Unsold
    reachable,      \* whether Shopify answers
    analysis,       \* what the last analysis stored
    now, changes

researchVars == <<entry, offer, sheet, orders, reachable, analysis, now, changes>>

-----------------------------------------------------------------------------
(* Arithmetic and bands *)

Absent == -1000     \* a figure nobody supplied

\* Math.round of a quotient, b > 0
Rounded(a, b) == (2 * a + b) \div (2 * b)

Larger(a, b) == IF a > b THEN a ELSE b
Smaller(a, b) == IF a < b THEN a ELSE b

\* bandScore and inverseBandScore: the first band reached, in the order they are written
BandScore(value, bands, fallback) ==
    LET reached == {i \in DOMAIN bands : value >= bands[i][1]}
    IN  IF reached = {} THEN fallback ELSE bands[Min(reached)][2]

InverseBandScore(value, bands, fallback) ==
    LET reached == {i \in DOMAIN bands : value <= bands[i][1]}
    IN  IF reached = {} THEN fallback ELSE bands[Min(reached)][2]

VolumeBands == <<<<100000, 95>>, <<25000, 88>>, <<8000, 75>>, <<2000, 60>>, <<500, 42>>, <<100, 25>>>>
MomentumBands ==
    <<<<75, 96>>, <<40, 90>>, <<15, 78>>, <<5, 64>>, <<-5, 50>>, <<-15, 32>>, <<-40, 18>>>>
MarginBands == <<<<60, 97>>, <<45, 90>>, <<35, 78>>, <<25, 62>>, <<15, 40>>, <<5, 18>>, <<0, 8>>>>
CompetitionBands == <<<<20, 95>>, <<35, 85>>, <<50, 70>>, <<65, 55>>, <<80, 40>>>>
TransitBands == <<<<3, 98>>, <<6, 90>>, <<10, 74>>, <<14, 58>>, <<21, 34>>, <<30, 18>>>>
DelayBands == <<<<20, 97>>, <<50, 88>>, <<100, 72>>, <<200, 48>>, <<300, 25>>>>
RefundBands == <<<<10, 97>>, <<30, 88>>, <<60, 70>>, <<100, 45>>, <<150, 25>>>>
StateScores == [EARLY |-> 95, RISING |-> 88, PEAK |-> 70, FALLING |-> 30, OFF_SEASON |-> 15]

\* FRESHNESS_POLICIES: fresh within, aging within
FreshnessPolicies ==
    [TREND |-> <<24, 168>>, KEYWORD_METRICS |-> <<168, 720>>, SUPPLIER_COST |-> <<336, 1080>>,
     STORE_PERFORMANCE |-> <<24, 168>>, FULFILLMENT_HISTORY |-> <<168, 1440>>]

-----------------------------------------------------------------------------
(* A factor: its value (Absent when unscored), how sure it is, how old its one evidence *)

Unscored == [value |-> Absent, confidence |-> "UNKNOWN", freshness |-> "UNKNOWN"]

Scored(value, confidence, observedAt, kind, at) ==
    [value |-> value, confidence |-> confidence,
     freshness |-> ResolveFreshness(observedAt, at, FreshnessPolicies[kind][1], FreshnessPolicies[kind][2])]

MatchGeography(signal) ==
    CASE signal.country = Unset -> "GLOBAL"
      [] signal.country \notin {Unset, Market.country} -> "MISMATCH"
      [] signal.country = Market.country ->
            CASE Market.region = Unset -> "COUNTRY_EXACT"
              [] Market.region # Unset /\ signal.region = Market.region -> "REGION_EXACT"
              [] Market.region # Unset /\ signal.region = Unset -> "COUNTRY_ONLY"
              [] OTHER -> "MISMATCH"

ConfidenceForGeography(match) ==
    CASE match \in {"REGION_EXACT", "COUNTRY_EXACT"} -> "KNOWN"
      [] match \in {"COUNTRY_ONLY", "GLOBAL"} -> "ESTIMATED"
      [] OTHER -> "UNKNOWN"

\* A figure the operator typed counts unless it is missing or is about another market.
Typed(figure, value, kind, at) ==
    IF figure = Absent \/ MatchGeography(entry) = "MISMATCH" THEN Unscored
    ELSE Scored(value, ConfidenceForGeography(MatchGeography(entry)), entry.observedAt, kind, at)

ScoreDemand(at) == Typed(entry.searches, BandScore(entry.searches, VolumeBands, 10), "KEYWORD_METRICS", at)

ScoreTrend(at) == Typed(entry.momentum, BandScore(entry.momentum, MomentumBands, 8), "TREND", at)

ScoreCompetition(at) ==
    Typed(entry.competition, InverseBandScore(entry.competition, CompetitionBands, 25), "KEYWORD_METRICS", at)

ScoreSeasonality(at) ==
    IF entry.season \notin DOMAIN StateScores THEN Unscored
    ELSE Typed(0, StateScores[entry.season], "TREND", at)

ScoreShipping(at) ==
    IF offer.days = Absent THEN Unscored
    ELSE Scored(InverseBandScore(offer.days, TransitBands, 8), "ESTIMATED", offer.observedAt, "SUPPLIER_COST", at)

\* Every cost was typed in.  A cost without a date counts as seen now: evidence falls back
\* to the time it was fetched.
ScoreProfitability(at) ==
    IF offer.margin = Absent THEN Unscored
    ELSE Scored(BandScore(offer.margin, MarginBands, 2), "ESTIMATED",
                IF offer.observedAt = Never THEN at ELSE offer.observedAt, "SUPPLIER_COST", at)

-----------------------------------------------------------------------------
(* The store's own history *)

Unsold == [status |-> "UNSOLD"]

Sold(book) == {b \in Batches : book[b] # Unsold}

CountOf(batches) == MapThenSumSet(LAMBDA b : Size[b], batches)

IsRefunded(order) == order.financial \in {"REFUNDED", "PARTIALLY_REFUNDED"}

\* The orders that fulfillment was expected of
Fulfillable(book) == {b \in Sold(book) : IsPaid(book[b].financial) /\ ~book[b].cancelled}

\* rate, of a part in a whole that is not empty
Rate(part, whole) == Rounded(1000 * CountOf(part), CountOf(whole))

DelayRate(book, at) == Rate({b \in Fulfillable(book) : DelaySignals(book[b], at) # {}}, Fulfillable(book))

RefundRate(book) == Rate({b \in Fulfillable(book) : IsRefunded(book[b])}, Fulfillable(book))

NewestOrderAt(book) == IF Sold(book) = {} THEN Never ELSE Max({book[b].made : b \in Sold(book)})

MinimumFulfillmentSample == 10

SampleSuffices(book) == reachable /\ CountOf(Fulfillable(book)) >= MinimumFulfillmentSample

ScoreFulfillmentQuality(book, at) ==
    IF ~SampleSuffices(book) THEN Unscored
    ELSE Scored(Rounded(InverseBandScore(DelayRate(book, at), DelayBands, 10)
                          + InverseBandScore(RefundRate(book), RefundBands, 10), 2),
                "KNOWN", NewestOrderAt(book), "FULFILLMENT_HISTORY", at)

MaxFulfillmentPenalty == 30

FulfillmentPenalty(book, at) ==
    IF ~SampleSuffices(book) THEN 0
    ELSE Smaller(MaxFulfillmentPenalty,
                 Rounded(8 * Larger(0, DelayRate(book, at) - 100) + 16 * Larger(0, RefundRate(book) - 50), 100))

\* The parts of store fit, as <<what, score, weight>>
CategoryPart(book) ==
    IF Category.products = 0 THEN {<<"category", 45, 2>>}
    ELSE {<<"category", BandScore(CountOf(Sold(book)), <<<<100, 95>>, <<30, 85>>, <<5, 70>>>>, 55), 2>>}

PricePart ==
    LET width == Larger(Category.high - Category.low, 1)
        distance == Larger(Category.low - offer.price, offer.price - Category.high)
    IN  IF offer.price = Absent \/ Category.products = 0 \/ offer.currency # Category.currency THEN {}
        ELSE {<<"price", CASE distance <= 0 -> 92
                           [] distance > 0 /\ 2 * distance <= width -> 72
                           [] 2 * distance > width /\ 2 * distance <= 3 * width -> 50
                           [] OTHER -> 28, 2>>}

RefundPart(book) ==
    IF Sold(book) = {} THEN {}
    ELSE {<<"refunds", InverseBandScore(Rate({b \in Sold(book) : IsRefunded(book[b])}, Sold(book)),
                                        <<<<20, 95>>, <<50, 82>>, <<100, 60>>>>, 35), 1>>}

FitParts(book) == CategoryPart(book) \cup PricePart \cup RefundPart(book)

WeightOf(parts) == MapThenSumSet(LAMBDA p : p[3], parts)

PointsOf(parts) == MapThenSumSet(LAMBDA p : p[2] * p[3], parts)

ScoreStoreFit(book, at) ==
    LET parts == FitParts(book)
        penalty == FulfillmentPenalty(book, at) * WeightOf(parts)
    IN  IF ~reachable THEN Unscored
        ELSE Scored(Larger(0, Rounded(PointsOf(parts) - penalty, WeightOf(parts))),
                    IF Cardinality(parts) >= 2 THEN "KNOWN" ELSE "ESTIMATED",
                    IF NewestOrderAt(book) = Never THEN at ELSE NewestOrderAt(book), "STORE_PERFORMANCE", at)

-----------------------------------------------------------------------------
(* The verdict *)

DefaultScoreWeights ==
    [demand |-> 20, trend |-> 20, profitability |-> 20, storeFit |-> 15, competition |-> 10,
     shipping |-> 10, seasonality |-> 5, fulfillmentQuality |-> 0]

Factors == DOMAIN DefaultScoreWeights

\* A factor without weight still counts as something to know.
CoverageWeight(f) == Larger(DefaultScoreWeights[f], 5)

FactorScores(book, at) ==
    [demand |-> ScoreDemand(at), trend |-> ScoreTrend(at), profitability |-> ScoreProfitability(at),
     storeFit |-> ScoreStoreFit(book, at), competition |-> ScoreCompetition(at), shipping |-> ScoreShipping(at),
     seasonality |-> ScoreSeasonality(at), fulfillmentQuality |-> ScoreFulfillmentQuality(book, at)]

ScoredOf(scores) == {f \in Factors : scores[f].value # Absent}

\* The factors without data are left out, and the weights of the rest made up to the whole.
ScoredWeight(scores) == MapThenSumSet(LAMBDA f : DefaultScoreWeights[f], ScoredOf(scores))

ScoredPoints(scores) ==
    MapThenSumSet(LAMBDA f : scores[f].value * DefaultScoreWeights[f], ScoredOf(scores))

WeightedOverall(scores) ==
    IF ScoredWeight(scores) = 0 THEN Absent
    ELSE Rounded(ScoredPoints(scores), ScoredWeight(scores))

ConfidencePoints == [KNOWN |-> 100, ESTIMATED |-> 55, UNKNOWN |-> 0]

FreshnessPoints == [FRESH |-> 100, AGING |-> 70, STALE |-> 30, UNKNOWN |-> 20]

Covered(scores) == MapThenSumSet(CoverageWeight, ScoredOf(scores))

Total == MapThenSumSet(CoverageWeight, Factors)

Observed(scores) ==
    MapThenSumSet(LAMBDA f : ConfidencePoints[scores[f].confidence] * CoverageWeight(f), ScoredOf(scores))

Current(scores) == MapThenSumSet(LAMBDA f : FreshnessPoints[scores[f].freshness], ScoredOf(scores))

\* Mutant: coverage is a third share of the sum, not a factor of it.
ConfidenceAdded(scores) ==
    LET n == Cardinality(ScoredOf(scores))
    IN  (40 * Covered(scores)) \div Total + (4 * Observed(scores)) \div (10 * Larger(Covered(scores), 1))
          + (2 * Current(scores)) \div (10 * Larger(n, 1))

\* Coverage multiplied by quality, six tenths of it how directly seen and four how current
ComputeConfidenceScore(scores) ==
    LET n == Cardinality(ScoredOf(scores))
    IN  Rounded(6 * Observed(scores) * n + 4 * Current(scores) * Covered(scores), 10 * n * Total)

\* bandFor: what rests on thin data is not recommended.
BandFor(overall, confidence) ==
    LET base == CASE overall >= 80 -> "STRONG_CANDIDATE"
                  [] overall >= 65 /\ overall < 80 -> "GOOD_CANDIDATE"
                  [] overall >= 50 /\ overall < 65 -> "WATCH"
                  [] overall >= 35 /\ overall < 50 -> "WEAK"
                  [] OTHER -> "REJECT"
    IN  IF confidence < 60 THEN CapAt(base, "WATCH") ELSE base

\* scoreCandidate: without an overall score there is no confidence and no verdict.
Judged(scores, overall, confidence) ==
    [scores |-> scores, overall |-> overall,
     confidence |-> IF overall = Absent THEN 0 ELSE confidence,
     recommendation |-> IF overall = Absent THEN Unset ELSE BandFor(overall, confidence)]

ScoreCandidate(scores) == Judged(scores, WeightedOverall(scores), ComputeConfidenceScore(scores))

Verdict(book, at) == ScoreCandidate(FactorScores(book, at))

NotAnalysed ==
    [scores |-> [f \in Factors |-> Unscored], overall |-> Absent, confidence |-> 0, recommendation |-> Unset]

\* finalRecommendationOf: the gate is applied to the stored verdict whenever it is read.
FinalRecommendationOf(verdict, at) == ApplySourceabilityGate(verdict.recommendation, sheet, at)

\* The confidence shown beside it: an uncertain supplier takes some of it away.
FinalConfidence(verdict, at) == Larger(0, verdict.confidence - ConfidencePenalty(sheet, at))

-----------------------------------------------------------------------------
(* What happens *)

NewOrder == [status |-> "UNFULFILLED", financial |-> "PAID", cancelled |-> FALSE, made |-> now, parcels |-> {}]

InTransit == [NewParcel EXCEPT !.display = "IN_TRANSIT", !.number = "1Z", !.made = now, !.moved = now,
                               !.eta = now + 100]

ResearchInit ==
    /\ now = 0 /\ changes = 0 /\ reachable = TRUE
    /\ entry \in Entries /\ offer \in Offers
    /\ sheet = EmptySupplierInfo
    /\ orders \in [Batches -> {Unsold, NewOrder, [NewOrder EXCEPT !.parcels = {InTransit}]}]
    /\ analysis = NotAnalysed

\* analyzeCandidate
Analyse ==
    /\ analysis' = Verdict(orders, now)
    /\ UNCHANGED <<entry, offer, sheet, orders, reachable, now, changes>>

Change == /\ changes < MaxChanges
          /\ changes' = changes + 1
          /\ UNCHANGED <<entry, offer, analysis, now>>

VerifySupplier(s) ==
    /\ Change
    /\ sheet' = [s EXCEPT !.checkedAt = now]
    /\ UNCHANGED <<orders, reachable>>

ShopifyTurns ==
    /\ Change
    /\ reachable' = ~reachable
    /\ UNCHANGED <<sheet, orders>>

\* A batch of orders becomes this.
Becomes(b, order) ==
    /\ Change
    /\ orders' = [orders EXCEPT ![b] = order]
    /\ UNCHANGED <<sheet, reachable>>

Sell(b) == orders[b] = Unsold /\ Becomes(b, NewOrder)

Open(b) == orders[b] # Unsold /\ IsPaid(orders[b].financial) /\ ~orders[b].cancelled

Ship(b) == /\ Open(b) /\ orders[b].parcels = {}
           /\ Becomes(b, [orders[b] EXCEPT !.parcels = {InTransit}])

Deliver(b) == /\ Open(b) /\ orders[b].parcels # {}
              /\ Becomes(b, [orders[b] EXCEPT !.parcels = {[f EXCEPT !.display = "DELIVERED", !.arrived = now] : f \in @}])

RefundInPart(b) == Open(b) /\ Becomes(b, [orders[b] EXCEPT !.financial = "PARTIALLY_REFUNDED"])

RefundInFull(b) == Open(b) /\ Becomes(b, [orders[b] EXCEPT !.financial = "REFUNDED"])

Cancel(b) == Open(b) /\ orders[b].parcels = {} /\ Becomes(b, [orders[b] EXCEPT !.cancelled = TRUE])

Wait(hours) ==
    /\ now + hours <= MaxTime
    /\ now' = now + hours
    /\ UNCHANGED <<entry, offer, sheet, orders, reachable, analysis, changes>>

ResearchNext ==
    \/ Analyse
    \/ \E s \in Sheets : VerifySupplier(s)
    \/ ShopifyTurns
    \/ \E b \in Batches : \/ Sell(b) \/ Ship(b) \/ Deliver(b)
                          \/ RefundInPart(b) \/ RefundInFull(b) \/ Cancel(b)
    \/ \E hours \in Waits : Wait(hours)

ResearchSpec == ResearchInit /\ [][ResearchNext]_researchVars

-----------------------------------------------------------------------------
\* Nothing is recommended (scoring.service.ts, computeConfidenceScore: "confidence can
\* never exceed the share of the assessment actually performed") unless three fifths of the
\* assessment were performed, and unless the supplier is known to have it at this moment,
\* however long ago the analysis was.
RecommendedIsResearched ==
    FinalRecommendationOf(analysis, now) \in {"STRONG_CANDIDATE", "GOOD_CANDIDATE"} =>
        /\ 10 * Covered(analysis.scores) >= 6 * Total
        /\ PushEligible(sheet, now)

Rank(recommendation) == IF recommendation = Unset THEN -1 ELSE RecommendationRank[recommendation]

\* The supplier is said to have it, in none of its variants: rejected, until the sheet is
\* stale and nobody looks at its rows any more.
AllVariantsOut == sheet.availability = "AVAILABLE" /\ VariantCoverageOf(sheet.rows) = "NONE"

\* Time that passes without news never makes a candidate look better, whether it is analysed
\* again (evidence ages, open orders turn late) or only read again (the verification ages):
\* but for a candidate all of whose variants are out, which is held at WATCH at most.
WaitingNeverHelps ==
    \A hours \in Waits :
        \A sooner \in {Verdict(orders, now)}, later \in {Verdict(orders, now + hours)} :
            /\ later.overall <= sooner.overall
            /\ \A pair \in {<<sooner, later>>, <<analysis, analysis>>} :
                  /\ FinalConfidence(pair[2], now + hours) <= FinalConfidence(pair[1], now)
                  /\ Rank(FinalRecommendationOf(pair[2], now + hours))
                        <= Larger(Rank(FinalRecommendationOf(pair[1], now)),
                                  IF AllVariantsOut THEN RecommendationRank["WATCH"] ELSE -1)

\* Not guaranteed by the code (README, section 11).
\* A confirmed inability to source stays one: "no amount of demand overrides" it
\* (intelligence/sourceability.ts), yet a stale sheet lifts the rejection to WATCH.
RejectionStays ==
    AllVariantsOut =>
        \A hours \in Waits :
            Rank(FinalRecommendationOf(analysis, now + hours)) <= Rank(FinalRecommendationOf(analysis, now))

\* Not guaranteed by the code (README, section 11).
\* An order that is refunded in full never makes the store fit better (storeFit.score.ts:
\* "Poor real-world delivery on comparable products LOWERS store fit").
RefundNeverHelps ==
    \A b \in Sold(orders) :
        LET refunded == [orders EXCEPT ![b].financial = "REFUNDED"]
        IN  Verdict(refunded, now).scores.storeFit.value <= Verdict(orders, now).scores.storeFit.value

================================================================================
