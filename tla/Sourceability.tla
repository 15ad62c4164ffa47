------------------------------ MODULE Sourceability ------------------------------
(***************************************************************************)
(* What a supplier verification is worth: how old it is                    *)
(* (common/dataQuality.ts), what it says now, and what it does to a        *)
(* recommendation (intelligence/sourceability.ts).                         *)
(*                                                                         *)
(* A sheet is what an operator recorded about a supplier's product:        *)
(*   [availability, checkedAt, manual, rows]                               *)
(* with one row [v, id, sku, option, availability] per supplier variant.   *)
(* v is the thing itself, which the program never sees; the program tells  *)
(* variants apart by id, SKU and option values, any of which may be Unset. *)
(***************************************************************************)
EXTENDS Integers, FiniteSets

Unset == "unset"
Never == -1           \* no time at all

\* resolveFreshness: a time in the future counts as fresh, no time at all as unknown.
ResolveFreshness(observedAt, now, freshWithin, agingWithin) ==
    IF observedAt = Never THEN "UNKNOWN"
    ELSE IF now - observedAt <= freshWithin THEN "FRESH"
    ELSE IF now - observedAt <= agingWithin THEN "AGING"
    ELSE "STALE"

ManualAvailabilityFreshHours == 72

CheckFreshness(checkedAt, now) ==
    ResolveFreshness(checkedAt, now, ManualAvailabilityFreshHours, 2 * ManualAvailabilityFreshHours)

\* What a candidate nobody verified counts as.
EmptySupplierInfo == [availability |-> "UNKNOWN", checkedAt |-> Never, manual |-> TRUE, rows |-> {}]

\* A sheet without rows says nothing of variants, which is not the same as none of them.
VariantCoverageOf(rows) ==
    IF rows = {} THEN "UNKNOWN"
    ELSE IF \A r \in rows : r.availability = "AVAILABLE" THEN "FULL"
    ELSE IF \A r \in rows : r.availability = "UNAVAILABLE" THEN "NONE"
    ELSE "PARTIAL"

\* computeSourceability: the verdict that the push, the catalog and the score act on
CurrentSourceability(sheet, now) ==
    CASE sheet.availability = "UNAVAILABLE" -> "NOT_SOURCEABLE"
      [] sheet.availability = "UNKNOWN" -> "UNVERIFIED"
      [] sheet.availability = "AVAILABLE" ->
            IF CheckFreshness(sheet.checkedAt, now) = "STALE" THEN "NEEDS_RECHECK"
            ELSE CASE VariantCoverageOf(sheet.rows) = "NONE" -> "NOT_SOURCEABLE"
                   [] VariantCoverageOf(sheet.rows) = "PARTIAL" -> "PARTIALLY_SOURCEABLE"
                   [] OTHER -> "SOURCEABLE"

PushEligible(sheet, now) == CurrentSourceability(sheet, now) \in {"SOURCEABLE", "PARTIALLY_SOURCEABLE"}

\* How much of the confidence in a score an uncertain supplier takes away.
ConfidencePenalty(sheet, now) ==
    CASE CurrentSourceability(sheet, now) \in {"UNVERIFIED", "NEEDS_RECHECK"} -> 25
      [] sheet.availability = "UNAVAILABLE" -> 0
      [] OTHER -> (IF CurrentSourceability(sheet, now) = "PARTIALLY_SOURCEABLE" THEN 10 ELSE 0)
                  + (IF sheet.manual /\ CheckFreshness(sheet.checkedAt, now) = "AGING" THEN 5 ELSE 0)

-----------------------------------------------------------------------------
RecommendationRank ==
    [STRONG_CANDIDATE |-> 4, GOOD_CANDIDATE |-> 3, WATCH |-> 2, WEAK |-> 1, REJECT |-> 0]

\* capAt: the more cautious of the two
CapAt(rec, cap) == IF RecommendationRank[rec] <= RecommendationRank[cap] THEN rec ELSE cap

\* applySourceabilityGate: Unset is a score too incomplete to recommend anything.
ApplySourceabilityGate(recommendation, sheet, now) ==
    IF recommendation = Unset THEN Unset
    ELSE CASE CurrentSourceability(sheet, now) = "NOT_SOURCEABLE" -> "REJECT"
           [] CurrentSourceability(sheet, now) \in {"UNVERIFIED", "NEEDS_RECHECK"} ->
                CapAt(recommendation, "WATCH")
           [] OTHER -> recommendation

=============================================================================
