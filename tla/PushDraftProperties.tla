-------------------------- MODULE PushDraftProperties --------------------------
(***************************************************************************)
(* What pushing a candidate, and deciding about it, has to guarantee.      *)
(***************************************************************************)
EXTENDS PushDraft

\* One candidate, one draft: whatever crashes, expires or is retried, a
\* second product is only ever made by a productCreate sent again after its
\* answer was lost.  Where Shopify's search lags (PromptShopify = FALSE) the
\* code does not promise this.
OneDraft == Cardinality(Made) <= 1 + lost

\* A draft, and the supplier cost recorded for it, are those of the decision
\* the operator approved, also when another operation adopts the draft and
\* while the candidate is being edited.
DraftsCarryTheirDecision ==
    \A p \in Made :
        /\ draft[p].inputs = draft[p].approved
        /\ cost[p] \in {None, draft[p].inputs}

\* The product a candidate is linked to exists, its link is never cleared, and an
\* incident is never turned into a success.  The link is exchanged by an incident
\* only: a product that could not be hidden takes it over, whoever owns the claim
\* (markSafetyIncident, push.service.ts:247-271, asks for no owner).
LinkStays ==
    doc.product # None =>
        /\ doc.product \in Made
        /\ doc.push \in {"SUCCEEDED", "SAFETY_INCIDENT"}
        /\ doc' # doc =>
              \/ doc'.push = "SAFETY_INCIDENT"
              \/ doc'.product = doc.product /\ doc'.push = doc.push

LinkIsFinal == [][LinkStays]_vars

\* A score that does not count as stale is about the inputs as they are, when
\* one request at a time edits or analyses the candidate beside the pushes.
ScoreIsHonest ==
    doc.score # None /\ ~ScoreIsStale(doc) => doc.score = doc.inputs

\* A decision is final: nothing brings a rejected or pushed candidate back
\* into research.
TerminalStays ==
    [][IsTerminal(doc.status) => doc'.status = doc.status]_vars

\* A draft that was made is adopted in the end, whoever died and whatever
\* answer was lost, unless the operator rejects the candidate meanwhile.
DraftsAreAdopted ==
    Made # {} ~> (doc.product # None \/ doc.status = "REJECTED")
=============================================================================
