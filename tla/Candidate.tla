------------------------------- MODULE Candidate -------------------------------
(***************************************************************************)
(* The document of one research candidate, with the filter and the update  *)
(* of each operation on it: those of intelligence.service.ts, those of     *)
(* push.service.ts, and the policy of candidate.transitions.ts.            *)
(*                                                                         *)
(* Everything a score, a price and a decision hash are computed from is    *)
(* one value of Inputs.  pushClaimedAt is abstracted to what the claim     *)
(* tells apart: none, within the two-minute lease, or older.               *)
(***************************************************************************)
EXTENDS Naturals

CONSTANTS
    Inputs,         \* what the operator may enter
    Operations,     \* push operations, by Idempotency-Key
    Products,       \* Shopify products, which are numbered
    MaxDisturbances, \* bound on edits, and on what goes wrong
    None

Statuses == {"NEW", "ANALYZED", "WATCHING", "SELECTED", "REJECTED",
             "PUSHED_TO_SHOPIFY"}

PushStates == {"IDLE", "IN_PROGRESS", "SUCCEEDED", "SAFETY_INCIDENT"}

Document ==
    [status: Statuses,
     inputs: Inputs, revision: 0..MaxDisturbances,
     score: Inputs \cup {None},             \* the inputs the score is about
     analyzed: 0..MaxDisturbances \cup {None},     \* analyzedInputRevision
     push: PushStates, owner: Operations \cup {None},
     claim: {"none", "live", "expired"},
     intent: Inputs \cup {None},            \* the decision in pushIntent
     product: Products \cup {None}]

\* createCandidate
Created(i) ==
    [status |-> "NEW", inputs |-> i, revision |-> 0, score |-> None,
     analyzed |-> None, push |-> "IDLE", owner |-> None, claim |-> "none",
     intent |-> None, product |-> None]

-----------------------------------------------------------------------------
(* The operator's decisions                                                *)

AllowedTransitions ==
    [s \in Statuses |->
        CASE s = "NEW" -> {"ANALYZED", "WATCHING", "SELECTED", "REJECTED"}
          [] s = "ANALYZED" -> {"WATCHING", "SELECTED", "REJECTED"}
          [] s = "WATCHING" -> {"WATCHING", "SELECTED", "REJECTED"}
          [] s = "SELECTED" -> {"WATCHING", "REJECTED"}
          [] OTHER -> {}]

CanTransition(from, to) == to \in AllowedTransitions[from]

IsTerminal(status) == status \in {"PUSHED_TO_SHOPIFY", "REJECTED"}

\* updateCandidate: the new inputs are merged into the document as it was
\* read, and so is the comparison that moves the revision.
Edited(d, read, i) ==
    [d EXCEPT !.inputs = i,
              !.revision = IF i = read.inputs THEN @ ELSE @ + 1]

\* persistAnalysis of an analysis of the document as it was read.
Analyzed(d, read) ==
    [d EXCEPT !.score = read.inputs, !.analyzed = read.revision,
              !.status = IF read.status = "NEW" THEN "ANALYZED" ELSE @]

\* scoreIsStale
ScoreIsStale(d) == d.score # None /\ d.analyzed # d.revision

-----------------------------------------------------------------------------
(* The push                                                                *)

Pushable(status) == status \in {"NEW", "ANALYZED", "WATCHING", "SELECTED"}

CanPushCandidate(d) ==
    /\ d.product = None
    /\ d.push \notin {"IN_PROGRESS", "SAFETY_INCIDENT"}
    /\ Pushable(d.status)

ClaimIsOwnedOrExpired(d, op) ==
    /\ d.push = "IN_PROGRESS"
    /\ d.product = None
    /\ d.owner = op \/ d.claim # "live"

\* Mutant: looks at who runs, not at what was made.
CanClaimNotRunning(d, op) ==
    d.push # "IN_PROGRESS" \/ d.owner = op \/ d.claim # "live"

\* Mutant: the lease is not part of the filter.
CanClaimAnyTime(d, op) == d.product = None /\ d.push \in {"IDLE", "IN_PROGRESS"}

\* The filter of claimPush.
CanClaim(d, op) ==
    /\ d.product = None
    /\ \/ d.push = "IDLE"
       \/ d.push = "IN_PROGRESS" /\ (d.owner = op \/ d.claim # "live")

Claimed(d, op) ==
    [d EXCEPT !.push = "IN_PROGRESS", !.owner = op, !.claim = "live"]

\* The filter of releaseClaim and of markSucceeded.
Owns(d, op) == d.push = "IN_PROGRESS" /\ d.owner = op

Released(d) == [d EXCEPT !.push = "IDLE", !.owner = None, !.claim = "none"]

\* The filter and the update of recordIntent.
CanRecordIntent(d, op) == Owns(d, op) /\ d.product = None

IntentRecorded(d, i) == [d EXCEPT !.claim = "live", !.intent = i]

\* markSucceeded
Succeeded(d, p) ==
    [d EXCEPT !.status = "PUSHED_TO_SHOPIFY", !.push = "SUCCEEDED",
              !.claim = "none", !.product = p]

\* markSafetyIncident, whoever owns the claim.
SafetyIncident(d, op, p) ==
    [d EXCEPT !.status = "PUSHED_TO_SHOPIFY", !.push = "SAFETY_INCIDENT",
              !.owner = op, !.claim = "none", !.product = p]
=============================================================================
