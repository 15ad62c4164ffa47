------------------------------- MODULE PushDraft -------------------------------
(***************************************************************************)
(* Push-as-draft (push.orchestrator.ts over the ports of push.service.ts)  *)
(* on one candidate, together with the requests that edit it, analyse it   *)
(* and decide about it (intelligence.service.ts), and with Shopify as the  *)
(* environment.  Candidates share no document and no lock.                 *)
(*                                                                         *)
(* A call's pc is the await it is suspended at.  A push operation is a     *)
(* slot: the idempotency gate lets one request of an operation run at a    *)
(* time, and a later one of the same slot is its retry.                    *)
(*                                                                         *)
(* The gates between the analysis and the intent (sourceability, partial   *)
(* variants, duplicates, price floors) write nothing: they pass or refuse. *)
(* The audit trail, variant mappings and warnings are left out.            *)
(***************************************************************************)
EXTENDS Candidate, FiniteSets

CONSTANTS
    Editors,        \* slots, others, for requests that edit, analyse or decide
    Decisions,      \* the statuses such a request may ask for
    PromptShopify,  \* Shopify settles and indexes before anybody looks
    PromptPushes    \* a push that runs on ends within its lease

VARIABLES
    doc,        \* the candidate's document
    call,       \* pushes and requests in progress
    draft,      \* Shopify: what each product was made from
    indexed,    \* Shopify: products the tag search finds
    visible,    \* Shopify: products customers can see
    late,       \* Shopify: requests it may still carry out
    cost,       \* Trademart: the supplier cost recorded for a product
    edits,      \* edits, analyses and decisions requested beside the pushes
    lost,       \* productCreate requests without an answer
    published,  \* times somebody published a draft in Shopify
    faults      \* crashes, and failures of a database call or of a late step

shopify == <<draft, indexed, visible, late>>
counters == <<edits, lost, published, faults>>
vars == <<doc, call, shopify, cost, counters>>

-----------------------------------------------------------------------------
Calls == Operations \cup Editors

\* What a request reads of the document and keeps across awaits.
Reading == [status: Statuses, inputs: Inputs, revision: 0..MaxDisturbances]

CallState ==
    [pc: {"idle", "claim", "search", "prepare", "intent", "searchAgain",
          "create", "cost", "persist", "mark", "loadIntent", "hide",
          "restore", "incident", "release", "edit", "analyze", "decide"},
     approved: Inputs \cup {None},      \* expectedDecisionHash
     read: Reading \cup {None},         \* the document as it was read
     target: Inputs \cup Statuses \cup {None},
     intent: Inputs \cup {None},        \* the intent found by a recovery
     product: Products \cup {None},
     exposed: BOOLEAN]                  \* seen visible, and not hidden since

Idle == [pc |-> "idle", approved |-> None, read |-> None, target |-> None,
         intent |-> None, product |-> None, exposed |-> FALSE]

Draft == [inputs: Inputs, approved: Inputs]

TypeOK ==
    /\ doc \in Document
    /\ call \in [Calls -> CallState]
    /\ draft \in [Products -> Draft \cup {None}]
    /\ indexed \subseteq Products /\ visible \subseteq Products
    /\ late \in [Draft -> 0..MaxDisturbances]
    /\ cost \in [Products -> Inputs \cup {None}]
    /\ {edits, lost, published, faults} \subseteq 0..MaxDisturbances

Init ==
    /\ doc \in {Created(i) : i \in Inputs}
    /\ call = [k \in Calls |-> Idle]
    /\ draft = [p \in Products |-> None]
    /\ indexed = {} /\ visible = {}
    /\ late = [d \in Draft |-> 0]
    /\ cost = [p \in Products |-> None]
    /\ edits = 0 /\ lost = 0 /\ published = 0 /\ faults = 0

Become(k, x) == call' = [call EXCEPT ![k] = x]
Goto(k, pc) == Become(k, [call[k] EXCEPT !.pc = pc])
Finish(k) == Become(k, Idle)
At(k, pc) == call[k].pc = pc

Reads == [status |-> doc.status, inputs |-> doc.inputs, revision |-> doc.revision]

\* One more disturbance fits the bound.
Room == edits + lost + published + faults < MaxDisturbances

Fault == Room /\ faults' = faults + 1 /\ UNCHANGED <<edits, lost, published>>
Asked == Room /\ edits' = edits + 1 /\ UNCHANGED <<lost, published, faults>>

Made == {p \in Products : draft[p] # None}

Settled == Made \subseteq indexed /\ \A d \in Draft : late[d] = 0

-----------------------------------------------------------------------------
(* Edits, analyses and decisions: a read, then a write                     *)

BeginEdit(k, i) ==
    /\ At(k, "idle") /\ Asked
    /\ Become(k, [Idle EXCEPT !.pc = "edit", !.read = Reads, !.target = i])
    /\ UNCHANGED <<doc, shopify, cost>>

UpdateCandidate(k) ==
    /\ At(k, "edit")
    /\ doc' = Edited(doc, call[k].read, call[k].target)
    /\ Finish(k)
    /\ UNCHANGED <<shopify, cost, counters>>

\* analyzeCandidate, which refuses to write over a terminal status it read.
BeginAnalysis(k) ==
    /\ At(k, "idle") /\ Asked
    /\ ~IsTerminal(doc.status)
    /\ Become(k, [Idle EXCEPT !.pc = "analyze", !.read = Reads])
    /\ UNCHANGED <<doc, shopify, cost>>

PersistAnalysis(k) ==
    /\ At(k, "analyze")
    /\ doc' = Analyzed(doc, call[k].read)
    /\ Finish(k)
    /\ UNCHANGED <<shopify, cost, counters>>

BeginDecision(k, status) ==
    /\ At(k, "idle") /\ Asked
    /\ CanTransition(doc.status, status)
    /\ Become(k, [Idle EXCEPT !.pc = "decide", !.read = Reads, !.target = status])
    /\ UNCHANGED <<doc, shopify, cost>>

\* setCandidateStatus: the status read before is in the filter.
SetCandidateStatus(k) ==
    /\ At(k, "decide")
    /\ doc' = IF doc.status = call[k].read.status
              THEN [doc EXCEPT !.status = call[k].target] ELSE doc
    /\ Finish(k)
    /\ UNCHANGED <<shopify, cost, counters>>

-----------------------------------------------------------------------------
(* The push, up to the product                                             *)

\* Mutant: a claim in progress refuses everybody, its owner included.
BeginPushUnclaimed(k, approved) ==
    /\ At(k, "idle")
    /\ CanPushCandidate(doc)
    /\ Become(k, [Idle EXCEPT !.pc = "claim", !.approved = approved])
    /\ UNCHANGED <<doc, shopify, cost, counters>>

\* Eligibility, of a push that carries the decision an operator reviewed.
BeginPush(k, approved) ==
    /\ At(k, "idle")
    /\ CanPushCandidate(doc) \/ ClaimIsOwnedOrExpired(doc, k)
    /\ Become(k, [Idle EXCEPT !.pc = "claim", !.approved = approved])
    /\ UNCHANGED <<doc, shopify, cost, counters>>

Claim(k) ==
    /\ At(k, "claim")
    /\ IF CanClaim(doc, k)
       THEN doc' = Claimed(doc, k) /\ Goto(k, "search")
       ELSE Finish(k) /\ UNCHANGED doc
    /\ UNCHANGED <<shopify, cost, counters>>

\* The claim was taken and its answer, or the read after it, lost: the call
\* ends outside the try block and nothing is released.
ClaimUncertain(k) ==
    /\ At(k, "claim") /\ CanClaim(doc, k)
    /\ Fault
    /\ doc' = Claimed(doc, k)
    /\ Finish(k)
    /\ UNCHANGED <<shopify, cost>>

\* findByResearchTag, before the analysis and once more before the create,
\* with the visibility of what it finds.
FindByResearchTag(k, next) ==
    /\ PromptShopify => Settled
    /\ \/ /\ indexed = {}
          /\ Goto(k, next)
       \/ \E p \in indexed :
             Become(k, [Idle EXCEPT !.pc = "loadIntent", !.product = p,
                                    !.exposed = p \in visible])
    /\ UNCHANGED <<doc, shopify, cost, counters>>

Search(k) == At(k, "search") /\ FindByResearchTag(k, "prepare")
SearchAgain(k) == At(k, "searchAgain") /\ FindByResearchTag(k, "create")

\* Mutant: the decision the operator approved is not compared.
PrepareUnapproved(k) ==
    /\ At(k, "prepare")
    /\ Become(k, [call[k] EXCEPT !.pc = "intent", !.read = Reads])
    /\ UNCHANGED <<doc, shopify, cost, counters>>

\* The fresh analysis and the gates.
Prepare(k) ==
    /\ At(k, "prepare")
    /\ doc.inputs = call[k].approved
    /\ Become(k, [call[k] EXCEPT !.pc = "intent", !.read = Reads])
    /\ UNCHANGED <<doc, shopify, cost, counters>>

\* recordIntent: the claim asserted and renewed, the decision frozen.
RecordIntent(k) ==
    /\ At(k, "intent")
    /\ IF CanRecordIntent(doc, k)
       THEN /\ doc' = IntentRecorded(doc, call[k].read.inputs)
            /\ Goto(k, "searchAgain")
       ELSE Become(k, [Idle EXCEPT !.pc = "release"]) /\ UNCHANGED doc
    /\ UNCHANGED <<shopify, cost, counters>>

\* A refusal, or a failure, before a product is known: the claim is released.
Refused(k) ==
    /\ call[k].pc \in {"search", "prepare", "intent", "searchAgain", "create"}
    /\ Become(k, [Idle EXCEPT !.pc = "release"])
    /\ UNCHANGED <<doc, shopify, cost, counters>>

\* releaseClaim
Release(k) ==
    /\ At(k, "release")
    /\ doc' = IF Owns(doc, k) THEN Released(doc) ELSE doc
    /\ Finish(k)
    /\ UNCHANGED <<shopify, cost, counters>>

ReleaseFails(k) ==
    /\ At(k, "release")
    /\ Fault
    /\ Finish(k)
    /\ UNCHANGED <<doc, shopify, cost>>

-----------------------------------------------------------------------------
(* The product                                                             *)

Request(k) == [inputs |-> call[k].read.inputs, approved |-> call[k].approved]

MakeProduct(p, d) ==
    /\ draft[p] = None /\ \A q \in Products : q < p => draft[q] # None
    /\ draft' = [draft EXCEPT ![p] = d]

\* productCreate is carried out and answered.
CreateProduct(k) ==
    /\ At(k, "create")
    /\ \E p \in Products :
          /\ MakeProduct(p, Request(k))
          /\ Become(k, [call[k] EXCEPT !.pc = "cost", !.product = p,
                                       !.approved = None])
    /\ UNCHANGED <<doc, indexed, visible, late, cost, counters>>

\* It is carried out, at once or later, without an answer, or a request after
\* it fails: the client sends it again, or the push fails with no product
\* identifier and releases its claim.
CreateUncertain(k) ==
    /\ At(k, "create") /\ Room
    /\ lost' = lost + 1
    /\ \/ \E p \in Products : MakeProduct(p, Request(k)) /\ UNCHANGED late
       \/ late' = [late EXCEPT ![Request(k)] = @ + 1] /\ UNCHANGED draft
    /\ call' \in {call, [call EXCEPT ![k] = [Idle EXCEPT !.pc = "release"]]}
    /\ UNCHANGED <<doc, indexed, visible, cost, edits, published, faults>>

\* recordCost, which may fail without consequence.  The draft-only check has
\* nothing to do here: createProduct reports what was asked for.
RecordCost(k) ==
    /\ At(k, "cost")
    /\ cost' \in {cost, [cost EXCEPT ![call[k].product] = call[k].read.inputs]}
    /\ Goto(k, "persist")
    /\ UNCHANGED <<doc, shopify, counters>>

\* The analysis behind the draft is stored, unless the status read with it
\* was terminal: then the push fails here and keeps its claim.
Persist(k) ==
    /\ At(k, "persist")
    /\ IF IsTerminal(call[k].read.status)
       THEN Finish(k) /\ UNCHANGED doc
       ELSE /\ doc' = Analyzed(doc, call[k].read)
            /\ Become(k, [call[k] EXCEPT !.pc = "mark", !.read = None])
    /\ UNCHANGED <<shopify, cost, counters>>

\* markSucceeded, only for the owner of the claim.
MarkSucceeded(k) ==
    /\ At(k, "mark")
    /\ doc' = IF Owns(doc, k) THEN Succeeded(doc, call[k].product) ELSE doc
    /\ Finish(k)
    /\ UNCHANGED <<shopify, cost, counters>>

\* A failure once the product is known: the claim stays.
FailsWithProduct(k) ==
    /\ call[k].pc \in {"persist", "mark", "loadIntent", "restore", "incident"}
    /\ Fault
    /\ Finish(k)
    /\ UNCHANGED <<doc, shopify, cost>>

-----------------------------------------------------------------------------
(* Adopting a product that an earlier attempt made                         *)

LoadIntent(k) ==
    /\ At(k, "loadIntent")
    /\ Become(k, [call[k] EXCEPT !.intent = doc.intent,
                     !.pc = IF call[k].exposed THEN "hide" ELSE "restore"])
    /\ UNCHANGED <<doc, shopify, cost, counters>>

\* forceHidden, verified: what stays visible, or cannot be read back, is an
\* incident.
ForceHidden(k) ==
    /\ At(k, "hide")
    /\ \/ /\ visible' = visible \ {call[k].product}
          /\ \E exposed \in BOOLEAN :
                Become(k, [call[k] EXCEPT !.pc = "restore", !.exposed = exposed])
       \/ Goto(k, "restore") /\ UNCHANGED visible
    /\ UNCHANGED <<doc, draft, indexed, late, cost, counters>>

\* recordCostFromIntent, which may fail without consequence.
RestoreCost(k) ==
    /\ At(k, "restore")
    /\ cost' \in {cost, [cost EXCEPT ![call[k].product] =
                            IF call[k].intent = None THEN @ ELSE call[k].intent]}
    /\ Become(k, [call[k] EXCEPT !.intent = None,
                     !.pc = IF call[k].exposed THEN "incident" ELSE "mark"])
    /\ UNCHANGED <<doc, shopify, counters>>

MarkSafetyIncident(k) ==
    /\ At(k, "incident")
    /\ doc' = SafetyIncident(doc, k, call[k].product)
    /\ Finish(k)
    /\ UNCHANGED <<shopify, cost, counters>>

-----------------------------------------------------------------------------
(* Clocks, crashes and Shopify                                             *)

\* Two minutes have passed since the claim was taken or renewed.
LeaseExpires ==
    /\ doc.push = "IN_PROGRESS" /\ doc.claim = "live"
    /\ PromptShopify => call[doc.owner].pc \notin {"searchAgain", "create"}
    /\ PromptPushes => At(doc.owner, "idle")
    /\ doc' = [doc EXCEPT !.claim = "expired"]
    /\ UNCHANGED <<call, shopify, cost, counters>>

Crash ==
    /\ Fault
    /\ call' = [k \in Calls |-> Idle]
    /\ UNCHANGED <<doc, shopify, cost>>

LateCreate(d) ==
    /\ late[d] > 0
    /\ late' = [late EXCEPT ![d] = @ - 1]
    /\ \E p \in Products : MakeProduct(p, d)
    /\ UNCHANGED <<doc, call, indexed, visible, cost, counters>>

IndexProduct(p) ==
    /\ p \in Made \ indexed
    /\ indexed' = indexed \cup {p}
    /\ UNCHANGED <<doc, call, draft, visible, late, cost, counters>>

PublishProduct(p) ==
    /\ p \in Made \ visible /\ Room
    /\ visible' = visible \cup {p}
    /\ published' = published + 1
    /\ UNCHANGED <<doc, call, draft, indexed, late, cost, edits, lost, faults>>

-----------------------------------------------------------------------------
PushStep(k) ==
    \/ Claim(k) \/ ClaimUncertain(k)
    \/ Search(k) \/ SearchAgain(k) \/ Prepare(k) \/ RecordIntent(k)
    \/ Refused(k) \/ Release(k) \/ ReleaseFails(k)
    \/ CreateProduct(k) \/ CreateUncertain(k) \/ RecordCost(k) \/ Persist(k)
    \/ MarkSucceeded(k) \/ FailsWithProduct(k)
    \/ LoadIntent(k) \/ ForceHidden(k) \/ RestoreCost(k) \/ MarkSafetyIncident(k)

EditorStep(k) == UpdateCandidate(k) \/ PersistAnalysis(k) \/ SetCandidateStatus(k)

Next ==
    \/ \E k \in Operations : PushStep(k) \/ \E i \in Inputs : BeginPush(k, i)
    \/ \E k \in Editors :
          \/ EditorStep(k) \/ BeginAnalysis(k)
          \/ \E i \in Inputs : BeginEdit(k, i)
          \/ \E status \in Decisions : BeginDecision(k, status)
    \/ LeaseExpires \/ Crash
    \/ \E d \in Draft : LateCreate(d)
    \/ \E p \in Products : IndexProduct(p) \/ PublishProduct(p)

Spec == Init /\ [][Next]_vars

\* The event loop resumes every call, leases run out, Shopify carries out and
\* indexes what it was sent.  The operator pushes again until it works, and
\* the tag search is not down at every attempt.
Fairness ==
    /\ \A k \in Operations :
          /\ WF_vars(PushStep(k)) /\ SF_vars(Search(k))
          /\ WF_vars(\E i \in Inputs : BeginPush(k, i))
    /\ \A k \in Editors : WF_vars(EditorStep(k))
    /\ WF_vars(LeaseExpires)
    /\ \A d \in Draft : WF_vars(LateCreate(d))
    /\ \A p \in Products : WF_vars(IndexProduct(p))

FairSpec == Spec /\ Fairness
=============================================================================
