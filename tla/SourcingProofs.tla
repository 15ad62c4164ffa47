---------------------------- MODULE SourcingProofs ----------------------------
(***************************************************************************)
(* Theorems about the services of MCSourcing for every value of its        *)
(* constants: the push of a candidate, from the theorems of PushDraft, the *)
(* import of supplier products, the automation runs, the forwarding of     *)
(* orders to the supplier, the saves of the dropshipping settings, and,    *)
(* from the lemmas of FiguresProofs, the repricing of a catalog, the books *)
(* of the orders, and the verdicts of the research.                        *)
(***************************************************************************)
EXTENDS MCSourcing, FiguresProofs

-----------------------------------------------------------------------------
(* The push of a candidate.                                                *)

\* The push is in a state its own invariants describe.
PushInv == service = "push" => Drafts!IInv /\ Drafts!PromptInv

LEMMA PushPremises == Drafts!PushBounds /\ Drafts!Prompt
BY SlotsAssumption DEF Drafts!Prompt

LEMMA PushSteps == service = "push" /\ [Next]_<<service, pool>> => [Drafts!Next]_(Drafts!vars)
BY DEF Next, pool, Drafts!vars, Drafts!shopify, Drafts!counters

LEMMA PushAlways == Spec => []PushInv
<1>1. Init => PushInv
  <2>1. Drafts!Init => Drafts!IInv
    BY PushPremises, Drafts!InitIInv
  <2>2. Drafts!Init => Drafts!PromptInv
    BY PushPremises, Drafts!InitPromptInv
  <2> QED BY <2>1, <2>2 DEF Init, PushInv
<1>2. PushInv /\ [Next]_<<service, pool>> => PushInv'
  <2>1. Drafts!IInv /\ [Drafts!Next]_(Drafts!vars) => Drafts!IInv'
    BY PushPremises, Drafts!NextIInv
  <2>2. Drafts!IInv /\ Drafts!IInv' /\ Drafts!PromptInv /\ [Drafts!Next]_(Drafts!vars)
            => Drafts!PromptInv'
    BY PushPremises, Drafts!NextPromptInv
  <2>3. [Next]_<<service, pool>> => service' = service
    BY DEF Next
  <2> QED BY <2>1, <2>2, <2>3, PushSteps DEF PushInv
<1> QED BY <1>1, <1>2, PTL DEF Spec

\* A candidate becomes one draft, and another one only where Shopify carried a
\* productCreate out without an answer (push.service.ts, claimPush and
\* findByResearchTag).
THEOREM CandidatesBecomeOneDraft == Spec => []OneDraft
<1>1. Drafts!IInv /\ Drafts!PromptInv => Drafts!OneDraft
  BY Drafts!OneDraftFollows
<1>2. PushInv => OneDraft
  BY <1>1 DEF PushInv, OneDraft
<1> QED BY <1>2, PushAlways, PTL

LEMMA ScoresAlways ==
    ASSUME Drafts!Alone PROVE Spec => [](service = "push" => Drafts!ReadsAreTold)
<1>1. Init => (service = "push" => Drafts!ReadsAreTold)
  BY Drafts!InitReadsAreTold DEF Init
<1>2. /\ PushInv /\ PushInv' /\ [Next]_<<service, pool>>
      /\ (service = "push" => Drafts!ReadsAreTold)
      => (service = "push" => Drafts!ReadsAreTold)'
  <2>1. Drafts!IInv /\ Drafts!IInv' /\ Drafts!ReadsAreTold /\ [Drafts!Next]_(Drafts!vars)
            => Drafts!ReadsAreTold'
    BY PushPremises, Drafts!NextReadsAreTold
  <2>2. [Next]_<<service, pool>> => service' = service
    BY DEF Next
  <2> QED BY <2>1, <2>2, PushSteps DEF PushInv
<1> QED BY <1>1, <1>2, PushAlways, PTL DEF Spec

\* When one request at a time edits the candidate beside the pushes, drafts and
\* costs are those of the approved decision and scores say so when they are
\* about other inputs (push.orchestrator.ts, intelligence.service.ts).
THEOREM DecisionsStayHonest == ASSUME Drafts!Alone PROVE Spec => []DecisionsAreHonest
<1>1. Drafts!PromptInv => Drafts!DraftsCarryTheirDecision
  BY Drafts!DraftsFollow
<1>2. Drafts!ReadsAreTold => Drafts!ScoreIsHonest
  BY Drafts!ScoresFollow
<1>3. PushInv /\ (service = "push" => Drafts!ReadsAreTold) => DecisionsAreHonest
  BY <1>1, <1>2 DEF PushInv, DecisionsAreHonest
<1> QED BY <1>3, PushAlways, ScoresAlways, PTL

\* The link between a candidate and its product is never cleared, and only an incident
\* may exchange the product, whatever the timing (markSucceeded and markSafetyIncident
\* of push.service.ts).
THEOREM LinksAreFinal == Spec => LinkIsFinal
<1>1. Drafts!IInv /\ [Drafts!Next]_(Drafts!vars) => Drafts!LinkStays
  BY PushPremises, Drafts!LinkStep
<1>2. PushInv /\ [Next]_<<service, pool>> => (service = "push" => Drafts!LinkStays)
  BY <1>1, PushSteps DEF PushInv
<1> QED BY <1>2, PushAlways, PTL DEF Spec, LinkIsFinal, pool

-----------------------------------------------------------------------------
(* The import of supplier products: v1 is the ledger, v2 the shop, v3 the  *)
(* costs, v4 the requests, v5 the references searched for in vain, v6      *)
(* those whose claim a live request outlived.                              *)

Rows == [status : {"absent", "CLAIMED", "FAILED", "CREATED", "PARTIAL"},
         expired : BOOLEAN, product : 0..Many, cost : {0, 1}]

Requests == [pc : {"idle", "item", "take over", "search", "unclaim", "create", "fail",
                   "cost", "settle", "previous", "upsert", "ledger cost"},
             todo : SUBSET References,
             ref : {{}} \cup {{r} : r \in References},
             product : 0..Many, cost : {0, 1}, override : BOOLEAN, complete : BOOLEAN]

ImportTypes ==
    /\ v1 \in [References -> Rows]
    /\ v2 \in [References -> [made : 0..Many, indexed : 0..Many]]
    /\ v4 \in [Slots -> Requests]

\* A request that holds, or held, the claim of a reference.
AtWork(t, r) ==
    /\ v4[t].ref = {r}
    /\ v4[t].pc \in {"search", "unclaim", "create", "fail", "cost", "settle"}

AboutToCreate(t, r) == v4[t].ref = {r} /\ v4[t].pc = "create"

Live(r) == v1[r].status = "CLAIMED" /\ ~v1[r].expired

\* A claim that was never outlived has one holder.
ClaimsHold ==
    \A r \in References \ v6 : \A t \in Slots : AtWork(t, r) =>
        Live(r) /\ \A u \in Slots : AtWork(u, r) => u = t

\* Who is about to create a product that nobody could have missed is the first.
FirstCreates ==
    \A r \in References \ (v5 \cup v6) :
        /\ v2[r].made <= 1
        /\ \A t \in Slots : AboutToCreate(t, r) => v2[r].made = 0

IndexBehind == \A r \in References : v2[r].indexed <= v2[r].made

ImportInv == ImportTypes /\ ClaimsHold /\ FirstCreates /\ IndexBehind

\* What one step of one request may do to its reference.
LEMMA RequestKeeps ==
    ASSUME ImportInv, ImportTypes', IndexBehind', v5 \subseteq v5', v6 \subseteq v6',
           NEW t \in Slots, \A u \in Slots : u # t => v4'[u] = v4[u],
           \A r \in References :
               /\ \/ Live(r) <=> Live(r)'
                  \/ AtWork(t, r) /\ ~AtWork(t, r)'
                  \/ ~Live(r) /\ Live(r)'
               /\ AtWork(t, r)' => AtWork(t, r) \/ (~Live(r) /\ Live(r)')
               /\ \/ v2'[r].made = v2[r].made
                  \/ /\ AboutToCreate(t, r) /\ ~AboutToCreate(t, r)'
                     /\ v2'[r].made = v2[r].made + 1
               /\ AboutToCreate(t, r)' => v2'[r].made = 0 \/ r \in v5'
    PROVE  ImportInv'
<1>1. ClaimsHold'
  <2> SUFFICES ASSUME NEW r \in References \ v6', NEW u \in Slots, AtWork(u, r)'
               PROVE  /\ Live(r)'
                      /\ \A w \in Slots : AtWork(w, r)' => w = u
    BY DEF ClaimsHold
  <2>1. r \in References \ v6
    OBVIOUS
  <2>2. \A w \in Slots : AtWork(w, r) => Live(r) /\ \A y \in Slots : AtWork(y, r) => y = w
    BY <2>1 DEF ImportInv, ClaimsHold
  <2>3. \A w \in Slots : w # t => (AtWork(w, r)' <=> AtWork(w, r))
    BY DEF AtWork
  <2>4. CASE \E w \in Slots : AtWork(w, r)
    <3>1. \A w \in Slots : AtWork(w, r)' => AtWork(w, r)
      BY <2>2, <2>3, <2>4
    <3>2. ~(AtWork(t, r) /\ ~AtWork(t, r)')
      BY <2>2, <2>3, <3>1
    <3>3. Live(r)'
      BY <2>2, <2>4, <3>2
    <3> QED BY <2>2, <3>1, <3>3
  <2>5. CASE \A w \in Slots : ~AtWork(w, r)
    BY <2>3, <2>5
  <2> QED BY <2>4, <2>5
<1>2. FirstCreates'
  <2> SUFFICES ASSUME NEW r \in References \ (v5' \cup v6')
               PROVE  /\ v2'[r].made <= 1
                      /\ \A u \in Slots : AboutToCreate(u, r)' => v2'[r].made = 0
    BY DEF FirstCreates
  <2>1. /\ r \in References \ (v5 \cup v6) /\ v2[r].made <= 1
        /\ \A u \in Slots : AboutToCreate(u, r) => v2[r].made = 0
    BY DEF ImportInv, FirstCreates
  <2>2. \A u \in Slots : u # t => (AboutToCreate(u, r)' <=> AboutToCreate(u, r))
    BY DEF AboutToCreate
  <2>3. \A u \in Slots : AboutToCreate(u, r) => AtWork(u, r)
    BY DEF AboutToCreate, AtWork
  <2>4. AboutToCreate(t, r) => \A u \in Slots : AboutToCreate(u, r) => u = t
    BY <2>1, <2>3 DEF ImportInv, ClaimsHold
  <2> QED BY <2>1, <2>2, <2>4
<1> QED BY <1>1, <1>2 DEF ImportInv

LEMMA ManyIsNat == Many \in Nat
BY SlotsAssumption DEF Drafts!PushBounds

\* The next state of one request, by the step it goes to.
LEMMA RestingFields ==
    /\ Imports!Resting \in Requests
    /\ Imports!Resting.pc = "idle" /\ Imports!Resting.ref = {}
BY ManyIsNat DEF Imports!Resting, Requests

LEMMA RequestMoves ==
    ASSUME ImportTypes, NEW t \in Slots, NEW x \in Requests, Imports!Becomes(t, x)
    PROVE  /\ v4' \in [Slots -> Requests] /\ v4'[t] = x
           /\ \A u \in Slots : u # t => v4'[u] = v4[u]
BY DEF ImportTypes, Imports!Becomes

LEMMA StepsMoves ==
    ASSUME ImportTypes, NEW t \in Slots,
           NEW pc \in {"search", "unclaim", "create", "fail", "settle", "ledger cost"},
           Imports!Steps(t, pc)
    PROVE  \E x \in Requests : Imports!Becomes(t, x) /\ x.pc = pc /\ x.ref = v4[t].ref
<1> DEFINE y == [v4[t] EXCEPT !.pc = pc]
<1>1. v4[t] \in Requests
  BY DEF ImportTypes
<1>2. y \in Requests /\ y.pc = pc /\ y.ref = v4[t].ref
  BY <1>1 DEF Requests
<1> QED BY <1>2 DEF Imports!Steps

LEMMA ProceedMoves ==
    ASSUME ImportTypes, NEW t \in Slots, Imports!Proceed(t)
    PROVE  \E x \in Requests : Imports!Becomes(t, x) /\ x.pc = "item" /\ x.ref = {}
<1> DEFINE y == [Imports!Resting EXCEPT !.pc = "item", !.todo = v4[t].todo]
<1>1. v4[t].todo \in SUBSET References
  BY DEF ImportTypes, Requests
<1>2. y \in Requests /\ y.pc = "item" /\ y.ref = {}
  BY <1>1, RestingFields DEF Requests
<1> QED BY <1>2 DEF Imports!Proceed

Working == {"search", "unclaim", "create", "fail", "cost", "settle"}

\* A step that leaves the ledger and the shop alone.
LEMMA QuietRequest ==
    ASSUME ImportInv, NEW t \in Slots, NEW x \in Requests, Imports!Becomes(t, x),
           UNCHANGED <<v1, v2, v6>>, v5 \subseteq v5',
           \A r \in References : x.ref = {r} =>
               /\ x.pc \in Working => AtWork(t, r)
               /\ x.pc = "create" => v2[r].made = 0 \/ r \in v5'
    PROVE  ImportInv'
<1>1. /\ v4' \in [Slots -> Requests] /\ v4'[t] = x
      /\ \A u \in Slots : u # t => v4'[u] = v4[u]
  BY RequestMoves DEF ImportInv
<1>2. ImportTypes' /\ IndexBehind'
  BY <1>1 DEF ImportInv, ImportTypes, IndexBehind
<1>3. ASSUME NEW r \in References
      PROVE  /\ Live(r) <=> Live(r)'
             /\ AtWork(t, r)' => AtWork(t, r)
             /\ v2'[r].made = v2[r].made
             /\ AboutToCreate(t, r)' => v2'[r].made = 0 \/ r \in v5'
  BY <1>1 DEF Live, AtWork, AboutToCreate, Working
<1> QED BY <1>1, <1>2, <1>3, RequestKeeps

\* A step that writes the row of one reference.
LEMMA RowWritten ==
    ASSUME ImportInv, NEW t \in Slots, NEW x \in Requests, Imports!Becomes(t, x),
           UNCHANGED <<v2, v5, v6>>, NEW r \in References, v1' \in [References -> Rows],
           \A q \in References : q # r => v1'[q] = v1[q],
           \/ Live(r) <=> Live(r)'
           \/ AtWork(t, r) /\ ~(x.ref = {r} /\ x.pc \in Working)
           \/ ~Live(r) /\ Live(r)',
           x.pc # "create",
           \A q \in References : x.ref = {q} /\ x.pc \in Working =>
               q = r /\ ~Live(r) /\ Live(r)'
    PROVE  ImportInv'
<1>1. /\ v4' \in [Slots -> Requests] /\ v4'[t] = x
      /\ \A u \in Slots : u # t => v4'[u] = v4[u]
  BY RequestMoves DEF ImportInv
<1>2. ImportTypes' /\ IndexBehind'
  BY <1>1 DEF ImportInv, ImportTypes, IndexBehind
<1>3. ASSUME NEW q \in References
      PROVE  /\ \/ Live(q) <=> Live(q)'
                \/ AtWork(t, q) /\ ~AtWork(t, q)'
                \/ ~Live(q) /\ Live(q)'
             /\ AtWork(t, q)' => AtWork(t, q) \/ (~Live(q) /\ Live(q)')
             /\ v2'[q].made = v2[q].made
             /\ ~AboutToCreate(t, q)'
  <2>1. CASE q = r
    BY <1>1, <2>1 DEF AtWork, AboutToCreate, Working
  <2>2. CASE q # r
    BY <1>1, <2>2 DEF Live, AtWork, AboutToCreate, Working
  <2> QED BY <2>1, <2>2
<1> QED BY <1>1, <1>2, <1>3, RequestKeeps

\* A product is made, by the request that was about to make it.
LEMMA ProductMade ==
    ASSUME ImportInv, NEW t \in Slots, NEW x \in Requests, Imports!Becomes(t, x),
           UNCHANGED <<v1, v5, v6>>, NEW r \in References, Imports!Is(t, "create", r),
           v2[r].made < Many, v2' = [v2 EXCEPT ![r].made = @ + 1],
           x.pc \in {"cost", "fail"}, x.ref = {r}
    PROVE  ImportInv'
<1>0. v4[t].pc = "create" /\ v4[t].ref = {r}
  BY DEF Imports!Is
<1>1. /\ v4' \in [Slots -> Requests] /\ v4'[t] = x
      /\ \A u \in Slots : u # t => v4'[u] = v4[u]
  BY RequestMoves DEF ImportInv
<1>2. /\ v2' \in [References -> [made : 0..Many, indexed : 0..Many]]
      /\ v2'[r].made = v2[r].made + 1 /\ v2'[r].indexed = v2[r].indexed
      /\ \A q \in References : q # r => v2'[q] = v2[q]
  BY ManyIsNat DEF ImportInv, ImportTypes
<1>3. ImportTypes' /\ IndexBehind'
  <2>1. v2[r].indexed <= v2[r].made /\ v2[r] \in [made : 0..Many, indexed : 0..Many]
    BY DEF ImportInv, ImportTypes, IndexBehind
  <2>2. IndexBehind'
    BY <1>2, <2>1 DEF ImportInv, IndexBehind
  <2> QED BY <1>1, <1>2, <2>2 DEF ImportInv, ImportTypes
<1>4. ASSUME NEW q \in References
      PROVE  /\ Live(q) <=> Live(q)'
             /\ AtWork(t, q)' => AtWork(t, q)
             /\ \/ v2'[q].made = v2[q].made
                \/ /\ AboutToCreate(t, q) /\ ~AboutToCreate(t, q)'
                   /\ v2'[q].made = v2[q].made + 1
             /\ ~AboutToCreate(t, q)'
  <2>1. CASE q = r
    BY <1>0, <1>1, <1>2, <2>1 DEF Live, AtWork, AboutToCreate
  <2>2. CASE q # r
    BY <1>0, <1>1, <1>2, <2>2 DEF Live, AtWork, AboutToCreate
  <2> QED BY <2>1, <2>2
<1> QED BY <1>1, <1>3, <1>4, RequestKeeps

\* The steps that leave the ledger and the shop alone.
LEMMA QuietSteps ==
    ASSUME ImportInv, NEW t \in Slots,
           \/ Imports!ImportDeodapProducts(t) \/ Imports!FinishBatch(t)
           \/ Imports!FindProductWithSku(t) \/ Imports!SearchFails(t)
           \/ Imports!RecordCost(t) \/ Imports!ApplyDeodapSync(t)
           \/ Imports!FindManualCost(t) \/ Imports!UpsertManualCost(t)
           \/ Imports!RequestDies(t)
    PROVE  ImportInv'
<1>0. ImportTypes /\ v4[t] \in Requests
  BY DEF ImportInv, ImportTypes
<1>1. CASE Imports!ImportDeodapProducts(t)
  <2>1. PICK batch \in SUBSET References \ {{}} :
            Imports!Becomes(t, [Imports!Resting EXCEPT !.pc = "item", !.todo = batch])
    BY <1>1 DEF Imports!ImportDeodapProducts
  <2> DEFINE y == [Imports!Resting EXCEPT !.pc = "item", !.todo = batch]
  <2>2. y \in Requests /\ y.pc = "item" /\ y.ref = {}
    BY RestingFields DEF Requests
  <2>3. UNCHANGED <<v1, v2, v6>> /\ v5' = v5
    BY <1>1 DEF Imports!ImportDeodapProducts
  <2>4. Imports!Becomes(t, y)
    BY <2>1
  <2> HIDE DEF y
  <2>5. \A r \in References : y.ref # {r}
    BY <2>2
  <2> QED BY <2>2, <2>3, <2>4, <2>5, QuietRequest
<1>2. CASE Imports!FinishBatch(t) \/ Imports!RequestDies(t)
  <2>1. Imports!Becomes(t, Imports!Resting) /\ UNCHANGED <<v1, v2, v6>> /\ v5' = v5
    BY <1>2 DEF Imports!FinishBatch, Imports!RequestDies
  <2> QED BY <2>1, RestingFields, QuietRequest DEF Working
<1>3. CASE Imports!FindProductWithSku(t)
  <2>1. PICK r \in References :
            /\ Imports!Is(t, "search", r)
            /\ Imports!Steps(t, IF v2[r].indexed > 0 THEN "unclaim" ELSE "create")
            /\ v5' = IF v2[r].made > 0 /\ v2[r].indexed = 0 THEN v5 \cup {r} ELSE v5
    BY <1>3 DEF Imports!FindProductWithSku
  <2>2. UNCHANGED <<v1, v2, v6>> /\ v5 \subseteq v5'
    BY <1>3, <2>1 DEF Imports!FindProductWithSku
  <2>3. PICK x \in Requests : /\ Imports!Becomes(t, x)
                              /\ x.pc = (IF v2[r].indexed > 0 THEN "unclaim" ELSE "create")
                              /\ x.ref = v4[t].ref
    BY <1>0, <2>1, StepsMoves
  <2>4. v4[t].ref = {r} /\ AtWork(t, r)
    BY <2>1 DEF Imports!Is, AtWork
  <2>5. x.pc = "create" => v2[r].made = 0 \/ r \in v5'
    <3>1. v2[r].made \in 0..Many /\ v2[r].indexed \in 0..Many
      BY <1>0 DEF ImportTypes
    <3>2. v2[r].made \in Nat /\ v2[r].indexed \in Nat
      BY <3>1, ManyIsNat
    <3> QED BY <2>1, <2>3, <3>2
  <2> QED BY <2>2, <2>3, <2>4, <2>5, QuietRequest
<1>4. CASE Imports!SearchFails(t)
  <2>1. /\ v4[t].pc = "search" /\ Imports!Steps(t, "fail")
        /\ UNCHANGED <<v1, v2, v6>> /\ v5' = v5
    BY <1>4 DEF Imports!SearchFails
  <2>2. PICK x \in Requests : Imports!Becomes(t, x) /\ x.pc = "fail" /\ x.ref = v4[t].ref
    BY <1>0, <2>1, StepsMoves
  <2> QED BY <2>1, <2>2, QuietRequest DEF AtWork
<1>5. CASE Imports!RecordCost(t)
  <2>1. v4[t].pc = "cost" /\ UNCHANGED <<v1, v2, v6>> /\ v5' = v5
    BY <1>5 DEF Imports!RecordCost, Imports!Is
  <2>2. PICK x \in Requests : Imports!Becomes(t, x) /\ x.pc = "settle" /\ x.ref = v4[t].ref
    <3>1. CASE Imports!Steps(t, "settle")
      BY <1>0, <3>1, StepsMoves
    <3>2. CASE Imports!Becomes(t, [v4[t] EXCEPT !.pc = "settle", !.complete = FALSE])
      <4> DEFINE y == [v4[t] EXCEPT !.pc = "settle", !.complete = FALSE]
      <4>1. y \in Requests /\ y.pc = "settle" /\ y.ref = v4[t].ref
        BY <1>0 DEF Requests
      <4> QED BY <3>2, <4>1
    <3> QED BY <1>5, <3>1, <3>2 DEF Imports!RecordCost
  <2> QED BY <2>1, <2>2, QuietRequest DEF AtWork
<1>6. CASE Imports!ApplyDeodapSync(t)
  <2>1. PICK r \in References, c \in {1} :
            Imports!Becomes(t, [Imports!Resting EXCEPT !.pc = "previous", !.ref = {r},
                                    !.cost = c, !.product = v1[r].product])
    BY <1>6 DEF Imports!ApplyDeodapSync
  <2> DEFINE y == [Imports!Resting EXCEPT !.pc = "previous", !.ref = {r}, !.cost = c,
                                          !.product = v1[r].product]
  <2>2. v1[r].product \in 0..Many
    BY <1>0 DEF ImportTypes, Rows
  <2>3. y \in Requests /\ y.pc = "previous"
    BY <2>2, RestingFields DEF Requests
  <2>4. UNCHANGED <<v1, v2, v6>> /\ v5' = v5
    BY <1>6 DEF Imports!ApplyDeodapSync
  <2>5. Imports!Becomes(t, y)
    BY <2>1
  <2> HIDE DEF y
  <2> QED BY <2>3, <2>4, <2>5, QuietRequest DEF Working
<1>7. CASE Imports!FindManualCost(t)
  <2>1. PICK r \in References :
            Imports!Becomes(t, [v4[t] EXCEPT !.pc = "upsert",
                !.override = v3[r][v4[t].product] = Imports!NoCost
                                \/ v3[r][v4[t].product].override])
    BY <1>7 DEF Imports!FindManualCost
  <2> DEFINE b == v3[r][v4[t].product] = Imports!NoCost \/ v3[r][v4[t].product].override
             y == [v4[t] EXCEPT !.pc = "upsert", !.override = b]
  <2>2. Imports!Becomes(t, y)
    BY <2>1
  <2>3. b \in BOOLEAN
    OBVIOUS
  <2> HIDE DEF b
  <2>4. y \in Requests /\ y.pc = "upsert"
    BY <1>0, <2>3 DEF Requests
  <2>5. UNCHANGED <<v1, v2, v6>> /\ v5' = v5
    BY <1>7 DEF Imports!FindManualCost
  <2> HIDE DEF y
  <2> QED BY <2>2, <2>4, <2>5, QuietRequest DEF Working
<1>8. CASE Imports!UpsertManualCost(t)
  <2>1. UNCHANGED <<v1, v2, v6>> /\ v5' = v5
    BY <1>8 DEF Imports!UpsertManualCost
  <2>2. PICK x \in Requests : Imports!Becomes(t, x) /\ x.pc \in {"ledger cost", "idle"}
    <3>1. CASE Imports!Steps(t, "ledger cost")
      BY <1>0, <3>1, StepsMoves
    <3> QED BY <1>8, <3>1, RestingFields DEF Imports!UpsertManualCost
  <2> QED BY <2>1, <2>2, QuietRequest DEF Working
<1> QED BY <1>1, <1>2, <1>3, <1>4, <1>5, <1>6, <1>7, <1>8

LEMMA AbsentFields ==
    Imports!Absent \in Rows /\ Imports!Absent.status = "absent" /\ Imports!Absent.expired = FALSE
BY ManyIsNat DEF Imports!Absent, Rows

LEMMA ClaimedFields ==
    /\ Imports!Claimed \in Rows /\ Imports!Claimed.status = "CLAIMED"
    /\ Imports!Claimed.expired = FALSE
<1>1. Imports!Claimed = [Imports!Absent EXCEPT !.status = "CLAIMED"]
  BY DEF Imports!Claimed
<1> QED BY <1>1, AbsentFields DEF Rows

\* The claim, and how a request gives it up.
LEMMA ClaimSteps ==
    ASSUME ImportInv, NEW t \in Slots,
           \/ Imports!InsertClaim(t) \/ Imports!TakeOver(t) \/ Imports!ReleaseClaim(t)
           \/ Imports!MarkImportFailed(t) \/ Imports!SettleImport(t)
           \/ Imports!UpdateLedgerCost(t)
    PROVE  ImportInv'
<1>0. ImportTypes /\ v4[t] \in Requests /\ v1 \in [References -> Rows]
  BY DEF ImportInv, ImportTypes
<1>1. /\ UNCHANGED <<v2, v6>> /\ v5' = v5
  BY DEF Imports!InsertClaim, Imports!TakeOver, Imports!ReleaseClaim,
     Imports!MarkImportFailed, Imports!SettleImport, Imports!UpdateLedgerCost
<1>2. CASE Imports!InsertClaim(t)
  <2>1. PICK r \in v4[t].todo, c \in {1} :
            LET at(pc) == [Imports!Resting EXCEPT !.pc = pc, !.todo = v4[t].todo \ {r},
                                                  !.ref = {r}, !.cost = c]
            IN  IF v1[r].status = "absent"
                THEN /\ v1' = [v1 EXCEPT ![r] = Imports!Claimed]
                     /\ Imports!Becomes(t, at("search"))
                ELSE UNCHANGED v1 /\ Imports!Becomes(t, at("take over"))
    BY <1>2 DEF Imports!InsertClaim
  <2>2. r \in References /\ v4[t].todo \in SUBSET References
    BY <1>0, <2>1 DEF Requests
  <2> DEFINE y(pc) == [Imports!Resting EXCEPT !.pc = pc, !.todo = v4[t].todo \ {r},
                                              !.ref = {r}, !.cost = c]
  <2>3. /\ y("search") \in Requests /\ y("search").pc = "search" /\ y("search").ref = {r}
        /\ y("take over") \in Requests /\ y("take over").pc = "take over"
    BY <2>2, RestingFields DEF Requests
  <2>4. CASE v1[r].status = "absent"
    <3>1. v1' = [v1 EXCEPT ![r] = Imports!Claimed] /\ Imports!Becomes(t, y("search"))
      BY <2>1, <2>4
    <3>2. /\ Imports!Claimed \in Rows /\ Imports!Claimed.status = "CLAIMED"
          /\ Imports!Claimed.expired = FALSE
      BY ClaimedFields
    <3>3. /\ v1' \in [References -> Rows] /\ v1'[r] = Imports!Claimed
          /\ \A q \in References : q # r => v1'[q] = v1[q]
      BY <1>0, <2>2, <3>1, <3>2
    <3>4. ~Live(r) /\ Live(r)'
      BY <2>4, <3>2, <3>3 DEF Live
    <3>5. PICK x \in Requests : Imports!Becomes(t, x) /\ x.pc = "search" /\ x.ref = {r}
      BY <2>3, <3>1
    <3>6. \A q \in References : x.ref = {q} => q = r
      BY <3>5
    <3> QED BY <1>1, <2>2, <3>3, <3>4, <3>5, <3>6, RowWritten
  <2>5. CASE v1[r].status # "absent"
    <3>1. UNCHANGED v1 /\ Imports!Becomes(t, y("take over"))
      BY <2>1, <2>5
    <3>2. PICK x \in Requests : Imports!Becomes(t, x) /\ x.pc = "take over"
      BY <2>3, <3>1
    <3> QED BY <1>1, <3>1, <3>2, QuietRequest DEF Working
  <2> QED BY <2>4, <2>5
<1>3. CASE Imports!TakeOver(t)
  <2>1. PICK r \in References :
            /\ Imports!Is(t, "take over", r)
            /\ IF Imports!Claimable(r)
               THEN /\ v1' = [v1 EXCEPT ![r].status = "CLAIMED", ![r].expired = FALSE]
                    /\ Imports!Steps(t, "search")
               ELSE UNCHANGED v1 /\ Imports!Proceed(t)
    BY <1>3 DEF Imports!TakeOver
  <2>2. CASE Imports!Claimable(r)
    <3>1. Imports!Steps(t, "search") /\ v4[t].ref = {r}
      BY <2>1, <2>2 DEF Imports!Is
    <3>2. PICK x \in Requests : Imports!Becomes(t, x) /\ x.pc = "search" /\ x.ref = v4[t].ref
      BY <1>0, <3>1, StepsMoves
    <3> DEFINE row == [v1[r] EXCEPT !.status = "CLAIMED", !.expired = FALSE]
    <3>3. v1' = [v1 EXCEPT ![r].status = "CLAIMED", ![r].expired = FALSE]
      BY <2>1, <2>2
    <3>4. v1[r] \in Rows
      BY <1>0
    <3>5. v1' = [v1 EXCEPT ![r] = row]
      BY <1>0, <3>3, <3>4 DEF Rows
    <3>6. row \in Rows /\ row.status = "CLAIMED" /\ row.expired = FALSE
      BY <3>4 DEF Rows
    <3> HIDE DEF row
    <3>7. /\ v1' \in [References -> Rows] /\ v1'[r] = row
          /\ \A q \in References : q # r => v1'[q] = v1[q]
      BY <1>0, <3>5, <3>6
    <3>8. ~Live(r) /\ Live(r)'
      BY <2>2, <3>6, <3>7 DEF Live, Imports!Claimable
    <3>9. \A q \in References : x.ref = {q} => q = r
      BY <3>1, <3>2
    <3> QED BY <1>1, <3>2, <3>7, <3>8, <3>9, RowWritten
  <2>3. CASE ~Imports!Claimable(r)
    <3>1. UNCHANGED v1 /\ Imports!Proceed(t)
      BY <2>1, <2>3
    <3>2. PICK x \in Requests : Imports!Becomes(t, x) /\ x.pc = "item" /\ x.ref = {}
      BY <1>0, <3>1, ProceedMoves
    <3> QED BY <1>1, <3>1, <3>2, QuietRequest DEF Working
  <2> QED BY <2>2, <2>3
<1>4. ASSUME NEW x \in Requests, Imports!Becomes(t, x), x.ref = {}, NEW r \in References,
             v1' \in [References -> Rows], \A q \in References : q # r => v1'[q] = v1[q],
             AtWork(t, r) \/ (Live(r) <=> Live(r)'), x.pc # "create"
      PROVE  ImportInv'
  BY <1>1, <1>4, RowWritten
<1>5. ASSUME Imports!Proceed(t) \/ Imports!Becomes(t, Imports!Resting)
      PROVE  \E x \in Requests : Imports!Becomes(t, x) /\ x.ref = {} /\ x.pc # "create"
  BY <1>0, <1>5, ProceedMoves, RestingFields
<1>6. CASE Imports!ReleaseClaim(t)
  <2>1. PICK r \in References :
            /\ Imports!Is(t, "unclaim", r)
            /\ v1' = IF v1[r].status = "CLAIMED" THEN [v1 EXCEPT ![r] = Imports!Absent] ELSE v1
    BY <1>6 DEF Imports!ReleaseClaim
  <2>2. Imports!Absent \in Rows
    BY AbsentFields
  <2>3. v1' \in [References -> Rows] /\ \A q \in References : q # r => v1'[q] = v1[q]
    BY <1>0, <2>1, <2>2
  <2>4. AtWork(t, r) /\ Imports!Proceed(t)
    BY <1>6, <2>1 DEF Imports!Is, AtWork, Imports!ReleaseClaim
  <2> QED BY <1>4, <1>5, <2>3, <2>4
<1>7. CASE Imports!MarkImportFailed(t)
  <2>1. PICK r \in References :
            /\ Imports!Is(t, "fail", r)
            /\ v1' = [v1 EXCEPT ![r] = Imports!MarkedFailed(@)] \/ UNCHANGED v1
    BY <1>7 DEF Imports!MarkImportFailed
  <2>2. Imports!MarkedFailed(v1[r]) \in Rows
    BY <1>0 DEF Imports!MarkedFailed, Rows
  <2>3. v1' \in [References -> Rows] /\ \A q \in References : q # r => v1'[q] = v1[q]
    BY <1>0, <2>1, <2>2
  <2>4. AtWork(t, r) /\ (Imports!Proceed(t) \/ Imports!Becomes(t, Imports!Resting))
    BY <1>7, <2>1 DEF Imports!Is, AtWork, Imports!MarkImportFailed, Imports!Stop
  <2> QED BY <1>4, <1>5, <2>3, <2>4
<1>8. CASE Imports!SettleImport(t)
  <2> DEFINE done(r) == [status |-> IF v4[t].complete THEN "CREATED" ELSE "PARTIAL",
                         expired |-> FALSE, product |-> v4[t].product, cost |-> v4[t].cost]
  <2>1. PICK r \in References :
            /\ Imports!Is(t, "settle", r)
            /\ \/ v1' = IF v1[r].status = "absent" THEN v1 ELSE [v1 EXCEPT ![r] = done(r)]
               \/ UNCHANGED v1
    BY <1>8 DEF Imports!SettleImport
  <2>2. done(r) \in Rows
    BY <1>0 DEF Rows, Requests
  <2> HIDE DEF done
  <2>3. v1' \in [References -> Rows] /\ \A q \in References : q # r => v1'[q] = v1[q]
    BY <1>0, <2>1, <2>2
  <2>4. AtWork(t, r) /\ Imports!Proceed(t)
    BY <1>8, <2>1 DEF Imports!Is, AtWork, Imports!SettleImport
  <2> QED BY <1>4, <1>5, <2>3, <2>4
<1>9. CASE Imports!UpdateLedgerCost(t)
  <2>1. PICK r \in References :
            \/ v1' = IF v1[r].product = v4[t].product
                     THEN [v1 EXCEPT ![r].cost = v4[t].cost] ELSE v1
            \/ UNCHANGED v1
    BY <1>9 DEF Imports!UpdateLedgerCost
  <2>2. v4[t].cost \in {0, 1}
    BY <1>0 DEF Requests
  <2>3. /\ v1' \in [References -> Rows] /\ \A q \in References : q # r => v1'[q] = v1[q]
        /\ v1'[r].status = v1[r].status /\ v1'[r].expired = v1[r].expired
    BY <1>0, <2>1, <2>2 DEF Rows
  <2>4. Live(r) <=> Live(r)'
    BY <2>3 DEF Live
  <2>5. Imports!Becomes(t, Imports!Resting)
    BY <1>9 DEF Imports!UpdateLedgerCost
  <2> QED BY <1>4, <1>5, <2>3, <2>4, <2>5
<1> QED BY <1>2, <1>3, <1>6, <1>7, <1>8, <1>9

\* What Shopify makes and indexes, the lease and the operator.
LEMMA ShopSteps ==
    ASSUME ImportInv,
           \/ \E t \in Slots : Imports!CreateProduct(t) \/ Imports!CreateFails(t)
           \/ Imports!EditCost \/ Imports!IndexCatchesUp \/ Imports!LeaseRunsOut
    PROVE  ImportInv'
<1>0. ImportTypes /\ v1 \in [References -> Rows]
      /\ v2 \in [References -> [made : 0..Many, indexed : 0..Many]]
  BY DEF ImportInv, ImportTypes
<1>1. ASSUME NEW t \in Slots, Imports!CreateProduct(t)
      PROVE  ImportInv'
  <2>1. PICK r \in References, complete \in BOOLEAN :
            /\ Imports!Is(t, "create", r) /\ v2[r].made < Many
            /\ v2' = [v2 EXCEPT ![r].made = @ + 1]
            /\ Imports!Becomes(t, [v4[t] EXCEPT !.pc = "cost", !.product = v2[r].made + 1,
                                                !.complete = complete])
    BY <1>1 DEF Imports!CreateProduct
  <2> DEFINE y == [v4[t] EXCEPT !.pc = "cost", !.product = v2[r].made + 1,
                                !.complete = complete]
  <2>2. v2[r].made + 1 \in 0..Many
    <3>1. v2[r].made \in 0..Many
      BY <1>0
    <3> QED BY <2>1, <3>1, ManyIsNat
  <2>3. v4[t] \in Requests /\ v4[t].ref = {r}
    BY <1>0, <2>1 DEF ImportTypes, Imports!Is
  <2>4. y \in Requests /\ y.pc = "cost" /\ y.ref = {r}
    BY <2>2, <2>3 DEF Requests
  <2>5. Imports!Becomes(t, y)
    BY <2>1
  <2>6. UNCHANGED <<v1, v5, v6>>
    BY <1>1 DEF Imports!CreateProduct
  <2> HIDE DEF y
  <2> QED BY <2>1, <2>4, <2>5, <2>6, ProductMade
<1>2. ASSUME NEW t \in Slots, Imports!CreateFails(t)
      PROVE  ImportInv'
  <2>1. PICK r \in References :
            /\ Imports!Is(t, "create", r)
            /\ \/ UNCHANGED v2
               \/ v2[r].made < Many /\ v2' = [v2 EXCEPT ![r].made = @ + 1]
    BY <1>2 DEF Imports!CreateFails
  <2>2. UNCHANGED <<v1, v5, v6>> /\ Imports!Steps(t, "fail") /\ v4[t].ref = {r}
    BY <1>2, <2>1 DEF Imports!CreateFails, Imports!Is
  <2>3. PICK x \in Requests : Imports!Becomes(t, x) /\ x.pc = "fail" /\ x.ref = v4[t].ref
    BY <1>0, <2>2, StepsMoves
  <2>4. CASE UNCHANGED v2
    <3>1. AtWork(t, r)
      BY <2>1 DEF AtWork, Imports!Is
    <3> QED BY <2>2, <2>3, <2>4, <3>1, QuietRequest
  <2>5. CASE v2[r].made < Many /\ v2' = [v2 EXCEPT ![r].made = @ + 1]
    BY <2>1, <2>2, <2>3, <2>5, ProductMade
  <2> QED BY <2>1, <2>4, <2>5
<1>3. CASE Imports!EditCost
  <2>1. UNCHANGED <<v1, v2, v4, v5, v6>>
    BY <1>3 DEF Imports!EditCost
  <2> QED BY <2>1 DEF ImportInv, ImportTypes, ClaimsHold, FirstCreates, IndexBehind,
                      AtWork, AboutToCreate, Live
<1>4. CASE Imports!IndexCatchesUp
  <2>1. UNCHANGED <<v1, v4, v5, v6>>
    BY <1>4 DEF Imports!IndexCatchesUp
  <2>2. PICK r \in References : v2' = [v2 EXCEPT ![r].indexed = v2[r].made]
    BY <1>4 DEF Imports!IndexCatchesUp
  <2>3. /\ v2' \in [References -> [made : 0..Many, indexed : 0..Many]]
        /\ v2'[r].made = v2[r].made /\ v2'[r].indexed = v2[r].made
        /\ \A q \in References : q # r => v2'[q] = v2[q]
    BY <1>0, <2>2
  <2>4. \A q \in References : v2'[q].made = v2[q].made
    BY <2>3
  <2>5. \A q \in References : v2[q].made \in Nat
    BY <1>0, ManyIsNat
  <2>6. IndexBehind'
    BY <2>3, <2>4, <2>5 DEF ImportInv, IndexBehind
  <2>7. ImportTypes'
    BY <1>0, <2>1, <2>3 DEF ImportTypes
  <2>8. ClaimsHold'
    BY <2>1 DEF ImportInv, ClaimsHold, AtWork, Live
  <2>9. FirstCreates'
    BY <2>1, <2>4 DEF ImportInv, FirstCreates, AboutToCreate
  <2> QED BY <2>6, <2>7, <2>8, <2>9 DEF ImportInv
<1>5. CASE Imports!LeaseRunsOut
  <2>1. UNCHANGED <<v2, v4, v5>>
    BY <1>5 DEF Imports!LeaseRunsOut
  <2>2. PICK r \in References :
            /\ v1' = [v1 EXCEPT ![r].expired = TRUE]
            /\ v6' = IF Imports!Working(r) # {} THEN v6 \cup {r} ELSE v6
    BY <1>5 DEF Imports!LeaseRunsOut
  <2>3. /\ v1' \in [References -> Rows] /\ \A q \in References : q # r => v1'[q] = v1[q]
    BY <1>0, <2>2 DEF Rows
  <2>4. v6 \subseteq v6' /\ (r \in v6' \/ \A t \in Slots : ~AtWork(t, r))
    BY <2>2 DEF Imports!Working, AtWork
  <2>5. ImportTypes'
    BY <1>0, <2>1, <2>3 DEF ImportTypes
  <2>6. ClaimsHold'
    <3> SUFFICES ASSUME NEW q \in References \ v6', NEW t \in Slots, AtWork(t, q)'
                 PROVE  Live(q)' /\ \A u \in Slots : AtWork(u, q)' => u = t
      BY DEF ClaimsHold
    <3>1. \A u \in Slots : AtWork(u, q)' <=> AtWork(u, q)
      BY <2>1 DEF AtWork
    <3>2. q # r /\ q \in References \ v6
      BY <2>4, <3>1
    <3>3. Live(q) /\ \A u \in Slots : AtWork(u, q) => u = t
      BY <3>1, <3>2 DEF ImportInv, ClaimsHold
    <3>4. Live(q)'
      BY <2>3, <3>2, <3>3 DEF Live
    <3> QED BY <3>1, <3>3, <3>4
  <2>7. FirstCreates' /\ IndexBehind'
    BY <2>1, <2>4 DEF ImportInv, FirstCreates, IndexBehind, AboutToCreate
  <2> QED BY <2>5, <2>6, <2>7 DEF ImportInv
<1> QED BY <1>1, <1>2, <1>3, <1>4, <1>5

LEMMA NextImportInv == ImportInv /\ [Imports!DeodapNext]_(Imports!importVars) => ImportInv'
<1> SUFFICES ASSUME ImportInv, [Imports!DeodapNext]_(Imports!importVars)
             PROVE  ImportInv'
  OBVIOUS
<1>1. CASE Imports!DeodapNext
  <2>1. ASSUME NEW t \in Slots, ~(Imports!CreateProduct(t) \/ Imports!CreateFails(t)),
               \/ Imports!ImportDeodapProducts(t) \/ Imports!FinishBatch(t)
               \/ Imports!InsertClaim(t) \/ Imports!TakeOver(t)
               \/ Imports!FindProductWithSku(t) \/ Imports!SearchFails(t)
               \/ Imports!ReleaseClaim(t) \/ Imports!MarkImportFailed(t)
               \/ Imports!RecordCost(t) \/ Imports!SettleImport(t)
               \/ Imports!ApplyDeodapSync(t) \/ Imports!FindManualCost(t)
               \/ Imports!UpsertManualCost(t) \/ Imports!UpdateLedgerCost(t)
               \/ Imports!RequestDies(t)
        PROVE  ImportInv'
    <3>1. CASE \/ Imports!InsertClaim(t) \/ Imports!TakeOver(t) \/ Imports!ReleaseClaim(t)
               \/ Imports!MarkImportFailed(t) \/ Imports!SettleImport(t)
               \/ Imports!UpdateLedgerCost(t)
      BY <3>1, ClaimSteps
    <3>2. CASE \/ Imports!ImportDeodapProducts(t) \/ Imports!FinishBatch(t)
               \/ Imports!FindProductWithSku(t) \/ Imports!SearchFails(t)
               \/ Imports!RecordCost(t) \/ Imports!ApplyDeodapSync(t)
               \/ Imports!FindManualCost(t) \/ Imports!UpsertManualCost(t)
               \/ Imports!RequestDies(t)
      BY <3>2, QuietSteps
    <3> QED BY <2>1, <3>1, <3>2
  <2>2. \/ \E t \in Slots : Imports!CreateProduct(t) \/ Imports!CreateFails(t)
        \/ Imports!EditCost \/ Imports!IndexCatchesUp \/ Imports!LeaseRunsOut
        \/ \E t \in Slots :
              \/ Imports!ImportDeodapProducts(t) \/ Imports!FinishBatch(t)
              \/ Imports!InsertClaim(t) \/ Imports!TakeOver(t)
              \/ Imports!FindProductWithSku(t) \/ Imports!SearchFails(t)
              \/ Imports!ReleaseClaim(t) \/ Imports!MarkImportFailed(t)
              \/ Imports!RecordCost(t) \/ Imports!SettleImport(t)
              \/ Imports!ApplyDeodapSync(t) \/ Imports!FindManualCost(t)
              \/ Imports!UpsertManualCost(t) \/ Imports!UpdateLedgerCost(t)
              \/ Imports!RequestDies(t)
    BY <1>1 DEF Imports!DeodapNext
  <2> QED BY <2>1, <2>2, ShopSteps
<1>2. CASE UNCHANGED Imports!importVars
  <2>1. UNCHANGED <<v1, v2, v4, v5, v6>>
    BY <1>2 DEF Imports!importVars
  <2> QED BY <2>1 DEF ImportInv, ImportTypes, ClaimsHold, FirstCreates, IndexBehind,
                      AtWork, AboutToCreate, Live
<1> QED BY <1>1, <1>2

LEMMA InitImportInv == Imports!DeodapInit => ImportInv
<1> SUFFICES ASSUME Imports!DeodapInit PROVE ImportInv
  OBVIOUS
<1>1. /\ v1 = [r \in References |-> Imports!Absent]
      /\ v2 = [r \in References |-> [made |-> 0, indexed |-> 0]]
      /\ v4 = [t \in Slots |-> Imports!Resting]
  BY DEF Imports!DeodapInit
<1>2. ImportTypes
  BY <1>1, AbsentFields, RestingFields, ManyIsNat DEF ImportTypes
<1>3. \A t \in Slots, r \in References : ~AtWork(t, r) /\ ~AboutToCreate(t, r)
  BY <1>1, RestingFields DEF AtWork, AboutToCreate
<1>4. \A r \in References : v2[r].made = 0 /\ v2[r].indexed = 0
  BY <1>1
<1> QED BY <1>2, <1>3, <1>4 DEF ImportInv, ClaimsHold, FirstCreates, IndexBehind

LEMMA ImportSteps ==
    service = "imports" /\ [Next]_<<service, pool>> => [Imports!DeodapNext]_(Imports!importVars)
BY DEF Next, pool, Imports!importVars

LEMMA ImportsAlways == Spec => [](service = "imports" => ImportInv)
<1>1. Init => (service = "imports" => ImportInv)
  BY InitImportInv DEF Init
<1>2. (service = "imports" => ImportInv) /\ [Next]_<<service, pool>>
          => (service = "imports" => ImportInv)'
  <2>1. [Next]_<<service, pool>> => service' = service
    BY DEF Next
  <2> QED BY <2>1, ImportSteps, NextImportInv
<1> QED BY <1>1, <1>2, PTL DEF Spec

\* However import requests overlap, fail, die and are repeated, a reference gets
\* one product, except where the SKU search could not see a product that was
\* there or a claim ran out under its request (deodap.service.ts, claimImport).
THEOREM OneProductOfAReference == Spec => []OneProductPerReference
<1>1. ImportInv => Imports!OneProductPerReference
  <2> SUFFICES ASSUME ImportInv, NEW r \in References, v2[r].made > 1
               PROVE  r \in v5 \cup v6
    BY DEF Imports!OneProductPerReference
  <2>1. v2[r].made \in 0..Many
    BY DEF ImportInv, ImportTypes
  <2>2. ~(v2[r].made <= 1)
    BY <2>1, ManyIsNat
  <2> QED BY <2>2 DEF ImportInv, FirstCreates
<1>2. (service = "imports" => ImportInv) => OneProductPerReference
  BY <1>1 DEF OneProductPerReference
<1> QED BY <1>2, ImportsAlways, PTL

\* What the steps that write the ledger leave of a row that is settled.
LEMMA RowsStayImported ==
    ASSUME ImportTypes, Imports!DeodapNext
    PROVE  Imports!KeepsImported
<1> SUFFICES ASSUME NEW r \in References, v1[r].status \in Imports!Settled
             PROVE  v1'[r].status \in Imports!Settled
  BY DEF Imports!KeepsImported
<1>0. v1 \in [References -> Rows]
  BY DEF ImportTypes
<1>1. v1[r].status = "CREATED" \/ v1[r].status = "PARTIAL"
  BY DEF Imports!Settled
<1>2. CASE UNCHANGED v1
  BY <1>2
<1>3. ASSUME NEW t \in Slots, Imports!InsertClaim(t)
      PROVE  v1'[r].status \in Imports!Settled
  <2>1. PICK q \in v4[t].todo :
            v1' = IF v1[q].status = "absent" THEN [v1 EXCEPT ![q] = Imports!Claimed] ELSE v1
    BY <1>3 DEF Imports!InsertClaim
  <2> QED BY <1>0, <1>1, <2>1
<1>4. ASSUME NEW t \in Slots, Imports!TakeOver(t)
      PROVE  v1'[r].status \in Imports!Settled
  <2>1. PICK q \in References :
            IF Imports!Claimable(q)
            THEN v1' = [v1 EXCEPT ![q].status = "CLAIMED", ![q].expired = FALSE]
            ELSE UNCHANGED v1
    BY <1>4 DEF Imports!TakeOver
  <2>2. CASE Imports!Claimable(q)
    <3>1. v1' = [v1 EXCEPT ![q].status = "CLAIMED", ![q].expired = FALSE]
      BY <2>1, <2>2
    <3>2. q # r
      BY <1>1, <2>2 DEF Imports!Claimable
    <3>3. v1'[r] = v1[r]
      BY <1>0, <3>1, <3>2
    <3> QED BY <3>3
  <2>3. CASE ~Imports!Claimable(q)
    BY <2>1, <2>3
  <2> QED BY <2>2, <2>3
<1>5. ASSUME NEW t \in Slots, Imports!ReleaseClaim(t)
      PROVE  v1'[r].status \in Imports!Settled
  <2>1. PICK q \in References :
            v1' = IF v1[q].status = "CLAIMED" THEN [v1 EXCEPT ![q] = Imports!Absent] ELSE v1
    BY <1>5 DEF Imports!ReleaseClaim
  <2> QED BY <1>0, <1>1, <2>1
<1>6. ASSUME NEW t \in Slots, Imports!MarkImportFailed(t)
      PROVE  v1'[r].status \in Imports!Settled
  <2>1. PICK q \in References :
            v1' = [v1 EXCEPT ![q] = Imports!MarkedFailed(v1[q])] \/ UNCHANGED v1
    BY <1>6 DEF Imports!MarkImportFailed
  <2>2. Imports!MarkedFailed(v1[r]) = v1[r]
    BY <1>1 DEF Imports!MarkedFailed
  <2> QED BY <1>0, <2>1, <2>2
<1>7. ASSUME NEW t \in Slots, Imports!SettleImport(t)
      PROVE  v1'[r].status \in Imports!Settled
  <2> DEFINE row == [status |-> IF v4[t].complete THEN "CREATED" ELSE "PARTIAL",
                     expired |-> FALSE, product |-> v4[t].product, cost |-> v4[t].cost]
  <2>1. PICK q \in References :
            \/ v1' = IF v1[q].status = "absent" THEN v1 ELSE [v1 EXCEPT ![q] = row]
            \/ UNCHANGED v1
    BY <1>7 DEF Imports!SettleImport
  <2>2. row.status \in Imports!Settled
    BY DEF Imports!Settled
  <2> HIDE DEF row
  <2> QED BY <1>0, <2>1, <2>2
<1>8. ASSUME NEW t \in Slots, Imports!UpdateLedgerCost(t)
      PROVE  v1'[r].status \in Imports!Settled
  <2>1. PICK q \in References :
            \/ v1' = IF v1[q].product = v4[t].product
                     THEN [v1 EXCEPT ![q].cost = v4[t].cost] ELSE v1
            \/ UNCHANGED v1
    BY <1>8 DEF Imports!UpdateLedgerCost
  <2>2. v1'[r].status = v1[r].status
    BY <1>0, <2>1 DEF Rows
  <2> QED BY <2>2
<1>9. CASE Imports!LeaseRunsOut
  <2>1. PICK q \in References : v1' = [v1 EXCEPT ![q].expired = TRUE]
    BY <1>9 DEF Imports!LeaseRunsOut
  <2>2. v1'[r].status = v1[r].status
    BY <1>0, <2>1 DEF Rows
  <2> QED BY <2>2
<1>10. CASE Imports!EditCost \/ Imports!IndexCatchesUp
  <2>1. UNCHANGED v1
    BY <1>10 DEF Imports!EditCost, Imports!IndexCatchesUp
  <2> QED BY <2>1
<1>11. ASSUME NEW t \in Slots,
              \/ Imports!ImportDeodapProducts(t) \/ Imports!FinishBatch(t)
              \/ Imports!FindProductWithSku(t) \/ Imports!SearchFails(t)
              \/ Imports!CreateProduct(t) \/ Imports!CreateFails(t)
              \/ Imports!RecordCost(t) \/ Imports!ApplyDeodapSync(t)
              \/ Imports!FindManualCost(t) \/ Imports!UpsertManualCost(t)
              \/ Imports!RequestDies(t)
       PROVE  UNCHANGED v1
  BY <1>11 DEF Imports!ImportDeodapProducts, Imports!FinishBatch, Imports!FindProductWithSku,
     Imports!SearchFails, Imports!CreateProduct, Imports!CreateFails, Imports!RecordCost,
     Imports!ApplyDeodapSync, Imports!FindManualCost, Imports!UpsertManualCost,
     Imports!RequestDies
<1> QED BY <1>2, <1>3, <1>4, <1>5, <1>6, <1>7, <1>8, <1>9, <1>10, <1>11 DEF Imports!DeodapNext

\* A reference recorded as imported stays so and is never offered to an import again,
\* not even by a request that lost its claim and ends late (deodap.service.ts,
\* markImportFailed and releaseClaim).  Which product the row names is not fixed: a late
\* import that settles writes its own.
THEOREM ImportedStays == Spec => ImportedForGood
<1>1. ImportInv /\ [Imports!DeodapNext]_(Imports!importVars) => Imports!KeepsImported
  <2>1. ImportInv /\ Imports!DeodapNext => Imports!KeepsImported
    BY RowsStayImported DEF ImportInv
  <2>2. UNCHANGED Imports!importVars => Imports!KeepsImported
    BY DEF Imports!importVars, Imports!KeepsImported
  <2> QED BY <2>1, <2>2
<1>2. (service = "imports" => ImportInv) /\ [Next]_<<service, pool>>
          => (service = "imports" => Imports!KeepsImported)
  BY <1>1, ImportSteps
<1> QED BY <1>2, ImportsAlways, PTL DEF Spec, ImportedForGood, pool

-----------------------------------------------------------------------------
(* The automation runs: v4 is the previews, v5 the lock and v6 the tasks.  *)

TaskShape(x) ==
    /\ x = [pc |-> x.pc, kind |-> x.kind, scope |-> x.scope, rules |-> x.rules,
            preview |-> x.preview, plan |-> x.plan, current |-> x.current,
            applied |-> x.applied, missed |-> x.missed, aborted |-> x.aborted]
    /\ x.aborted \in BOOLEAN

PreviewShape(q) ==
    q = [state |-> q.state, rules |-> q.rules, plan |-> q.plan, passed |-> q.passed]

RunTypes ==
    /\ v6 = [t \in Slots |-> v6[t]] /\ \A t \in Slots : TaskShape(v6[t])
    /\ v4 = [i \in 1..Few |-> v4[i]] /\ \A i \in 1..Few : PreviewShape(v4[i])

\* A run that writes holds the lock.
LockHeld == \A t \in Slots : Runs!Writing(t) => v5 = t

\* An apply goes through the preview it was begun with; once it writes, that
\* preview admits nobody else.
Admitted(x) ==
    x.kind = "apply" =>
        /\ x.preview \in 1..Few
        /\ x.pc \in {"writing", "tag"} =>
              LET q == v4[x.preview]
              IN  /\ q.state \in {"applied", "gone"} /\ q.passed = 1
                  /\ q.plan = x.plan /\ q.rules = x.rules

Unused(q) == q.state \in {"none", "ready", "expired"} => q.passed = 0

\* What an aborted run has not applied, it has given up.
GivenUp(x) == x.aborted => x.pc = "writing" /\ x.plan \ (x.applied \cup x.missed) = {}

RunInv ==
    /\ RunTypes /\ LockHeld
    /\ \A t \in Slots : Admitted(v6[t]) /\ GivenUp(v6[t])
    /\ \A i \in 1..Few : Unused(v4[i])

\* What every step is shown to keep.
RunStep == RunInv' /\ Runs!AbortIsFinal

LEMMA TaskMoves ==
    ASSUME RunInv, NEW t \in Slots, NEW x, Runs!Move(t, x)
    PROVE  /\ v6' = [u \in Slots |-> v6'[u]] /\ v6'[t] = x
           /\ \A u \in Slots : u # t => v6'[u] = v6[u]
BY DEF RunInv, RunTypes, Runs!Move

\* A step after which the task writes nothing.
LEMMA QuietMove ==
    ASSUME RunInv, NEW t \in Slots, NEW x, Runs!Move(t, x), UNCHANGED <<v4, v5>>,
           TaskShape(x), x.pc \notin {"writing", "tag"}, x.aborted = FALSE,
           x.kind = "apply" => x.preview \in 1..Few
    PROVE  RunStep
<1>1. /\ v6' = [u \in Slots |-> v6'[u]] /\ v6'[t] = x
      /\ \A u \in Slots : u # t => v6'[u] = v6[u]
  BY TaskMoves
<1>2. RunTypes'
  BY <1>1 DEF RunInv, RunTypes, TaskShape, PreviewShape
<1>3. LockHeld'
  BY <1>1 DEF RunInv, LockHeld, Runs!Writing
<1>4. \A u \in Slots : Admitted(v6[u])' /\ GivenUp(v6[u])'
  BY <1>1 DEF RunInv, Admitted, GivenUp
<1>5. \A i \in 1..Few : Unused(v4[i])'
  BY DEF RunInv, Unused
<1>6. Runs!AbortIsFinal
  BY <1>1 DEF Runs!AbortIsFinal
<1> QED BY <1>2, <1>3, <1>4, <1>5, <1>6 DEF RunStep, RunInv

\* A step of a run that goes on writing.
LEMMA WritingMove ==
    ASSUME RunInv, NEW t \in Slots, NEW x, Runs!Move(t, x), UNCHANGED <<v4, v5>>,
           Runs!Writing(t), TaskShape(x), GivenUp(x), x.kind = v6[t].kind,
           x.preview = v6[t].preview, x.plan = v6[t].plan, x.rules = v6[t].rules,
           v6[t].aborted => x.applied = v6[t].applied
    PROVE  RunStep
<1>1. /\ v6' = [u \in Slots |-> v6'[u]] /\ v6'[t] = x
      /\ \A u \in Slots : u # t => v6'[u] = v6[u]
  BY TaskMoves
<1>2. RunTypes'
  BY <1>1 DEF RunInv, RunTypes, TaskShape, PreviewShape
<1>3. LockHeld'
  BY <1>1 DEF RunInv, LockHeld, Runs!Writing
<1>4. Admitted(v6[t])'
  BY <1>1 DEF RunInv, Admitted, Runs!Writing
<1>5. \A u \in Slots : Admitted(v6[u])' /\ GivenUp(v6[u])'
  BY <1>1, <1>4 DEF RunInv, Admitted, GivenUp
<1>6. \A i \in 1..Few : Unused(v4[i])'
  BY DEF RunInv, Unused
<1>7. Runs!AbortIsFinal
  BY <1>1 DEF Runs!AbortIsFinal
<1> QED BY <1>2, <1>3, <1>5, <1>6, <1>7 DEF RunStep, RunInv

LEMMA IdleFields ==
    /\ TaskShape(Runs!Idle) /\ Runs!Idle.pc = "idle" /\ Runs!Idle.kind = "none"
    /\ Runs!Idle.aborted = FALSE
BY DEF Runs!Idle, TaskShape

LEMMA IdleMove ==
    ASSUME RunInv, NEW t \in Slots, Runs!Move(t, Runs!Idle), UNCHANGED <<v4, v5>>
    PROVE  RunStep
<1>1. PICK x : x = Runs!Idle
  OBVIOUS
<1> QED BY <1>1, IdleFields, QuietMove

LEMMA GotoMove ==
    ASSUME RunInv, NEW t \in Slots, NEW pc, pc \notin {"writing", "tag"},
           v6[t].pc # "writing", Runs!Goto(t, pc), UNCHANGED <<v4, v5>>
    PROVE  RunStep
<1>1. PICK x : x = [v6[t] EXCEPT !.pc = pc]
  OBVIOUS
<1>2. TaskShape(v6[t]) /\ v6[t].aborted = FALSE
      /\ (v6[t].kind = "apply" => v6[t].preview \in 1..Few)
  BY DEF RunInv, RunTypes, Admitted, GivenUp, TaskShape
<1>3. /\ x.pc = pc /\ x.aborted = v6[t].aborted /\ x.kind = v6[t].kind
      /\ x.preview = v6[t].preview /\ TaskShape(x)
  BY <1>1, <1>2 DEF TaskShape
<1>4. Runs!Move(t, x)
  BY <1>1 DEF Runs!Goto
<1> QED BY <1>2, <1>3, <1>4, QuietMove

\* The tasks before and beside the writing.
LEMMA BeginSteps ==
    ASSUME RunInv, NEW t \in Slots,
           \/ Runs!BeginPreview(t) \/ Runs!BeginApply(t) \/ Runs!DeliverUpdate(t)
           \/ Runs!DeliverCreate(t) \/ Runs!BeginApprove(t)
    PROVE  RunStep
<1>1. UNCHANGED <<v4, v5>>
  BY DEF Runs!BeginPreview, Runs!BeginApply, Runs!DeliverUpdate, Runs!DeliverCreate,
         Runs!BeginApprove
<1>2. PICK kind, scope, i, pc :
          /\ Runs!Preparing(t, kind, scope, i, pc)
          /\ pc \notin {"writing", "tag"} /\ (kind = "apply" => i \in 1..Few)
  <2>1. CASE Runs!BeginPreview(t)
    BY <2>1 DEF Runs!BeginPreview
  <2>2. CASE Runs!BeginApply(t)
    BY <2>2 DEF Runs!BeginApply, Runs!PreviewIds
  <2>3. CASE Runs!DeliverUpdate(t)
    BY <2>3 DEF Runs!DeliverUpdate
  <2>4. CASE Runs!DeliverCreate(t)
    BY <2>4 DEF Runs!DeliverCreate
  <2>5. CASE Runs!BeginApprove(t)
    BY <2>5 DEF Runs!BeginApprove
  <2> QED BY <2>1, <2>2, <2>3, <2>4, <2>5
<1>3. PICK x : x = [Runs!Idle EXCEPT !.pc = pc, !.kind = kind, !.scope = scope, !.preview = i]
  OBVIOUS
<1>4. Runs!Move(t, x)
  BY <1>2, <1>3 DEF Runs!Preparing
<1>5. /\ TaskShape(x) /\ x.pc = pc /\ x.kind = kind /\ x.preview = i /\ x.aborted = FALSE
  BY <1>3 DEF Runs!Idle, TaskShape
<1> QED BY <1>1, <1>2, <1>4, <1>5, QuietMove

LEMMA ReadingSteps ==
    ASSUME RunInv, NEW t \in Slots, Runs!ResolveEffectiveRules(t) \/ Runs!FetchProduct(t)
    PROVE  RunStep
<1>0. TaskShape(v6[t]) /\ (v6[t].kind = "apply" => v6[t].preview \in 1..Few)
      /\ UNCHANGED <<v4, v5>>
  BY DEF RunInv, RunTypes, Admitted, Runs!ResolveEffectiveRules, Runs!FetchProduct
<1>1. v6[t].aborted = FALSE
  BY <1>0 DEF RunInv, GivenUp, TaskShape, Runs!ResolveEffectiveRules, Runs!FetchProduct
<1>2. PICK x : /\ Runs!Move(t, x)
               /\ \/ x = [v6[t] EXCEPT !.rules = {v3}, !.pc = "reading"]
                  \/ \E p, r : x = [v6[t] EXCEPT !.scope = @ \ {p},
                                                 !.plan = Runs!PlanFor(@, p, v1[p], r)]
  BY DEF Runs!ResolveEffectiveRules, Runs!FetchProduct
<1>3. /\ x.aborted = v6[t].aborted /\ x.kind = v6[t].kind /\ x.preview = v6[t].preview
      /\ TaskShape(x) /\ (x.pc = "reading" \/ x.pc = v6[t].pc)
  <2>1. CASE x = [v6[t] EXCEPT !.rules = {v3}, !.pc = "reading"]
    BY <1>0, <2>1 DEF TaskShape
  <2>2. ASSUME NEW p, NEW q, x = [v6[t] EXCEPT !.scope = @ \ {p}, !.plan = q]
        PROVE  /\ x.aborted = v6[t].aborted /\ x.kind = v6[t].kind
               /\ x.preview = v6[t].preview /\ TaskShape(x) /\ x.pc = v6[t].pc
    BY <1>0, <2>2 DEF TaskShape
  <2> QED BY <1>2, <2>1, <2>2
<1>4. v6[t].pc \in {"rules", "reading"}
  BY DEF Runs!ResolveEffectiveRules, Runs!FetchProduct
<1> QED BY <1>0, <1>1, <1>2, <1>3, <1>4, QuietMove

\* The hold on a new product and the approval of the operator.
LEMMA GateSteps ==
    ASSUME RunInv, NEW t \in Slots,
           \/ Runs!Hold(t) \/ Runs!HoldTag(t) \/ Runs!ReviewTag(t) \/ Runs!PublishFirst(t)
           \/ Runs!Activate(t) \/ Runs!Unhide(t) \/ Runs!ClearTags(t)
    PROVE  RunStep
<1>1. UNCHANGED <<v4, v5>> /\ v6[t].pc # "writing"
  BY DEF Runs!Hold, Runs!HoldTag, Runs!ReviewTag, Runs!PublishFirst, Runs!Activate,
         Runs!Unhide, Runs!ClearTags
<1>2. \/ Runs!Move(t, Runs!Idle) \/ Runs!Goto(t, "hold tag") \/ Runs!Goto(t, "rules")
      \/ Runs!Goto(t, "review tag") \/ Runs!Goto(t, "activate") \/ Runs!Goto(t, "unhide")
      \/ Runs!Goto(t, "clear tags")
  BY DEF Runs!Hold, Runs!HoldTag, Runs!ReviewTag, Runs!PublishFirst, Runs!Activate,
         Runs!Unhide, Runs!ClearTags
<1> QED BY <1>1, <1>2, IdleMove, GotoMove

\* What other tasks may do to a preview.
PreviewKept(i) ==
    /\ PreviewShape(v4'[i]) /\ Unused(v4'[i])
    /\ \/ /\ v4'[i].plan = v4[i].plan /\ v4'[i].rules = v4[i].rules
          /\ v4'[i].passed = v4[i].passed
          /\ v4[i].state \in {"applied", "gone"} => v4'[i].state \in {"applied", "gone"}
       \/ v4[i].state \notin {"applied", "gone"}

\* A step of the previews, after which no task writes that did not.
LEMMA PreviewMove ==
    ASSUME RunInv, v4' = [i \in 1..Few |-> v4'[i]], \A i \in 1..Few : PreviewKept(i),
           v5' = v5, v6' = [t \in Slots |-> v6'[t]],
           \A t \in Slots : v6'[t] = v6[t] \/ v6'[t] = Runs!Idle
    PROVE  RunStep
<1>1. RunTypes'
  BY IdleFields DEF RunInv, RunTypes, TaskShape, PreviewShape, PreviewKept
<1>2. LockHeld'
  BY IdleFields DEF RunInv, LockHeld, Runs!Writing
<1>3. ASSUME NEW t \in Slots PROVE Admitted(v6[t])'
  <2>1. CASE v6'[t] = Runs!Idle
    BY <2>1, IdleFields DEF Admitted
  <2>2. CASE v6'[t] = v6[t]
    BY <2>2 DEF RunInv, Admitted, PreviewKept
  <2> QED BY <2>1, <2>2
<1>4. \A t \in Slots : GivenUp(v6[t])' /\ (v6'[t].aborted => v6'[t] = v6[t])
  BY IdleFields DEF RunInv, GivenUp
<1>5. \A i \in 1..Few : Unused(v4[i])'
  BY DEF PreviewKept, Unused
<1>6. Runs!AbortIsFinal
  BY <1>4 DEF Runs!AbortIsFinal
<1> QED BY <1>1, <1>2, <1>3, <1>4, <1>5, <1>6 DEF RunStep, RunInv

\* A preview expires, is recorded, or goes with the process.
LEMMA ExpiryStep ==
    ASSUME RunInv, Runs!PreviewExpires PROVE RunStep
<1>0. v4 = [i \in 1..Few |-> v4[i]] /\ \A i \in 1..Few : PreviewShape(v4[i]) /\ Unused(v4[i])
  BY DEF RunInv, RunTypes
<1>1. PICK i \in 1..Few : v4[i].state = "ready" /\ v4' = [v4 EXCEPT ![i].state = "expired"]
  BY DEF Runs!PreviewExpires, Runs!PreviewIds
<1>2. PICK q : q = [v4[i] EXCEPT !.state = "expired"]
  OBVIOUS
<1>3. /\ PreviewShape(q) /\ q.state = "expired" /\ q.plan = v4[i].plan
      /\ q.rules = v4[i].rules /\ q.passed = v4[i].passed
  BY <1>0, <1>2 DEF PreviewShape
<1>4. /\ v4' = [j \in 1..Few |-> v4'[j]] /\ v4'[i] = q
      /\ \A j \in 1..Few : j # i => v4'[j] = v4[j]
  BY <1>0, <1>1, <1>2
<1>5. \A j \in 1..Few : PreviewKept(j)
  BY <1>0, <1>1, <1>3, <1>4 DEF PreviewKept, Unused
<1>6. v5' = v5 /\ v6' = v6
  BY DEF Runs!PreviewExpires
<1>7. v6 = [t \in Slots |-> v6[t]]
  BY DEF RunInv, RunTypes
<1> QED BY <1>4, <1>5, <1>6, <1>7, PreviewMove

LEMMA GoneFields ==
    ASSUME NEW i \in 1..Few, PreviewShape(v4[i]), Unused(v4[i]),
           v4'[i] = v4[i] \/ v4'[i] = [v4[i] EXCEPT !.state = "gone"]
    PROVE  PreviewKept(i)
<1>1. CASE v4'[i] = v4[i]
  BY <1>1 DEF PreviewKept, Unused, PreviewShape
<1>2. CASE v4'[i] = [v4[i] EXCEPT !.state = "gone"]
  <2>1. PICK q : q = v4'[i]
    OBVIOUS
  <2>2. /\ PreviewShape(q) /\ q.state = "gone" /\ q.plan = v4[i].plan
        /\ q.rules = v4[i].rules /\ q.passed = v4[i].passed
    BY <1>2, <2>1 DEF PreviewShape
  <2> QED BY <2>1, <2>2 DEF PreviewKept, Unused
<1> QED BY <1>1, <1>2

LEMMA RecordStep ==
    ASSUME RunInv, NEW t \in Slots, Runs!RecordPreview(t) PROVE RunStep
<1>0. \A i \in 1..Few : PreviewShape(v4[i]) /\ Unused(v4[i])
  BY DEF RunInv, RunTypes
<1> DEFINE new == [Runs!NoPreview EXCEPT !.state = "ready", !.rules = v6[t].rules,
                                         !.plan = v6[t].plan]
<1>1. PICK i \in 1..Few :
          /\ v4[i].state = "none"
          /\ v4' = [j \in 1..Few |->
                IF j = i THEN new
                ELSE IF v4[j].state \in {"applied", "expired"}
                     THEN [v4[j] EXCEPT !.state = "gone"]
                ELSE v4[j]]
  BY DEF Runs!RecordPreview, Runs!PreviewIds
<1>2. PreviewShape(new) /\ new.passed = 0
  <2>1. PICK rs, plan : rs = v6[t].rules /\ plan = v6[t].plan
    OBVIOUS
  <2>2. PICK q : q = [Runs!NoPreview EXCEPT !.state = "ready", !.rules = rs, !.plan = plan]
    OBVIOUS
  <2>3. PreviewShape(q) /\ q.passed = 0
    BY <2>2 DEF Runs!NoPreview, PreviewShape
  <2>4. new = q
    BY <2>1, <2>2
  <2> QED BY <2>3, <2>4
<1> HIDE DEF new
<1>3. v4' = [j \in 1..Few |-> v4'[j]] /\ v4'[i] = new
      /\ \A j \in 1..Few : j # i =>
            v4'[j] = v4[j] \/ v4'[j] = [v4[j] EXCEPT !.state = "gone"]
  BY <1>1
<1>4. ASSUME NEW j \in 1..Few PROVE PreviewKept(j)
  <2>1. CASE j = i
    BY <1>1, <1>2, <1>3, <2>1 DEF PreviewKept, Unused
  <2>2. CASE j # i
    BY <1>0, <1>3, <2>2, GoneFields
  <2> QED BY <2>1, <2>2
<1>5. v5' = v5 /\ Runs!Move(t, Runs!Idle)
  BY DEF Runs!RecordPreview
<1>6. v6' = [u \in Slots |-> v6'[u]] /\ \A u \in Slots : v6'[u] = v6[u] \/ v6'[u] = Runs!Idle
  BY <1>5 DEF RunInv, RunTypes, Runs!Move
<1> QED BY <1>3, <1>4, <1>5, <1>6, PreviewMove

LEMMA RestartStep ==
    ASSUME RunInv, Runs!Restart PROVE RunStep
<1>0. \A i \in 1..Few : PreviewShape(v4[i]) /\ Unused(v4[i])
  BY DEF RunInv, RunTypes
<1>1. v4' = [i \in 1..Few |-> IF v4[i].state = "none" THEN v4[i]
                              ELSE [v4[i] EXCEPT !.state = "gone"]]
      /\ v6' = [t \in Slots |-> Runs!Idle]
  BY DEF Runs!Restart, Runs!PreviewIds
<1>2. \A i \in 1..Few : v4'[i] = v4[i] \/ v4'[i] = [v4[i] EXCEPT !.state = "gone"]
  BY <1>1
<1>3. \A i \in 1..Few : PreviewKept(i)
  BY <1>0, <1>2, GoneFields
<1>4. v4' = [i \in 1..Few |-> v4'[i]]
  BY <1>1
<1>5. RunTypes'
  BY <1>1, <1>3, <1>4, IdleFields DEF RunTypes, PreviewKept, TaskShape, PreviewShape
<1>6. \A t \in Slots : v6'[t] = Runs!Idle
  BY <1>1
<1>7. LockHeld' /\ Runs!AbortIsFinal
  BY <1>6, IdleFields DEF LockHeld, Runs!Writing, Runs!AbortIsFinal
<1>8. \A t \in Slots : Admitted(v6[t])' /\ GivenUp(v6[t])'
  BY <1>6, IdleFields DEF Admitted, GivenUp
<1>9. \A i \in 1..Few : Unused(v4[i])'
  BY <1>3 DEF PreviewKept, Unused
<1> QED BY <1>5, <1>7, <1>8, <1>9 DEF RunStep, RunInv

\* A run begins to write: nobody held the lock.
LEMMA StartRun ==
    ASSUME RunInv, NEW t \in Slots, v6[t].pc = "reading", Runs!Goto(t, "writing"),
           v5 = "none", v5' = t, v4' = [i \in 1..Few |-> v4'[i]],
           \A i \in 1..Few : PreviewKept(i),
           v6[t].kind = "apply" =>
               LET q == v4'[v6[t].preview]
               IN  /\ q.state \in {"applied", "gone"} /\ q.passed = 1
                   /\ q.plan = v6[t].plan /\ q.rules = v6[t].rules
    PROVE  RunStep
<1>0. TaskShape(v6[t]) /\ Admitted(v6[t]) /\ v6[t].aborted = FALSE
  BY DEF RunInv, RunTypes, GivenUp, TaskShape
<1>1. PICK x : x = [v6[t] EXCEPT !.pc = "writing"] /\ Runs!Move(t, x)
  BY DEF Runs!Goto
<1>2. /\ x.pc = "writing" /\ x.kind = v6[t].kind /\ x.preview = v6[t].preview
      /\ x.plan = v6[t].plan /\ x.rules = v6[t].rules /\ x.aborted = FALSE /\ TaskShape(x)
  BY <1>0, <1>1 DEF TaskShape
<1>3. /\ v6' = [u \in Slots |-> v6'[u]] /\ v6'[t] = x
      /\ \A u \in Slots : u # t => v6'[u] = v6[u]
  BY <1>1, TaskMoves
<1>4. RunTypes'
  BY <1>2, <1>3 DEF RunInv, RunTypes, TaskShape, PreviewShape, PreviewKept
<1>5. LockHeld'
  BY <1>3, SlotsAssumption DEF RunInv, LockHeld, Runs!Writing
<1>6. ASSUME NEW u \in Slots PROVE Admitted(v6[u])' /\ GivenUp(v6[u])'
  <2>1. CASE u = t
    BY <1>0, <1>2, <1>3, <2>1 DEF Admitted, GivenUp
  <2>2. CASE u # t
    BY <1>3, <2>2 DEF RunInv, Admitted, GivenUp, PreviewKept
  <2> QED BY <2>1, <2>2
<1>7. \A i \in 1..Few : Unused(v4[i])'
  BY DEF PreviewKept, Unused
<1>8. Runs!AbortIsFinal
  BY <1>2, <1>3 DEF Runs!AbortIsFinal
<1> QED BY <1>4, <1>5, <1>6, <1>7, <1>8 DEF RunStep, RunInv

LEMMA ApplyStep ==
    ASSUME RunInv, NEW t \in Slots, Runs!Apply(t) PROVE RunStep
<1>0. /\ v6[t].pc = "reading" /\ v6[t].kind = "apply" /\ v6[t].preview \in 1..Few
      /\ v4 = [i \in 1..Few |-> v4[i]] /\ v6 = [u \in Slots |-> v6[u]]
      /\ \A i \in 1..Few : PreviewShape(v4[i]) /\ Unused(v4[i])
  BY DEF RunInv, RunTypes, Admitted, Runs!Apply, Runs!Prepared
<1>1. PICK i \in 1..Few : i = v6[t].preview
  BY <1>0
<1>2. CASE ~Runs!Consumable(i, t)
  <2>1. Runs!Move(t, Runs!Idle) /\ UNCHANGED <<v4, v5>>
    BY <1>1, <1>2 DEF Runs!Apply
  <2> QED BY <2>1, IdleMove
<1>3. CASE Runs!Consumable(i, t)
  <2>1. /\ v4' = [v4 EXCEPT ![i].state = "applied", ![i].passed = @ + 1] /\ Runs!Execute(t)
    BY <1>1, <1>3 DEF Runs!Apply
  <2>2. /\ v4[i].state \in {"ready", "expired"} /\ v4[i].rules = v6[t].rules
        /\ v4[i].plan = v6[t].plan
    BY <1>3 DEF Runs!Consumable
  <2>3. PICK q : q = [v4[i] EXCEPT !.state = "applied", !.passed = @ + 1]
    OBVIOUS
  <2>4. PreviewShape(v4[i]) /\ v4[i].passed = 0
    BY <1>0, <2>2 DEF Unused
  <2>5. /\ q.state = "applied" /\ q.passed = 1 /\ q.plan = v4[i].plan
        /\ q.rules = v4[i].rules /\ PreviewShape(q)
    <3>1. PICK n : n = v4[i].passed + 1
      OBVIOUS
    <3>2. q = [v4[i] EXCEPT !.state = "applied", !.passed = n]
      BY <2>3, <3>1
    <3>3. /\ q.state = "applied" /\ q.passed = n /\ q.plan = v4[i].plan
          /\ q.rules = v4[i].rules /\ PreviewShape(q)
      BY <2>4, <3>2 DEF PreviewShape
    <3> QED BY <2>4, <3>1, <3>3
  <2>6. v4' = [v4 EXCEPT ![i] = q]
    BY <1>0, <2>1, <2>3, <2>4 DEF PreviewShape
  <2>7. /\ v4' = [j \in 1..Few |-> v4'[j]] /\ v4'[i] = q
        /\ \A j \in 1..Few : j # i => v4'[j] = v4[j]
    BY <1>0, <2>6
  <2>8. ASSUME NEW j \in 1..Few PROVE PreviewKept(j)
    <3>1. CASE j = i
      BY <2>2, <2>5, <2>7, <3>1 DEF PreviewKept, Unused
    <3>2. CASE j # i
      BY <1>0, <2>7, <3>2, GoneFields
    <3> QED BY <3>1, <3>2
  <2>9. CASE v7 \/ v5 # Runs!NoTask
    <3>1. Runs!Move(t, Runs!Idle) /\ v5' = v5
      BY <2>1, <2>9 DEF Runs!Execute
    <3>2. /\ v6' = [u \in Slots |-> v6'[u]]
          /\ \A u \in Slots : v6'[u] = v6[u] \/ v6'[u] = Runs!Idle
      BY <1>0, <3>1 DEF Runs!Move
    <3> QED BY <2>7, <2>8, <3>1, <3>2, PreviewMove
  <2>10. CASE ~(v7 \/ v5 # Runs!NoTask)
    <3>1. Runs!Goto(t, "writing") /\ v5' = t /\ v5 = "none"
      BY <2>1, <2>10 DEF Runs!Execute, Runs!NoTask
    <3>2. LET p == v4'[v6[t].preview]
          IN  /\ p.state \in {"applied", "gone"} /\ p.passed = 1
              /\ p.plan = v6[t].plan /\ p.rules = v6[t].rules
      BY <1>1, <2>2, <2>5, <2>7
    <3> QED BY <1>0, <2>7, <2>8, <3>1, <3>2, StartRun
  <2> QED BY <2>9, <2>10
<1> QED BY <1>2, <1>3

LEMMA DeliveryStep ==
    ASSUME RunInv, NEW t \in Slots, Runs!ApplyForDelivery(t) PROVE RunStep
<1>0. /\ v6[t].pc = "reading" /\ v6[t].kind = "delivery" /\ v4' = v4 /\ Runs!Execute(t)
      /\ v4 = [i \in 1..Few |-> v4[i]]
      /\ \A i \in 1..Few : PreviewShape(v4[i]) /\ Unused(v4[i])
  BY DEF RunInv, RunTypes, Runs!ApplyForDelivery, Runs!Prepared
<1>1. CASE v7 \/ v5 # Runs!NoTask
  <2>1. Runs!Move(t, Runs!Idle) /\ v5' = v5
    BY <1>0, <1>1 DEF Runs!Execute
  <2> QED BY <1>0, <2>1, IdleMove
<1>2. CASE ~(v7 \/ v5 # Runs!NoTask)
  <2>1. Runs!Goto(t, "writing") /\ v5' = t /\ v5 = "none"
    BY <1>0, <1>2 DEF Runs!Execute, Runs!NoTask
  <2>2. \A i \in 1..Few : PreviewKept(i)
    BY <1>0, GoneFields
  <2>3. v4' = [i \in 1..Few |-> v4'[i]]
    BY <1>0
  <2> QED BY <1>0, <2>1, <2>2, <2>3, StartRun
<1> QED BY <1>1, <1>2

LEMMA FinishStep ==
    ASSUME RunInv, NEW t \in Slots, Runs!FinishRun(t) PROVE RunStep
<1>0. v5' = "none" /\ v4' = v4 /\ Runs!Move(t, Runs!Idle) /\ Runs!Writing(t)
  BY DEF Runs!FinishRun, Runs!NoTask, Runs!Writing
<1>1. /\ v6' = [u \in Slots |-> v6'[u]] /\ v6'[t] = Runs!Idle
      /\ \A u \in Slots : u # t => v6'[u] = v6[u]
  BY <1>0 DEF RunInv, RunTypes, Runs!Move
<1>2. RunTypes'
  BY <1>0, <1>1, IdleFields DEF RunInv, RunTypes, TaskShape, PreviewShape
<1>3. LockHeld'
  BY <1>0, <1>1, IdleFields DEF RunInv, LockHeld, Runs!Writing
<1>4. \A u \in Slots : Admitted(v6[u])' /\ GivenUp(v6[u])'
  BY <1>0, <1>1, IdleFields DEF RunInv, Admitted, GivenUp
<1>5. \A i \in 1..Few : Unused(v4[i])'
  BY <1>0 DEF RunInv, Unused
<1>6. Runs!AbortIsFinal
  BY <1>1, IdleFields DEF Runs!AbortIsFinal
<1> QED BY <1>2, <1>3, <1>4, <1>5, <1>6 DEF RunStep, RunInv

\* The steps of a run at work.
LEMMA WritingSteps ==
    ASSUME RunInv, NEW t \in Slots,
           \/ Runs!AbortDegraded(t) \/ Runs!ApplyStatus(t) \/ Runs!ApplyTag(t)
           \/ Runs!ApplyPrices(t)
    PROVE  RunStep
<1>0. TaskShape(v6[t]) /\ GivenUp(v6[t]) /\ UNCHANGED <<v4, v5>> /\ Runs!Writing(t)
  BY DEF RunInv, RunTypes, Runs!AbortDegraded, Runs!ApplyStatus, Runs!ApplyTag,
         Runs!ApplyPrices, Runs!Writing
<1>1. ASSUME Runs!NextActions(v6[t]) # {} \/ v6[t].pc = "tag"
      PROVE  v6[t].aborted = FALSE
  BY <1>0, <1>1 DEF GivenUp, TaskShape, Runs!NextActions, Runs!Pending
<1>2. CASE Runs!AbortDegraded(t)
  <2>1. PICK x : x = [v6[t] EXCEPT !.missed = Runs!Missed(v6[t]), !.aborted = TRUE]
                 /\ Runs!Move(t, x)
    BY <1>2 DEF Runs!AbortDegraded
  <2>2. v6[t].aborted = FALSE /\ v6[t].pc = "writing"
    BY <1>1, <1>2 DEF Runs!AbortDegraded
  <2>3. /\ TaskShape(x) /\ x.pc = "writing" /\ x.kind = v6[t].kind
        /\ x.preview = v6[t].preview /\ x.plan = v6[t].plan /\ x.rules = v6[t].rules
        /\ x.applied = v6[t].applied /\ x.missed = Runs!Missed(v6[t])
    BY <1>0, <2>1, <2>2 DEF TaskShape
  <2>4. GivenUp(x)
    BY <2>3 DEF GivenUp, Runs!Missed
  <2> QED BY <1>0, <2>1, <2>3, <2>4, WritingMove
<1>3. CASE Runs!ApplyStatus(t)
  <2>0. v6[t].pc = "writing" /\ Runs!NextActions(v6[t]) # {}
    BY <1>3 DEF Runs!ApplyStatus
  <2>1. PICK a \in Runs!NextActions(v6[t]) :
            \/ Runs!Move(t, [v6[t] EXCEPT !.pc = "tag", !.current = {a}])
            \/ Runs!Move(t, [v6[t] EXCEPT !.missed = @ \cup {a}])
    BY <1>3 DEF Runs!ApplyStatus
  <2>2. ASSUME NEW x, Runs!Move(t, x),
               \/ x = [v6[t] EXCEPT !.pc = "tag", !.current = {a}]
               \/ x = [v6[t] EXCEPT !.missed = @ \cup {a}]
        PROVE  RunStep
    <3>1. /\ TaskShape(x) /\ x.kind = v6[t].kind /\ x.aborted = v6[t].aborted
          /\ x.preview = v6[t].preview /\ x.plan = v6[t].plan /\ x.rules = v6[t].rules
      <4>1. CASE x = [v6[t] EXCEPT !.pc = "tag", !.current = {a}]
        BY <1>0, <4>1 DEF TaskShape
      <4>2. ASSUME NEW m, x = [v6[t] EXCEPT !.missed = m]
            PROVE  /\ TaskShape(x) /\ x.kind = v6[t].kind /\ x.aborted = v6[t].aborted
                   /\ x.preview = v6[t].preview /\ x.plan = v6[t].plan
                   /\ x.rules = v6[t].rules
        BY <1>0, <4>2 DEF TaskShape
      <4> QED BY <2>2, <4>1, <4>2
    <3> QED BY <1>0, <1>1, <2>0, <2>2, <3>1, WritingMove DEF GivenUp
  <2> QED BY <2>1, <2>2
<1>4. CASE Runs!ApplyTag(t)
  <2>0. v6[t].pc = "tag"
    BY <1>4 DEF Runs!ApplyTag
  <2>1. PICK a : Runs!Move(t, [v6[t] EXCEPT !.pc = "writing", !.current = {},
                                            !.applied = @ \cup {a}])
    BY <1>4 DEF Runs!ApplyTag
  <2>2. PICK m : m = v6[t].applied \cup {a}
    OBVIOUS
  <2>3. PICK x : x = [v6[t] EXCEPT !.pc = "writing", !.current = {}, !.applied = m]
    OBVIOUS
  <2>4. /\ TaskShape(x) /\ x.kind = v6[t].kind /\ x.aborted = v6[t].aborted
        /\ x.preview = v6[t].preview /\ x.plan = v6[t].plan /\ x.rules = v6[t].rules
    BY <1>0, <2>3 DEF TaskShape
  <2>5. Runs!Move(t, x)
    BY <2>1, <2>2, <2>3
  <2> QED BY <1>0, <1>1, <2>0, <2>4, <2>5, WritingMove DEF GivenUp
<1>5. CASE Runs!ApplyPrices(t)
  <2>0. v6[t].pc = "writing" /\ Runs!NextActions(v6[t]) # {}
    BY <1>5 DEF Runs!ApplyPrices
  <2>1. PICK a \in Runs!NextActions(v6[t]) :
            \/ Runs!Move(t, [v6[t] EXCEPT !.applied = @ \cup {a}])
            \/ Runs!Move(t, [v6[t] EXCEPT !.missed = @ \cup {a}])
    BY <1>5 DEF Runs!ApplyPrices
  <2>2. ASSUME NEW x, NEW m, Runs!Move(t, x),
               x = [v6[t] EXCEPT !.applied = m] \/ x = [v6[t] EXCEPT !.missed = m]
        PROVE  RunStep
    <3>1. /\ TaskShape(x) /\ x.kind = v6[t].kind /\ x.aborted = v6[t].aborted
          /\ x.preview = v6[t].preview /\ x.plan = v6[t].plan /\ x.rules = v6[t].rules
      <4>1. CASE x = [v6[t] EXCEPT !.applied = m]
        BY <1>0, <4>1 DEF TaskShape
      <4>2. CASE x = [v6[t] EXCEPT !.missed = m]
        BY <1>0, <4>2 DEF TaskShape
      <4> QED BY <2>2, <4>1, <4>2
    <3> QED BY <1>0, <1>1, <2>0, <2>2, <3>1, WritingMove DEF GivenUp
  <2> QED BY <2>1, <2>2
<1> QED BY <1>2, <1>3, <1>4, <1>5

LEMMA NextRunInv == RunInv /\ [Runs!AutomationNext]_(Runs!automationVars) => RunStep
<1> SUFFICES ASSUME RunInv, [Runs!AutomationNext]_(Runs!automationVars)
             PROVE  RunStep
  OBVIOUS
<1>1. CASE UNCHANGED <<v4, v5, v6>>
  <2>1. v6 = [t \in Slots |-> v6[t]]
    BY DEF RunInv, RunTypes
  <2>2. RunInv'
    BY <1>1 DEF RunInv, RunTypes, LockHeld, Runs!Writing, Admitted, GivenUp, Unused,
                TaskShape, PreviewShape
  <2>3. Runs!AbortIsFinal
    BY <1>1 DEF Runs!AbortIsFinal
  <2> QED BY <2>2, <2>3 DEF RunStep
<1>2. CASE Runs!AutomationNext
  <2>1. CASE Runs!SaveRules \/ Runs!Import \/ Runs!MerchantSetsStatus \/ Runs!SupplyChanges
             \/ Runs!BreakerTurns
    <3>1. UNCHANGED <<v4, v5, v6>>
      BY <2>1 DEF Runs!SaveRules, Runs!Import, Runs!MerchantSetsStatus,
                  Runs!SupplyChanges, Runs!BreakerTurns, Runs!Edit
    <3> QED BY <1>1, <3>1
  <2>2. CASE Runs!PreviewExpires \/ Runs!Restart
    BY <2>2, ExpiryStep, RestartStep
  <2>3. ASSUME NEW t \in Slots,
               \/ Runs!BeginPreview(t) \/ Runs!BeginApply(t) \/ Runs!DeliverUpdate(t)
               \/ Runs!DeliverCreate(t) \/ Runs!BeginApprove(t)
        PROVE  RunStep
    BY <2>3, BeginSteps
  <2>4. ASSUME NEW t \in Slots, Runs!ResolveEffectiveRules(t) \/ Runs!FetchProduct(t)
        PROVE  RunStep
    BY <2>4, ReadingSteps
  <2>5. ASSUME NEW t \in Slots,
               \/ Runs!Hold(t) \/ Runs!HoldTag(t) \/ Runs!ReviewTag(t)
               \/ Runs!PublishFirst(t) \/ Runs!Activate(t) \/ Runs!Unhide(t)
               \/ Runs!ClearTags(t)
        PROVE  RunStep
    BY <2>5, GateSteps
  <2>6. ASSUME NEW t \in Slots,
               \/ Runs!AbortDegraded(t) \/ Runs!ApplyStatus(t) \/ Runs!ApplyTag(t)
               \/ Runs!ApplyPrices(t)
        PROVE  RunStep
    BY <2>6, WritingSteps
  <2>7. ASSUME NEW t \in Slots,
               \/ Runs!RecordPreview(t) \/ Runs!Apply(t) \/ Runs!ApplyForDelivery(t)
               \/ Runs!FinishRun(t)
        PROVE  RunStep
    BY <2>7, RecordStep, ApplyStep, DeliveryStep, FinishStep
  <2> QED BY <1>2, <2>1, <2>2, <2>3, <2>4, <2>5, <2>6, <2>7 DEF Runs!AutomationNext
<1>3. CASE UNCHANGED Runs!automationVars
  <2>1. UNCHANGED <<v4, v5, v6>>
    BY <1>3 DEF Runs!automationVars
  <2> QED BY <1>1, <2>1
<1> QED BY <1>2, <1>3

LEMMA InitRunInv == Runs!AutomationInit => RunInv
<1> SUFFICES ASSUME Runs!AutomationInit PROVE RunInv
  OBVIOUS
<1>1. v4 = [i \in 1..Few |-> Runs!NoPreview] /\ v6 = [t \in Slots |-> Runs!Idle]
  BY DEF Runs!AutomationInit, Runs!PreviewIds
<1>2. PreviewShape(Runs!NoPreview) /\ Runs!NoPreview.passed = 0
  BY DEF Runs!NoPreview, PreviewShape
<1>3. /\ \A i \in 1..Few : PreviewShape(v4[i]) /\ Unused(v4[i])
      /\ v4 = [i \in 1..Few |-> v4[i]] /\ v6 = [t \in Slots |-> v6[t]]
      /\ \A t \in Slots : v6[t] = Runs!Idle
  BY <1>1, <1>2 DEF Unused
<1> QED BY <1>3, IdleFields DEF RunInv, RunTypes, LockHeld, Runs!Writing, Admitted, GivenUp

LEMMA AutomationSteps ==
    service = "automation" /\ [Next]_<<service, pool>>
        => [Runs!AutomationNext]_(Runs!automationVars)
BY DEF Next, pool, Runs!automationVars

LEMMA RunsAlways == Spec => [](service = "automation" => RunInv)
<1>1. Init => (service = "automation" => RunInv)
  BY InitRunInv DEF Init
<1>2. (service = "automation" => RunInv) /\ [Next]_<<service, pool>>
          => (service = "automation" => RunInv)'
  <2>1. [Next]_<<service, pool>> => service' = service
    BY DEF Next
  <2> QED BY <2>1, AutomationSteps, NextRunInv DEF RunStep
<1> QED BY <1>1, <1>2, PTL DEF Spec

\* An apply writes the plan the operator was shown, under the rules it was made
\* with, a preview admits one apply, and one run at a time writes to the shop
\* (consumePreview of preview.store.ts, acquireAutomationLock).
THEOREM RunsStayReviewed == Spec => []RunsAreReviewed
<1>1. RunInv => Runs!OnlyReviewedIsApplied
  BY DEF RunInv, Admitted, Runs!OnlyReviewedIsApplied, Runs!Writing
<1>2. RunInv => Runs!RunsExclude
  BY DEF RunInv, LockHeld, Runs!RunsExclude
<1>3. (service = "automation" => RunInv) => RunsAreReviewed
  BY <1>1, <1>2 DEF RunsAreReviewed
<1> QED BY <1>3, RunsAlways, PTL

\* A run that left an action out because Shopify was failing applies nothing
\* after it, even when Shopify recovers meanwhile (degradationAbort of
\* automation.service.ts).
THEOREM AbortedRunsStop == Spec => StopsForGood
<1>1. (service = "automation" => RunInv) /\ [Next]_<<service, pool>>
          => (service = "automation" => Runs!AbortIsFinal)
  BY AutomationSteps, NextRunInv DEF RunStep
<1> QED BY <1>1, RunsAlways, PTL DEF Spec, StopsForGood, pool

-----------------------------------------------------------------------------
(* The forwarding of orders: v1 is the order, v6 the record, v7 the        *)
(* requests and v8 whether two updates of the record were at work at once. *)

AskShape(x) ==
    x = [pc |-> x.pc, status |-> x.status, number |-> x.number, seen |-> x.seen,
         want |-> x.want]

\* Unless updates overlapped, the one at work saw the record as it is.
UpdatesSeeTheRecord ==
    /\ v7 = [q \in Slots |-> v7[q]] /\ \A q \in Slots : AskShape(v7[q])
    /\ v8 \in BOOLEAN
    /\ ~v8 => \A q \in Slots : v7[q].pc = "store" =>
                  v7[q].seen = v6 /\ \A u \in Slots : v7[u].pc = "store" => u = q

\* What may be true of an order that nobody dispatched.
OrderMoves ==
    /\ v1 = [status |-> v1.status, financial |-> v1.financial, cancelled |-> v1.cancelled,
             made |-> v1.made, parcels |-> v1.parcels]
    /\ v1.financial \in {"PENDING", "PAID", "PARTIALLY_PAID", "REFUNDED"}
    /\ v1.parcels = {} => v1.status \in {"UNFULFILLED", "IN_PROGRESS", "ON_HOLD"}

OrderInv == UpdatesSeeTheRecord /\ OrderMoves

LEMMA IdleAsk == AskShape(Forwarding!NoRequest) /\ Forwarding!NoRequest.pc = "idle"
BY DEF Forwarding!NoRequest, AskShape

\* A request is replaced by one that updates no record.
LEMMA AskMoves ==
    ASSUME UpdatesSeeTheRecord, NEW q \in Slots, NEW x, v7' = [v7 EXCEPT ![q] = x],
           AskShape(x), x.pc # "store", UNCHANGED <<v6, v8>>
    PROVE  UpdatesSeeTheRecord'
<1>1. /\ v7' = [u \in Slots |-> v7'[u]] /\ v7'[q] = x
      /\ \A u \in Slots : u # q => v7'[u] = v7[u]
  BY DEF UpdatesSeeTheRecord
<1> QED BY <1>1 DEF UpdatesSeeTheRecord, AskShape

LEMMA RequestSteps ==
    ASSUME UpdatesSeeTheRecord, NEW q \in Slots,
           \/ Forwarding!UpdateDeodapOrder(q) \/ Forwarding!StoreDeodapOrder(q)
           \/ Forwarding!SaveDeodapSettings(q) \/ Forwarding!StoreSettings(q)
           \/ Forwarding!ApplySettings(q)
    PROVE  UpdatesSeeTheRecord' /\ Forwarding!KeepsTimes
<1>0. v7 = [u \in Slots |-> v7[u]] /\ AskShape(v7[q]) /\ v8 \in BOOLEAN
  BY DEF UpdatesSeeTheRecord
<1>1. CASE Forwarding!UpdateDeodapOrder(q)
  <2>1. PICK s, n :
            Forwarding!Asks(q, [Forwarding!NoRequest EXCEPT !.pc = "store", !.status = s,
                                                            !.number = n, !.seen = v6])
    BY <1>1 DEF Forwarding!UpdateDeodapOrder
  <2>2. PICK x : x = [Forwarding!NoRequest EXCEPT !.pc = "store", !.status = s,
                                                  !.number = n, !.seen = v6]
    OBVIOUS
  <2>3. PICK now : now = v6
    OBVIOUS
  <2>4. x = [Forwarding!NoRequest EXCEPT !.pc = "store", !.status = s, !.number = n,
                                         !.seen = now]
    BY <2>2, <2>3
  <2>5. AskShape(x) /\ x.pc = "store" /\ x.seen = now
    BY <2>4 DEF Forwarding!NoRequest, AskShape
  <2>6. v7[q].pc = "idle" /\ v7' = [v7 EXCEPT ![q] = x]
    BY <2>1, <2>2 DEF Forwarding!Asks
  <2>7. v6' = v6 /\ v8' = (v8 \/ \E u \in Slots : v7[u].pc = "store")
    BY <1>1 DEF Forwarding!UpdateDeodapOrder
  <2>8. /\ v7' = [u \in Slots |-> v7'[u]] /\ v7'[q] = x
        /\ \A u \in Slots : u # q => v7'[u] = v7[u]
    BY <1>0, <2>6
  <2>9. v8' \in BOOLEAN /\ (~v8' => ~v8 /\ \A u \in Slots : v7[u].pc # "store")
    BY <1>0, <2>7
  <2>10. \A u \in Slots : AskShape(v7'[u])
    BY <2>5, <2>8 DEF UpdatesSeeTheRecord
  <2>11. UpdatesSeeTheRecord'
    BY <2>3, <2>5, <2>7, <2>8, <2>9, <2>10 DEF UpdatesSeeTheRecord
  <2> QED BY <2>7, <2>11 DEF Forwarding!KeepsTimes
<1>2. CASE Forwarding!StoreDeodapOrder(q)
  <2>1. /\ v7[q].pc = "store" /\ v6' = Forwarding!StageTimestamps(v7[q]) /\ v8' = v8
        /\ v7' = [v7 EXCEPT ![q] = Forwarding!NoRequest]
    BY <1>2 DEF Forwarding!StoreDeodapOrder
  <2>2. /\ v7' = [u \in Slots |-> v7'[u]] /\ v7'[q] = Forwarding!NoRequest
        /\ \A u \in Slots : u # q => v7'[u] = v7[u]
    BY <1>0, <2>1
  <2>3. ~v8 => v7[q].seen = v6 /\ \A u \in Slots : v7[u].pc = "store" => u = q
    BY <2>1 DEF UpdatesSeeTheRecord
  <2>4. ~v8 => \A u \in Slots : v7'[u].pc # "store"
    BY <2>2, <2>3, IdleAsk
  <2>5. \A u \in Slots : AskShape(v7'[u])
    BY <2>2, IdleAsk DEF UpdatesSeeTheRecord
  <2>6. UpdatesSeeTheRecord'
    BY <1>0, <2>1, <2>2, <2>4, <2>5 DEF UpdatesSeeTheRecord
  <2>7. /\ v6'.placed = v7[q].seen.placed \/ v7[q].seen.placed = Forwarding!Missing
        /\ v6'.shipped = v7[q].seen.shipped \/ v7[q].seen.shipped = Forwarding!Missing
        /\ v6'.delivered = v7[q].seen.delivered \/ v7[q].seen.delivered = Forwarding!Missing
    BY <2>1 DEF Forwarding!StageTimestamps, Forwarding!Stage
  <2>8. Forwarding!KeepsTimes
    BY <2>1, <2>3, <2>7 DEF Forwarding!KeepsTimes
  <2> QED BY <2>6, <2>8
<1>3. CASE Forwarding!SaveDeodapSettings(q)
  <2>1. PICK w : Forwarding!Asks(q, [Forwarding!NoRequest EXCEPT !.pc = "save", !.want = w])
    BY <1>3 DEF Forwarding!SaveDeodapSettings
  <2>2. PICK x : x = [Forwarding!NoRequest EXCEPT !.pc = "save", !.want = w]
    OBVIOUS
  <2>3. AskShape(x) /\ x.pc # "store"
    BY <2>2 DEF Forwarding!NoRequest, AskShape
  <2>4. v7' = [v7 EXCEPT ![q] = x] /\ UNCHANGED <<v6, v8>>
    BY <1>3, <2>1, <2>2 DEF Forwarding!Asks, Forwarding!SaveDeodapSettings
  <2> QED BY <2>3, <2>4, AskMoves DEF Forwarding!KeepsTimes
<1>4. CASE Forwarding!StoreSettings(q)
  <2>1. PICK x : x = [v7[q] EXCEPT !.pc = "apply"]
    OBVIOUS
  <2>2. AskShape(x) /\ x.pc # "store"
    BY <1>0, <2>1 DEF AskShape
  <2>3. v7' = [v7 EXCEPT ![q] = x] /\ UNCHANGED <<v6, v8>>
    BY <1>0, <1>4, <2>1 DEF Forwarding!StoreSettings
  <2> QED BY <2>2, <2>3, AskMoves DEF Forwarding!KeepsTimes
<1>5. CASE Forwarding!ApplySettings(q)
  <2>1. v7' = [v7 EXCEPT ![q] = Forwarding!NoRequest] /\ UNCHANGED <<v6, v8>>
    BY <1>5 DEF Forwarding!ApplySettings
  <2>2. PICK x : x = Forwarding!NoRequest
    OBVIOUS
  <2> QED BY <2>1, <2>2, IdleAsk, AskMoves DEF Forwarding!KeepsTimes
<1> QED BY <1>1, <1>2, <1>3, <1>4, <1>5

\* Shopify's side of an order.
ShopifySide ==
    \/ Forwarding!PaymentMoves \/ Forwarding!OrderIsCancelled
    \/ Forwarding!FulfillmentRequestMoves \/ Forwarding!ParcelIsMade \/ Forwarding!ParcelMoves

OrderShape(x) ==
    x = [status |-> x.status, financial |-> x.financial, cancelled |-> x.cancelled,
         made |-> x.made, parcels |-> x.parcels]

LEMMA ShopifySteps ==
    ASSUME OrderMoves, ShopifySide
    PROVE  OrderMoves' /\ UNCHANGED <<v6, v7, v8>>
<1>0. OrderShape(v1) /\ UNCHANGED <<v6, v7, v8>>
  BY DEF OrderMoves, OrderShape, ShopifySide, Forwarding!PaymentMoves,
     Forwarding!OrderIsCancelled, Forwarding!FulfillmentRequestMoves,
     Forwarding!ParcelIsMade, Forwarding!ParcelMoves, Forwarding!Changes
<1>1. CASE Forwarding!PaymentMoves
  <2>1. PICK to \in {"PAID", "PARTIALLY_PAID", "REFUNDED"} :
            v1' = [v1 EXCEPT !.financial = to]
    BY <1>1 DEF Forwarding!PaymentMoves, Forwarding!Changes
  <2> QED BY <1>0, <2>1 DEF OrderMoves, OrderShape
<1>2. CASE Forwarding!OrderIsCancelled
  <2>1. v1' = [v1 EXCEPT !.cancelled = TRUE]
    BY <1>2 DEF Forwarding!OrderIsCancelled, Forwarding!Changes
  <2> QED BY <1>0, <2>1 DEF OrderMoves, OrderShape
<1>3. CASE Forwarding!FulfillmentRequestMoves
  <2>1. PICK to \in {"IN_PROGRESS", "ON_HOLD"} : v1' = [v1 EXCEPT !.status = to]
    BY <1>3 DEF Forwarding!FulfillmentRequestMoves, Forwarding!Changes
  <2> QED BY <1>0, <2>1 DEF OrderMoves, OrderShape
<1>4. CASE Forwarding!ParcelIsMade
  <2>1. PICK s, ps, p :
            ps = v1.parcels \cup {p} /\ v1' = [v1 EXCEPT !.status = s, !.parcels = ps]
    BY <1>4 DEF Forwarding!ParcelIsMade, Forwarding!Changes
  <2>2. ps # {}
    BY <2>1
  <2>3. v1' = [v1 EXCEPT !.status = s, !.parcels = ps]
    BY <2>1
  <2> QED BY <1>0, <2>2, <2>3 DEF OrderMoves, OrderShape
<1>5. CASE Forwarding!ParcelMoves
  <2>1. PICK s, ps, p, f :
            /\ ps = (v1.parcels \ {f}) \cup {p}
            /\ v1' = [v1 EXCEPT !.parcels = ps, !.status = s]
    BY <1>5 DEF Forwarding!ParcelMoves, Forwarding!Changes
  <2>2. ps # {}
    BY <2>1
  <2>3. v1' = [v1 EXCEPT !.parcels = ps, !.status = s]
    BY <2>1
  <2> QED BY <1>0, <2>2, <2>3 DEF OrderMoves, OrderShape
<1> QED BY <1>0, <1>1, <1>2, <1>3, <1>4, <1>5 DEF ShopifySide

LEMMA NextOrderInv ==
    OrderInv /\ [Forwarding!OrdersNext]_(Forwarding!ordersVars)
        => OrderInv' /\ Forwarding!KeepsTimes
<1> SUFFICES ASSUME OrderInv, [Forwarding!OrdersNext]_(Forwarding!ordersVars)
             PROVE  OrderInv' /\ Forwarding!KeepsTimes
  OBVIOUS
<1>1. ASSUME UNCHANGED v1 PROVE OrderMoves'
  BY <1>1 DEF OrderInv, OrderMoves
<1>2. ASSUME UNCHANGED <<v6, v7, v8>> PROVE UpdatesSeeTheRecord' /\ Forwarding!KeepsTimes
  BY <1>2 DEF OrderInv, UpdatesSeeTheRecord, AskShape, Forwarding!KeepsTimes
<1>3. ASSUME NEW q \in Slots,
             \/ Forwarding!UpdateDeodapOrder(q) \/ Forwarding!StoreDeodapOrder(q)
             \/ Forwarding!SaveDeodapSettings(q) \/ Forwarding!StoreSettings(q)
             \/ Forwarding!ApplySettings(q)
      PROVE  OrderInv' /\ Forwarding!KeepsTimes
  <2>1. UpdatesSeeTheRecord' /\ Forwarding!KeepsTimes
    BY <1>3, RequestSteps DEF OrderInv
  <2>2. UNCHANGED v1
    BY <1>3 DEF Forwarding!UpdateDeodapOrder, Forwarding!StoreDeodapOrder,
       Forwarding!SaveDeodapSettings, Forwarding!StoreSettings, Forwarding!ApplySettings
  <2> QED BY <1>1, <2>1, <2>2 DEF OrderInv
<1>4. CASE Forwarding!StartProcess
  <2>1. UNCHANGED <<v1, v6, v8>> /\ v7' = [q \in Slots |-> Forwarding!NoRequest]
    BY <1>4 DEF Forwarding!StartProcess
  <2>2. v7' = [q \in Slots |-> v7'[q]] /\ \A q \in Slots : v7'[q] = Forwarding!NoRequest
    BY <2>1
  <2>3. UpdatesSeeTheRecord'
    BY <2>1, <2>2, IdleAsk DEF OrderInv, UpdatesSeeTheRecord
  <2> QED BY <1>1, <2>1, <2>3 DEF OrderInv, Forwarding!KeepsTimes
<1>5. CASE ShopifySide
  BY <1>2, <1>5, ShopifySteps DEF OrderInv
<1>6. CASE Forwarding!TimePasses
  <2>1. UNCHANGED <<v1, v6, v7, v8>>
    BY <1>6 DEF Forwarding!TimePasses
  <2> QED BY <1>1, <1>2, <2>1 DEF OrderInv
<1>7. CASE UNCHANGED Forwarding!ordersVars
  <2>1. UNCHANGED <<v1, v6, v7, v8>>
    BY <1>7 DEF Forwarding!ordersVars
  <2> QED BY <1>1, <1>2, <2>1 DEF OrderInv
<1> QED BY <1>3, <1>4, <1>5, <1>6, <1>7 DEF Forwarding!OrdersNext, ShopifySide

LEMMA InitOrderInv == Forwarding!OrdersInit => OrderInv
<1> SUFFICES ASSUME Forwarding!OrdersInit PROVE OrderInv
  OBVIOUS
<1>1. OrderMoves
  BY DEF Forwarding!OrdersInit, OrderMoves
<1>2. /\ v7 = [q \in Slots |-> v7[q]] /\ \A q \in Slots : v7[q] = Forwarding!NoRequest
      /\ v8 = FALSE
  BY DEF Forwarding!OrdersInit
<1>3. UpdatesSeeTheRecord
  BY <1>2, IdleAsk DEF UpdatesSeeTheRecord
<1> QED BY <1>1, <1>3 DEF OrderInv

LEMMA OrderSteps ==
    service = "orders" /\ [Next]_<<service, pool>>
        => [Forwarding!OrdersNext]_(Forwarding!ordersVars)
BY DEF Next, pool, Forwarding!ordersVars

LEMMA OrdersAlways == Spec => [](service = "orders" => OrderInv)
<1>1. Init => (service = "orders" => OrderInv)
  BY InitOrderInv DEF Init
<1>2. (service = "orders" => OrderInv) /\ [Next]_<<service, pool>>
          => (service = "orders" => OrderInv)'
  <2>1. [Next]_<<service, pool>> => service' = service
    BY DEF Next
  <2> QED BY <2>1, OrderSteps, NextOrderInv
<1> QED BY <1>1, <1>2, PTL DEF Spec

\* A stage of the forwarding record keeps the time it was first reached, whatever
\* is recorded later; only updates that overlapped may lose one
\* (updateDeodapOrder of deodap.orders.ts).
THEOREM StagesAreKept == Spec => StagesKeepTheirTime
<1>1. (service = "orders" => OrderInv) /\ [Next]_<<service, pool>>
          => (service = "orders" => Forwarding!KeepsTimes)
  BY OrderSteps, NextOrderInv
<1> QED BY <1>1, OrdersAlways, PTL DEF Spec, StagesKeepTheirTime, pool

\* What an order without a parcel is, to the page.
LEMMA WaitingState ==
    ASSUME OrderMoves, v1.parcels = {}, ~Forwarding!ClosedInShopify
    PROVE  /\ v1.status = "ON_HOLD" => "ON_HOLD" \in Forwarding!Notes(v1)
           /\ v1.status # "ON_HOLD" =>
                \/ /\ Forwarding!IsPaid(v1.financial)
                   /\ Forwarding!StateOf(v1) \in {"AWAITING_SUPPLIER", "SUPPLIER_PROCESSING"}
                \/ /\ ~Forwarding!IsPaid(v1.financial)
                   /\ Forwarding!StateOf(v1) \in Forwarding!NotDispatched
<1>1. ~v1.cancelled /\ v1.status \in {"UNFULFILLED", "IN_PROGRESS", "ON_HOLD"}
  BY DEF OrderMoves, Forwarding!ClosedInShopify
<1>2. CASE v1.status = "ON_HOLD"
  BY <1>1, <1>2 DEF Forwarding!Notes
<1>3. CASE v1.status # "ON_HOLD"
  <2>1. Forwarding!StateOf(v1)
          = Forwarding!FromOrderStatus(v1.status, Forwarding!IsPaid(v1.financial))
    BY <1>1 DEF Forwarding!StateOf
  <2>2. v1.status = "UNFULFILLED" \/ v1.status = "IN_PROGRESS"
    BY <1>1, <1>3
  <2> QED BY <1>3, <2>1, <2>2 DEF Forwarding!FromOrderStatus, Forwarding!NotDispatched
<1> QED BY <1>2, <1>3

LEMMA WaitingIsSeen == OrderMoves => Forwarding!NobodyWaitsSilently
<1> SUFFICES ASSUME OrderMoves, v1.parcels = {}, ~Forwarding!ClosedInShopify,
                    v3 - v1.made > Forwarding!Sla.processing
             PROVE  Forwarding!AssessDeodapOrder # {}
  BY DEF Forwarding!NobodyWaitsSilently
<1>1. CASE v6.status = "CANCELLED"
  BY <1>1 DEF Forwarding!AssessDeodapOrder
<1>2. CASE Forwarding!TrackingMissing
  BY <1>1, <1>2 DEF Forwarding!AssessDeodapOrder
<1>3. CASE v1.status = "ON_HOLD"
  <2>1. "ON_HOLD" \in Forwarding!DelaySignals(v1, v3)
    BY <1>3, WaitingState DEF Forwarding!DelaySignals
  <2> QED BY <1>1, <1>2, <2>1 DEF Forwarding!AssessDeodapOrder
<1>4. CASE v1.status # "ON_HOLD" /\ Forwarding!IsPaid(v1.financial)
  <2>1. Forwarding!StateOf(v1) \in {"AWAITING_SUPPLIER", "SUPPLIER_PROCESSING"}
    BY <1>4, WaitingState
  <2>2. Forwarding!Overdue(v1, v3) /\ ~Forwarding!IsTerminal(Forwarding!StateOf(v1))
        /\ Forwarding!StateOf(v1) # "ORDER_RECEIVED"
    BY <1>4, <2>1 DEF Forwarding!Overdue, Forwarding!IsTerminal
  <2>3. "overdue" \in Forwarding!DelaySignals(v1, v3)
    BY <2>2 DEF Forwarding!DelaySignals
  <2> QED BY <1>1, <1>2, <2>3 DEF Forwarding!AssessDeodapOrder
<1>5. CASE v1.status # "ON_HOLD" /\ ~Forwarding!IsPaid(v1.financial)
  <2>1. Forwarding!StateOf(v1) \in Forwarding!NotDispatched
    BY <1>5, WaitingState
  <2>2. Forwarding!MustBePlaced \/ Forwarding!UnpaidAndLate
    BY <1>5, <2>1 DEF Forwarding!UnpaidAndLate
  <2> QED BY <1>1, <1>2, <2>2 DEF Forwarding!AssessDeodapOrder
<1> QED BY <1>3, <1>4, <1>5

\* An open order the supplier never dispatched is brought to somebody's attention
\* once it is older than the threshold, whoever was to place it, however it is
\* paid and whatever is recorded about it (assessDeodapOrder of
\* deodap.orders.ts).
THEOREM NobodyWaits == Spec => []NobodyWaitsSilently
<1>1. (service = "orders" => OrderInv) => NobodyWaitsSilently
  BY WaitingIsSeen DEF OrderInv, NobodyWaitsSilently
<1> QED BY <1>1, OrdersAlways, PTL

-----------------------------------------------------------------------------
(* Saving the dropshipping settings: v2 is the stored settings, v3 the     *)
(* requests and v4 those that are clean.                                   *)

SaveShape(x) == x = [pc |-> x.pc, patch |-> x.patch, merged |-> x.merged]

\* A clean request is about to write what is in force now with its patch.
SavesAreCurrent ==
    /\ v3 = [s \in Slots |-> v3[s]] /\ v4 \subseteq Slots
    /\ \A s \in v4 : v3[s].pc = "write" =>
          /\ v3[s].merged = Books!Merge(Books!LoadSettings(v2), v3[s].patch)
          /\ Books!ValidSettings(v3[s].merged)

\* Loading always gives a value to each setting.
LEMMA LoadedFields ==
    ASSUME NEW row
    PROVE  /\ Books!LoadSettings(row) = [f \in DOMAIN Books!DefaultSettings |->
                                             Books!LoadSettings(row)[f]]
           /\ Books!Merge(Books!DefaultSettings, row) = [f \in DOMAIN Books!DefaultSettings |->
                  Books!Merge(Books!DefaultSettings, row)[f]]
<1>1. Books!Merge(Books!DefaultSettings, row) = [f \in DOMAIN Books!DefaultSettings |->
          Books!Merge(Books!DefaultSettings, row)[f]]
  BY DEF Books!Merge
<1>2. Books!DefaultSettings = [f \in DOMAIN Books!DefaultSettings |-> Books!DefaultSettings[f]]
  BY DEF Books!DefaultSettings
<1> QED BY <1>1, <1>2 DEF Books!LoadSettings

\* A whole valid record is loaded as it is.
LEMMA WholeRecordLoads ==
    ASSUME NEW base, NEW patch, NEW row,
           base = [f \in DOMAIN Books!DefaultSettings |-> base[f]],
           row = Books!Merge(base, patch), Books!ValidSettings(row)
    PROVE  Books!LoadSettings(row) = row
<1>1. DOMAIN row = DOMAIN Books!DefaultSettings
      /\ row = [f \in DOMAIN Books!DefaultSettings |-> row[f]]
  BY DEF Books!Merge
<1>2. Books!Merge(Books!DefaultSettings, row) = row
  BY <1>1 DEF Books!Merge
<1>3. row # <<>>
  <2>1. "fee" \in DOMAIN row
    BY <1>1 DEF Books!DefaultSettings
  <2> QED BY <2>1
<1> QED BY <1>2, <1>3 DEF Books!LoadSettings

LEMMA NextSaves ==
    SavesAreCurrent /\ [Books!DropNext]_(Books!dropVars) => SavesAreCurrent' /\ Books!SaveIsLocal
<1> SUFFICES ASSUME SavesAreCurrent, [Books!DropNext]_(Books!dropVars)
             PROVE  SavesAreCurrent' /\ Books!SaveIsLocal
  OBVIOUS
<1>1. CASE UNCHANGED <<v2, v3, v4>>
  BY <1>1 DEF SavesAreCurrent, Books!SaveIsLocal
<1>2. ASSUME NEW s \in Slots, Books!ReadAndMerge(s)
      PROVE  SavesAreCurrent' /\ Books!SaveIsLocal
  <2>1. PICK patch, readable, base, x :
            /\ base = Books!LoadSettings(IF readable THEN v2 ELSE <<>>)
            /\ x = [pc |-> "write", patch |-> patch, merged |-> Books!MergeSettings(base, patch)]
            /\ Books!ValidSettings(Books!MergeSettings(base, patch))
            /\ v3' = [v3 EXCEPT ![s] = x]
            /\ v4' = IF readable THEN v4 \cup {s} ELSE v4 \ {s}
    BY <1>2 DEF Books!ReadAndMerge
  <2>2. /\ v2' = v2 /\ v3' = [u \in Slots |-> v3'[u]] /\ v3'[s] = x
        /\ \A u \in Slots : u # s => v3'[u] = v3[u]
    BY <1>2, <2>1 DEF SavesAreCurrent, Books!ReadAndMerge
  <2>3. x.pc = "write" /\ x.patch = patch /\ x.merged = Books!Merge(base, patch)
        /\ Books!ValidSettings(x.merged)
    BY <2>1 DEF Books!MergeSettings
  <2>4. s \in v4' => base = Books!LoadSettings(v2)
    BY <2>1
  <2>5. v4' \subseteq Slots /\ \A u \in v4' : u # s => u \in v4
    BY <2>1 DEF SavesAreCurrent
  <2>6. ASSUME NEW u \in v4', v3'[u].pc = "write"
        PROVE  /\ v3'[u].merged = Books!Merge(Books!LoadSettings(v2), v3'[u].patch)
               /\ Books!ValidSettings(v3'[u].merged)
    <3>1. CASE u = s
      BY <2>2, <2>3, <2>4, <2>6, <3>1
    <3>2. CASE u # s
      BY <2>2, <2>5, <2>6, <3>2 DEF SavesAreCurrent
    <3> QED BY <3>1, <3>2
  <2>7. SavesAreCurrent'
    BY <2>2, <2>5, <2>6 DEF SavesAreCurrent
  <2>8. Books!SaveIsLocal
    BY <2>2, <2>3 DEF Books!SaveIsLocal
  <2> QED BY <2>7, <2>8
<1>3. ASSUME NEW s \in Slots, Books!WriteSettings(s)
      PROVE  SavesAreCurrent' /\ Books!SaveIsLocal
  <2>1. /\ v3[s].pc = "write" /\ v2' = v3[s].merged /\ v4' = {}
        /\ v3' = [v3 EXCEPT ![s] = Books!NoSave]
    BY <1>3 DEF Books!WriteSettings
  <2>2. SavesAreCurrent'
    BY <2>1 DEF SavesAreCurrent
  <2>3. ASSUME NEW u \in Slots, NEW f \in DOMAIN Books!DefaultSettings,
               v3[u].pc = "write", v3'[u].pc = "idle", u \in v4, f \notin DOMAIN v3[u].patch
        PROVE  Books!LoadSettings(v2')[f] = Books!LoadSettings(v2)[f]
    <3>1. u = s
      BY <2>1, <2>3 DEF SavesAreCurrent
    <3>2. PICK base, row : base = Books!LoadSettings(v2) /\ row = v2'
      OBVIOUS
    <3>3. base = [g \in DOMAIN Books!DefaultSettings |-> base[g]]
      BY <3>2, LoadedFields
    <3>4. row = Books!Merge(base, v3[s].patch) /\ Books!ValidSettings(row)
      BY <2>1, <2>3, <3>1, <3>2 DEF SavesAreCurrent
    <3>5. Books!LoadSettings(row) = row
      BY <3>3, <3>4, WholeRecordLoads
    <3>6. row[f] = base[f]
      BY <2>3, <3>1, <3>3, <3>4 DEF Books!Merge
    <3> QED BY <3>2, <3>5, <3>6
  <2>4. Books!SaveIsLocal
    BY <2>3 DEF Books!SaveIsLocal
  <2> QED BY <2>2, <2>4
<1>4. CASE \/ Books!OrderArrives \/ Books!OrderIsSent \/ Books!OrderIsPaid
           \/ Books!OrderIsCancelled \/ Books!CostIsRecorded
  <2>1. UNCHANGED <<v2, v3, v4>>
    BY <1>4 DEF Books!OrderArrives, Books!OrderIsSent, Books!OrderIsPaid,
       Books!OrderIsCancelled, Books!CostIsRecorded, Books!ToBook
  <2> QED BY <1>1, <2>1
<1>5. CASE UNCHANGED Books!dropVars
  <2>1. UNCHANGED <<v2, v3, v4>>
    BY <1>5 DEF Books!dropVars
  <2> QED BY <1>1, <2>1
<1> QED BY <1>2, <1>3, <1>4, <1>5 DEF Books!DropNext

LEMMA BooksSteps ==
    service = "books" /\ [Next]_<<service, pool>> => [Books!DropNext]_(Books!dropVars)
BY DEF Next, pool, Books!dropVars

\* A save of settings changes nothing it was not asked to change, unless another
\* save came between or its read failed (saveSettings of
\* dropshipping.settings.service.ts).
THEOREM SavesAreLocal == Spec => SavesLeaveTheRest
<1>1. Init => (service = "books" => SavesAreCurrent)
  BY DEF Init, Books!DropInit, SavesAreCurrent
<1>2. [Next]_<<service, pool>> => service' = service
  BY DEF Next
<1>3. (service = "books" => SavesAreCurrent) /\ [Next]_<<service, pool>>
          => (service = "books" => SavesAreCurrent)'
  BY <1>2, BooksSteps, NextSaves
<1>4. (service = "books" => SavesAreCurrent) /\ [Next]_<<service, pool>>
          => (service = "books" => Books!SaveIsLocal)
  BY BooksSteps, NextSaves
<1> QED BY <1>1, <1>3, <1>4, PTL DEF Spec, SavesLeaveTheRest, pool

-----------------------------------------------------------------------------
(* The services that compute, whose steps FiguresProofs proves.            *)

\* While nobody edits anything, runs move a price one way and then leave it alone, and no
\* run writes a price below a floor but after a hundred raises (automation.triggers.ts,
\* price.rules.ts): the trend of the runs is where the candidate price lies, which no run
\* moves, and a clamped price never passes it.
THEOREM PricesAlwaysSettle == Spec => PricesSettle
<1>1. Init => (service = "pricing" => PricingInv)
  BY PricesStart DEF Init
<1>2. ASSUME service = "pricing" => PricingInv, [Next]_<<service, pool>>
      PROVE  /\ (service = "pricing" => PricingInv)'
             /\ [service = "pricing" => Pricing!FollowsTrend /\ Pricing!NeverBelow]_pool
  <2>1. CASE service' = "pricing" /\ Next
    <3>1. service = "pricing" /\ Pricing!RepricingNext
      BY <2>1 DEF Next
    <3> QED BY <1>2, <3>1, PricesStep
  <2>2. CASE service' # "pricing" /\ Next
    BY <2>2 DEF Next
  <2>3. CASE UNCHANGED <<service, pool>>
    <3>1. UNCHANGED pool /\ service' = service /\ UNCHANGED <<v1, v2, v3, v4, v5, v6, v7>>
      BY <2>3 DEF pool
    <3> QED BY <1>2, <3>1, PricesRest
  <2> QED BY <1>2, <2>1, <2>2, <2>3
<1> QED BY <1>1, <1>2, PTL DEF Spec, PricesSettle

\* The cash still owed to suppliers is to the unit what the lines of the counted orders that
\* nobody dispatched cost, and an order with an unknown cost is counted as unknown and gets
\* attention (dropshipping.cost.ts, dropshipping.analytics.ts): every counted order owes a
\* known natural amount, so what was committed is what was fulfilled and what is outstanding.
THEOREM BooksAreAlwaysHonest == Spec => []BooksAreHonest
<1>1. Init => (service = "books" => BooksInv)
  BY BooksStart DEF Init
<1>2. ASSUME service = "books" => BooksInv, [Next]_<<service, pool>>
      PROVE  (service = "books" => BooksInv)'
  <2>1. CASE service' = "books" /\ Next
    <3>1. service = "books" /\ Books!DropNext
      BY <2>1 DEF Next
    <3> QED BY <1>2, <3>1, BooksStep
  <2>2. CASE service' # "books" /\ Next
    BY <2>2
  <2>3. CASE UNCHANGED <<service, pool>>
    <3>1. v1' = v1 /\ service' = service
      BY <2>3 DEF pool
    <3> QED BY <1>2, <3>1, BooksRest
  <2> QED BY <1>2, <2>1, <2>2, <2>3
<1>3. (service = "books" => BooksInv) => BooksAreHonest
  BY HonestBooks DEF BooksAreHonest
<1> QED BY <1>1, <1>2, <1>3, PTL DEF Spec

\* A candidate that is called good was researched to three fifths at least and is sourceable
\* at this moment, and time alone makes no candidate look better, whether it is analysed again
\* or only read again (confidence.score.ts, scoring.service.ts, sourceability.ts): evidence and
\* verifications age, open orders turn late, and every sum the verdict is made of fades with
\* its terms.
THEOREM VerdictsAreAlwaysEarned == Spec => []VerdictsAreEarned
<1>1. Init => (service = "research" => ResearchInv)
  BY ResearchStart DEF Init
<1>2. ASSUME service = "research" => ResearchInv, [Next]_<<service, pool>>
      PROVE  (service = "research" => ResearchInv)'
  <2>1. CASE service' = "research" /\ Next
    <3>1. service = "research" /\ Candidates!ResearchNext
      BY <2>1 DEF Next
    <3> QED BY <1>2, <3>1, ResearchStep
  <2>2. CASE service' # "research" /\ Next
    BY <2>2
  <2>3. CASE UNCHANGED <<service, pool>>
    <3>1. service' = service /\ UNCHANGED <<v1, v2, v3, v4, v6, v7>>
      BY <2>3 DEF pool
    <3> QED BY <1>2, <3>1, ResearchRest
  <2> QED BY <1>2, <2>1, <2>2, <2>3
<1>3. (service = "research" => ResearchInv) => VerdictsAreEarned
  BY GoodIsResearched, WaitingHelpsNever DEF VerdictsAreEarned
<1> QED BY <1>1, <1>2, <1>3, PTL DEF Spec
=============================================================================
