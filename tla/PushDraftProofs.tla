---------------------------- MODULE PushDraftProofs ----------------------------
(***************************************************************************)
(* Theorems about the push of a candidate for any number of operations,    *)
(* inputs, products and disturbances.                                      *)
(***************************************************************************)
EXTENDS PushDraftProperties, FiniteSetTheorems, TLAPS

\* The slots of pushes and of other requests are different ones, and None is
\* no value of its own: no operation, no inputs, no product, no number.
PushBounds ==
    /\ Operations \cap Editors = {} /\ IsFiniteSet(Editors)
    /\ None \notin Inputs /\ None \notin Statuses /\ None \notin Products
    /\ None \notin Operations /\ None \notin Draft /\ None \notin Reading
    /\ None \notin Nat
    /\ Decisions \subseteq Statuses
    /\ MaxDisturbances \in Nat

-----------------------------------------------------------------------------
\* Where a call holds what it read, the decision it was asked for, a product.
Holding == {"edit", "analyze", "decide", "intent", "searchAgain", "create", "cost",
            "persist"}
Asking == {"claim", "search", "prepare", "intent", "searchAgain", "create"}
Recovering == {"loadIntent", "hide", "restore", "incident"}
AfterProduct == Recovering \cup {"cost", "persist", "mark"}

\* A push is in its last steps before the product.
Creating(k) == call[k].pc \in {"searchAgain", "create"}

WellFormed(x, d) ==
    /\ x.pc \in Holding => x.read \in Reading
    /\ x.pc \in Asking => x.approved \in Inputs
    /\ x.pc \in AfterProduct => x.product \in Products /\ d[x.product] # None
    /\ x.pc \in {"intent", "searchAgain", "create"} => x.read.inputs = x.approved
    /\ x.pc = "edit" => x.target \in Inputs
    /\ x.pc = "decide" => x.target \in Statuses
    /\ x.pc = "cost" => d[x.product].inputs = x.read.inputs
    /\ x.intent # None => x.pc \in {"hide", "restore"}

\* Requests that edit have their revision to come.
Editing == {k \in Editors : call[k].pc = "edit"}

CallsOK ==
    /\ \A k \in Calls : WellFormed(call[k], draft)
    /\ \A k \in Editors : call[k].pc \in {"idle", "edit", "analyze", "decide"}
    /\ \A k \in Operations : call[k].pc \notin {"edit", "analyze", "decide"}

EditsPaid == doc.revision + Cardinality(Editing) <= edits

LatePaid == \A d \in Draft : late[d] <= lost

Counted == edits + lost + published + faults <= MaxDisturbances

DocumentOK ==
    /\ doc.product # None => doc.push \in {"SUCCEEDED", "SAFETY_INCIDENT"}
    /\ doc.product \in Made \cup {None}
    /\ doc.push = "IN_PROGRESS" => doc.owner \in Operations

ProductsOK ==
    /\ indexed \subseteq Made /\ visible \subseteq Made
    /\ \A p \in Products : draft[p] = None => cost[p] = None

\* What holds whatever the timing.
IInv ==
    /\ TypeOK
    /\ CallsOK /\ DocumentOK /\ ProductsOK
    /\ EditsPaid /\ LatePaid /\ Counted

-----------------------------------------------------------------------------
(* With a Shopify that settles before anybody looks.                       *)

\* Requests Shopify may still carry out, one by one.
Waiting == {t \in Draft \X Nat : t[2] \in 1..late[t[1]]}

\* Nothing was made and nothing will be.
Nothing == Made = {} /\ Waiting = {}

\* The push that is about to create holds a live claim, or somebody has found
\* a product.
CreatorsOwn ==
    \A k \in Operations : Creating(k) =>
        \/ Owns(doc, k) /\ doc.claim = "live"
        \/ indexed # {}

\* Whoever recovers has found something.
FoundSomething ==
    \A k \in Operations : call[k].pc \in Recovering => indexed # {}

OneCreator ==
    \A j, k \in Operations : At(j, "create") /\ At(k, "create") => j = k

Paid ==
    /\ IsFiniteSet(Made) /\ IsFiniteSet(Waiting)
    /\ Cardinality(Made) + Cardinality(Waiting) <=
          lost + (IF \E k \in Operations : At(k, "create") THEN 0 ELSE 1)

\* The owner of the claim that searched and found nothing was right.
SearchHolds ==
    \A k \in Operations :
        call[k].pc \in {"prepare", "intent", "searchAgain"} /\ Owns(doc, k) => Nothing

\* The frozen decision is that of every product made and request sent.
IntentHolds ==
    /\ \A k \in Operations : Creating(k) => doc.intent = call[k].read.inputs
    /\ \A p \in Made : draft[p].inputs = doc.intent
    /\ \A d \in Draft : late[d] > 0 => d.inputs = doc.intent
    /\ \A k \in Operations : call[k].intent \in {None, doc.intent}

Approved ==
    /\ DraftsCarryTheirDecision
    /\ \A d \in Draft : late[d] > 0 => d.inputs = d.approved

PromptInv ==
    /\ CreatorsOwn /\ FoundSomething /\ OneCreator
    /\ Paid /\ SearchHolds /\ IntentHolds /\ Approved

\* One request at a time edits or analyses: what is read is still so, unless
\* the revision says otherwise.
ReadsAreTold ==
    /\ \A k \in Calls : call[k].read # None =>
          /\ call[k].read.revision <= doc.revision
          /\ call[k].read.revision = doc.revision => call[k].read.inputs = doc.inputs
    /\ \A k \in Editors : call[k].pc = "edit" =>
          call[k].read.revision = doc.revision
    /\ doc.analyzed # None => doc.analyzed <= doc.revision
    /\ doc.score # None => doc.analyzed # None
    /\ ScoreIsHonest

-----------------------------------------------------------------------------
(* What one step does to the calls, to the document and to the counters.   *)

LEMMA IdleIsACall == Idle \in CallState
BY DEF Idle, CallState

\* Nothing made is undone or made anew.
DraftsStay == \A p \in Made : p \in Made' /\ draft'[p] = draft[p]

LEMMA WellStays ==
    ASSUME DraftsStay, NEW x, WellFormed(x, draft)
    PROVE  WellFormed(x, draft')
<1>1. x.pc \in AfterProduct => draft[x.product] # None /\ draft'[x.product] = draft[x.product]
  BY DEF DraftsStay, WellFormed, Made
<1>2. x.pc = "cost" => draft'[x.product].inputs = x.read.inputs
  BY <1>1 DEF WellFormed, AfterProduct
<1> QED BY <1>1, <1>2 DEF WellFormed

LEMMA CallMoves ==
    ASSUME TypeOK, CallsOK, DraftsStay, NEW k \in Calls, NEW x \in CallState,
           Become(k, x), WellFormed(x, draft'),
           k \in Editors => x.pc \in {"idle", "edit", "analyze", "decide"},
           k \in Operations => x.pc \notin {"edit", "analyze", "decide"}
    PROVE  /\ call' \in [Calls -> CallState] /\ CallsOK'
           /\ call'[k] = x
           /\ \A j \in Calls : j # k => call'[j] = call[j]
<1>1. /\ call'[k] = x
      /\ \A j \in Calls : j # k => call'[j] = call[j]
      /\ call' \in [Calls -> CallState]
  BY DEF TypeOK, Become
<1>2. \A j \in Calls : WellFormed(call'[j], draft')
  <2>1. \A j \in Calls : WellFormed(call[j], draft')
    BY WellStays DEF CallsOK
  <2> QED BY <1>1, <2>1
<1>3. /\ \A j \in Editors : call'[j].pc \in {"idle", "edit", "analyze", "decide"}
      /\ \A j \in Operations : call'[j].pc \notin {"edit", "analyze", "decide"}
  BY <1>1 DEF CallsOK, Calls
<1> QED BY <1>1, <1>2, <1>3 DEF CallsOK

\* A push that moves on: whoever edits goes on editing.
LEMMA PushMoves ==
    ASSUME PushBounds, IInv, DraftsStay, NEW k \in Operations, NEW x \in CallState,
           Become(k, x), WellFormed(x, draft'), x.pc \notin {"edit", "analyze", "decide"}
    PROVE  /\ call' \in [Calls -> CallState] /\ CallsOK'
           /\ call'[k] = x /\ \A j \in Calls : j # k => call'[j] = call[j]
           /\ Editing' = Editing
<1>1. k \in Calls /\ k \notin Editors
  BY DEF Calls, PushBounds
<1>2. /\ call' \in [Calls -> CallState] /\ CallsOK'
      /\ call'[k] = x /\ \A j \in Calls : j # k => call'[j] = call[j]
  BY <1>1, CallMoves DEF IInv
<1>3. \A j \in Editors : call'[j] = call[j]
  BY <1>1, <1>2 DEF Calls
<1> QED BY <1>2, <1>3 DEF Editing

\* How many requests edit, before and after one of them starts or ends.
LEMMA EditorMoves ==
    ASSUME PushBounds, IInv, DraftsStay, NEW k \in Editors, NEW x \in CallState,
           Become(k, x), WellFormed(x, draft'), x.pc \in {"idle", "edit", "analyze", "decide"}
    PROVE  /\ call' \in [Calls -> CallState] /\ CallsOK'
           /\ call'[k] = x /\ \A j \in Calls : j # k => call'[j] = call[j]
           /\ Cardinality(Editing) \in Nat /\ Cardinality(Editing') \in Nat
           /\ call[k].pc # "edit" => Cardinality(Editing') <= Cardinality(Editing) + 1
           /\ x.pc # "edit" => Cardinality(Editing') <= Cardinality(Editing)
           /\ call[k].pc = "edit" /\ x.pc # "edit" =>
                 Cardinality(Editing') = Cardinality(Editing) - 1
<1>1. k \in Calls /\ k \notin Operations
  BY DEF Calls, PushBounds
<1>2. /\ call' \in [Calls -> CallState] /\ CallsOK'
      /\ call'[k] = x /\ \A j \in Calls : j # k => call'[j] = call[j]
  BY <1>1, CallMoves DEF IInv
<1>3. \A j \in Editors : j # k => call'[j] = call[j]
  BY <1>2 DEF Calls
<1>4. /\ IsFiniteSet(Editing) /\ IsFiniteSet(Editing \ {k})
      /\ Cardinality(Editing) \in Nat
  <2>1. Editing \in SUBSET Editors
    BY DEF Editing
  <2> QED BY <2>1, FS_Subset, FS_CardinalityType DEF PushBounds
<1>5. k \in Editing <=> call[k].pc = "edit"
  BY DEF Editing
<1>6. Editing' = IF x.pc = "edit" THEN Editing \cup {k} ELSE Editing \ {k}
  BY <1>2, <1>3 DEF Editing
<1>7. /\ k \in Editing => Cardinality(Editing \ {k}) = Cardinality(Editing) - 1
      /\ k \notin Editing => Cardinality(Editing \cup {k}) = Cardinality(Editing) + 1
  BY <1>4, FS_RemoveElement, FS_AddElement
<1>8. /\ k \notin Editing => Editing \ {k} = Editing
      /\ k \in Editing => Editing \cup {k} = Editing
  OBVIOUS
<1>9. Cardinality(Editing \ {k}) \in Nat
  BY <1>4, FS_CardinalityType
<1>10. \/ Editing' = Editing /\ (call[k].pc = "edit" => x.pc = "edit")
       \/ /\ Cardinality(Editing') = Cardinality(Editing) - 1
          /\ Cardinality(Editing') \in Nat /\ x.pc # "edit" /\ call[k].pc = "edit"
       \/ /\ Cardinality(Editing') = Cardinality(Editing) + 1
          /\ x.pc = "edit" /\ call[k].pc # "edit"
  BY <1>5, <1>6, <1>7, <1>8, <1>9
<1> QED BY <1>2, <1>4, <1>10

\* What each operation of the store makes of a document.
LEMMA StoreTypes ==
    ASSUME PushBounds, NEW d \in Document
    PROVE  /\ \A op \in Operations : Claimed(d, op) \in Document
           /\ Released(d) \in Document
           /\ \A i \in Inputs : IntentRecorded(d, i) \in Document
           /\ \A p \in Products : Succeeded(d, p) \in Document
           /\ \A op \in Operations, p \in Products : SafetyIncident(d, op, p) \in Document
           /\ \A r \in Reading : Analyzed(d, r) \in Document
           /\ \A r \in Reading, i \in Inputs :
                 d.revision + 1 <= MaxDisturbances => Edited(d, r, i) \in Document
<1>1. \A op \in Operations : Claimed(d, op) \in Document
  BY DEF Document, Claimed, PushStates
<1>2. Released(d) \in Document
  BY DEF Document, Released, PushStates
<1>3. \A i \in Inputs : IntentRecorded(d, i) \in Document
  BY DEF Document, IntentRecorded
<1>4. \A p \in Products : Succeeded(d, p) \in Document
  BY DEF Document, Succeeded, PushStates, Statuses
<1>5. \A op \in Operations, p \in Products : SafetyIncident(d, op, p) \in Document
  BY DEF Document, SafetyIncident, PushStates, Statuses
<1>6. ASSUME NEW r \in Reading PROVE Analyzed(d, r) \in Document
  <2>1. r.inputs \in Inputs /\ r.revision \in 0..MaxDisturbances
    BY DEF Reading
  <2> QED BY <2>1 DEF Document, Analyzed, Statuses
<1>7. ASSUME NEW r \in Reading, NEW i \in Inputs, d.revision + 1 <= MaxDisturbances
      PROVE  Edited(d, r, i) \in Document
  <2>1. d.revision + 1 \in 0..MaxDisturbances
    BY <1>7 DEF Document, PushBounds
  <2> QED BY <2>1 DEF Document, Edited
<1> QED BY <1>1, <1>2, <1>3, <1>4, <1>5, <1>6, <1>7

\* The counters after a fault, or after a step that is none.
LEMMA FaultCounts ==
    ASSUME PushBounds, IInv, Fault \/ UNCHANGED counters
    PROVE  /\ {edits, lost, published, faults}' \subseteq 0..MaxDisturbances
           /\ Counted' /\ UNCHANGED <<edits, lost>>
<1>1. /\ {edits, lost, published, faults} \subseteq 0..MaxDisturbances /\ Counted
      /\ MaxDisturbances \in Nat
  BY DEF IInv, TypeOK, PushBounds
<1>2. /\ edits \in Nat /\ lost \in Nat /\ published \in Nat /\ faults \in Nat
  BY <1>1
<1>3. /\ UNCHANGED <<edits, lost, published>>
      /\ faults' = faults \/ (faults' = faults + 1 /\ Room)
  BY DEF Fault, counters
<1>4. Counted'
  BY <1>1, <1>2, <1>3 DEF Room, Counted
<1>5. faults' \in 0..MaxDisturbances
  BY <1>1, <1>2, <1>3 DEF Room
<1> QED BY <1>1, <1>3, <1>4, <1>5

\* A push moves on, with or without a write to the document, to the cost or to
\* what is visible, and makes nothing.
LEMMA PushKeeps ==
    ASSUME PushBounds, IInv, NEW k \in Operations, NEW x \in CallState, Become(k, x),
           WellFormed(x, draft), x.pc \notin {"edit", "analyze", "decide"},
           UNCHANGED <<draft, indexed, late>>, visible' \subseteq visible,
           cost' \in [Products -> Inputs \cup {None}],
           \A p \in Products : draft[p] = None => cost'[p] = None,
           doc' \in Document, DocumentOK', doc'.revision = doc.revision,
           Fault \/ UNCHANGED counters
    PROVE  IInv'
<1>1. DraftsStay /\ Made' = Made
  BY DEF DraftsStay, Made
<1>2. /\ call' \in [Calls -> CallState] /\ CallsOK' /\ Editing' = Editing
  BY <1>1, PushMoves
<1>3. /\ {edits, lost, published, faults}' \subseteq 0..MaxDisturbances
      /\ Counted' /\ UNCHANGED <<edits, lost>>
  BY FaultCounts
<1>4. TypeOK'
  BY <1>2, <1>3 DEF IInv, TypeOK
<1>5. ProductsOK'
  BY <1>1 DEF IInv, ProductsOK
<1>6. EditsPaid'
  BY <1>2, <1>3 DEF IInv, EditsPaid
<1>7. LatePaid'
  BY <1>3 DEF IInv, LatePaid
<1> QED BY <1>2, <1>3, <1>4, <1>5, <1>6, <1>7 DEF IInv

\* Documents as the push leaves them.
LEMMA DocumentStays ==
    ASSUME IInv, UNCHANGED <<doc, draft>>
    PROVE  doc' \in Document /\ DocumentOK' /\ doc'.revision = doc.revision
BY DEF IInv, TypeOK, DocumentOK, Made

\* The cost of what is not made stays open.
LEMMA CostStays ==
    ASSUME IInv, UNCHANGED cost
    PROVE  /\ cost' \in [Products -> Inputs \cup {None}]
           /\ \A p \in Products : draft[p] = None => cost'[p] = None
BY DEF IInv, TypeOK, ProductsOK

\* The steps of a push that only read.
LEMMA ReadingKeeps ==
    ASSUME PushBounds, IInv, NEW k \in Operations,
           \/ \E i \in Inputs : BeginPush(k, i)
           \/ Search(k) \/ SearchAgain(k) \/ Prepare(k)
           \/ Refused(k) \/ ReleaseFails(k) \/ FailsWithProduct(k) \/ LoadIntent(k)
    PROVE  IInv'
<1>0. /\ k \in Calls /\ call[k] \in CallState /\ WellFormed(call[k], draft)
      /\ Idle \in CallState /\ WellFormed(Idle, draft)
      /\ call[k].pc \notin {"edit", "analyze", "decide"}
      /\ doc \in Document /\ indexed \subseteq Made /\ Reads \in Reading
      /\ Idle.intent = None /\ Idle.pc = "idle"
  BY IdleIsACall DEF IInv, TypeOK, CallsOK, ProductsOK, Calls, Idle, WellFormed, Holding,
     Asking, Recovering, AfterProduct, Document, Reads, Reading
<1>1. UNCHANGED <<doc, shopify, cost>> /\ (Fault \/ UNCHANGED counters)
  BY DEF BeginPush, Search, SearchAgain, FindByResearchTag, Prepare, Refused, ReleaseFails,
     FailsWithProduct, LoadIntent
<1>2. call[k] \in CallState
  BY <1>0
<1>3. \E x \in CallState : /\ Become(k, x) /\ WellFormed(x, draft)
                           /\ x.pc \notin {"edit", "analyze", "decide"}
  <2>1. ASSUME NEW i \in Inputs, BeginPush(k, i)
        PROVE  \E x \in CallState : /\ Become(k, x) /\ WellFormed(x, draft)
                                    /\ x.pc \notin {"edit", "analyze", "decide"}
    <3> DEFINE x == [Idle EXCEPT !.pc = "claim", !.approved = i]
    <3>1. x \in CallState /\ WellFormed(x, draft) /\ x.pc = "claim"
      BY <1>0 DEF CallState, WellFormed, Holding, Asking, Recovering, AfterProduct
    <3> QED BY <2>1, <3>1 DEF BeginPush
  <2>2. ASSUME NEW next \in {"prepare", "create"}, FindByResearchTag(k, next),
               call[k].pc = (IF next = "prepare" THEN "search" ELSE "searchAgain")
        PROVE  \E x \in CallState : /\ Become(k, x) /\ WellFormed(x, draft)
                                    /\ x.pc \notin {"edit", "analyze", "decide"}
    <3>1. CASE Goto(k, next)
      <4> DEFINE x == [call[k] EXCEPT !.pc = next]
      <4>1. x \in CallState
        BY <1>0 DEF CallState
      <4>2. WellFormed(x, draft)
        BY <1>0, <2>2 DEF CallState, WellFormed, Holding, Asking, Recovering, AfterProduct
      <4> QED BY <3>1, <4>1, <4>2 DEF Goto, CallState
    <3>2. ASSUME NEW p \in indexed,
                 Become(k, [Idle EXCEPT !.pc = "loadIntent", !.product = p,
                                        !.exposed = p \in visible])
          PROVE  \E x \in CallState : /\ Become(k, x) /\ WellFormed(x, draft)
                                      /\ x.pc \notin {"edit", "analyze", "decide"}
      <4>1. p \in Products /\ draft[p] # None
        BY <1>0 DEF Made
      <4>2. PICK seen \in BOOLEAN : seen <=> p \in visible
        BY DEF IInv
      <4> DEFINE x == [Idle EXCEPT !.pc = "loadIntent", !.product = p, !.exposed = seen]
      <4>3. x \in CallState
        BY <4>1, IdleIsACall DEF CallState
      <4>4. WellFormed(x, draft) /\ x.pc = "loadIntent"
        BY <1>0, <4>1 DEF CallState, WellFormed, Holding, Asking, Recovering, AfterProduct
      <4> QED BY <3>2, <4>2, <4>3, <4>4
    <3> QED BY <2>2, <3>1, <3>2 DEF FindByResearchTag
  <2>3. CASE Search(k) \/ SearchAgain(k)
    BY <2>2, <2>3 DEF Search, SearchAgain, At
  <2>4. CASE Prepare(k)
    <3> DEFINE x == [call[k] EXCEPT !.pc = "intent", !.read = Reads]
    <3>1. x \in CallState
      BY <1>0 DEF CallState
    <3>2. WellFormed(x, draft)
      BY <1>0, <2>4 DEF Prepare, At, Reads, CallState, WellFormed, Holding, Asking, Recovering,
         AfterProduct
    <3> QED BY <2>4, <3>1, <3>2 DEF Prepare, CallState
  <2>5. CASE Refused(k)
    <3> DEFINE x == [Idle EXCEPT !.pc = "release"]
    <3>1. x \in CallState /\ WellFormed(x, draft)
      BY <1>0 DEF CallState, WellFormed, Holding, Asking, Recovering, AfterProduct
    <3> QED BY <2>5, <3>1 DEF Refused, Idle
  <2>6. CASE ReleaseFails(k) \/ FailsWithProduct(k)
    BY <1>0, <2>6 DEF ReleaseFails, FailsWithProduct, Finish, Idle
  <2>7. CASE LoadIntent(k)
    <3>1. PICK i \in Inputs \cup {None}, next \in {"hide", "restore"} :
              Become(k, [call[k] EXCEPT !.intent = i, !.pc = next])
      BY <1>0, <2>7 DEF LoadIntent, Document
    <3> DEFINE x == [call[k] EXCEPT !.intent = i, !.pc = next]
    <3>2. x \in CallState
      BY <1>2 DEF CallState
    <3>3. WellFormed(x, draft) /\ x.pc \in {"hide", "restore"}
      BY <1>0, <2>7 DEF LoadIntent, At, CallState, WellFormed, Holding, Asking, Recovering,
         AfterProduct
    <3> QED BY <3>1, <3>2, <3>3
  <2> QED BY <2>1, <2>3, <2>4, <2>5, <2>6, <2>7
<1>4. PICK x \in CallState : /\ Become(k, x) /\ WellFormed(x, draft)
                             /\ x.pc \notin {"edit", "analyze", "decide"}
  BY <1>3
<1> QED BY <1>1, <1>4, PushKeeps, DocumentStays, CostStays DEF shopify

\* The fields of a call that its steps set.
LEMMA CallFields ==
    ASSUME NEW x \in CallState
    PROVE  /\ \A pc \in {"search", "searchAgain", "release", "persist", "restore",
                         "mark", "incident"} :
                 /\ [x EXCEPT !.pc = pc] \in CallState
                 /\ [x EXCEPT !.pc = pc, !.read = None] \in CallState
                 /\ [x EXCEPT !.intent = None, !.pc = pc] \in CallState
                 /\ \A b \in BOOLEAN : [x EXCEPT !.pc = pc, !.exposed = b] \in CallState
           /\ \A p \in Products : [x EXCEPT !.pc = "cost", !.product = p,
                                            !.approved = None] \in CallState
<1>1. \A pc \in {"search", "searchAgain", "release", "persist", "restore",
                 "mark", "incident"} : [x EXCEPT !.pc = pc] \in CallState
  BY DEF CallState
<1>2. \A pc \in {"search", "searchAgain", "release", "persist", "restore",
                 "mark", "incident"} : [x EXCEPT !.pc = pc, !.read = None] \in CallState
  BY DEF CallState
<1>3. \A pc \in {"search", "searchAgain", "release", "persist", "restore",
                 "mark", "incident"} : [x EXCEPT !.intent = None, !.pc = pc] \in CallState
  BY DEF CallState
<1>4. \A pc \in {"search", "searchAgain", "release", "persist", "restore",
                 "mark", "incident"}, b \in BOOLEAN :
          [x EXCEPT !.pc = pc, !.exposed = b] \in CallState
  BY DEF CallState
<1>5. \A p \in Products : [x EXCEPT !.pc = "cost", !.product = p,
                                    !.approved = None] \in CallState
  BY DEF CallState
<1> QED BY <1>1, <1>2, <1>3, <1>4, <1>5

\* What a push is known to hold when it takes a step.
LEMMA AtWork ==
    ASSUME IInv, NEW k \in Operations
    PROVE  /\ k \in Calls /\ call[k] \in CallState /\ WellFormed(call[k], draft)
           /\ Idle \in CallState /\ WellFormed(Idle, draft)
           /\ [Idle EXCEPT !.pc = "release"] \in CallState
           /\ WellFormed([Idle EXCEPT !.pc = "release"], draft)
           /\ doc \in Document /\ DocumentOK
<1>1. Idle \in CallState /\ Idle.intent = None /\ Idle.pc = "idle"
  BY IdleIsACall DEF Idle
<1>2. WellFormed(Idle, draft)
  BY <1>1 DEF WellFormed, Holding, Asking, Recovering, AfterProduct
<1>3. /\ [Idle EXCEPT !.pc = "release"] \in CallState
      /\ WellFormed([Idle EXCEPT !.pc = "release"], draft)
  BY <1>1 DEF CallState, WellFormed, Holding, Asking, Recovering, AfterProduct
<1> QED BY <1>1, <1>2, <1>3 DEF IInv, TypeOK, CallsOK, Calls

\* A push that ends, or that goes on to release its claim.
LEMMA EndingKeeps ==
    ASSUME PushBounds, IInv, NEW k \in Operations,
           Finish(k) \/ Become(k, [Idle EXCEPT !.pc = "release"]),
           UNCHANGED <<shopify, cost>>,
           doc' \in Document, DocumentOK', doc'.revision = doc.revision,
           Fault \/ UNCHANGED counters
    PROVE  IInv'
<1>1. PICK x \in CallState :
          /\ Become(k, x) /\ WellFormed(x, draft)
          /\ x.pc \notin {"edit", "analyze", "decide"}
  BY AtWork DEF Finish, Idle
<1>2. UNCHANGED <<draft, indexed, late>> /\ visible' \subseteq visible /\ UNCHANGED cost
  BY DEF shopify
<1> QED BY <1>1, <1>2, PushKeeps, CostStays

\* A push that goes on to its next step as it is.
LEMMA GoingKeeps ==
    ASSUME PushBounds, IInv, NEW k \in Operations,
           NEW pc \in {"search", "searchAgain", "persist", "restore", "mark", "incident"},
           Goto(k, pc), UNCHANGED <<draft, indexed, late>>, visible' \subseteq visible,
           pc \in Holding => call[k].pc \in Holding,
           pc \in Asking => call[k].pc \in Asking,
           pc \in AfterProduct => call[k].pc \in AfterProduct,
           pc = "searchAgain" => call[k].pc = "intent",
           pc = "restore" \/ call[k].pc \notin {"hide", "restore"},
           cost' \in [Products -> Inputs \cup {None}],
           \A p \in Products : draft[p] = None => cost'[p] = None,
           doc' \in Document, DocumentOK', doc'.revision = doc.revision,
           UNCHANGED counters
    PROVE  IInv'
<1> DEFINE x == [call[k] EXCEPT !.pc = pc]
<1>1. x \in CallState
  BY AtWork, CallFields
<1>2. /\ x.pc = pc /\ x.read = call[k].read /\ x.approved = call[k].approved /\ x.intent = call[k].intent
      /\ x.product = call[k].product /\ WellFormed(call[k], draft)
  BY AtWork DEF CallState
<1>3. WellFormed(x, draft)
  BY <1>2 DEF WellFormed
<1>4. Become(k, x)
  BY DEF Goto
<1> HIDE DEF x
<1>5. x.pc \notin {"edit", "analyze", "decide"}
  BY <1>2
<1> QED BY <1>1, <1>3, <1>4, <1>5, PushKeeps

\* What the store's operations leave of the facts about the link.
LEMMA StoreLinks ==
    ASSUME IInv, UNCHANGED draft
    PROVE  /\ \A op \in Operations :
                 CanClaim(doc, op) /\ doc' = Claimed(doc, op) => DocumentOK'
           /\ \A op \in Operations :
                 Owns(doc, op) /\ doc' = Released(doc) => DocumentOK'
           /\ \A i : doc' = IntentRecorded(doc, i) => DocumentOK'
           /\ \A p \in Made : doc' = Succeeded(doc, p) => DocumentOK'
           /\ \A op \in Operations, p \in Made :
                 doc' = SafetyIncident(doc, op, p) => DocumentOK'
           /\ \A r : doc' = Analyzed(doc, r) => DocumentOK'
           /\ \A r, i : doc' = Edited(doc, r, i) => DocumentOK'
<1>1. doc \in Document /\ DocumentOK /\ Made' = Made
  BY DEF IInv, TypeOK, Made
<1>2. ASSUME NEW op \in Operations, CanClaim(doc, op), doc' = Claimed(doc, op)
      PROVE  DocumentOK'
  BY <1>1, <1>2 DEF CanClaim, Claimed, Document, DocumentOK
<1>3. ASSUME NEW op \in Operations, Owns(doc, op), doc' = Released(doc) PROVE DocumentOK'
  BY <1>1, <1>3 DEF Owns, Released, Document, DocumentOK
<1>4. ASSUME NEW i, doc' = IntentRecorded(doc, i) PROVE DocumentOK'
  BY <1>1, <1>4 DEF IntentRecorded, Document, DocumentOK
<1>5. ASSUME NEW p \in Made, doc' = Succeeded(doc, p) PROVE DocumentOK'
  BY <1>1, <1>5 DEF Succeeded, Document, DocumentOK
<1>6. ASSUME NEW op \in Operations, NEW p \in Made, doc' = SafetyIncident(doc, op, p) PROVE DocumentOK'
  BY <1>1, <1>6 DEF SafetyIncident, Document, DocumentOK
<1>7. ASSUME NEW r, doc' = Analyzed(doc, r) PROVE DocumentOK'
  BY <1>1, <1>7 DEF Analyzed, Document, DocumentOK
<1>8. ASSUME NEW r, NEW i, doc' = Edited(doc, r, i) PROVE DocumentOK'
  BY <1>1, <1>8 DEF Edited, Document, DocumentOK
<1> QED BY <1>2, <1>3, <1>4, <1>5, <1>6, <1>7, <1>8

LEMMA StoreRevisions ==
    ASSUME NEW d \in Document
    PROVE  /\ \A op : Claimed(d, op).revision = d.revision
           /\ Released(d).revision = d.revision
           /\ \A i : IntentRecorded(d, i).revision = d.revision
           /\ \A p : Succeeded(d, p).revision = d.revision
           /\ \A op, p : SafetyIncident(d, op, p).revision = d.revision
           /\ \A r : Analyzed(d, r).revision = d.revision
BY DEF Document, Claimed, Released, IntentRecorded, Succeeded, SafetyIncident, Analyzed

\* Taking the claim, freezing the decision, giving the claim back.
LEMMA ClaimingKeeps ==
    ASSUME PushBounds, IInv, NEW k \in Operations,
           Claim(k) \/ ClaimUncertain(k) \/ RecordIntent(k) \/ Release(k)
    PROVE  IInv'
<1>1. doc \in Document /\ UNCHANGED <<shopify, draft, cost>>
  BY DEF IInv, TypeOK, Claim, ClaimUncertain, RecordIntent, Release, shopify
<1>2. /\ UNCHANGED <<draft, indexed, late>> /\ visible' \subseteq visible
      /\ cost' \in [Products -> Inputs \cup {None}]
      /\ \A p \in Products : draft[p] = None => cost'[p] = None
  BY <1>1, CostStays DEF shopify
<1>3. ASSUME CanClaim(doc, k), doc' = Claimed(doc, k)
      PROVE  doc' \in Document /\ DocumentOK' /\ doc'.revision = doc.revision
  BY <1>1, <1>3, StoreTypes, StoreLinks, StoreRevisions
<1>4. ASSUME UNCHANGED doc
      PROVE  doc' \in Document /\ DocumentOK' /\ doc'.revision = doc.revision
  BY <1>1, <1>4, DocumentStays
<1>5. CASE Claim(k)
  <2>1. CASE CanClaim(doc, k)
    <3>1. /\ Goto(k, "search") /\ UNCHANGED counters /\ doc' = Claimed(doc, k)
          /\ call[k].pc = "claim"
      BY <1>5, <2>1 DEF Claim, At
    <3>2. /\ "search" \notin Holding \cup AfterProduct /\ call[k].pc \in Asking
      BY <3>1 DEF Holding, AfterProduct, Recovering, Asking
    <3> QED BY <1>2, <1>3, <2>1, <3>1, <3>2, GoingKeeps
  <2>2. CASE ~CanClaim(doc, k)
    BY <1>1, <1>4, <1>5, <2>2, EndingKeeps DEF Claim
  <2> QED BY <2>1, <2>2
<1>6. CASE ClaimUncertain(k)
  BY <1>1, <1>3, <1>6, EndingKeeps DEF ClaimUncertain
<1>7. CASE RecordIntent(k)
  <2>1. CASE CanRecordIntent(doc, k)
    <3>1. /\ Goto(k, "searchAgain") /\ UNCHANGED counters /\ call[k].pc = "intent"
          /\ doc' = IntentRecorded(doc, call[k].read.inputs)
      BY <1>7, <2>1 DEF RecordIntent, At
    <3>2. call[k].read.inputs \in Inputs
      BY <3>1, AtWork DEF WellFormed, Holding, Reading
    <3>3. doc' \in Document /\ DocumentOK' /\ doc'.revision = doc.revision
      BY <1>1, <3>1, <3>2, StoreTypes, StoreLinks, StoreRevisions
    <3>4. "searchAgain" \notin AfterProduct /\ call[k].pc \in Asking \cap Holding
      BY <3>1 DEF AfterProduct, Recovering, Asking, Holding
    <3> QED BY <1>2, <3>1, <3>3, <3>4, GoingKeeps
  <2>2. CASE ~CanRecordIntent(doc, k)
    BY <1>1, <1>4, <1>7, <2>2, EndingKeeps DEF RecordIntent
  <2> QED BY <2>1, <2>2
<1>8. CASE Release(k)
  <2>1. doc' \in Document /\ DocumentOK' /\ doc'.revision = doc.revision
    BY <1>1, <1>4, <1>8, StoreTypes, StoreLinks, StoreRevisions DEF Release
  <2> QED BY <1>1, <1>8, <2>1, EndingKeeps DEF Release
<1> QED BY <1>5, <1>6, <1>7, <1>8

\* The steps of a push that knows its product.
LEMMA AdoptingKeeps ==
    ASSUME PushBounds, IInv, NEW k \in Operations,
           \/ RecordCost(k) \/ Persist(k) \/ MarkSucceeded(k) \/ ForceHidden(k)
           \/ RestoreCost(k) \/ MarkSafetyIncident(k)
    PROVE  IInv'
<1>1. /\ doc \in Document /\ call[k] \in CallState /\ WellFormed(call[k], draft)
      /\ cost \in [Products -> Inputs \cup {None}]
  BY AtWork DEF IInv, TypeOK
<1>2. UNCHANGED <<draft, indexed, late>> /\ UNCHANGED counters
  BY DEF RecordCost, Persist, MarkSucceeded, ForceHidden, RestoreCost, MarkSafetyIncident,
     shopify
<1>3. call[k].product \in Made /\ call[k].product \in Products
  BY <1>1 DEF WellFormed, Made, AfterProduct, Recovering, RecordCost, Persist, MarkSucceeded,
     ForceHidden, RestoreCost, MarkSafetyIncident, At
<1>4. ASSUME NEW i \in Inputs \cup {None},
             cost' \in {cost, [cost EXCEPT ![call[k].product] = i]}
      PROVE  /\ cost' \in [Products -> Inputs \cup {None}]
             /\ \A p \in Products : draft[p] = None => cost'[p] = None
  BY <1>1, <1>3, <1>4 DEF IInv, ProductsOK, Made
<1>5. CASE RecordCost(k)
  <2>1. /\ Goto(k, "persist") /\ call[k].pc = "cost" /\ UNCHANGED <<doc, visible>>
        /\ cost' \in {cost, [cost EXCEPT ![call[k].product] = call[k].read.inputs]}
    BY <1>5 DEF RecordCost, At, shopify
  <2>2. call[k].read.inputs \in Inputs
    BY <1>1, <2>1 DEF WellFormed, Holding, Reading
  <2>3. "persist" \notin Asking /\ call[k].pc \in Holding \cap AfterProduct
    BY <2>1 DEF Asking, Holding, AfterProduct
  <2>4. /\ cost' \in [Products -> Inputs \cup {None}]
        /\ \A p \in Products : draft[p] = None => cost'[p] = None
    BY <1>4, <2>1, <2>2
  <2> QED BY <1>2, <2>1, <2>3, <2>4, GoingKeeps, DocumentStays
<1>6. CASE Persist(k)
  <2>0. call[k].read \in Reading /\ call[k].pc = "persist"
    BY <1>1, <1>6 DEF Persist, At, WellFormed, Holding
  <2>1. doc' \in Document /\ DocumentOK' /\ doc'.revision = doc.revision
    <3>1. CASE doc' = Analyzed(doc, call[k].read)
      BY <1>1, <1>2, <2>0, <3>1, StoreTypes, StoreLinks, StoreRevisions
    <3>2. CASE UNCHANGED doc
      BY <1>2, <3>2, DocumentStays
    <3> QED BY <1>6, <3>1, <3>2 DEF Persist
  <2>2. CASE Finish(k)
    BY <1>2, <1>6, <2>1, <2>2, EndingKeeps DEF Persist
  <2>3. CASE Become(k, [call[k] EXCEPT !.pc = "mark", !.read = None])
    <3> DEFINE x == [call[k] EXCEPT !.pc = "mark", !.read = None]
    <3>1. x \in CallState
      BY <1>1, CallFields
    <3>2. /\ x.pc = "mark" /\ x.intent = call[k].intent /\ x.product = call[k].product
      BY <1>1 DEF CallState
    <3>3. WellFormed(x, draft)
      BY <1>1, <2>0, <3>2 DEF WellFormed, Holding, Asking, AfterProduct, Recovering
    <3>4. Become(k, x) /\ x.pc \notin {"edit", "analyze", "decide"}
      BY <2>3, <3>2
    <3>5. UNCHANGED <<shopify, cost>>
      BY <1>6 DEF Persist
    <3> HIDE DEF x
    <3> QED BY <1>2, <2>1, <3>1, <3>3, <3>4, <3>5, CostStays, PushKeeps DEF shopify
  <2> QED BY <1>6, <2>2, <2>3 DEF Persist
<1>7. CASE MarkSucceeded(k)
  <2>1. doc' \in Document /\ DocumentOK' /\ doc'.revision = doc.revision
    BY <1>1, <1>2, <1>3, <1>7, DocumentStays, StoreTypes, StoreLinks, StoreRevisions
    DEF MarkSucceeded
  <2> QED BY <1>2, <1>7, <2>1, EndingKeeps DEF MarkSucceeded
<1>8. CASE ForceHidden(k)
  <2>0. /\ call[k].pc = "hide" /\ UNCHANGED <<doc, cost>> /\ visible' \subseteq visible
    BY <1>8 DEF ForceHidden, At
  <2>1. CASE Goto(k, "restore")
    <3>1. "restore" \notin Asking \cup Holding /\ call[k].pc \in AfterProduct
      BY <2>0 DEF Asking, Holding, AfterProduct, Recovering
    <3> QED BY <1>2, <2>0, <2>1, <3>1, GoingKeeps, CostStays, DocumentStays
  <2>2. ASSUME NEW exposed \in BOOLEAN,
               Become(k, [call[k] EXCEPT !.pc = "restore", !.exposed = exposed])
        PROVE  IInv'
    <3> DEFINE x == [call[k] EXCEPT !.pc = "restore", !.exposed = exposed]
    <3>1. x \in CallState
      BY <1>1, CallFields
    <3>2. x.pc = "restore" /\ x.intent = call[k].intent /\ x.product = call[k].product
      BY <1>1 DEF CallState
    <3>3. WellFormed(x, draft)
      BY <1>1, <2>0, <3>2 DEF WellFormed, Holding, Asking, AfterProduct, Recovering
    <3>4. Become(k, x) /\ x.pc \notin {"edit", "analyze", "decide"}
      BY <2>2, <3>2
    <3> HIDE DEF x
    <3> QED BY <1>2, <2>0, <3>1, <3>3, <3>4, CostStays, DocumentStays, PushKeeps
  <2> QED BY <1>8, <2>1, <2>2 DEF ForceHidden
<1>9. CASE RestoreCost(k)
  <2>0. call[k].pc = "restore" /\ UNCHANGED <<doc, visible>>
    BY <1>9 DEF RestoreCost, At, shopify
  <2>1. PICK pc \in {"incident", "mark"} :
            Become(k, [call[k] EXCEPT !.intent = None, !.pc = pc])
    BY <1>9 DEF RestoreCost
  <2> DEFINE x == [call[k] EXCEPT !.intent = None, !.pc = pc]
  <2>2. x \in CallState
    BY <1>1, CallFields
  <2>3. x.pc = pc /\ x.intent = None /\ x.product = call[k].product
    BY <1>1 DEF CallState
  <2>4. WellFormed(x, draft)
    BY <1>1, <2>0, <2>3 DEF WellFormed, Holding, Asking, AfterProduct, Recovering
  <2>5. /\ cost' \in [Products -> Inputs \cup {None}]
        /\ \A p \in Products : draft[p] = None => cost'[p] = None
    <3>1. call[k].intent \in Inputs \cup {None} /\ cost[call[k].product] \in Inputs \cup {None}
      BY <1>1, <1>3 DEF CallState
    <3>2. cost' \in {cost, [cost EXCEPT ![call[k].product] =
                              IF call[k].intent = None THEN cost[call[k].product]
                              ELSE call[k].intent]}
      BY <1>9 DEF RestoreCost
    <3> QED BY <1>4, <3>1, <3>2
  <2>6. Become(k, x) /\ x.pc \notin {"edit", "analyze", "decide"}
    BY <2>1, <2>3
  <2> HIDE DEF x
  <2> QED BY <1>2, <2>0, <2>2, <2>4, <2>5, <2>6, DocumentStays, PushKeeps
<1>10. CASE MarkSafetyIncident(k)
  <2>1. PICK p \in Made : doc' = SafetyIncident(doc, k, p)
    BY <1>3, <1>10 DEF MarkSafetyIncident
  <2>2. doc' \in Document /\ doc'.revision = doc.revision
    <3>1. p \in Products
      BY DEF Made
    <3>2. doc \in Document
      BY <1>1
    <3>3. SafetyIncident(doc, k, p) \in Document
      BY <3>1, <3>2, StoreTypes
    <3>4. SafetyIncident(doc, k, p).revision = doc.revision
      BY <3>2, StoreRevisions
    <3> QED BY <2>1, <3>3, <3>4
  <2>3. DocumentOK'
    BY <1>2, <2>1, StoreLinks
  <2> QED BY <1>2, <1>10, <2>2, <2>3, EndingKeeps DEF MarkSafetyIncident
<1> QED BY <1>5, <1>6, <1>7, <1>8, <1>9, <1>10

\* A product is made: the ones there were stay as they are.
LEMMA MakingKeeps ==
    ASSUME PushBounds, IInv, NEW p \in Products, NEW d \in Draft, MakeProduct(p, d)
    PROVE  /\ DraftsStay /\ draft' \in [Products -> Draft \cup {None}]
           /\ p \notin Made /\ Made' = Made \cup {p} /\ draft'[p] = d
<1>1. /\ draft \in [Products -> Draft \cup {None}] /\ draft[p] = None
      /\ draft' = [draft EXCEPT ![p] = d] /\ d # None
  BY DEF IInv, TypeOK, MakeProduct, PushBounds
<1> QED BY <1>1 DEF DraftsStay, Made

LEMMA RequestIsADraft ==
    ASSUME IInv, NEW k \in Operations, call[k].pc = "create"
    PROVE  /\ Request(k) \in Draft /\ Request(k).inputs = call[k].read.inputs
           /\ Request(k).inputs = Request(k).approved
           /\ call[k].read \in Reading
BY AtWork DEF WellFormed, Holding, Asking, Request, Draft, Reading

\* What is left to say once it is known what Shopify and the calls have become.
LEMMA ShopifyKeeps ==
    ASSUME PushBounds, IInv, DraftsStay, draft' \in [Products -> Draft \cup {None}],
           CallsOK', call' \in [Calls -> CallState], Editing' \subseteq Editing,
           doc' = doc \/ doc' = [doc EXCEPT !.claim = "expired"], cost' = cost,
           indexed' \subseteq Made', visible' \subseteq Made',
           late' \in [Draft -> 0..MaxDisturbances], LatePaid',
           {edits, lost, published, faults}' \subseteq 0..MaxDisturbances,
           Counted', edits' = edits
    PROVE  IInv'
<1>1. /\ doc \in Document /\ doc' \in Document
      /\ doc'.product = doc.product /\ doc'.push = doc.push /\ doc'.owner = doc.owner
      /\ doc'.revision = doc.revision
  BY DEF IInv, TypeOK, Document
<1>2. Made \subseteq Made'
  BY DEF DraftsStay
<1>3. TypeOK'
  BY <1>1 DEF IInv, TypeOK, Made
<1>4. DocumentOK'
  BY <1>1, <1>2 DEF IInv, DocumentOK
<1>5. ASSUME NEW p \in Products, draft'[p] = None PROVE cost'[p] = None
  <2>1. p \notin Made
    BY <1>5 DEF DraftsStay, Made
  <2> QED BY <2>1 DEF IInv, ProductsOK, Made
<1>6. ProductsOK'
  BY <1>5 DEF ProductsOK
<1>7. EditsPaid'
  <2>1. /\ IsFiniteSet(Editing) /\ Cardinality(Editing) \in Nat
    <3>1. Editing \in SUBSET Editors
      BY DEF Editing
    <3> QED BY <3>1, FS_Subset, FS_CardinalityType DEF PushBounds
  <2>2. Cardinality(Editing') \in Nat /\ Cardinality(Editing') <= Cardinality(Editing)
    BY <2>1, FS_Subset, FS_CardinalityType
  <2>3. doc.revision \in Nat /\ edits \in Nat
    BY <1>1 DEF Document, IInv, TypeOK
  <2> QED BY <1>1, <2>1, <2>2, <2>3 DEF IInv, EditsPaid
<1> QED BY <1>3, <1>4, <1>6, <1>7 DEF IInv

\* The calls stay where they are.
LEMMA RestingCalls ==
    ASSUME IInv, DraftsStay, UNCHANGED call
    PROVE  CallsOK' /\ call' \in [Calls -> CallState] /\ Editing' = Editing
<1>1. \A k \in Calls : WellFormed(call[k], draft')
  BY WellStays DEF IInv, CallsOK
<1> QED BY <1>1 DEF IInv, TypeOK, CallsOK, Editing

\* productCreate, with and without an answer.
LEMMA CreatingKeeps ==
    ASSUME PushBounds, IInv, NEW k \in Operations, CreateProduct(k) \/ CreateUncertain(k)
    PROVE  IInv'
<1>0. /\ call[k] \in CallState /\ WellFormed(call[k], draft) /\ call[k].pc = "create"
      /\ Request(k) \in Draft /\ Request(k).inputs = call[k].read.inputs
  BY AtWork, RequestIsADraft DEF CreateProduct, CreateUncertain, At
<1>1. /\ indexed \subseteq Made /\ visible \subseteq Made /\ LatePaid /\ Counted
      /\ late \in [Draft -> 0..MaxDisturbances]
      /\ {edits, lost, published, faults} \subseteq 0..MaxDisturbances
  BY DEF IInv, TypeOK, ProductsOK
<1>2. CASE CreateProduct(k)
  <2>1. PICK p \in Products :
            /\ MakeProduct(p, Request(k))
            /\ Become(k, [call[k] EXCEPT !.pc = "cost", !.product = p, !.approved = None])
    BY <1>2 DEF CreateProduct
  <2> DEFINE x == [call[k] EXCEPT !.pc = "cost", !.product = p, !.approved = None]
  <2>2. /\ DraftsStay /\ draft' \in [Products -> Draft \cup {None}]
        /\ Made \subseteq Made' /\ draft'[p] = Request(k) /\ draft'[p] # None
    BY <1>0, <2>1, MakingKeeps DEF PushBounds
  <2>3. x \in CallState
    BY <1>0, CallFields
  <2>4. /\ x.pc = "cost" /\ x.product = p /\ x.read = call[k].read
        /\ x.intent = call[k].intent
    BY <1>0 DEF CallState
  <2>5. WellFormed(x, draft')
    BY <1>0, <2>2, <2>4 DEF WellFormed, Holding, Asking, Recovering, AfterProduct
  <2>6. Become(k, x) /\ x.pc \notin {"edit", "analyze", "decide"}
    BY <2>1, <2>4
  <2> HIDE DEF x
  <2>7. CallsOK' /\ call' \in [Calls -> CallState] /\ Editing' \subseteq Editing
    BY <2>2, <2>3, <2>5, <2>6, PushMoves
  <2>8. UNCHANGED <<doc, indexed, visible, late, cost, edits, lost, published, faults>>
    BY <1>2 DEF CreateProduct, counters
  <2>9. /\ LatePaid' /\ Counted' /\ edits' = edits
        /\ {edits, lost, published, faults}' \subseteq 0..MaxDisturbances
        /\ indexed' \subseteq Made' /\ visible' \subseteq Made'
    BY <1>1, <2>2, <2>8 DEF LatePaid, Counted
  <2> QED BY <1>1, <2>2, <2>7, <2>8, <2>9, ShopifyKeeps
<1>3. CASE CreateUncertain(k)
  <2>1. /\ Room /\ lost' = lost + 1
        /\ UNCHANGED <<doc, indexed, visible, cost, edits, published, faults>>
        /\ call' \in {call, [call EXCEPT ![k] = [Idle EXCEPT !.pc = "release"]]}
        /\ \/ \E p \in Products : MakeProduct(p, Request(k)) /\ UNCHANGED late
           \/ late' = [late EXCEPT ![Request(k)] = @ + 1] /\ UNCHANGED draft
    BY <1>3 DEF CreateUncertain
  <2>2. /\ MaxDisturbances \in Nat /\ lost \in Nat
        /\ edits \in Nat /\ published \in Nat /\ faults \in Nat
    BY <1>1 DEF PushBounds
  <2>3. /\ lost' \in 0..MaxDisturbances /\ Counted'
        /\ {edits, lost, published, faults}' \subseteq 0..MaxDisturbances
    BY <1>1, <2>1, <2>2 DEF Room, Counted
  <2>4. /\ DraftsStay /\ draft' \in [Products -> Draft \cup {None}]
        /\ Made \subseteq Made'
    <3>1. CASE UNCHANGED draft
      BY <3>1 DEF DraftsStay, Made, IInv, TypeOK
    <3>2. CASE \E p \in Products : MakeProduct(p, Request(k))
      BY <1>0, <3>2, MakingKeeps
    <3> QED BY <2>1, <3>1, <3>2
  <2>5. /\ late' \in [Draft -> 0..MaxDisturbances] /\ LatePaid'
    <3>1. \A d \in Draft : late[d] \in Nat /\ late[d] <= lost
      BY <1>1 DEF LatePaid
    <3>2. \A d \in Draft : late'[d] = late[d] \/ late'[d] = late[d] + 1
      BY <1>0, <1>1, <2>1
    <3>3. \A d \in Draft : late'[d] \in Nat /\ late'[d] <= lost + 1
      BY <2>2, <3>1, <3>2
    <3>4. late' = [d \in Draft |-> late'[d]]
      BY <1>0, <1>1, <2>1
    <3> QED BY <2>1, <2>2, <2>3, <3>3, <3>4 DEF LatePaid
  <2>6. CallsOK' /\ call' \in [Calls -> CallState] /\ Editing' \subseteq Editing
    <3>1. CASE UNCHANGED call
      BY <2>4, <3>1, RestingCalls
    <3>2. CASE Become(k, [Idle EXCEPT !.pc = "release"])
      <4>1. PICK x \in CallState : Become(k, x) /\ WellFormed(x, draft) /\ x.pc = "release"
        BY <3>2, AtWork DEF Idle
      <4> QED BY <2>4, <4>1, PushMoves, WellStays
    <3> QED BY <2>1, <3>1, <3>2 DEF Become
  <2> QED BY <1>1, <2>1, <2>3, <2>4, <2>5, <2>6, ShopifyKeeps
<1> QED BY <1>2, <1>3

\* What else happens in Shopify, and to the lease.
LEMMA ElsewhereKeeps ==
    ASSUME PushBounds, IInv,
           \/ LeaseExpires \/ \E d \in Draft : LateCreate(d)
           \/ \E p \in Products : IndexProduct(p) \/ PublishProduct(p)
    PROVE  IInv'
<1>1. /\ indexed \subseteq Made /\ visible \subseteq Made /\ LatePaid /\ Counted
      /\ late \in [Draft -> 0..MaxDisturbances] /\ MaxDisturbances \in Nat
      /\ {edits, lost, published, faults} \subseteq 0..MaxDisturbances
      /\ draft \in [Products -> Draft \cup {None}]
  BY DEF IInv, TypeOK, ProductsOK, PushBounds
<1>2. ASSUME UNCHANGED draft PROVE DraftsStay /\ Made' = Made
  BY <1>1, <1>2 DEF DraftsStay, Made
<1>3. CASE LeaseExpires
  BY <1>1, <1>2, <1>3, RestingCalls, ShopifyKeeps
  DEF LeaseExpires, shopify, counters, LatePaid, Counted
<1>4. ASSUME NEW d \in Draft, LateCreate(d) PROVE IInv'
  <2>1. /\ DraftsStay /\ draft' \in [Products -> Draft \cup {None}] /\ Made \subseteq Made'
    BY <1>4, MakingKeeps DEF LateCreate
  <2>2. /\ late' \in [Draft -> 0..MaxDisturbances] /\ LatePaid'
    <3>1. \A f \in Draft : late[f] \in 0..MaxDisturbances /\ late[f] <= lost
      BY <1>1 DEF LatePaid
    <3>2. /\ late' = [late EXCEPT ![d] = @ - 1] /\ late[d] > 0 /\ lost' = lost
      BY <1>4 DEF LateCreate, counters
    <3>3. \A f \in Draft : late'[f] \in 0..MaxDisturbances /\ late'[f] <= lost
      <4>1. late[d] - 1 \in 0..MaxDisturbances /\ late[d] - 1 <= lost
        BY <1>1, <3>1, <3>2
      <4> QED BY <1>1, <3>1, <3>2, <4>1
    <3>4. late' = [f \in Draft |-> late'[f]]
      BY <1>1, <3>2
    <3> QED BY <3>2, <3>3, <3>4 DEF LatePaid
  <2>3. UNCHANGED <<doc, call, indexed, visible, cost, edits, lost, published, faults>>
    BY <1>4 DEF LateCreate, counters
  <2> QED BY <1>1, <2>1, <2>2, <2>3, RestingCalls, ShopifyKeeps DEF Counted
<1>5. ASSUME NEW p \in Products, IndexProduct(p) PROVE IInv'
  BY <1>1, <1>2, <1>5, RestingCalls, ShopifyKeeps
  DEF IndexProduct, counters, LatePaid, Counted
<1>6. ASSUME NEW p \in Products, PublishProduct(p) PROVE IInv'
  <2>1. /\ Room /\ published' = published + 1 /\ visible' = visible \cup {p} /\ p \in Made
        /\ UNCHANGED <<doc, call, draft, indexed, late, cost, edits, lost, faults>>
    BY <1>6 DEF PublishProduct
  <2>2. /\ edits \in Nat /\ lost \in Nat /\ published \in Nat /\ faults \in Nat
    BY <1>1
  <2>3. /\ Counted' /\ {edits, lost, published, faults}' \subseteq 0..MaxDisturbances
    BY <1>1, <2>1, <2>2 DEF Room, Counted
  <2>4. LatePaid'
    BY <1>1, <2>1 DEF LatePaid
  <2> QED BY <1>1, <1>2, <2>1, <2>3, <2>4, RestingCalls, ShopifyKeeps
<1> QED BY <1>3, <1>4, <1>5, <1>6

LEMMA CrashKeeps == ASSUME PushBounds, IInv, Crash PROVE IInv'
<1>1. /\ call' = [k \in Calls |-> Idle] /\ UNCHANGED <<doc, draft, indexed, visible, late, cost>>
      /\ Fault
  BY DEF Crash, shopify
<1>2. /\ indexed \subseteq Made /\ visible \subseteq Made /\ LatePaid
      /\ late \in [Draft -> 0..MaxDisturbances] /\ draft \in [Products -> Draft \cup {None}]
  BY DEF IInv, TypeOK, ProductsOK
<1>3. DraftsStay /\ Made' = Made
  BY <1>1, <1>2 DEF DraftsStay, Made
<1>4. \A d : WellFormed(Idle, d) /\ Idle \in CallState /\ Idle.pc = "idle"
  BY IdleIsACall DEF Idle, WellFormed, Holding, Asking, Recovering, AfterProduct
<1>5. CallsOK' /\ call' \in [Calls -> CallState]
  BY <1>1, <1>4 DEF CallsOK, Calls
<1>6. Editing' = {}
  BY <1>1, <1>4 DEF Editing, Calls
<1>7. /\ {edits, lost, published, faults}' \subseteq 0..MaxDisturbances
      /\ Counted' /\ UNCHANGED <<edits, lost>>
  BY <1>1, FaultCounts
<1>8. LatePaid'
  BY <1>1, <1>2, <1>7 DEF LatePaid
<1> QED BY <1>1, <1>2, <1>3, <1>5, <1>6, <1>7, <1>8, ShopifyKeeps

-----------------------------------------------------------------------------
\* The step of a request beside the pushes.
LEMMA EditorKeeps ==
    ASSUME PushBounds, IInv, NEW k \in Editors,
           \/ EditorStep(k) \/ BeginAnalysis(k)
           \/ \E i \in Inputs : BeginEdit(k, i)
           \/ \E status \in Decisions : BeginDecision(k, status)
    PROVE  IInv'
<1>0. /\ k \in Calls /\ call[k] \in CallState /\ WellFormed(call[k], draft)
      /\ doc \in Document /\ Reads \in Reading /\ DocumentOK
      /\ Idle \in CallState /\ Idle.intent = None /\ Idle.pc = "idle"
      /\ call \in [Calls -> CallState]
  BY IdleIsACall DEF IInv, TypeOK, CallsOK, Calls, Idle, Document, Reads, Reading
<1> Reads \in Reading /\ Idle \in CallState
  BY <1>0
<1>1. /\ UNCHANGED <<draft, indexed, visible, late, cost, lost, published, faults>>
      /\ \/ Room /\ edits' = edits + 1 /\ UNCHANGED doc /\ call[k].pc = "idle"
         \/ edits' = edits
  BY DEF EditorStep, UpdateCandidate, PersistAnalysis, SetCandidateStatus, BeginAnalysis,
     BeginEdit, BeginDecision, Asked, shopify, counters, At
<1>2. DraftsStay /\ Made' = Made
  BY <1>1 DEF DraftsStay, Made
<1>3. PICK x \in CallState :
          /\ Become(k, x) /\ WellFormed(x, draft)
          /\ x.pc \in {"idle", "edit", "analyze", "decide"}
          /\ x.pc = "edit" => edits' = edits + 1
  <2>1. CASE EditorStep(k)
    <3>1. WellFormed(Idle, draft)
      BY <1>0 DEF WellFormed, Holding, Asking, Recovering, AfterProduct
    <3> QED BY <1>0, <2>1, <3>1
            DEF EditorStep, UpdateCandidate, PersistAnalysis, SetCandidateStatus, Finish
  <2>2. CASE BeginAnalysis(k)
    <3> DEFINE y == [Idle EXCEPT !.pc = "analyze", !.read = Reads]
    <3>1. y \in CallState
      BY DEF CallState
    <3>2. WellFormed(y, draft) /\ y.pc = "analyze"
      BY <1>0 DEF CallState, WellFormed, Holding, Asking, Recovering, AfterProduct
    <3> QED BY <2>2, <3>1, <3>2 DEF BeginAnalysis
  <2>3. ASSUME NEW i \in Inputs, BeginEdit(k, i)
        PROVE  \E y \in CallState :
                   /\ Become(k, y) /\ WellFormed(y, draft)
                   /\ y.pc \in {"idle", "edit", "analyze", "decide"}
                   /\ y.pc = "edit" => edits' = edits + 1
    <3> DEFINE y == [Idle EXCEPT !.pc = "edit", !.read = Reads, !.target = i]
    <3>1. y \in CallState
      BY DEF CallState
    <3>2. WellFormed(y, draft) /\ y.pc = "edit"
      BY <1>0 DEF CallState, WellFormed, Holding, Asking, Recovering, AfterProduct
    <3> QED BY <2>3, <3>1, <3>2 DEF BeginEdit, Asked
  <2>4. ASSUME NEW status \in Decisions, BeginDecision(k, status)
        PROVE  \E y \in CallState :
                   /\ Become(k, y) /\ WellFormed(y, draft)
                   /\ y.pc \in {"idle", "edit", "analyze", "decide"}
                   /\ y.pc = "edit" => edits' = edits + 1
    <3> DEFINE y == [Idle EXCEPT !.pc = "decide", !.read = Reads, !.target = status]
    <3>0. status \in Statuses
      BY DEF PushBounds
    <3>1. y \in CallState
      BY <3>0 DEF CallState
    <3>2. WellFormed(y, draft) /\ y.pc = "decide"
      BY <1>0, <3>0 DEF CallState, WellFormed, Holding, Asking, Recovering, AfterProduct
    <3> QED BY <2>4, <3>1, <3>2 DEF BeginDecision
  <2> QED BY <2>1, <2>2, <2>3, <2>4
<1>4. WellFormed(x, draft')
  BY <1>1, <1>3
<1>5. /\ call' \in [Calls -> CallState] /\ CallsOK'
      /\ Cardinality(Editing) \in Nat /\ Cardinality(Editing') \in Nat
      /\ call[k].pc # "edit" => Cardinality(Editing') <= Cardinality(Editing) + 1
      /\ x.pc # "edit" => Cardinality(Editing') <= Cardinality(Editing)
      /\ call[k].pc = "edit" /\ x.pc # "edit" =>
            Cardinality(Editing') = Cardinality(Editing) - 1
  BY <1>2, <1>3, <1>4, EditorMoves
<1>6. /\ doc.revision \in Nat /\ edits \in Nat /\ lost \in Nat /\ published \in Nat
      /\ faults \in Nat /\ MaxDisturbances \in Nat
      /\ EditsPaid /\ Counted /\ {edits, lost, published, faults} \subseteq 0..MaxDisturbances
  BY <1>0 DEF Document, IInv, TypeOK, PushBounds
<1>7. /\ Counted' /\ {edits, lost, published, faults}' \subseteq 0..MaxDisturbances
  BY <1>1, <1>6 DEF Room, Counted
<1>8. /\ doc' \in Document /\ DocumentOK'
      /\ \/ doc'.revision = doc.revision
         \/ /\ doc'.revision = doc.revision + 1
            /\ call[k].pc = "edit" /\ x.pc # "edit"
  <2>1. CASE UNCHANGED doc
    BY <1>1, <2>1, DocumentStays
  <2>2. CASE UpdateCandidate(k)
    <3>1. /\ call[k].pc = "edit" /\ doc' = Edited(doc, call[k].read, call[k].target)
          /\ call[k].read \in Reading /\ call[k].target \in Inputs /\ edits' = edits
      BY <1>0, <2>2 DEF UpdateCandidate, At, WellFormed, Holding, counters
    <3>2. Cardinality(Editing) >= 1
      <4>1. Editing \in SUBSET Editors /\ k \in Editing
        BY <3>1 DEF Editing
      <4>2. IsFiniteSet(Editing)
        BY <4>1, FS_Subset DEF PushBounds
      <4> QED BY <1>5, <4>1, <4>2, FS_EmptySet
    <3>3. doc.revision + 1 <= MaxDisturbances
      BY <1>5, <1>6, <3>2 DEF EditsPaid, Counted
    <3>4. doc' \in Document /\ DocumentOK'
      BY <1>0, <1>1, <3>1, <3>3, StoreTypes, StoreLinks
    <3>5. doc'.revision \in {doc.revision, doc.revision + 1}
      BY <1>0, <3>1 DEF Edited, Document
    <3>6. x.pc # "edit"
      BY <1>3, <1>6, <3>1
    <3> QED BY <3>1, <3>4, <3>5, <3>6
  <2>3. CASE PersistAnalysis(k)
    <3>1. /\ call[k].read \in Reading /\ doc' = Analyzed(doc, call[k].read)
      BY <1>0, <2>3 DEF PersistAnalysis, At, WellFormed, Holding
    <3> QED BY <1>0, <1>1, <3>1, StoreTypes, StoreLinks, StoreRevisions
  <2>4. CASE SetCandidateStatus(k) /\ doc' # doc
    <3>1. call[k].target \in Statuses /\ doc' = [doc EXCEPT !.status = call[k].target]
      BY <1>0, <2>4 DEF SetCandidateStatus, At, WellFormed
    <3>2. /\ doc' \in Document /\ doc'.revision = doc.revision /\ doc'.product = doc.product
          /\ doc'.push = doc.push /\ doc'.owner = doc.owner
      BY <1>0, <3>1 DEF Document
    <3> QED BY <1>0, <1>2, <3>2 DEF DocumentOK
  <2> QED BY <1>1, <2>1, <2>2, <2>3, <2>4
          DEF EditorStep, BeginAnalysis, BeginEdit, BeginDecision
<1>9. EditsPaid'
  <2>1. \/ edits' = edits /\ x.pc # "edit"
        \/ edits' = edits + 1 /\ UNCHANGED doc /\ call[k].pc = "idle"
    BY <1>1, <1>3, <1>6
  <2>2. CASE edits' = edits /\ x.pc # "edit"
    BY <1>5, <1>6, <1>8, <2>2 DEF EditsPaid
  <2>3. CASE edits' = edits + 1 /\ UNCHANGED doc /\ call[k].pc = "idle"
    BY <1>5, <1>6, <2>3 DEF EditsPaid
  <2> QED BY <2>1, <2>2, <2>3
<1>10. TypeOK'
  BY <1>1, <1>5, <1>7, <1>8 DEF IInv, TypeOK
<1>11. ProductsOK' /\ LatePaid'
  BY <1>1, <1>2 DEF IInv, ProductsOK, LatePaid
<1> QED BY <1>5, <1>7, <1>8, <1>9, <1>10, <1>11 DEF IInv

-----------------------------------------------------------------------------
LEMMA InitIInv == ASSUME PushBounds PROVE Init => IInv
<1> SUFFICES ASSUME Init PROVE IInv
  OBVIOUS
<1>1. PICK i \in Inputs : doc = Created(i)
  BY DEF Init
<1>2. /\ doc \in Document /\ doc.product = None /\ doc.push = "IDLE" /\ doc.revision = 0
  BY <1>1 DEF Created, Document, Statuses, PushStates, PushBounds
<1>3. \A k \in Calls : call[k] = Idle
  BY DEF Init
<1>4. /\ Idle \in CallState /\ Idle.pc = "idle" /\ WellFormed(Idle, draft)
  BY IdleIsACall DEF Idle, WellFormed, Holding, Asking, Recovering, AfterProduct
<1>5. CallsOK
  BY <1>3, <1>4 DEF CallsOK, Calls
<1>6. TypeOK
  BY <1>2, <1>4 DEF Init, TypeOK, PushBounds
<1>7. Made = {}
  BY DEF Init, Made
<1>8. DocumentOK
  BY <1>2 DEF DocumentOK
<1>9. ProductsOK /\ LatePaid /\ Counted
  BY DEF Init, ProductsOK, LatePaid, Counted, PushBounds
<1>10. EditsPaid
  <2>1. Editing = {}
    BY <1>3, <1>4 DEF Editing, Calls
  <2>2. Cardinality(Editing) = 0
    BY <2>1, FS_EmptySet
  <2> QED BY <1>2, <2>2 DEF Init, EditsPaid
<1> QED BY <1>5, <1>6, <1>8, <1>9, <1>10 DEF IInv

LEMMA NextIInv == ASSUME PushBounds PROVE IInv /\ [Next]_vars => IInv'
<1> SUFFICES ASSUME IInv, [Next]_vars PROVE IInv'
  OBVIOUS
<1>1. ASSUME NEW k \in Operations, PushStep(k) \/ \E i \in Inputs : BeginPush(k, i)
      PROVE  IInv'
  BY <1>1, ReadingKeeps, ClaimingKeeps, AdoptingKeeps, CreatingKeeps DEF PushStep
<1>2. ASSUME NEW k \in Editors,
             \/ EditorStep(k) \/ BeginAnalysis(k)
             \/ \E i \in Inputs : BeginEdit(k, i)
             \/ \E status \in Decisions : BeginDecision(k, status)
      PROVE  IInv'
  BY <1>2, EditorKeeps
<1>3. CASE Crash
  BY <1>3, CrashKeeps
<1>4. CASE \/ LeaseExpires \/ \E d \in Draft : LateCreate(d)
           \/ \E p \in Products : IndexProduct(p) \/ PublishProduct(p)
  BY <1>4, ElsewhereKeeps
<1>5. CASE UNCHANGED vars
  <2>1. DraftsStay
    BY <1>5 DEF vars, shopify, DraftsStay, Made
  <2> QED BY <1>5, <2>1, RestingCalls, ShopifyKeeps
          DEF vars, shopify, counters, IInv, TypeOK, ProductsOK, LatePaid, Counted, Made
<1> QED BY <1>1, <1>2, <1>3, <1>4, <1>5 DEF Next

\* Calls, document and counters agree in every state, whatever the timing.
THEOREM AlwaysIInv == ASSUME PushBounds PROVE Spec => []IInv
BY InitIInv, NextIInv, PTL DEF Spec

\* Every variable keeps its type; the revisions of the document stay within
\* the edits that were asked for.
THEOREM TypeCorrect == ASSUME PushBounds PROVE Spec => []TypeOK
<1>1. IInv => TypeOK
  BY DEF IInv
<1> QED BY <1>1, AlwaysIInv, PTL

-----------------------------------------------------------------------------
(* The link between the candidate and its product.                         *)

\* Edits, analyses and decisions leave the push and the link alone.
LEMMA EditorsLeaveThePush ==
    ASSUME IInv, NEW k \in Editors,
           \/ EditorStep(k) \/ BeginAnalysis(k)
           \/ \E i \in Inputs : BeginEdit(k, i)
           \/ \E status \in Decisions : BeginDecision(k, status)
    PROVE  /\ doc'.push = doc.push /\ doc'.product = doc.product /\ doc'.owner = doc.owner
           /\ doc'.claim = doc.claim /\ doc'.intent = doc.intent
<1>1. doc \in Document
  BY DEF IInv, TypeOK
<1>2. CASE UpdateCandidate(k)
  BY <1>1, <1>2 DEF UpdateCandidate, Edited, Document
<1>3. CASE PersistAnalysis(k)
  BY <1>1, <1>3 DEF PersistAnalysis, Analyzed, Document
<1>4. CASE SetCandidateStatus(k)
  BY <1>1, <1>4 DEF SetCandidateStatus, Document
<1>5. CASE UNCHANGED doc
  BY <1>5
<1> QED BY <1>2, <1>3, <1>4, <1>5 DEF EditorStep, BeginAnalysis, BeginEdit, BeginDecision

LEMMA LinkStep == ASSUME PushBounds PROVE IInv /\ [Next]_vars => LinkStays
<1> SUFFICES ASSUME IInv, [Next]_vars, doc.product # None
             PROVE  /\ doc.product \in Made
                    /\ doc.push \in {"SUCCEEDED", "SAFETY_INCIDENT"}
                    /\ \/ doc'.push = "SAFETY_INCIDENT"
                       \/ doc'.product = doc.product /\ doc'.push = doc.push
  BY DEF LinkStays
<1>1. /\ doc \in Document /\ doc.product \in Made
      /\ doc.push \in {"SUCCEEDED", "SAFETY_INCIDENT"}
  BY DEF IInv, TypeOK, DocumentOK
<1>2. ASSUME NEW k \in Operations
      PROVE  ~CanClaim(doc, k) /\ ~Owns(doc, k) /\ ~CanRecordIntent(doc, k)
  BY <1>1 DEF CanClaim, Owns, CanRecordIntent
<1>3. CASE UNCHANGED doc
  BY <1>1, <1>3
<1>4. ASSUME NEW k \in Operations, PushStep(k) \/ \E i \in Inputs : BeginPush(k, i)
      PROVE  \/ doc'.push = "SAFETY_INCIDENT"
             \/ doc'.product = doc.product /\ doc'.push = doc.push
  <2>1. CASE Claim(k) \/ ClaimUncertain(k) \/ RecordIntent(k) \/ Release(k) \/ MarkSucceeded(k)
    BY <1>2, <2>1 DEF Claim, ClaimUncertain, RecordIntent, Release, MarkSucceeded
  <2>2. CASE Persist(k)
    BY <1>1, <2>2 DEF Persist, Analyzed, Document
  <2>3. CASE MarkSafetyIncident(k)
    BY <1>1, <2>3 DEF MarkSafetyIncident, SafetyIncident, Document
  <2> QED BY <1>4, <2>1, <2>2, <2>3
          DEF PushStep, BeginPush, Search, SearchAgain, FindByResearchTag, Prepare, Refused,
              ReleaseFails, CreateProduct, CreateUncertain, RecordCost, FailsWithProduct,
              LoadIntent, ForceHidden, RestoreCost
<1>5. ASSUME NEW k \in Editors,
             \/ EditorStep(k) \/ BeginAnalysis(k)
             \/ \E i \in Inputs : BeginEdit(k, i)
             \/ \E status \in Decisions : BeginDecision(k, status)
      PROVE  doc'.product = doc.product /\ doc'.push = doc.push
  BY <1>5, EditorsLeaveThePush
<1>6. ~LeaseExpires
  BY <1>1 DEF LeaseExpires
<1> QED BY <1>1, <1>3, <1>4, <1>5, <1>6
        DEF Next, vars, Crash, LateCreate, IndexProduct, PublishProduct

\* Nothing exchanges the product a candidate is linked to, except that a
\* product that could not be hidden takes the link over (markSucceeded and
\* markSafetyIncident of push.service.ts), whatever the timing of Shopify and
\* of the claims.
THEOREM TheLinkIsFinal == ASSUME PushBounds PROVE Spec => LinkIsFinal
BY LinkStep, AlwaysIInv, PTL DEF Spec, LinkIsFinal

-----------------------------------------------------------------------------
(* One draft, and of the approved decision, while Shopify settles before   *)
(* anybody looks.                                                          *)

Prompt == PromptShopify = TRUE

\* The steps of a push at which a search has found nothing.
Unfound == {"prepare", "intent", "searchAgain"}

\* Steps in which Shopify makes nothing and loses no request.
LEMMA QuietKeeps ==
    ASSUME IInv, IInv', PromptInv, UNCHANGED <<draft, late, lost>>, indexed \subseteq indexed',
           \A k \in Operations :
               /\ call'[k].pc \in Recovering => call[k].pc \in Recovering \/ indexed' # {}
               /\ Creating(k)' => \/ Owns(doc', k) /\ doc'.claim = "live"
                                  \/ indexed' # {}
               /\ At(k, "create")' => At(k, "create") \/ (Nothing /\ Creating(k))
               /\ call'[k].pc \in Unfound /\ Owns(doc', k) =>
                     Nothing \/ (call[k].pc \in Unfound /\ Owns(doc, k))
               /\ call'[k].intent \in {None, call[k].intent, doc'.intent}
               /\ Creating(k)' => call'[k].read.inputs = doc'.intent,
           doc'.intent = doc.intent \/ Nothing,
           \A p \in Made : cost'[p] \in {None, cost[p], draft[p].inputs}
    PROVE  PromptInv'
<1>1. /\ Made' = Made /\ Waiting' = Waiting /\ Nothing' = Nothing
      /\ indexed \subseteq Made
  BY DEF Made, Waiting, Nothing, IInv, ProductsOK
<1>2. CreatorsOwn' /\ FoundSomething'
  BY DEF PromptInv, CreatorsOwn, FoundSomething
<1>3. OneCreator'
  <2>1. ASSUME NEW j \in Operations, NEW k \in Operations, At(j, "create")', At(k, "create")'
        PROVE  j = k
    <3>1. CASE Nothing
      <4>1. indexed = {}
        BY <1>1, <3>1 DEF Nothing
      <4>2. Creating(j) /\ Creating(k)
        BY <2>1 DEF At, Creating
      <4>3. Owns(doc, j) /\ Owns(doc, k)
        BY <4>1, <4>2 DEF PromptInv, CreatorsOwn
      <4> QED BY <4>3 DEF Owns
    <3>2. CASE ~Nothing
      BY <2>1, <3>2 DEF PromptInv, OneCreator
    <3> QED BY <3>1, <3>2
  <2> QED BY <2>1 DEF OneCreator
<1>4. Paid'
  <2>1. /\ IsFiniteSet(Made) /\ IsFiniteSet(Waiting) /\ lost \in Nat
        /\ Cardinality(Made) \in Nat /\ Cardinality(Waiting) \in Nat
    BY FS_CardinalityType DEF PromptInv, Paid, IInv, TypeOK
  <2>2. CASE \E k \in Operations : At(k, "create")
    BY <1>1, <2>1, <2>2 DEF PromptInv, Paid
  <2>3. CASE ~(\E k \in Operations : At(k, "create")) /\ ~(\E k \in Operations : At(k, "create")')
    BY <1>1, <2>1, <2>3 DEF PromptInv, Paid
  <2>4. CASE /\ ~(\E k \in Operations : At(k, "create"))
             /\ \E k \in Operations : At(k, "create")'
    <3>1. Cardinality(Made) = 0 /\ Cardinality(Waiting) = 0
      BY <2>4, FS_EmptySet DEF Nothing
    <3> QED BY <1>1, <2>1, <2>4, <3>1 DEF Paid
  <2> QED BY <2>2, <2>3, <2>4
<1>5. SearchHolds'
  BY <1>1 DEF PromptInv, SearchHolds, Unfound
<1>6. IntentHolds'
  <2>1. \A k \in Operations : call'[k].intent \in {None, doc'.intent}
    <3>1. CASE doc'.intent = doc.intent
      BY <3>1 DEF PromptInv, IntentHolds
    <3>2. ASSUME Nothing, NEW k \in Operations PROVE call[k].intent = None
      <4>1. indexed = {}
        BY <1>1, <3>2 DEF Nothing
      <4>2. call[k].pc \notin Recovering
        BY <4>1 DEF PromptInv, FoundSomething
      <4> QED BY <4>2, AtWork DEF WellFormed, Recovering
    <3> QED BY <3>1, <3>2
  <2>2. /\ \A p \in Made' : draft'[p].inputs = doc'.intent
        /\ \A d \in Draft : late'[d] > 0 => d.inputs = doc'.intent
    <3>1. CASE doc'.intent = doc.intent
      BY <1>1, <3>1 DEF PromptInv, IntentHolds
    <3>2. CASE Nothing
      <4>1. ASSUME NEW d \in Draft, late[d] > 0 PROVE FALSE
        <5>1. late[d] \in Nat
          BY DEF IInv, TypeOK
        <5>2. <<d, 1>> \in Waiting
          BY <4>1, <5>1 DEF Waiting
        <5> QED BY <3>2, <5>2 DEF Nothing
      <4> QED BY <1>1, <3>2, <4>1 DEF Nothing
    <3> QED BY <3>1, <3>2
  <2> QED BY <2>1, <2>2 DEF IntentHolds
<1>7. Approved'
  BY <1>1 DEF PromptInv, Approved, DraftsCarryTheirDecision
<1> QED BY <1>2, <1>3, <1>4, <1>5, <1>6, <1>7 DEF PromptInv

\* What a push may do to the document, as far as the claim goes.
DocumentMove(k) ==
    \/ UNCHANGED doc
    \/ CanClaim(doc, k) /\ doc' = Claimed(doc, k)
    \/ Owns(doc, k) /\ (doc' = Released(doc) \/ \E p \in Products : doc' = Succeeded(doc, p))
    \/ \E r \in Reading : doc' = Analyzed(doc, r)
    \/ call[k].pc = "incident" /\ \E p \in Products : doc' = SafetyIncident(doc, k, p)

LEMMA MoveFields ==
    ASSUME IInv, NEW k \in Operations, DocumentMove(k)
    PROVE  /\ doc'.intent = doc.intent
           /\ \/ doc'.push = doc.push /\ doc'.owner = doc.owner /\ doc'.claim = doc.claim
              \/ CanClaim(doc, k) /\ doc'.owner = k
              \/ Owns(doc, k) /\ doc'.push # "IN_PROGRESS"
              \/ call[k].pc = "incident" /\ doc'.push # "IN_PROGRESS"
<1>1. doc \in Document
  BY DEF IInv, TypeOK
<1>2. CASE UNCHANGED doc
  BY <1>2
<1>3. CASE CanClaim(doc, k) /\ doc' = Claimed(doc, k)
  BY <1>1, <1>3 DEF Claimed, Document
<1>4. CASE Owns(doc, k) /\ doc' = Released(doc)
  BY <1>1, <1>4 DEF Released, Document
<1>5. CASE Owns(doc, k) /\ \E p \in Products : doc' = Succeeded(doc, p)
  BY <1>1, <1>5 DEF Succeeded, Document
<1>6. CASE \E r \in Reading : doc' = Analyzed(doc, r)
  BY <1>1, <1>6 DEF Analyzed, Document
<1>7. CASE call[k].pc = "incident" /\ \E p \in Products : doc' = SafetyIncident(doc, k, p)
  BY <1>1, <1>7 DEF SafetyIncident, Document
<1> QED BY <1>2, <1>3, <1>4, <1>5, <1>6, <1>7 DEF DocumentMove

\* A push moves on and neither freezes a decision nor comes to its creation.
LEMMA PushQuiet ==
    ASSUME PushBounds, IInv, IInv', PromptInv, NEW k \in Operations, NEW x, Become(k, x),
           UNCHANGED <<draft, late, lost, indexed>>, DocumentMove(k),
           ~(x.pc \in {"searchAgain", "create"}),
           x.pc \in Recovering => call[k].pc \in Recovering \/ indexed # {},
           x.pc \in Unfound => (Nothing \/ call[k].pc \in Unfound) /\ UNCHANGED doc,
           x.intent \in {None, call[k].intent, doc.intent},
           \A p \in Made : cost'[p] \in {None, cost[p], draft[p].inputs}
    PROVE  PromptInv'
<1>1. /\ call'[k] = x /\ \A j \in Operations : j # k => call'[j] = call[j]
  BY DEF IInv, TypeOK, Become, Calls
<1>2. /\ doc'.intent = doc.intent
      /\ \/ doc'.push = doc.push /\ doc'.owner = doc.owner /\ doc'.claim = doc.claim
         \/ CanClaim(doc, k) /\ doc'.owner = k
         \/ Owns(doc, k) /\ doc'.push # "IN_PROGRESS"
         \/ call[k].pc = "incident" /\ doc'.push # "IN_PROGRESS"
  BY MoveFields
<1>3. call[k].pc = "incident" => indexed # {}
  BY DEF PromptInv, FoundSomething, Recovering
<1>4. ASSUME NEW j \in Operations
      PROVE  /\ call'[j].pc \in Recovering => call[j].pc \in Recovering \/ indexed' # {}
             /\ At(j, "create")' => At(j, "create") \/ (Nothing /\ Creating(j))
             /\ call'[j].intent \in {None, call[j].intent, doc'.intent}
             /\ call'[j].pc \in Unfound /\ Owns(doc', j) =>
                   Nothing \/ (call[j].pc \in Unfound /\ Owns(doc, j))
             /\ Creating(j)' => call'[j].read.inputs = doc'.intent
             /\ Creating(j)' => \/ Owns(doc', j) /\ doc'.claim = "live"
                                \/ indexed' # {}
  <2>1. CASE j = k
    BY <1>1, <1>2, <2>1 DEF At, Creating
  <2>2. CASE j # k
    <3>1. call'[j] = call[j]
      BY <1>1, <2>2
    <3>2. Creating(j) => (Owns(doc, j) /\ doc.claim = "live") \/ indexed # {}
      BY DEF PromptInv, CreatorsOwn
    <3>3. Creating(j) => (Owns(doc', j) /\ doc'.claim = "live") \/ indexed' # {}
      BY <1>2, <1>3, <2>2, <3>2 DEF Owns, CanClaim
    <3>4. Owns(doc', j) => Owns(doc, j)
      BY <1>2, <2>2 DEF Owns
    <3>5. Creating(j) => call[j].read.inputs = doc.intent
      BY DEF PromptInv, IntentHolds
    <3> QED BY <1>2, <3>1, <3>3, <3>4, <3>5 DEF At, Creating
  <2> QED BY <2>1, <2>2
<1> QED BY <1>2, <1>4, QuietKeeps

\* The document is as it was, or claimed, or given up, or linked.
LEMMA PushStepsQuiet ==
    ASSUME PushBounds, Prompt, IInv, IInv', PromptInv, NEW k \in Operations,
           \/ \E i \in Inputs : BeginPush(k, i)
           \/ Claim(k) \/ ClaimUncertain(k) \/ Search(k) \/ Prepare(k) \/ Refused(k)
           \/ Release(k) \/ ReleaseFails(k) \/ RecordCost(k) \/ Persist(k)
           \/ MarkSucceeded(k) \/ FailsWithProduct(k) \/ LoadIntent(k) \/ ForceHidden(k)
           \/ RestoreCost(k) \/ MarkSafetyIncident(k)
    PROVE  PromptInv'
<1>0. /\ k \in Calls /\ call[k] \in CallState /\ WellFormed(call[k], draft)
      /\ doc \in Document /\ DocumentOK /\ indexed \subseteq Made
      /\ cost \in [Products -> Inputs \cup {None}]
  BY AtWork DEF IInv, TypeOK, ProductsOK
<1>1. UNCHANGED <<draft, late, lost, indexed>>
  BY DEF BeginPush, Claim, ClaimUncertain, Search, FindByResearchTag, Prepare, Refused,
     Release, ReleaseFails, RecordCost, Persist, MarkSucceeded, FailsWithProduct, LoadIntent,
     ForceHidden, RestoreCost, MarkSafetyIncident, shopify, counters, Fault
<1>2. Idle.pc = "idle" /\ Idle.intent = None
  BY DEF Idle
<1>3. \A p \in Made : UNCHANGED cost => cost'[p] \in {None, cost[p], draft[p].inputs}
  OBVIOUS
<1>4. CASE Claim(k) \/ ClaimUncertain(k)
  <2>1. DocumentMove(k) /\ UNCHANGED cost
    BY <1>4 DEF Claim, ClaimUncertain, DocumentMove
  <2>2. PICK x : Become(k, x) /\ x.pc \in {"idle", "search"} /\ x.intent \in {None, call[k].intent}
    BY <1>0, <1>2, <1>4 DEF Claim, ClaimUncertain, Finish, Goto, CallState
  <2> QED BY <1>1, <1>3, <2>1, <2>2, PushQuiet DEF Recovering, Unfound
<1>5. CASE \/ \E i \in Inputs : BeginPush(k, i)
           \/ Refused(k) \/ ReleaseFails(k) \/ FailsWithProduct(k)
  <2>1. DocumentMove(k) /\ UNCHANGED cost
    BY <1>5 DEF BeginPush, Refused, ReleaseFails, FailsWithProduct, DocumentMove
  <2>2. PICK x : Become(k, x) /\ x.pc \in {"idle", "claim", "release"} /\ x.intent = None
    <3>1. ASSUME NEW i \in Inputs, BeginPush(k, i)
          PROVE  \E x : Become(k, x) /\ x.pc = "claim" /\ x.intent = None
      <4> DEFINE y == [Idle EXCEPT !.pc = "claim", !.approved = i]
      <4>1. y.pc = "claim" /\ y.intent = None
        BY DEF Idle
      <4>2. Become(k, y)
        BY <3>1 DEF BeginPush
      <4> QED BY <4>1, <4>2
    <3>2. ASSUME Refused(k)
          PROVE  \E x : Become(k, x) /\ x.pc = "release" /\ x.intent = None
      <4> DEFINE y == [Idle EXCEPT !.pc = "release"]
      <4>1. y.pc = "release" /\ y.intent = None
        BY DEF Idle
      <4>2. Become(k, y)
        BY <3>2 DEF Refused
      <4> QED BY <4>1, <4>2
    <3>3. ASSUME ReleaseFails(k) \/ FailsWithProduct(k) PROVE Become(k, Idle)
      BY <3>3 DEF ReleaseFails, FailsWithProduct, Finish
    <3> QED BY <1>2, <1>5, <3>1, <3>2, <3>3
  <2> QED BY <1>1, <1>3, <2>1, <2>2, PushQuiet DEF Recovering, Unfound
<1>6. CASE Search(k)
  <2>1. DocumentMove(k) /\ UNCHANGED <<cost, doc>>
    BY <1>6 DEF Search, FindByResearchTag, DocumentMove
  <2>2. Made \subseteq indexed /\ \A d \in Draft : late[d] = 0
    BY <1>6 DEF Search, FindByResearchTag, Prompt, Settled
  <2>3. indexed = {} => Nothing
    <3>1. Waiting = {}
      BY <2>2 DEF Waiting
    <3> QED BY <2>2, <3>1 DEF Nothing
  <2>4. PICK x : /\ Become(k, x) /\ x.intent \in {None, call[k].intent}
                 /\ \/ x.pc = "prepare" /\ indexed = {}
                    \/ x.pc = "loadIntent" /\ indexed # {}
    <3>1. CASE indexed = {} /\ Goto(k, "prepare")
      BY <1>0, <3>1 DEF Goto, CallState
    <3>2. ASSUME NEW p \in indexed,
                 Become(k, [Idle EXCEPT !.pc = "loadIntent", !.product = p,
                                        !.exposed = p \in visible])
          PROVE  \E x : Become(k, x) /\ x.intent = None /\ x.pc = "loadIntent"
      <4> DEFINE y == [Idle EXCEPT !.pc = "loadIntent", !.product = p,
                                   !.exposed = p \in visible]
      <4>1. y.intent = None /\ y.pc = "loadIntent"
        BY DEF Idle
      <4> QED BY <3>2, <4>1
    <3> QED BY <1>6, <3>1, <3>2 DEF Search, FindByResearchTag
  <2> QED BY <1>1, <1>3, <2>1, <2>3, <2>4, PushQuiet DEF Recovering, Unfound
<1>7. CASE Prepare(k)
  <2>1. DocumentMove(k) /\ UNCHANGED <<cost, doc>> /\ call[k].pc = "prepare"
    BY <1>7 DEF Prepare, DocumentMove, At
  <2>2. PICK x : Become(k, x) /\ x.pc = "intent" /\ x.intent = call[k].intent
    <3> DEFINE y == [call[k] EXCEPT !.pc = "intent", !.read = Reads]
    <3>1. y.pc = "intent" /\ y.intent = call[k].intent
      BY <1>0 DEF CallState
    <3>2. Become(k, y)
      BY <1>7 DEF Prepare
    <3> QED BY <3>1, <3>2
  <2> QED BY <1>1, <1>3, <2>1, <2>2, PushQuiet DEF Recovering, Unfound
<1>8. CASE Release(k) \/ MarkSucceeded(k) \/ MarkSafetyIncident(k)
  <2>1. UNCHANGED cost /\ Become(k, Idle)
    BY <1>8 DEF Release, MarkSucceeded, MarkSafetyIncident, Finish
  <2>2. DocumentMove(k)
    <3>1. call[k].pc \in {"mark", "incident"} => call[k].product \in Products
      BY <1>0 DEF WellFormed, AfterProduct, Recovering
    <3> QED BY <1>8, <3>1 DEF Release, MarkSucceeded, MarkSafetyIncident, DocumentMove, At
  <2> QED BY <1>1, <1>2, <1>3, <2>1, <2>2, PushQuiet DEF Recovering, Unfound
<1>9. CASE Persist(k)
  <2>1. DocumentMove(k) /\ UNCHANGED cost
    BY <1>0, <1>9 DEF Persist, DocumentMove, At, WellFormed, Holding
  <2>2. PICK x : Become(k, x) /\ x.pc \in {"idle", "mark"} /\ x.intent \in {None, call[k].intent}
    <3> DEFINE y == [call[k] EXCEPT !.pc = "mark", !.read = None]
    <3>1. y.pc = "mark" /\ y.intent = call[k].intent
      BY <1>0 DEF CallState
    <3>2. Become(k, y) \/ Become(k, Idle)
      BY <1>9 DEF Persist, Finish
    <3> QED BY <1>2, <3>1, <3>2
  <2> QED BY <1>1, <1>3, <2>1, <2>2, PushQuiet DEF Recovering, Unfound
<1>10. CASE LoadIntent(k)
  <2>1. DocumentMove(k) /\ UNCHANGED cost /\ call[k].pc \in Recovering
    BY <1>10 DEF LoadIntent, DocumentMove, At, Recovering
  <2>2. PICK x : Become(k, x) /\ x.pc \in {"hide", "restore"} /\ x.intent = doc.intent
    <3> DEFINE y == [call[k] EXCEPT !.intent = doc.intent,
                        !.pc = IF call[k].exposed THEN "hide" ELSE "restore"]
    <3>1. y.pc \in {"hide", "restore"} /\ y.intent = doc.intent
      BY <1>0 DEF CallState
    <3>2. Become(k, y)
      BY <1>10 DEF LoadIntent
    <3> QED BY <3>1, <3>2
  <2> QED BY <1>1, <1>3, <2>1, <2>2, PushQuiet DEF Unfound
<1>11. CASE ForceHidden(k)
  <2>1. DocumentMove(k) /\ UNCHANGED cost /\ call[k].pc \in Recovering
    BY <1>11 DEF ForceHidden, DocumentMove, At, Recovering
  <2>2. PICK x : Become(k, x) /\ x.pc = "restore" /\ x.intent = call[k].intent
    <3>1. ASSUME NEW exposed \in BOOLEAN,
                 Become(k, [call[k] EXCEPT !.pc = "restore", !.exposed = exposed])
          PROVE  \E x : Become(k, x) /\ x.pc = "restore" /\ x.intent = call[k].intent
      <4> DEFINE y == [call[k] EXCEPT !.pc = "restore", !.exposed = exposed]
      <4>1. y.pc = "restore" /\ y.intent = call[k].intent
        BY <1>0 DEF CallState
      <4> QED BY <3>1, <4>1
    <3>2. ASSUME Goto(k, "restore")
          PROVE  \E x : Become(k, x) /\ x.pc = "restore" /\ x.intent = call[k].intent
      <4> DEFINE y == [call[k] EXCEPT !.pc = "restore"]
      <4>1. y.pc = "restore" /\ y.intent = call[k].intent
        BY <1>0 DEF CallState
      <4> QED BY <3>2, <4>1 DEF Goto
    <3> QED BY <1>11, <3>1, <3>2 DEF ForceHidden
  <2> QED BY <1>1, <1>3, <2>1, <2>2, PushQuiet DEF Unfound
<1>12. CASE RecordCost(k)
  <2>1. DocumentMove(k) /\ call[k].pc = "cost"
    BY <1>12 DEF RecordCost, DocumentMove, At
  <2>2. PICK x : Become(k, x) /\ x.pc = "persist" /\ x.intent = call[k].intent
    BY <1>0, <1>12 DEF RecordCost, Goto, CallState
  <2>3. draft[call[k].product].inputs = call[k].read.inputs
    BY <1>0, <2>1 DEF WellFormed
  <2>4. \A p \in Made : cost'[p] \in {None, cost[p], draft[p].inputs}
    BY <1>0, <1>12, <2>3 DEF RecordCost, Made
  <2> QED BY <1>1, <2>1, <2>2, <2>4, PushQuiet DEF Recovering, Unfound
<1>13. CASE RestoreCost(k)
  <2>1. DocumentMove(k) /\ call[k].pc = "restore"
    BY <1>13 DEF RestoreCost, DocumentMove, At
  <2>2. PICK x : Become(k, x) /\ x.pc \in {"incident", "mark"} /\ x.intent = None
    <3> DEFINE y == [call[k] EXCEPT !.intent = None,
                        !.pc = IF call[k].exposed THEN "incident" ELSE "mark"]
    <3>1. y.pc \in {"incident", "mark"} /\ y.intent = None
      BY <1>0 DEF CallState
    <3>2. Become(k, y)
      BY <1>13 DEF RestoreCost
    <3> QED BY <3>1, <3>2
  <2>3. call[k].intent # None => \A p \in Made : call[k].intent = draft[p].inputs
    BY DEF PromptInv, IntentHolds
  <2>4. \A p \in Made : cost'[p] \in {None, cost[p], draft[p].inputs}
    BY <1>0, <1>13, <2>3 DEF RestoreCost, Made
  <2>5. call[k].pc \in Recovering
    BY <2>1 DEF Recovering
  <2> QED BY <1>1, <2>1, <2>2, <2>4, <2>5, PushQuiet DEF Unfound
<1> QED BY <1>4, <1>5, <1>6, <1>7, <1>8, <1>9, <1>10, <1>11, <1>12, <1>13

\* Once more after the decision is frozen, the search finds everything there is.
LEMMA SearchAgainKeeps ==
    ASSUME PushBounds, Prompt, IInv, IInv', PromptInv, NEW k \in Operations, SearchAgain(k)
    PROVE  PromptInv'
<1>0. /\ call[k] \in CallState /\ indexed \subseteq Made /\ call[k].pc = "searchAgain"
      /\ \A j \in Operations : j \in Calls
      /\ call \in [Calls -> CallState]
  BY AtWork DEF IInv, TypeOK, ProductsOK, SearchAgain, At, Calls
<1>1. /\ UNCHANGED <<doc, draft, late, lost, indexed, cost>>
      /\ Made \subseteq indexed /\ \A d \in Draft : late[d] = 0
  BY DEF SearchAgain, FindByResearchTag, shopify, counters, Prompt, Settled
<1>2. indexed = {} => Nothing
  <2>1. Waiting = {}
    BY <1>1 DEF Waiting
  <2> QED BY <1>1, <2>1 DEF Nothing
<1>3. PICK x : /\ Become(k, x) /\ x.intent \in {None, call[k].intent}
               /\ \/ x.pc = "create" /\ indexed = {} /\ x.read = call[k].read
                  \/ x.pc = "loadIntent" /\ indexed # {}
  <2>1. CASE indexed = {} /\ Goto(k, "create")
    <3> DEFINE y == [call[k] EXCEPT !.pc = "create"]
    <3>1. y.pc = "create" /\ y.intent = call[k].intent /\ y.read = call[k].read
      BY <1>0 DEF CallState
    <3> QED BY <2>1, <3>1 DEF Goto
  <2>2. ASSUME NEW p \in indexed,
               Become(k, [Idle EXCEPT !.pc = "loadIntent", !.product = p,
                                      !.exposed = p \in visible])
        PROVE  \E x : Become(k, x) /\ x.intent = None /\ x.pc = "loadIntent"
    <3> DEFINE y == [Idle EXCEPT !.pc = "loadIntent", !.product = p,
                                 !.exposed = p \in visible]
    <3>1. y.intent = None /\ y.pc = "loadIntent"
      BY DEF Idle
    <3> QED BY <2>2, <3>1
  <2> QED BY <2>1, <2>2 DEF SearchAgain, FindByResearchTag
<1>4. /\ call'[k] = x /\ \A j \in Operations : j # k => call'[j] = call[j]
  BY <1>0, <1>3 DEF Become
<1>5. Creating(k)
  BY <1>0 DEF Creating
<1>6. ASSUME NEW j \in Operations
      PROVE  /\ call'[j].pc \in Recovering => call[j].pc \in Recovering \/ indexed' # {}
             /\ Creating(j)' => \/ Owns(doc', j) /\ doc'.claim = "live"
                                \/ indexed' # {}
             /\ At(j, "create")' => At(j, "create") \/ (Nothing /\ Creating(j))
             /\ call'[j].pc \in Unfound /\ Owns(doc', j) =>
                   Nothing \/ (call[j].pc \in Unfound /\ Owns(doc, j))
             /\ call'[j].intent \in {None, call[j].intent, doc'.intent}
             /\ Creating(j)' => call'[j].read.inputs = doc'.intent
  <2>1. Creating(j) => \/ Owns(doc, j) /\ doc.claim = "live"
                       \/ indexed # {}
    BY DEF PromptInv, CreatorsOwn
  <2>2. Creating(j) => call[j].read.inputs = doc.intent
    BY DEF PromptInv, IntentHolds
  <2>3. CASE j = k
    BY <1>1, <1>2, <1>3, <1>4, <1>5, <2>1, <2>2, <2>3 DEF At, Creating, Recovering, Unfound
  <2>4. CASE j # k
    BY <1>1, <1>4, <2>1, <2>2, <2>4 DEF At, Creating
  <2> QED BY <2>3, <2>4
<1>7. \A p \in Made : cost'[p] \in {None, cost[p], draft[p].inputs}
  BY <1>1
<1> QED BY <1>1, <1>6, <1>7, QuietKeeps

\* The decision is only frozen when nothing was made and nobody else creates.
LEMMA RecordIntentKeeps ==
    ASSUME PushBounds, IInv, IInv', PromptInv, NEW k \in Operations, RecordIntent(k)
    PROVE  PromptInv'
<1>0. /\ call[k] \in CallState /\ WellFormed(call[k], draft) /\ call[k].pc = "intent"
      /\ indexed \subseteq Made /\ call \in [Calls -> CallState] /\ doc \in Document
      /\ \A j \in Operations : j \in Calls
  BY AtWork DEF IInv, TypeOK, ProductsOK, RecordIntent, At, Calls
<1>1. UNCHANGED <<draft, late, lost, indexed, cost>>
  BY DEF RecordIntent, shopify, counters
<1>2. CASE ~CanRecordIntent(doc, k)
  <2>1. UNCHANGED doc
    BY <1>2 DEF RecordIntent
  <2>2. PICK x : Become(k, x) /\ x.pc = "release" /\ x.intent = None
    <3> DEFINE y == [Idle EXCEPT !.pc = "release"]
    <3>1. y.pc = "release" /\ y.intent = None
      BY DEF Idle
    <3> QED BY <1>2, <3>1 DEF RecordIntent
  <2>3. DocumentMove(k)
    BY <2>1 DEF DocumentMove
  <2> QED BY <1>1, <2>1, <2>2, <2>3, PushQuiet DEF Recovering, Unfound
<1>3. CASE CanRecordIntent(doc, k)
  <2>1. /\ doc' = IntentRecorded(doc, call[k].read.inputs) /\ Goto(k, "searchAgain")
        /\ Owns(doc, k)
    BY <1>3 DEF RecordIntent, CanRecordIntent
  <2>2. Nothing /\ indexed = {}
    BY <1>0, <2>1 DEF PromptInv, SearchHolds, Nothing
  <2>3. /\ doc'.intent = call[k].read.inputs /\ doc'.push = doc.push
        /\ doc'.owner = doc.owner /\ doc'.claim = "live"
    BY <1>0, <2>1 DEF IntentRecorded, Document
  <2>4. PICK x : /\ Become(k, x) /\ x.pc = "searchAgain" /\ x.intent = call[k].intent
                 /\ x.read = call[k].read
    <3> DEFINE y == [call[k] EXCEPT !.pc = "searchAgain"]
    <3>1. y.pc = "searchAgain" /\ y.intent = call[k].intent /\ y.read = call[k].read
      BY <1>0 DEF CallState
    <3> QED BY <2>1, <3>1 DEF Goto
  <2>5. /\ call'[k] = x /\ \A j \in Operations : j # k => call'[j] = call[j]
    BY <1>0, <2>4 DEF Become
  <2>6. ASSUME NEW j \in Operations
        PROVE  /\ call'[j].pc \in Recovering => call[j].pc \in Recovering \/ indexed' # {}
               /\ Creating(j)' => \/ Owns(doc', j) /\ doc'.claim = "live"
                                  \/ indexed' # {}
               /\ At(j, "create")' => At(j, "create") \/ (Nothing /\ Creating(j))
               /\ call'[j].intent \in {None, call[j].intent, doc'.intent}
               /\ Creating(j)' => call'[j].read.inputs = doc'.intent
    <3>1. CASE j = k
      BY <2>1, <2>3, <2>4, <2>5, <3>1 DEF At, Creating, Recovering, Owns
    <3>2. CASE j # k
      <4>1. ~Creating(j)
        BY <2>1, <2>2, <3>2 DEF PromptInv, CreatorsOwn, Owns
      <4> QED BY <2>5, <3>2, <4>1 DEF At, Creating
    <3> QED BY <3>1, <3>2
  <2>7. \A p \in Made : cost'[p] \in {None, cost[p], draft[p].inputs}
    BY <1>1
  <2> QED BY <1>1, <2>2, <2>6, <2>7, QuietKeeps
<1> QED BY <1>2, <1>3

\* The decision a push may create from is the frozen one, and nobody else that
\* holds the claim still believes that nothing was made.
LEMMA CreatorsKnow ==
    ASSUME IInv, PromptInv, NEW k \in Operations, call[k].pc = "create"
    PROVE  /\ Request(k).inputs = doc.intent /\ Request(k).approved = doc.intent
           /\ \A j \in Operations : call[j].pc \in Unfound => ~Owns(doc, j)
<1>1. Creating(k)
  BY DEF Creating
<1>2. Request(k).inputs = doc.intent /\ Request(k).approved = doc.intent
  BY <1>1, RequestIsADraft DEF PromptInv, IntentHolds
<1>3. CASE Owns(doc, k)
  BY <1>2, <1>3 DEF Owns, Unfound
<1>4. CASE indexed # {}
  <2>1. ~Nothing
    BY <1>4 DEF IInv, ProductsOK, Nothing
  <2> QED BY <1>2, <2>1 DEF PromptInv, SearchHolds, Unfound
<1> QED BY <1>1, <1>3, <1>4 DEF PromptInv, CreatorsOwn

\* A product is made of the frozen decision, or a request for it is on its way.
LEMMA MakingHolds ==
    ASSUME PushBounds, IInv, IInv', PromptInv, UNCHANGED <<doc, indexed, cost>>,
           \A j \in Operations :
               \/ call'[j] = call[j]
               \/ call'[j].pc \in {"cost", "release"} /\ call'[j].intent = None,
           \A j \in Operations : call[j].pc \in Unfound => ~Owns(doc, j),
           Paid',
           \A p \in Made' :
               \/ p \in Made /\ draft'[p] = draft[p]
               \/ /\ p \in Products \ Made
                  /\ draft'[p].inputs = doc.intent /\ draft'[p].approved = doc.intent,
           \A d \in Draft : late'[d] > 0 =>
               late[d] > 0 \/ (d.inputs = doc.intent /\ d.approved = doc.intent)
    PROVE  PromptInv'
<1>1. CreatorsOwn' /\ FoundSomething' /\ OneCreator' /\ SearchHolds'
  <2>1. ASSUME NEW j \in Operations
        PROVE  /\ call'[j].pc \in Recovering => call[j].pc \in Recovering
               /\ Creating(j)' => Creating(j)
               /\ At(j, "create")' => At(j, "create")
               /\ call'[j].pc \in Unfound => call[j].pc \in Unfound
    BY DEF Recovering, Creating, At, Unfound
  <2>2. CreatorsOwn'
    BY <2>1 DEF PromptInv, CreatorsOwn
  <2>3. FoundSomething'
    BY <2>1 DEF PromptInv, FoundSomething
  <2>4. OneCreator'
    BY <2>1 DEF PromptInv, OneCreator
  <2>5. SearchHolds'
    BY <2>1 DEF SearchHolds, Unfound
  <2> QED BY <2>2, <2>3, <2>4, <2>5
<1>2. IntentHolds'
  <2>1. ASSUME NEW j \in Operations
        PROVE  /\ Creating(j)' => call'[j].read.inputs = doc.intent
               /\ call'[j].intent \in {None, doc.intent}
    BY DEF PromptInv, IntentHolds, Creating
  <2>2. \A p \in Made' : draft'[p].inputs = doc.intent
    BY DEF PromptInv, IntentHolds
  <2>3. \A d \in Draft : late'[d] > 0 => d.inputs = doc.intent
    BY DEF PromptInv, IntentHolds
  <2> QED BY <2>1, <2>2, <2>3 DEF IntentHolds
<1>3. Approved'
  <2>1. ASSUME NEW p \in Made'
        PROVE  /\ draft'[p].inputs = draft'[p].approved
               /\ cost'[p] \in {None, draft'[p].inputs}
    <3>1. CASE p \in Made /\ draft'[p] = draft[p]
      BY <3>1 DEF PromptInv, Approved, DraftsCarryTheirDecision
    <3>2. CASE /\ p \in Products \ Made
               /\ draft'[p].inputs = doc.intent /\ draft'[p].approved = doc.intent
      BY <3>2 DEF IInv, ProductsOK, Made
    <3> QED BY <2>1, <3>1, <3>2
  <2>2. \A d \in Draft : late'[d] > 0 => d.inputs = d.approved
    BY DEF PromptInv, Approved
  <2> QED BY <2>1, <2>2 DEF Approved, DraftsCarryTheirDecision
<1> QED BY <1>1, <1>2, <1>3 DEF PromptInv

\* One more product, one more request on its way, and one carried out.
LEMMA MadeCounts ==
    ASSUME PushBounds, IInv, Paid, NEW p \in Products, NEW d \in Draft, MakeProduct(p, d)
    PROVE  /\ IsFiniteSet(Made') /\ Cardinality(Made') = Cardinality(Made) + 1
           /\ \A q \in Made' : \/ q \in Made /\ draft'[q] = draft[q]
                               \/ q \in Products \ Made /\ draft'[q] = d
<1>1. Made' = Made \cup {p} /\ p \notin Made /\ draft'[p] = d /\ DraftsStay
  BY MakingKeeps
<1>2. IsFiniteSet(Made') /\ Cardinality(Made') = Cardinality(Made) + 1
  BY <1>1, FS_AddElement DEF Paid
<1> QED BY <1>1, <1>2 DEF DraftsStay

LEMMA WaitingGrows ==
    ASSUME PushBounds, IInv, Paid, NEW d \in Draft, late' = [late EXCEPT ![d] = @ + 1]
    PROVE  IsFiniteSet(Waiting') /\ Cardinality(Waiting') = Cardinality(Waiting) + 1
<1>1. late \in [Draft -> Nat]
  BY DEF IInv, TypeOK, PushBounds
<1>2. \A e \in Draft : late'[e] = IF e = d THEN late[d] + 1 ELSE late[e]
  BY <1>1
<1>3. PICK t : t = <<d, late[d] + 1>>
  OBVIOUS
<1>4. t \notin Waiting
  BY <1>1, <1>3 DEF Waiting
<1>5. Waiting' = Waiting \cup {t}
  <2>1. ASSUME NEW e \in Draft, NEW n \in Nat
        PROVE  n \in 1..late'[e] <=> n \in 1..late[e] \/ (e = d /\ n = late[d] + 1)
    BY <1>1, <1>2
  <2>2. t \in Draft \X Nat /\ t[1] = d /\ t[2] = late[d] + 1
    BY <1>1, <1>3
  <2>3. ASSUME NEW u \in Draft \X Nat PROVE u \in Waiting' <=> u \in Waiting \/ u = t
    <3>1. u = <<u[1], u[2]>> /\ u[1] \in Draft /\ u[2] \in Nat
      OBVIOUS
    <3> QED BY <1>3, <2>1, <2>2, <3>1 DEF Waiting
  <2> QED BY <2>2, <2>3 DEF Waiting
<1> QED BY <1>4, <1>5, FS_AddElement DEF Paid

LEMMA WaitingShrinks ==
    ASSUME PushBounds, IInv, Paid, NEW d \in Draft, late[d] > 0,
           late' = [late EXCEPT ![d] = @ - 1]
    PROVE  /\ IsFiniteSet(Waiting') /\ Cardinality(Waiting') = Cardinality(Waiting) - 1
           /\ Waiting # {}
<1>1. late \in [Draft -> Nat]
  BY DEF IInv, TypeOK, PushBounds
<1>2. \A e \in Draft : late'[e] = IF e = d THEN late[d] - 1 ELSE late[e]
  BY <1>1
<1>3. PICK t : t = <<d, late[d]>>
  OBVIOUS
<1>4. t \in Waiting
  BY <1>1, <1>3 DEF Waiting
<1>5. Waiting' = Waiting \ {t}
  <2>1. ASSUME NEW e \in Draft, NEW n \in Nat
        PROVE  n \in 1..late'[e] <=> n \in 1..late[e] /\ ~(e = d /\ n = late[d])
    BY <1>1, <1>2
  <2>2. t \in Draft \X Nat /\ t[1] = d /\ t[2] = late[d]
    BY <1>1, <1>3
  <2>3. ASSUME NEW u \in Draft \X Nat PROVE u \in Waiting' <=> u \in Waiting /\ u # t
    <3>1. u = <<u[1], u[2]>> /\ u[1] \in Draft /\ u[2] \in Nat
      OBVIOUS
    <3> QED BY <1>3, <2>1, <2>2, <3>1 DEF Waiting
  <2> QED BY <2>2, <2>3 DEF Waiting
<1> QED BY <1>4, <1>5, FS_RemoveElement DEF Paid

\* productCreate, with and without an answer.
LEMMA CreatingCarries ==
    ASSUME PushBounds, IInv, IInv', PromptInv, NEW k \in Operations,
           CreateProduct(k) \/ CreateUncertain(k)
    PROVE  PromptInv'
<1>0. /\ call[k] \in CallState /\ WellFormed(call[k], draft) /\ call[k].pc = "create"
      /\ call \in [Calls -> CallState] /\ Request(k) \in Draft /\ k \in Calls
      /\ \A j \in Operations : j \in Calls
  BY AtWork, RequestIsADraft DEF IInv, TypeOK, CreateProduct, CreateUncertain, At, Calls
<1>1. /\ UNCHANGED <<doc, indexed, cost>> /\ Paid /\ lost \in Nat
      /\ Cardinality(Made) \in Nat /\ Cardinality(Waiting) \in Nat
      /\ IsFiniteSet(Made) /\ IsFiniteSet(Waiting)
  <2>1. Paid /\ IsFiniteSet(Made) /\ IsFiniteSet(Waiting) /\ lost \in Nat
    BY DEF PromptInv, Paid, IInv, TypeOK
  <2>2. UNCHANGED <<doc, indexed, cost>>
    BY DEF CreateProduct, CreateUncertain, counters
  <2> QED BY <2>1, <2>2, FS_CardinalityType
<1>2. Cardinality(Made) + Cardinality(Waiting) <= lost
  BY <1>0, <1>1 DEF Paid, At
<1>3. /\ Request(k).inputs = doc.intent /\ Request(k).approved = doc.intent
      /\ \A j \in Operations : call[j].pc \in Unfound => ~Owns(doc, j)
  BY <1>0, CreatorsKnow
<1>4. /\ \A j \in Operations :
            \/ call'[j] = call[j]
            \/ call'[j].pc \in {"cost", "release"} /\ call'[j].intent = None
      /\ CreateProduct(k) => \A j \in Operations : ~At(j, "create")'
  <2>1. PICK x : /\ call' = call \/ (Become(k, x) /\ x.intent = None)
                 /\ x.pc \in {"cost", "release"}
                 /\ CreateProduct(k) => Become(k, x)
    <3>1. ASSUME CreateProduct(k)
          PROVE  \E x : Become(k, x) /\ x.pc = "cost" /\ x.intent = None
      <4>1. PICK p \in Products :
                Become(k, [call[k] EXCEPT !.pc = "cost", !.product = p, !.approved = None])
        BY <3>1 DEF CreateProduct
      <4> DEFINE y == [call[k] EXCEPT !.pc = "cost", !.product = p, !.approved = None]
      <4>2. y.pc = "cost" /\ y.intent = call[k].intent
        BY <1>0 DEF CallState
      <4>3. call[k].intent = None
        BY <1>0 DEF WellFormed
      <4> QED BY <4>1, <4>2, <4>3
    <3>2. ASSUME ~CreateProduct(k)
          PROVE  \E x : /\ call' = call \/ (Become(k, x) /\ x.intent = None)
                        /\ x.pc = "release"
      <4> DEFINE y == [Idle EXCEPT !.pc = "release"]
      <4>1. y.pc = "release" /\ y.intent = None
        BY DEF Idle
      <4> QED BY <3>2, <4>1 DEF CreateUncertain, Become
    <3> QED BY <3>1, <3>2
  <2>2. Become(k, x) => call'[k] = x /\ \A j \in Operations : j # k => call'[j] = call[j]
    BY <1>0 DEF Become
  <2>3. \A j \in Operations : At(j, "create") => j = k
    BY <1>0 DEF PromptInv, OneCreator, At
  <2> QED BY <2>1, <2>2, <2>3 DEF At
<1>5. ASSUME NEW p \in Products, MakeProduct(p, Request(k)), UNCHANGED late
      PROVE  /\ IsFiniteSet(Made') /\ IsFiniteSet(Waiting')
             /\ Cardinality(Made') + Cardinality(Waiting') <= lost + 1
             /\ \A q \in Made' : \/ q \in Made /\ draft'[q] = draft[q]
                                 \/ q \in Products \ Made /\ draft'[q] = Request(k)
  <2>1. Waiting' = Waiting
    BY <1>5 DEF Waiting
  <2> QED BY <1>0, <1>1, <1>2, <1>5, <2>1, MadeCounts
<1>6. CASE CreateProduct(k)
  <2>1. PICK p \in Products : MakeProduct(p, Request(k)) /\ UNCHANGED <<late, lost>>
    BY <1>6 DEF CreateProduct, counters
  <2>2. Paid'
    BY <1>4, <1>5, <1>6, <2>1 DEF Paid
  <2>3. \A q \in Made' :
            \/ q \in Made /\ draft'[q] = draft[q]
            \/ /\ q \in Products \ Made
               /\ draft'[q].inputs = doc.intent /\ draft'[q].approved = doc.intent
    BY <1>3, <1>5, <2>1
  <2> QED BY <1>1, <1>3, <1>4, <2>1, <2>2, <2>3, MakingHolds
<1>7. CASE CreateUncertain(k)
  <2>1. lost' = lost + 1
    BY <1>7 DEF CreateUncertain
  <2>2. CASE \E p \in Products : MakeProduct(p, Request(k)) /\ UNCHANGED late
    <3>1. PICK p \in Products : MakeProduct(p, Request(k)) /\ UNCHANGED late
      BY <2>2
    <3>2. Paid'
      BY <1>1, <1>5, <2>1, <3>1, FS_CardinalityType DEF Paid
    <3>3. \A q \in Made' :
              \/ q \in Made /\ draft'[q] = draft[q]
              \/ /\ q \in Products \ Made
                 /\ draft'[q].inputs = doc.intent /\ draft'[q].approved = doc.intent
      BY <1>3, <1>5, <3>1
    <3> QED BY <1>1, <1>3, <1>4, <3>1, <3>2, <3>3, MakingHolds
  <2>3. CASE late' = [late EXCEPT ![Request(k)] = @ + 1] /\ UNCHANGED draft
    <3>1. IsFiniteSet(Waiting') /\ Cardinality(Waiting') = Cardinality(Waiting) + 1
      BY <1>0, <1>1, <2>3, WaitingGrows
    <3>2. Made' = Made
      BY <2>3 DEF Made
    <3>3. Paid'
      BY <1>1, <1>2, <2>1, <3>1, <3>2 DEF Paid
    <3>4. \A d \in Draft : late'[d] > 0 =>
              late[d] > 0 \/ (d.inputs = doc.intent /\ d.approved = doc.intent)
      BY <1>0, <1>3, <2>3 DEF IInv, TypeOK
    <3>5. \A q \in Made' : q \in Made /\ draft'[q] = draft[q]
      BY <2>3, <3>2
    <3> QED BY <1>1, <1>3, <1>4, <3>3, <3>4, <3>5, MakingHolds
  <2> QED BY <1>7, <2>2, <2>3 DEF CreateUncertain
<1> QED BY <1>6, <1>7

\* A request without an answer is carried out.
LEMMA LateCarries ==
    ASSUME PushBounds, IInv, IInv', PromptInv, NEW d \in Draft, LateCreate(d)
    PROVE  PromptInv'
<1>1. /\ UNCHANGED <<doc, call, indexed, cost, lost>> /\ Paid /\ lost \in Nat
      /\ late[d] > 0 /\ late' = [late EXCEPT ![d] = @ - 1]
      /\ Cardinality(Made) \in Nat /\ Cardinality(Waiting) \in Nat
  BY FS_CardinalityType DEF LateCreate, counters, PromptInv, Paid, IInv, TypeOK
<1>2. PICK p \in Products : MakeProduct(p, d)
  BY DEF LateCreate
<1>3. /\ IsFiniteSet(Waiting') /\ Cardinality(Waiting') = Cardinality(Waiting) - 1
      /\ Waiting # {}
  BY <1>1, WaitingShrinks
<1>4. /\ IsFiniteSet(Made') /\ Cardinality(Made') = Cardinality(Made) + 1
      /\ \A q \in Made' : \/ q \in Made /\ draft'[q] = draft[q]
                          \/ q \in Products \ Made /\ draft'[q] = d
  BY <1>1, <1>2, MadeCounts
<1>5. Paid'
  BY <1>1, <1>3, <1>4 DEF Paid, At
<1>6. \A j \in Operations : call[j].pc \in Unfound => ~Owns(doc, j)
  BY <1>3 DEF PromptInv, SearchHolds, Nothing, Unfound
<1>7. d.inputs = doc.intent /\ d.approved = doc.intent
  BY <1>1 DEF PromptInv, IntentHolds, Approved
<1>8. \A e \in Draft : late'[e] > 0 => late[e] > 0
  BY <1>1 DEF IInv, TypeOK
<1>9. \A q \in Made' :
          \/ q \in Made /\ draft'[q] = draft[q]
          \/ /\ q \in Products \ Made
             /\ draft'[q].inputs = doc.intent /\ draft'[q].approved = doc.intent
  BY <1>4, <1>7
<1> QED BY <1>1, <1>5, <1>6, <1>8, <1>9, MakingHolds

\* Clocks, crashes, Shopify's index and the requests beside the pushes.
LEMMA RestKeeps ==
    ASSUME PushBounds, Prompt, IInv, IInv', PromptInv,
           \/ LeaseExpires \/ Crash \/ UNCHANGED vars
           \/ \E p \in Products : IndexProduct(p) \/ PublishProduct(p)
           \/ \E k \in Editors :
                 \/ EditorStep(k) \/ BeginAnalysis(k)
                 \/ \E i \in Inputs : BeginEdit(k, i)
                 \/ \E status \in Decisions : BeginDecision(k, status)
    PROVE  PromptInv'
<1>1. /\ UNCHANGED <<draft, late, lost, cost>> /\ indexed \subseteq indexed'
      /\ doc'.intent = doc.intent /\ doc'.push = doc.push /\ doc'.owner = doc.owner
      /\ doc'.claim # doc.claim => \A j \in Operations : Owns(doc, j) => ~Creating(j)
  <2>1. CASE LeaseExpires
    <3>1. doc' = [doc EXCEPT !.claim = "expired"] /\ ~Creating(doc.owner)
      BY <2>1 DEF LeaseExpires, Prompt, Creating
    <3> QED BY <2>1, <3>1 DEF LeaseExpires, shopify, counters, IInv, TypeOK, Document, Owns
  <2>2. CASE Crash \/ UNCHANGED vars \/ \E p \in Products : IndexProduct(p) \/ PublishProduct(p)
    BY <2>2 DEF Crash, Fault, vars, shopify, counters, IndexProduct, PublishProduct
  <2>3. ASSUME NEW k \in Editors,
               \/ EditorStep(k) \/ BeginAnalysis(k)
               \/ \E i \in Inputs : BeginEdit(k, i)
               \/ \E status \in Decisions : BeginDecision(k, status)
        PROVE  /\ UNCHANGED <<draft, late, lost, cost, indexed>>
               /\ doc'.intent = doc.intent /\ doc'.push = doc.push
               /\ doc'.owner = doc.owner /\ doc'.claim = doc.claim
    <3>1. UNCHANGED <<draft, late, lost, cost, indexed>>
      BY <2>3 DEF EditorStep, UpdateCandidate, PersistAnalysis, SetCandidateStatus,
         BeginAnalysis, BeginEdit, BeginDecision, Asked, shopify, counters
    <3> QED BY <2>3, <3>1, EditorsLeaveThePush
  <2> QED BY <2>1, <2>2, <2>3
<1>2. ASSUME NEW j \in Operations PROVE call'[j] = call[j] \/ call'[j] = Idle
  <2>1. CASE \/ LeaseExpires \/ UNCHANGED vars
             \/ \E p \in Products : IndexProduct(p) \/ PublishProduct(p)
    BY <2>1 DEF LeaseExpires, vars, IndexProduct, PublishProduct
  <2>2. CASE Crash
    BY <2>2 DEF Crash, Calls
  <2>3. ASSUME NEW k \in Editors,
               \/ EditorStep(k) \/ BeginAnalysis(k)
               \/ \E i \in Inputs : BeginEdit(k, i)
               \/ \E status \in Decisions : BeginDecision(k, status)
        PROVE  call'[j] = call[j]
    <3>1. \E x : Become(k, x)
      BY <2>3 DEF EditorStep, UpdateCandidate, PersistAnalysis, SetCandidateStatus,
         BeginAnalysis, BeginEdit, BeginDecision, Finish
    <3>2. j # k
      BY <2>3 DEF PushBounds
    <3> QED BY <3>1, <3>2 DEF Become, IInv, TypeOK, Calls
  <2> QED BY <2>1, <2>2, <2>3
<1>3. Idle.pc = "idle" /\ Idle.intent = None
  BY DEF Idle
<1>4. ASSUME NEW j \in Operations
      PROVE  /\ call'[j].pc \in Recovering => call[j].pc \in Recovering \/ indexed' # {}
             /\ Creating(j)' => \/ Owns(doc', j) /\ doc'.claim = "live"
                                \/ indexed' # {}
             /\ At(j, "create")' => At(j, "create") \/ (Nothing /\ Creating(j))
             /\ call'[j].pc \in Unfound /\ Owns(doc', j) =>
                   Nothing \/ (call[j].pc \in Unfound /\ Owns(doc, j))
             /\ call'[j].intent \in {None, call[j].intent, doc'.intent}
             /\ Creating(j)' => call'[j].read.inputs = doc'.intent
  <2>1. CASE call'[j] = Idle
    BY <1>3, <2>1 DEF At, Creating, Recovering, Unfound
  <2>2. CASE call'[j] = call[j]
    <3>1. Creating(j) => (Owns(doc, j) /\ doc.claim = "live") \/ indexed # {}
      BY DEF PromptInv, CreatorsOwn
    <3>2. Creating(j) => (Owns(doc', j) /\ doc'.claim = "live") \/ indexed' # {}
      BY <1>1, <3>1 DEF Owns
    <3>3. Creating(j) => call[j].read.inputs = doc.intent
      BY DEF PromptInv, IntentHolds
    <3> QED BY <1>1, <2>2, <3>2, <3>3 DEF At, Creating, Owns
  <2> QED BY <1>2, <2>1, <2>2
<1>5. \A p \in Made : cost'[p] \in {None, cost[p], draft[p].inputs}
  BY <1>1
<1> QED BY <1>1, <1>4, <1>5, QuietKeeps

LEMMA InitPromptInv == ASSUME PushBounds PROVE Init => PromptInv
<1> SUFFICES ASSUME Init PROVE PromptInv
  OBVIOUS
<1>1. /\ \A k \in Operations : call[k] = Idle
      /\ Made = {} /\ \A d \in Draft : late[d] = 0
  BY DEF Init, Calls, Made
<1>2. Waiting = {}
  BY <1>1 DEF Waiting
<1>3. Paid
  BY <1>1, <1>2, FS_EmptySet DEF Init, Paid
<1>4. Idle.pc = "idle" /\ Idle.intent = None
  BY DEF Idle
<1>5. CreatorsOwn /\ FoundSomething /\ OneCreator /\ SearchHolds
  BY <1>1, <1>4 DEF CreatorsOwn, FoundSomething, OneCreator, SearchHolds, Creating, At,
     Recovering
<1>6. IntentHolds /\ Approved
  BY <1>1, <1>4 DEF IntentHolds, Approved, DraftsCarryTheirDecision, Creating
<1> QED BY <1>3, <1>5, <1>6 DEF PromptInv

LEMMA NextPromptInv ==
    ASSUME PushBounds, Prompt PROVE IInv /\ IInv' /\ PromptInv /\ [Next]_vars => PromptInv'
<1> SUFFICES ASSUME IInv, IInv', PromptInv, [Next]_vars PROVE PromptInv'
  OBVIOUS
<1>1. ASSUME NEW k \in Operations, PushStep(k) \/ \E i \in Inputs : BeginPush(k, i)
      PROVE  PromptInv'
  BY <1>1, PushStepsQuiet, SearchAgainKeeps, RecordIntentKeeps, CreatingCarries DEF PushStep
<1>2. ASSUME NEW d \in Draft, LateCreate(d) PROVE PromptInv'
  BY <1>2, LateCarries
<1>3. ASSUME \/ LeaseExpires \/ Crash \/ UNCHANGED vars
             \/ \E p \in Products : IndexProduct(p) \/ PublishProduct(p)
             \/ \E k \in Editors :
                   \/ EditorStep(k) \/ BeginAnalysis(k)
                   \/ \E i \in Inputs : BeginEdit(k, i)
                   \/ \E status \in Decisions : BeginDecision(k, status)
      PROVE  PromptInv'
  BY <1>3, RestKeeps
<1> QED BY <1>1, <1>2, <1>3, Zenon DEF Next

\* Claims, frozen decision and products agree in every state, where Shopify
\* settles before anybody looks (claimPush, recordIntent and findByResearchTag
\* of push.service.ts).
THEOREM AlwaysPromptInv == ASSUME PushBounds, Prompt PROVE Spec => []PromptInv
BY InitPromptInv, NextPromptInv, AlwaysIInv, PTL DEF Spec

LEMMA OneDraftFollows == IInv /\ PromptInv => OneDraft
<1> SUFFICES ASSUME IInv, PromptInv PROVE OneDraft
  OBVIOUS
<1>1. /\ IsFiniteSet(Made) /\ IsFiniteSet(Waiting) /\ lost \in Nat
      /\ Cardinality(Made) + Cardinality(Waiting) <= lost + 1
  <2>1. Paid /\ lost \in Nat
    BY DEF PromptInv, IInv, TypeOK
  <2>2. IsFiniteSet(Made) /\ IsFiniteSet(Waiting)
    BY <2>1 DEF Paid
  <2> QED BY <2>1, <2>2, FS_CardinalityType DEF Paid
<1> QED BY <1>1, FS_CardinalityType DEF OneDraft

LEMMA DraftsFollow == PromptInv => DraftsCarryTheirDecision
BY DEF PromptInv, Approved

\* However many pushes of a candidate run, crash, run out of their lease and
\* are retried: where Shopify settles before anybody looks, a second product
\* is only ever made by a productCreate whose answer was lost.
THEOREM OneCandidateOneDraft == ASSUME PushBounds, Prompt PROVE Spec => []OneDraft
BY OneDraftFollows, AlwaysIInv, AlwaysPromptInv, PTL

\* A draft, and its recorded cost, are those of the decision the operator
\* approved, whoever adopts the draft and whatever is edited meanwhile.
THEOREM DraftsAreApproved ==
    ASSUME PushBounds, Prompt PROVE Spec => []DraftsCarryTheirDecision
BY DraftsFollow, AlwaysPromptInv, PTL

-----------------------------------------------------------------------------
(* The staleness of a score.                                               *)

\* A push carries what it read, or reads anew.
LEMMA PushReads ==
    ASSUME PushBounds, IInv, NEW k \in Operations,
           PushStep(k) \/ \E i \in Inputs : BeginPush(k, i)
    PROVE  /\ \A j \in Calls : j # k => call'[j] = call[j]
           /\ call'[k].read \in {None, call[k].read, Reads}
<1>0. /\ k \in Calls /\ call[k] \in CallState /\ call \in [Calls -> CallState]
      /\ Idle.read = None
  BY AtWork DEF IInv, TypeOK, Idle
<1>1. ASSUME NEW x, Become(k, x), x.read \in {None, call[k].read, Reads}
      PROVE  /\ \A j \in Calls : j # k => call'[j] = call[j]
             /\ call'[k].read \in {None, call[k].read, Reads}
  BY <1>0, <1>1 DEF Become
<1>2. ASSUME NEW i \in Inputs, BeginPush(k, i)
      PROVE  \E x : Become(k, x) /\ x.read = None
  <2> DEFINE y == [Idle EXCEPT !.pc = "claim", !.approved = i]
  <2>1. y.read = None
    BY DEF Idle
  <2> QED BY <1>2, <2>1 DEF BeginPush
<1>3. Refused(k) => \E x : Become(k, x) /\ x.read = None
  <2> DEFINE y == [Idle EXCEPT !.pc = "release"]
  <2>1. y.read = None
    BY DEF Idle
  <2> QED BY <2>1 DEF Refused
<1>4. \/ ClaimUncertain(k) \/ Release(k) \/ ReleaseFails(k) \/ MarkSucceeded(k)
      \/ FailsWithProduct(k) \/ MarkSafetyIncident(k)
      => Become(k, Idle)
  BY DEF ClaimUncertain, Release, ReleaseFails, MarkSucceeded, FailsWithProduct,
     MarkSafetyIncident, Finish
<1>5. ASSUME NEW pc, Goto(k, pc) PROVE \E x : Become(k, x) /\ x.read = call[k].read
  <2> DEFINE y == [call[k] EXCEPT !.pc = pc]
  <2>1. y.read = call[k].read
    BY <1>0 DEF CallState
  <2> QED BY <1>5, <2>1 DEF Goto
<1>6. Claim(k) => Goto(k, "search") \/ Become(k, Idle)
  BY DEF Claim, Finish
<1>7. RecordCost(k) => Goto(k, "persist")
  BY DEF RecordCost
<1>8. ASSUME NEW next, FindByResearchTag(k, next)
      PROVE  \E x : Become(k, x) /\ x.read \in {None, call[k].read}
  <2>1. ASSUME NEW p \in indexed,
               Become(k, [Idle EXCEPT !.pc = "loadIntent", !.product = p,
                                      !.exposed = p \in visible])
        PROVE  \E x : Become(k, x) /\ x.read = None
    <3> DEFINE y == [Idle EXCEPT !.pc = "loadIntent", !.product = p,
                                 !.exposed = p \in visible]
    <3>1. y.read = None
      BY DEF Idle
    <3> QED BY <2>1, <3>1
  <2> QED BY <1>5, <1>8, <2>1 DEF FindByResearchTag
<1>9. Prepare(k) => \E x : Become(k, x) /\ x.read = Reads
  <2> DEFINE y == [call[k] EXCEPT !.pc = "intent", !.read = Reads]
  <2>1. y.read = Reads
    BY <1>0 DEF CallState
  <2> QED BY <2>1 DEF Prepare
<1>10. RecordIntent(k) =>
          Goto(k, "searchAgain") \/ \E x : Become(k, x) /\ x.read = None
  <2> DEFINE y == [Idle EXCEPT !.pc = "release"]
  <2>1. y.read = None
    BY DEF Idle
  <2> QED BY <2>1 DEF RecordIntent
<1>11. CreateProduct(k) => \E x : Become(k, x) /\ x.read = call[k].read
  <2> SUFFICES ASSUME NEW p \in Products,
                      Become(k, [call[k] EXCEPT !.pc = "cost", !.product = p,
                                                !.approved = None])
               PROVE  \E x : Become(k, x) /\ x.read = call[k].read
    BY DEF CreateProduct
  <2> DEFINE y == [call[k] EXCEPT !.pc = "cost", !.product = p, !.approved = None]
  <2>1. y.read = call[k].read
    BY <1>0 DEF CallState
  <2> QED BY <2>1
<1>12. CreateUncertain(k) => call' = call \/ \E x : Become(k, x) /\ x.read = None
  <2> DEFINE y == [Idle EXCEPT !.pc = "release"]
  <2>1. y.read = None
    BY DEF Idle
  <2> QED BY <2>1 DEF CreateUncertain, Become
<1>13. Persist(k) => Become(k, Idle) \/ \E x : Become(k, x) /\ x.read = None
  <2> DEFINE y == [call[k] EXCEPT !.pc = "mark", !.read = None]
  <2>1. y.read = None
    BY <1>0 DEF CallState
  <2> QED BY <2>1 DEF Persist, Finish
<1>14. LoadIntent(k) => \E x : Become(k, x) /\ x.read = call[k].read
  <2> DEFINE y == [call[k] EXCEPT !.intent = doc.intent,
                      !.pc = IF call[k].exposed THEN "hide" ELSE "restore"]
  <2>1. y.read = call[k].read
    BY <1>0 DEF CallState
  <2> QED BY <2>1 DEF LoadIntent
<1>15. RestoreCost(k) => \E x : Become(k, x) /\ x.read = call[k].read
  <2> DEFINE y == [call[k] EXCEPT !.intent = None,
                      !.pc = IF call[k].exposed THEN "incident" ELSE "mark"]
  <2>1. y.read = call[k].read
    BY <1>0 DEF CallState
  <2> QED BY <2>1 DEF RestoreCost
<1>16. ForceHidden(k) => Goto(k, "restore") \/ \E x : Become(k, x) /\ x.read = call[k].read
  <2>1. ASSUME NEW exposed \in BOOLEAN,
               Become(k, [call[k] EXCEPT !.pc = "restore", !.exposed = exposed])
        PROVE  \E x : Become(k, x) /\ x.read = call[k].read
    <3> DEFINE y == [call[k] EXCEPT !.pc = "restore", !.exposed = exposed]
    <3>1. y.read = call[k].read
      BY <1>0 DEF CallState
    <3> QED BY <2>1, <3>1
  <2> QED BY <2>1 DEF ForceHidden
<1>17. ASSUME \/ \E x : Become(k, x) /\ x.read \in {None, call[k].read, Reads}
              \/ call' = call
       PROVE  /\ \A j \in Calls : j # k => call'[j] = call[j]
              /\ call'[k].read \in {None, call[k].read, Reads}
  BY <1>1, <1>17
<1>18. CASE CreateProduct(k) \/ CreateUncertain(k) \/ Persist(k) \/ LoadIntent(k)
            \/ RestoreCost(k) \/ ForceHidden(k) \/ Prepare(k) \/ RecordIntent(k)
  BY <1>0, <1>5, <1>9, <1>10, <1>11, <1>12, <1>13, <1>14, <1>15, <1>16, <1>17, <1>18
<1>19. CASE \/ \E i \in Inputs : BeginPush(k, i)
            \/ Claim(k) \/ ClaimUncertain(k) \/ Refused(k) \/ Release(k) \/ ReleaseFails(k)
            \/ RecordCost(k) \/ MarkSucceeded(k) \/ FailsWithProduct(k)
            \/ MarkSafetyIncident(k)
  BY <1>0, <1>2, <1>3, <1>4, <1>5, <1>6, <1>7, <1>17, <1>19
<1>20. CASE Search(k) \/ SearchAgain(k)
  BY <1>8, <1>17, <1>20 DEF Search, SearchAgain
<1> QED BY <1>18, <1>19, <1>20 DEF PushStep

\* What a push writes to the document is about the push, but for the analysis
\* that it stores.
LEMMA PushScores ==
    ASSUME PushBounds, IInv, NEW k \in Operations,
           PushStep(k) \/ \E i \in Inputs : BeginPush(k, i)
    PROVE  \/ /\ doc'.inputs = doc.inputs /\ doc'.revision = doc.revision
              /\ doc'.score = doc.score /\ doc'.analyzed = doc.analyzed
           \/ call[k].read \in Reading /\ doc' = Analyzed(doc, call[k].read)
<1>0. doc \in Document /\ call[k] \in CallState /\ WellFormed(call[k], draft)
  BY AtWork DEF IInv, TypeOK
<1>1. CASE \/ \E i \in Inputs : BeginPush(k, i)
           \/ Search(k) \/ SearchAgain(k) \/ Prepare(k) \/ Refused(k) \/ ReleaseFails(k)
           \/ CreateProduct(k) \/ CreateUncertain(k) \/ RecordCost(k) \/ FailsWithProduct(k)
           \/ LoadIntent(k) \/ ForceHidden(k) \/ RestoreCost(k)
  BY <1>1 DEF BeginPush, Search, SearchAgain, FindByResearchTag, Prepare, Refused,
     ReleaseFails, CreateProduct, CreateUncertain, RecordCost, FailsWithProduct, LoadIntent,
     ForceHidden, RestoreCost
<1>2. CASE \/ Claim(k) \/ ClaimUncertain(k) \/ RecordIntent(k) \/ Release(k)
           \/ MarkSucceeded(k) \/ MarkSafetyIncident(k)
  BY <1>0, <1>2 DEF Claim, ClaimUncertain, RecordIntent, Release, MarkSucceeded,
     MarkSafetyIncident, Claimed, IntentRecorded, Released, Succeeded, SafetyIncident, Document
<1>3. CASE Persist(k)
  BY <1>0, <1>3 DEF Persist, At, WellFormed, Holding
<1> QED BY <1>1, <1>2, <1>3 DEF PushStep

\* One editor at a time.
Alone == \A j, k \in Editors : j = k

\* A call reads or ends, and at most an analysis is stored.
LEMMA ScoresKeep ==
    ASSUME PushBounds, IInv, IInv', ReadsAreTold,
           \A j \in Calls : call'[j].read \in {None, call[j].read, Reads},
           \A j \in Editors : At(j, "edit")' => call'[j] = call[j] \/ call'[j].read = Reads,
           \/ /\ doc'.inputs = doc.inputs /\ doc'.revision = doc.revision
              /\ doc'.score = doc.score /\ doc'.analyzed = doc.analyzed
           \/ \E j \in Calls : call[j].read \in Reading /\ doc' = Analyzed(doc, call[j].read)
    PROVE  ReadsAreTold'
<1>1. /\ doc \in Document /\ doc.revision \in Nat /\ None \notin Reading
      /\ Reads.revision = doc.revision /\ Reads.inputs = doc.inputs
  BY DEF IInv, TypeOK, Document, PushBounds, Reads
<1>2. doc'.inputs = doc.inputs /\ doc'.revision = doc.revision
  BY <1>1 DEF Analyzed, Document
<1>3. \A j \in Calls : call'[j].read # None =>
          /\ call'[j].read.revision <= doc'.revision
          /\ call'[j].read.revision = doc'.revision => call'[j].read.inputs = doc'.inputs
  BY <1>1, <1>2 DEF ReadsAreTold
<1>4. \A j \in Editors : At(j, "edit")' => call'[j].read.revision = doc'.revision
  BY <1>1, <1>2 DEF ReadsAreTold, At
<1>5. /\ doc'.analyzed # None => doc'.analyzed <= doc'.revision
      /\ doc'.score # None => doc'.analyzed # None
      /\ ScoreIsHonest'
  <2>1. CASE /\ doc'.inputs = doc.inputs /\ doc'.revision = doc.revision
             /\ doc'.score = doc.score /\ doc'.analyzed = doc.analyzed
    BY <2>1 DEF ReadsAreTold, ScoreIsHonest, ScoreIsStale
  <2>2. ASSUME NEW j \in Calls, call[j].read \in Reading, doc' = Analyzed(doc, call[j].read)
        PROVE  /\ doc'.analyzed # None => doc'.analyzed <= doc'.revision
               /\ doc'.score # None => doc'.analyzed # None
               /\ ScoreIsHonest'
    <3>1. PICK r \in Reading : r = call[j].read
      BY <2>2
    <3>2. doc'.score = r.inputs /\ doc'.analyzed = r.revision
      BY <1>1, <2>2, <3>1 DEF Analyzed, Document
    <3>3. /\ r.revision <= doc.revision
          /\ r.revision = doc.revision => r.inputs = doc.inputs
      BY <1>1, <3>1 DEF ReadsAreTold
    <3>4. r.revision # None
      BY DEF Reading, PushBounds
    <3> QED BY <1>2, <3>2, <3>3, <3>4 DEF ScoreIsHonest, ScoreIsStale
  <2> QED BY <2>1, <2>2
<1> QED BY <1>3, <1>4, <1>5 DEF ReadsAreTold, At

LEMMA EditorReads ==
    ASSUME PushBounds, IInv, NEW k \in Editors,
           \/ EditorStep(k) \/ BeginAnalysis(k)
           \/ \E i \in Inputs : BeginEdit(k, i)
           \/ \E status \in Decisions : BeginDecision(k, status)
    PROVE  /\ \A j \in Calls : j # k => call'[j] = call[j]
           /\ \/ EditorStep(k) /\ call'[k].read = None /\ call'[k].pc = "idle"
              \/ UNCHANGED doc /\ call'[k].read = Reads
<1>0. /\ k \in Calls /\ call \in [Calls -> CallState]
      /\ Idle.read = None /\ Idle.pc = "idle"
  BY DEF IInv, TypeOK, Calls, Idle
<1>1. CASE EditorStep(k)
  <2>1. Become(k, Idle)
    BY <1>1 DEF EditorStep, UpdateCandidate, PersistAnalysis, SetCandidateStatus, Finish
  <2> QED BY <1>0, <1>1, <2>1 DEF Become
<1>2. CASE BeginAnalysis(k)
  <2> DEFINE y == [Idle EXCEPT !.pc = "analyze", !.read = Reads]
  <2>1. y.read = Reads
    BY DEF Idle
  <2>2. Become(k, y) /\ UNCHANGED doc
    BY <1>2 DEF BeginAnalysis
  <2> HIDE DEF y
  <2> QED BY <1>0, <2>1, <2>2 DEF Become
<1>3. ASSUME NEW i \in Inputs, BeginEdit(k, i)
      PROVE  /\ \A j \in Calls : j # k => call'[j] = call[j]
             /\ UNCHANGED doc /\ call'[k].read = Reads
  <2> DEFINE y == [Idle EXCEPT !.pc = "edit", !.read = Reads, !.target = i]
  <2>1. y.read = Reads
    BY DEF Idle
  <2>2. Become(k, y) /\ UNCHANGED doc
    BY <1>3 DEF BeginEdit
  <2> HIDE DEF y
  <2> QED BY <1>0, <2>1, <2>2 DEF Become
<1>4. ASSUME NEW status \in Decisions, BeginDecision(k, status)
      PROVE  /\ \A j \in Calls : j # k => call'[j] = call[j]
             /\ UNCHANGED doc /\ call'[k].read = Reads
  <2> DEFINE y == [Idle EXCEPT !.pc = "decide", !.read = Reads, !.target = status]
  <2>1. y.read = Reads
    BY DEF Idle
  <2>2. Become(k, y) /\ UNCHANGED doc
    BY <1>4 DEF BeginDecision
  <2> HIDE DEF y
  <2> QED BY <1>0, <2>1, <2>2 DEF Become
<1> QED BY <1>1, <1>2, <1>3, <1>4

\* The edit moves the revision on, unless it changes nothing.
LEMMA EditKeeps ==
    ASSUME PushBounds, Alone, IInv, IInv', ReadsAreTold,
           NEW k \in Editors, UpdateCandidate(k), call'[k].read = None, call'[k].pc = "idle",
           \A j \in Calls : j # k => call'[j] = call[j]
    PROVE  ReadsAreTold'
<1>1. /\ doc \in Document /\ doc.revision \in Nat /\ k \in Calls /\ call[k].pc = "edit"
      /\ WellFormed(call[k], draft) /\ call[k].target \in Inputs
      /\ call[k].read \in Reading /\ None \notin Reading /\ None \notin Nat
      /\ \A j \in Calls : call[j] \in CallState
  BY DEF IInv, TypeOK, CallsOK, Document, PushBounds, Calls, UpdateCandidate, At, WellFormed,
     Holding
<1>2. call[k].read.revision = doc.revision /\ call[k].read.inputs = doc.inputs
  BY <1>1 DEF ReadsAreTold
<1>3. /\ doc'.inputs = call[k].target /\ doc'.score = doc.score /\ doc'.analyzed = doc.analyzed
      /\ doc'.revision = IF call[k].target = doc.inputs THEN doc.revision ELSE doc.revision + 1
  BY <1>1, <1>2 DEF UpdateCandidate, Edited, Document
<1>4. ASSUME NEW j \in Calls, call'[j].read # None
      PROVE  /\ call'[j].read.revision <= doc'.revision
             /\ call'[j].read.revision = doc'.revision => call'[j].read.inputs = doc'.inputs
  <2>1. j # k /\ call'[j].read = call[j].read
    BY <1>4
  <2>2. /\ call[j].read.revision <= doc.revision
        /\ call[j].read.revision = doc.revision => call[j].read.inputs = doc.inputs
    BY <1>4, <2>1 DEF ReadsAreTold
  <2>3. call[j].read \in Reading
    BY <1>1, <1>4, <2>1 DEF CallState
  <2>4. call[j].read.revision \in Nat
    BY <2>3 DEF Reading
  <2> QED BY <1>1, <1>3, <2>1, <2>2, <2>4
<1>5. \A j \in Editors : call'[j].pc # "edit"
  BY DEF Alone
<1>6. /\ doc'.analyzed # None => doc'.analyzed <= doc'.revision
      /\ doc'.score # None => doc'.analyzed # None
      /\ ScoreIsHonest'
  <2>1. doc.analyzed = None \/ (doc.analyzed \in Nat /\ doc.analyzed <= doc.revision)
    BY <1>1 DEF ReadsAreTold, Document
  <2> QED BY <1>1, <1>3, <2>1 DEF ReadsAreTold, ScoreIsHonest, ScoreIsStale
<1> QED BY <1>4, <1>5, <1>6 DEF ReadsAreTold

LEMMA NextReadsAreTold ==
    ASSUME PushBounds, Alone
    PROVE  IInv /\ IInv' /\ ReadsAreTold /\ [Next]_vars => ReadsAreTold'
<1> SUFFICES ASSUME IInv, IInv', ReadsAreTold, [Next]_vars PROVE ReadsAreTold'
  OBVIOUS
<1>0. doc \in Document /\ Reads \in Reading /\ Idle.read = None /\ Idle.pc = "idle"
  BY DEF IInv, TypeOK, Document, Reads, Reading, Idle
<1>1. ASSUME NEW k \in Operations, PushStep(k) \/ \E i \in Inputs : BeginPush(k, i)
      PROVE  ReadsAreTold'
  <2>1. /\ \A j \in Calls : call'[j].read \in {None, call[j].read, Reads}
        /\ \A j \in Editors : At(j, "edit")' => call'[j] = call[j] \/ call'[j].read = Reads
    <3>1. k \in Calls /\ k \notin Editors /\ \A j \in Editors : j \in Calls
      BY DEF Calls, PushBounds
    <3> QED BY <1>1, <3>1, PushReads
  <2>2. \/ /\ doc'.inputs = doc.inputs /\ doc'.revision = doc.revision
           /\ doc'.score = doc.score /\ doc'.analyzed = doc.analyzed
        \/ \E j \in Calls : call[j].read \in Reading /\ doc' = Analyzed(doc, call[j].read)
    BY <1>1, PushScores DEF Calls
  <2> QED BY <2>1, <2>2, ScoresKeep
<1>2. ASSUME NEW k \in Editors,
             \/ EditorStep(k) \/ BeginAnalysis(k)
             \/ \E i \in Inputs : BeginEdit(k, i)
             \/ \E status \in Decisions : BeginDecision(k, status)
      PROVE  ReadsAreTold'
  <2>1. /\ \A j \in Calls : j # k => call'[j] = call[j]
        /\ \/ EditorStep(k) /\ call'[k].read = None /\ call'[k].pc = "idle"
           \/ UNCHANGED doc /\ call'[k].read = Reads
    BY <1>2, EditorReads
  <2>2. CASE UpdateCandidate(k) /\ call'[k].read = None /\ call'[k].pc = "idle"
    BY <2>1, <2>2, EditKeeps
  <2>3. CASE ~(UpdateCandidate(k) /\ call'[k].read = None /\ call'[k].pc = "idle")
    <3>1. /\ \A j \in Calls : call'[j].read \in {None, call[j].read, Reads}
          /\ \A j \in Editors : At(j, "edit")' => call'[j] = call[j] \/ call'[j].read = Reads
      BY <2>1 DEF Calls, At
    <3>2. CASE UNCHANGED doc
      BY <3>1, <3>2, ScoresKeep
    <3>3. CASE PersistAnalysis(k)
      <4>1. call[k].read \in Reading /\ doc' = Analyzed(doc, call[k].read) /\ k \in Calls
        BY <3>3 DEF PersistAnalysis, At, IInv, CallsOK, WellFormed, Holding, Calls
      <4> QED BY <3>1, <4>1, ScoresKeep
    <3>4. CASE SetCandidateStatus(k)
      <4>1. /\ doc'.inputs = doc.inputs /\ doc'.revision = doc.revision
            /\ doc'.score = doc.score /\ doc'.analyzed = doc.analyzed
        BY <1>0, <3>4 DEF SetCandidateStatus, Document
      <4> QED BY <3>1, <4>1, ScoresKeep
    <3> QED BY <2>1, <2>3, <3>2, <3>3, <3>4 DEF EditorStep
  <2> QED BY <2>2, <2>3
<1>3. CASE \/ LeaseExpires \/ Crash \/ UNCHANGED vars
           \/ \E d \in Draft : LateCreate(d)
           \/ \E p \in Products : IndexProduct(p) \/ PublishProduct(p)
  <2>1. /\ doc'.inputs = doc.inputs /\ doc'.revision = doc.revision
        /\ doc'.score = doc.score /\ doc'.analyzed = doc.analyzed
    BY <1>0, <1>3 DEF LeaseExpires, Crash, vars, LateCreate, IndexProduct, PublishProduct,
       Document
  <2>2. \A j \in Calls : call'[j] = call[j] \/ call'[j] = Idle
    BY <1>3 DEF LeaseExpires, Crash, vars, LateCreate, IndexProduct, PublishProduct
  <2>3. /\ \A j \in Calls : call'[j].read \in {None, call[j].read, Reads}
        /\ \A j \in Editors : At(j, "edit")' => call'[j] = call[j] \/ call'[j].read = Reads
    BY <1>0, <2>2 DEF At, Calls
  <2> QED BY <2>1, <2>3, ScoresKeep
<1> QED BY <1>1, <1>2, <1>3, Zenon DEF Next

LEMMA InitReadsAreTold == Init => ReadsAreTold
<1> SUFFICES ASSUME Init PROVE ReadsAreTold
  OBVIOUS
<1>1. PICK i \in Inputs : doc = Created(i)
  BY DEF Init
<1>2. doc.score = None /\ doc.analyzed = None
  BY <1>1 DEF Created
<1>3. \A k \in Calls : call[k].read = None /\ call[k].pc # "edit"
  BY DEF Init, Idle
<1> QED BY <1>2, <1>3 DEF ReadsAreTold, ScoreIsHonest, Calls

LEMMA ScoresFollow == ReadsAreTold => ScoreIsHonest
BY DEF ReadsAreTold

\* When one request at a time edits or analyses the candidate beside any
\* number of pushes, a score that does not count as stale is about the inputs
\* as they are.
THEOREM ScoresAreHonest == ASSUME PushBounds, Alone PROVE Spec => []ScoreIsHonest
BY InitReadsAreTold, NextReadsAreTold, ScoresFollow, AlwaysIInv, PTL DEF Spec

=============================================================================
