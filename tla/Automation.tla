------------------------------ MODULE Automation ------------------------------
(***************************************************************************)
(* The automation engine that changes the visibility and the prices of a   *)
(* live shop: preview and apply (automation.controller.ts,                 *)
(* preview.store.ts), the plan (plan.ts, visibility.rules.ts), its         *)
(* execution under the lock (automation.service.ts, automation.lock.ts),   *)
(* the runs started by webhooks and the hold on new products               *)
(* (webhooks/webhook.processor.ts) and the approval by the operator.       *)
(*                                                                         *)
(* A product stands for its one variant.  Its price is right when it       *)
(* equals its cost level (the arithmetic is module Repricing's), a cost    *)
(* of 0 is unknown.  A task is one request or one delivery at work; every  *)
(* await of the code ends a step.                                          *)
(***************************************************************************)
EXTENDS Integers, FiniteSets

CONSTANTS
    Products,       \* products of the shop, imported or still to come
    Tasks,          \* slots for requests and deliveries
    RuleSets,       \* rules an operator saves: records of booleans
    Costs,          \* cost levels, 0 when no source knows the cost
    MaxItems,       \* maxItemsPerRun
    MaxPreviews,    \* bound on previews
    MaxEdits,       \* bound on what merchants and suppliers change
    MaxTasks        \* bound on tasks begun

VARIABLES
    product,    \* Shopify: the products
    arrived,    \* products/create deliveries not yet processed
    rules,      \* the rules in force
    preview,    \* previews, with what the operator was shown
    lock,       \* the task that holds the automation lock, or none
    task,       \* the tasks
    degraded,   \* the breaker is open (module Gateway)
    waiting,    \* products held for review nobody has approved or activated
    edits, begun

automationVars == <<product, arrived, rules, preview, lock, task, degraded,
                    waiting, edits, begun>>

-----------------------------------------------------------------------------
NoTask == "none"
NotImported == [status |-> "none", tags |-> {}, stock |-> TRUE, price |-> 1, cost |-> 1]

Idle == [pc |-> "idle", kind |-> "none", scope |-> {}, rules |-> {}, preview |-> 0,
         plan |-> {}, current |-> {}, applied |-> {}, missed |-> {}, aborted |-> FALSE]

PreviewIds == 1..MaxPreviews
NoPreview == [state |-> "none", rules |-> {}, plan |-> {}, passed |-> 0]

AutomationInit ==
    /\ product \in [Products -> {NotImported} \cup
          {[NotImported EXCEPT !.status = "ACTIVE", !.cost = c] : c \in Costs \ {0}}]
    /\ arrived = {}
    /\ rules \in RuleSets
    /\ preview = [i \in PreviewIds |-> NoPreview]
    /\ lock = NoTask
    /\ task = [t \in Tasks |-> Idle]
    /\ degraded = FALSE
    /\ waiting = {}
    /\ edits = 0 /\ begun = 0

Imported == {p \in Products : product[p].status # "none"}

Move(t, x) == task' = [task EXCEPT ![t] = x]

Goto(t, pc) == Move(t, [task[t] EXCEPT !.pc = pc])

-----------------------------------------------------------------------------
(* The plan *)

\* decideVisibility, hideOutOfStock and restoreWhenBackInStock being on
Visibility(p, x, r) ==
    LET change(to) == {[type |-> "visibility", product |-> p, from |-> x.status, to |-> to]}
        held == x.status = "DRAFT" /\ "review" \in x.tags
    IN  IF ~r.visibility \/ x.status = "ARCHIVED" \/ held THEN {}
        ELSE IF ~x.stock THEN IF x.status = "DRAFT" THEN {} ELSE change("DRAFT")
        ELSE IF x.status = "DRAFT" /\ "hidden" \in x.tags THEN change("ACTIVE")
        ELSE {}

\* decideVariantPrice: module Repricing has the arithmetic.
Price(p, x, r) ==
    IF r.price /\ x.cost # 0 /\ x.price # x.cost
    THEN {[type |-> "price", product |-> p, was |-> x.price, price |-> x.cost]}
    ELSE {}

\* One turn of buildAutomationPlan's loop
PlanFor(plan, p, x, r) ==
    LET shown == plan \cup Visibility(p, x, r)
        hides == \E a \in Visibility(p, x, r) : a.to = "DRAFT"
    IN  IF Cardinality(plan) >= MaxItems THEN plan
        ELSE IF hides \/ Cardinality(shown) >= MaxItems THEN shown
        ELSE shown \cup Price(p, x, r)

-----------------------------------------------------------------------------
(* prepareAutomationPlan: reads only *)

Preparing(t, kind, scope, id, pc) ==
    /\ task[t].pc = "idle" /\ begun < MaxTasks
    /\ begun' = begun + 1
    /\ Move(t, [Idle EXCEPT !.pc = pc, !.kind = kind, !.scope = scope, !.preview = id])

BeginPreview(t) ==
    /\ Preparing(t, "preview", Imported, 0, "rules")
    /\ UNCHANGED <<product, arrived, rules, preview, lock, degraded, waiting, edits>>

\* findApplicablePreview admits the request.
BeginApply(t) ==
    /\ \E i \in PreviewIds :
          /\ preview[i].state = "ready"
          /\ Preparing(t, "apply", Imported, i, "rules")
    /\ UNCHANGED <<product, arrived, rules, preview, lock, degraded, waiting, edits>>

ResolveEffectiveRules(t) ==
    /\ task[t].pc = "rules"
    /\ Move(t, [task[t] EXCEPT !.rules = {rules}, !.pc = "reading"])
    /\ UNCHANGED <<product, arrived, rules, preview, lock, degraded, waiting, edits, begun>>

FetchProduct(t) ==
    /\ task[t].pc = "reading"
    /\ \E p \in task[t].scope, r \in task[t].rules :
          Move(t, [task[t] EXCEPT !.scope = @ \ {p},
                                  !.plan = PlanFor(@, p, product[p], r)])
    /\ UNCHANGED <<product, arrived, rules, preview, lock, degraded, waiting, edits, begun>>

Prepared(t) == task[t].pc = "reading" /\ task[t].scope = {}

\* recordPreview, which first prunes what can no longer be applied
RecordPreview(t) ==
    /\ Prepared(t) /\ task[t].kind = "preview"
    /\ \E i \in PreviewIds :
          /\ preview[i].state = "none"
          /\ \A j \in PreviewIds : preview[j].state = "none" => i <= j
          /\ preview' = [j \in PreviewIds |->
                IF j = i THEN [NoPreview EXCEPT !.state = "ready", !.rules = task[t].rules,
                                                 !.plan = task[t].plan]
                ELSE IF preview[j].state \in {"applied", "expired"}
                     THEN [preview[j] EXCEPT !.state = "gone"]
                ELSE preview[j]]
    /\ Move(t, Idle)
    /\ UNCHANGED <<product, arrived, rules, lock, degraded, waiting, edits, begun>>

-----------------------------------------------------------------------------
(* Apply: consumePreview, the health check and the lock, without an await *)

\* Mutant: the preview is marked as applied when its run has ended.
ConsumableEarly(i, t) ==
    /\ preview[i].state \in {"ready", "expired", "applied"}
    /\ preview[i].rules = task[t].rules
    /\ preview[i].plan = task[t].plan

\* Rules and plan are compared by their hashes; expiry is not looked at again.
Consumable(i, t) ==
    /\ preview[i].state \in {"ready", "expired"}
    /\ preview[i].rules = task[t].rules
    /\ preview[i].plan = task[t].plan

\* acquireAutomationLock and the finally of executePreparedPlan
Execute(t) ==
    IF degraded \/ lock # NoTask
    THEN Move(t, Idle) /\ UNCHANGED lock
    ELSE Goto(t, "writing") /\ lock' = t

Apply(t) ==
    /\ Prepared(t) /\ task[t].kind = "apply"
    /\ LET i == task[t].preview
       IN  IF Consumable(i, t)
           THEN /\ preview' = [preview EXCEPT ![i].state = "applied", ![i].passed = @ + 1]
                /\ Execute(t)
           ELSE Move(t, Idle) /\ UNCHANGED <<preview, lock>>
    /\ UNCHANGED <<product, arrived, rules, degraded, waiting, edits, begun>>

\* runAutomation for a delivery; ALREADY_RUNNING is ignored by the processor.
ApplyForDelivery(t) ==
    /\ Prepared(t) /\ task[t].kind = "delivery"
    /\ Execute(t)
    /\ UNCHANGED <<product, arrived, rules, preview, degraded, waiting, edits, begun>>

-----------------------------------------------------------------------------
(* runPreparedPlan *)

Pending(x, type) == {a \in x.plan \ (x.applied \cup x.missed) : a.type = type}

\* Visibility first, then prices
NextActions(x) ==
    IF Pending(x, "visibility") # {} THEN Pending(x, "visibility") ELSE Pending(x, "price")

\* Mutant: the abort is decided anew for every action.
MissedOne(x) == x.missed \cup {CHOOSE a \in NextActions(x) : TRUE}

\* degradationAbort: the reason is kept, so nothing more is attempted.
Missed(x) == x.plan \ x.applied

AbortDegraded(t) ==
    /\ task[t].pc = "writing" /\ degraded
    /\ NextActions(task[t]) # {}
    /\ Move(t, [task[t] EXCEPT !.missed = Missed(task[t]), !.aborted = TRUE])
    /\ UNCHANGED <<product, arrived, rules, preview, lock, degraded, waiting, edits, begun>>

SetStatus(p, to) == product' = [product EXCEPT ![p].status = to]

\* applyVisibility's first call; when it is refused nothing was written.
ApplyStatus(t) ==
    /\ task[t].pc = "writing" /\ ~degraded
    /\ \E a \in NextActions(task[t]) :
          /\ a.type = "visibility"
          /\ \/ /\ SetStatus(a.product, a.to)
                /\ Move(t, [task[t] EXCEPT !.pc = "tag", !.current = {a}])
             \/ /\ Move(t, [task[t] EXCEPT !.missed = @ \cup {a}])
                /\ UNCHANGED product
    /\ UNCHANGED <<arrived, rules, preview, lock, degraded, waiting, edits, begun>>

\* Its second call; a failure is only logged.
MarkHidden(p, to) ==
    \/ product' = [product EXCEPT ![p].tags = IF to = "DRAFT" THEN @ \cup {"hidden"}
                                                              ELSE @ \ {"hidden"}]
    \/ UNCHANGED product

ApplyTag(t) ==
    /\ task[t].pc = "tag"
    /\ \E a \in task[t].current :
          /\ MarkHidden(a.product, a.to)
          /\ Move(t, [task[t] EXCEPT !.pc = "writing", !.current = {}, !.applied = @ \cup {a}])
    /\ UNCHANGED <<arrived, rules, preview, lock, degraded, waiting, edits, begun>>

\* One productVariantsBulkUpdate for the product
ApplyPrices(t) ==
    /\ task[t].pc = "writing" /\ ~degraded
    /\ \E a \in NextActions(task[t]) :
          /\ a.type = "price"
          /\ \/ /\ product' = [product EXCEPT ![a.product].price = a.price]
                /\ Move(t, [task[t] EXCEPT !.applied = @ \cup {a}])
             \/ /\ Move(t, [task[t] EXCEPT !.missed = @ \cup {a}])
                /\ UNCHANGED product
    /\ UNCHANGED <<arrived, rules, preview, lock, degraded, waiting, edits, begun>>

\* persistRun, then the finally block
FinishRun(t) ==
    /\ task[t].pc = "writing" /\ NextActions(task[t]) = {}
    /\ lock' = NoTask
    /\ Move(t, Idle)
    /\ UNCHANGED <<product, arrived, rules, preview, degraded, waiting, edits, begun>>

-----------------------------------------------------------------------------
(* Deliveries: processWebhookEvent and holdProductForReview *)

DeliverUpdate(t) ==
    /\ \E p \in Imported : Preparing(t, "delivery", {p}, 0, "rules")
    /\ UNCHANGED <<product, arrived, rules, preview, lock, degraded, waiting, edits>>

DeliverCreate(t) ==
    /\ \E p \in arrived :
          /\ Preparing(t, "delivery", {p}, 0, IF rules.hold THEN "hold" ELSE "rules")
          /\ arrived' = arrived \ {p}
    /\ UNCHANGED <<product, rules, preview, lock, degraded, waiting, edits>>

\* applyVisibility(DRAFT): a refused call leaves the product as it came.
Hold(t) ==
    /\ task[t].pc = "hold"
    /\ \E p \in task[t].scope :
          \/ SetStatus(p, "DRAFT") /\ waiting' = waiting \cup {p} /\ Goto(t, "hold tag")
          \/ Goto(t, "rules") /\ UNCHANGED <<product, waiting>>
    /\ UNCHANGED <<arrived, rules, preview, lock, degraded, edits, begun>>

HoldTag(t) ==
    /\ task[t].pc = "hold tag"
    /\ \E p \in task[t].scope : MarkHidden(p, "DRAFT")
    /\ Goto(t, "review tag")
    /\ UNCHANGED <<arrived, rules, preview, lock, degraded, waiting, edits, begun>>

\* The processor goes on when the hold failed.
ReviewTag(t) ==
    /\ task[t].pc = "review tag"
    /\ \E p \in task[t].scope :
          \/ product' = [product EXCEPT ![p].tags = @ \cup {"review"}]
          \/ UNCHANGED product
    /\ Goto(t, "rules")
    /\ UNCHANGED <<arrived, rules, preview, lock, degraded, waiting, edits, begun>>

-----------------------------------------------------------------------------
(* approveProduct: publish and verify, activate, clear the tags *)

\* Publication fails or is not verified: the product stays in review.
BeginApprove(t) ==
    /\ \E p \in Imported : Preparing(t, "approve", {p}, 0, "publish")
    /\ UNCHANGED <<product, arrived, rules, preview, lock, degraded, waiting, edits>>

PublishFirst(t) ==
    /\ task[t].pc = "publish"
    /\ Goto(t, "activate") \/ Move(t, Idle)
    /\ UNCHANGED <<product, arrived, rules, preview, lock, degraded, waiting, edits, begun>>

Activate(t) ==
    /\ task[t].pc = "activate"
    /\ \E p \in task[t].scope :
          \/ SetStatus(p, "ACTIVE") /\ waiting' = waiting \ {p} /\ Goto(t, "unhide")
          \/ Move(t, Idle) /\ UNCHANGED <<product, waiting>>
    /\ UNCHANGED <<arrived, rules, preview, lock, degraded, edits, begun>>

Unhide(t) ==
    /\ task[t].pc = "unhide"
    /\ \E p \in task[t].scope : MarkHidden(p, "ACTIVE")
    /\ Goto(t, "clear tags")
    /\ UNCHANGED <<arrived, rules, preview, lock, degraded, waiting, edits, begun>>

ClearTags(t) ==
    /\ task[t].pc = "clear tags"
    /\ \E p \in task[t].scope :
          product' \in {product, [product EXCEPT ![p].tags = {}]}
    /\ Move(t, Idle)
    /\ UNCHANGED <<arrived, rules, preview, lock, degraded, waiting, edits, begun>>

-----------------------------------------------------------------------------
(* Operator, merchant, supplier, Shopify and the process *)

SaveRules ==
    /\ edits < MaxEdits
    /\ rules' \in RuleSets \ {rules}
    /\ edits' = edits + 1
    /\ UNCHANGED <<product, arrived, preview, lock, task, degraded, waiting, begun>>

Edit(p, x) ==
    /\ edits < MaxEdits /\ edits' = edits + 1
    /\ product' = [product EXCEPT ![p] = x]
    /\ UNCHANGED <<rules, preview, lock, task, degraded, begun>>

Import ==
    \E p \in Products \ Imported :
        /\ Edit(p, [NotImported EXCEPT !.status = "ACTIVE"])
        /\ arrived' = arrived \cup {p}
        /\ UNCHANGED waiting

MerchantSetsStatus ==
    \E p \in Imported, s \in {"ACTIVE", "DRAFT", "ARCHIVED"} :
        /\ product[p].status # s
        /\ Edit(p, [product[p] EXCEPT !.status = s])
        /\ waiting' = IF s = "ACTIVE" THEN waiting \ {p} ELSE waiting
        /\ UNCHANGED arrived

SupplyChanges ==
    \E p \in Imported :
        /\ \/ Edit(p, [product[p] EXCEPT !.stock = ~@])
           \/ \E c \in Costs \ {product[p].cost} : Edit(p, [product[p] EXCEPT !.cost = c])
        /\ UNCHANGED <<arrived, waiting>>

PreviewExpires ==
    \E i \in PreviewIds :
        /\ preview[i].state = "ready"
        /\ preview' = [preview EXCEPT ![i].state = "expired"]
        /\ UNCHANGED <<product, arrived, rules, lock, task, degraded, waiting, edits, begun>>

BreakerTurns ==
    /\ degraded' = ~degraded
    /\ UNCHANGED <<product, arrived, rules, preview, lock, task, waiting, edits, begun>>

\* Previews, lock and everything under way live in the process.
Restart ==
    /\ edits < MaxEdits /\ edits' = edits + 1
    /\ preview' = [i \in PreviewIds |-> IF preview[i].state = "none" THEN preview[i]
                                        ELSE [preview[i] EXCEPT !.state = "gone"]]
    /\ lock' = NoTask
    /\ task' = [t \in Tasks |-> Idle]
    /\ UNCHANGED <<product, arrived, rules, degraded, waiting, begun>>

AutomationNext ==
    \/ \E t \in Tasks :
          \/ BeginPreview(t) \/ BeginApply(t) \/ ResolveEffectiveRules(t)
          \/ FetchProduct(t) \/ RecordPreview(t)
          \/ Apply(t) \/ ApplyForDelivery(t)
          \/ AbortDegraded(t) \/ ApplyStatus(t) \/ ApplyTag(t) \/ ApplyPrices(t)
          \/ FinishRun(t)
          \/ DeliverUpdate(t) \/ DeliverCreate(t)
          \/ Hold(t) \/ HoldTag(t) \/ ReviewTag(t)
          \/ BeginApprove(t) \/ PublishFirst(t) \/ Activate(t) \/ Unhide(t) \/ ClearTags(t)
    \/ SaveRules \/ Import \/ MerchantSetsStatus \/ SupplyChanges
    \/ PreviewExpires \/ BreakerTurns \/ Restart

-----------------------------------------------------------------------------
(* Properties *)

Writing(t) == task[t].pc \in {"writing", "tag"}

\* An apply executes exactly the plan the operator was shown, under the rules
\* it was made with, and no preview admits two applies: products, costs,
\* rules and other applies may move between the preview and the write
\* (automation.controller.ts:258, preview.store.ts:170).
OnlyReviewedIsApplied ==
    \A t \in Tasks : Writing(t) /\ task[t].kind = "apply" =>
        LET i == task[t].preview
        IN  /\ task[t].plan = preview[i].plan
            /\ task[t].rules = preview[i].rules
            /\ preview[i].passed = 1

\* Two runs never write to the shop at the same time, whoever was refused the
\* lock in between (automation.lock.ts, executePreparedPlan's finally).
RunsExclude ==
    \A t, u \in Tasks : Writing(t) /\ Writing(u) => t = u

\* A run that left an action out because Shopify was failing applies nothing
\* after it, even when Shopify recovers meanwhile (automation.service.ts:515).
AbortIsFinal ==
    \A t \in Tasks :
        task[t].aborted /\ task'[t].aborted =>
            task'[t].applied = task[t].applied

StopsForGood == [][AbortIsFinal]_automationVars

\* Not guaranteed by the code (README, section 11).
\* A product held for review is not made active by anybody but a human
\* (webhook.processor.ts:81, visibility.rules.ts:164).
GateHolds == \A p \in waiting : product[p].status # "ACTIVE"
=============================================================================
