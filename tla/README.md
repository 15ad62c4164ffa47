# A formal model of the Trademart backend

This directory holds TLA+ specifications of the Trademart backend (Node/TypeScript,
Express, MongoDB, Shopify and Razorpay), the TLC configurations that check them on
small instances, and theorems about them that the TLA+ proof system checks for every
value of their constants. `PROJECT.json` maps each definition to the source lines it
stands for and lists every run, theorem, hazard and finding.

    tlc -workers 2 -config PaidOrder_serial.cfg MCPaidOrder      # one run
    tlapm PaidOrderProofs.tla                                    # one proof module

All paths below are relative to the repository's root; the backend's own code is
under `src/`.

## 1. The system

One Node process serves an operator console and a public storefront, keeps its state
in MongoDB, and changes a Shopify store and Razorpay payments over HTTP. Inside the
process all code runs on one event loop, so interleaving happens exactly at `await`.
Several requests, webhook handlers and timers are in progress at once. Nothing is
transactional: every durable change is one atomic `findOneAndUpdate`, `updateOne` or
`insertOne`, and everything between two of them can be cut by a crash or overtaken.

| Component | State it keeps | Operations | What is hard | What makes it correct | Modelled by |
|---|---|---|---|---|---|
| Paid orders (`storefront/checkout`, `payments`, `orders`) | checkout sessions, payment attempts | create checkout, verify, Razorpay webhook, claim, ensureOrder, link, release, refund | browser and webhook race, lost `orderCreate` answers, Shopify's lagging search, leases, crash | paid before ordered, ordered once, kept in the worker's reach, refunds final | `CheckoutSessions`, `PaidOrder`, `PaidOrderProperties`, `OrderPromise` |
| Shopify webhook intake and queue (`webhooks/`) | `webhook_events` | receive, enqueue, claim, process, settle, retry by an operator | acknowledge only what is stored, lease expiry, several drains at once | nothing acknowledged is lost, bounded repetition | `WebhookQueue`, `WebhookQueueProperties`, `DeliveryPromise` |
| Razorpay webhook queue (`storefront/payments/payment-webhook.queue.ts`) | `razorpay_webhook_events` | enqueue, claim, settle, retry | duplicate deliveries, lease expiry, a slow drain | settled for good, bounded repetition | `RazorpayQueue` |
| Candidates (`intelligence/`) | candidates and their revisions | create, edit, analyse, decide | decisions taken on a stale read | score matches its inputs, decisions final | `Candidate`, `PushDraft` |
| Push to Shopify drafts (`intelligence/push.*`) | push claim, intent and link on the candidate, supplier cost | claim, search, prepare, intent, create, cost, persist, complete, release, adopt, hide | lost `productCreate` answers, take-over by lease, partial failure | one draft per candidate, made from the approved decision, adopted in the end | `PushDraft`, `PushDraftProperties` |
| Idempotency gate (`common/idempotency.ts`) | `idempotency_keys` | claim, conflict, replay, run, complete, release, expire | retries overlapping the first request, crash before completion | effect once, faithful replays, no claim for ever | `Idempotency` |
| Shopify client, breaker, tokens, OAuth install | in-process counters, cached token, stored offline token | request, retry, refresh, open, cool, install, uninstall | retry of writes, a refresh shared by callers, an uninstall racing a reinstall | bulk writes pause only while Shopify fails; nothing is repeated that was answered | `Gateway` |
| Operator authentication (`auth/operator`) | none: two signed cookies | login, logout, me, csrf, console routes | answers of several tabs out of order, two lifetimes | an active operator stays signed in | `OperatorSessions` |
| Webhook registration | subscriptions at Shopify | list, plan, create, update | overlapping runs, refused and lost calls | what is reported as registered is delivered | `WebhookRegistration` |
| Product, publication and stock writes | (Shopify) | create with verification, edit, publish, unpublish, set stock | one call of several failing, stale expectations | nothing half-made is reported as made | `ProductWrites` |
| Storefront catalog and checkout snapshot | none | show, cart, check out | page and checkout read at different times, two sources read one after the other | what is sold was recently seen at the supplier, at the price shown | `Storefront`, `Sourceability` |
| Automation | previews, lock, settings | preview, apply, triggers, hold, approve | stale plan, two runs, Shopify failing in the middle | what is applied was reviewed, runs exclude each other, prices come to rest | `Automation`, `Repricing` |
| Pricing | none | margins, guards, rounding, scenarios | rounding, boundaries, unknown costs | a recommended price clears the floors | `Money`, `Recommendation` |
| DeoDap import, cost sync, supplier orders | import ledger, manual costs, forwarding records, settings | import, sync, forward, save | claim expiry, lagging SKU search, failed second write, ambiguous matches | one product per reference, the right cost for the right variant | `DeodapImport`, `DeodapCatalog`, `DeodapOrders`, `Shipments` |
| Dropshipping margins | settings | order economics, dashboard, save | unknown amounts, several currencies, overlapping saves | totals add up what they say they do | `Dropshipping`, `Shipments` |
| Research scoring | the stored analysis | analyse, read again | ageing evidence, missing data | a verdict is earned and does not improve by waiting | `Research`, `Sourceability` |
| Tracking, diagnostics, audit, analytics, integrations, shell | - | reading, reporting, wiring | - | - | not modelled (section 12) |

How they meet: a payment confirmation reaches a checkout by the browser, by the Razorpay
queue's drain, or by the order worker's timer, and all three end in the same repository
operations. The Shopify queue clears the stored token on an uninstall, starts automation
runs and holds new products for review. Pushes and edits meet in the candidate's document.
Mutating console routes run behind the operator's guards and, with an Idempotency-Key,
behind the idempotency gate: `PushDraft` takes from the gate that one request of an
operation runs at a time, `Idempotency` shows when the gate lets a second one through.
Automation and the pushes obey the client's breaker, which `Automation` sees as `degraded`
and `Gateway` explains.

### Modules and runs

Twelve runs check one question each about one part, or several parts side by side:

| Run | Module | About |
|---|---|---|
| `serial`, `races`, `double`, `refund`, `stranded` | `MCPaidOrder` | paid orders (section 2) |
| `payments` | `MCPayments` | liveness of paid orders and of the Razorpay queue (sections 2 and 4) |
| `webhook_promise`, `uninstall` | `MCWebhookQueue` | the Shopify queue's promise (section 3) |
| `push_closed` | `MCPushDraft` | a finding about decisions (section 5) |
| `durable` | `MCDurable` | liveness of the push and the gate (sections 5 and 6) |
| `shop` | `MCShop` | client, operators, registration, deliveries, writes, storefront (sections 3 and 8) |
| `sourcing` | `MCSourcing` | automation, prices, research, supplier, books, push (sections 5 and 9) |

Deadlock is not checked in any run: a settled checkout, queue, request or bounded
operator has nothing left to do.

## 2. Paid orders

### Modules

* `CheckoutSessions` - the document of one checkout and the filter and update of each
  operation of `MongooseCheckoutSessionRepository`, as operators on one record.
* `PaidOrder` - every call that works on those documents, one action per await, with
  Razorpay, Shopify and the network as an external environment.
* `PaidOrderProperties` - what the lifecycle has to guarantee.
* `OrderPromise` - the abstract specification: the recorded status of a payment only moves
  forward, a checkout is paid only after its capture is on record, once, is fulfilled once,
  and refunds are final.
* `MCPaidOrder` - symmetry sets for TLC: Shopify's order numbers are interchangeable, and so
  are the slots of the checkout requests.
* `MCPayments` - this lifecycle beside the queue of section 4, for the runs with fairness.
* `PaidOrderProofs` - theorems and proofs.

### Correspondence

`session[c]` is the document in `storefront_checkout_sessions` of idempotency key `c`
(status `ABSENT` before the insert), `attempt[p]` the last status recorded for payment
`p`, `call[k]` a request, delivery or drain in progress: its `pc` is the await it is
suspended at, the other fields are the local variables that survive the await.
`receipt`, `pay`, `sent` are Razorpay's orders, payments and webhook deliveries (a
delivery stays in `sent`: it may arrive at any time and repeatedly); `shop` is
Shopify's orders, `indexed` says whether the search by source identifier finds them;
`abandoned[c]` counts `orderCreate` requests whose caller timed out or died and which
Shopify may still carry out.

| Action | Code |
|---|---|
| `CreateCheckout`, `InsertSession`, `AttachRazorpayOrder` | `CheckoutService.create` |
| `PostRazorpayOrder`, `RecoverByReceipt` | `RazorpayClient.createOrRecoverOrder` |
| `Verify`, `FetchPayment` | `StorefrontPaymentService.verify` |
| `ProcessWebhook`, `MarkRefunded` | `StorefrontPaymentService.processWebhook` |
| `ObserveRead`, `ObserveWrite` | `MongoosePaymentAttemptRepository.observe`, a read and a write |
| `MarkPaid`, `ClaimOne` | `markCaptured`, then `processOne(publicId)` |
| `ClaimNext` | the worker's `processOne()` |
| `FindExisting` … `RecoverOrder` | `ShopifyOrderAdapter.ensureOrder` |
| `MarkOrderCreated`, `ReleaseOrderForRetry` | the two ends of `processOne` |
| `CallFails`, `Crash`, `RetryComesDue`, `LeaseExpires` | failures and clocks |

Abstractions. Times are what filters distinguish (due or later, live or expired).
Amounts are `exact` (equal to the frozen total and currency) or not. `orderAttempts`
picks a delay only. The order of claimable documents (`paidAt`) is left open. The
`draining` flags make the webhook drain and the worker one call each; the drain's limit
of events per tick does not change what can interleave. The status `PAYMENT_PAID` is in
the code's vocabulary and in its filters, but no operation assigns it.
A reused Idempotency-Key with another body is refused before anything changes.

Timing switches. Three constants name what the code leaves to timing:
`PromptShopify` (retry delays and leases are longer than Shopify needs to settle a
request and index the order), `SpacedConfirmations` (no second confirmation of a
payment lands while an order attempt is open) and `UniqueReceipts` (Razorpay refuses a
second order for one receipt). A run that assumes one says so. Of the
theorems, `OnePaymentOneOrder` and `LeaseExcludes` assume the first two; the others assume none.

### Runs

| Run | Bounds | Shows |
|---|---|---|
| `serial` | 1 checkout, 2 checkout requests of its key, 1 browser, the two drains, 1 crash, 1 abandoned request, 2 Shopify orders; the timing switches on | `TypeOK`, `AtMostOneOrder`, `AttemptsExclude`, `OrderedMeansCaptured` |
| `races` | 2 checkout requests, the two drains, 1 crash, 1 abandoned request, 2 Shopify orders; neither `PromptShopify` nor `SpacedConfirmations` | `LinkedToOwnOrder`, `StrandedByLateRequestsOnly`, `PageNeverAsksTwice` |
| `payments`, service `lifecycle` | 1 checkout request, the two drains, 1 crash, 1 abandoned request; the timing switches on; fairness | `KeepsPromise` (refinement of `OrderPromise`), `PaidIsSettled` (liveness) |
| `double` | finding: browser and webhook together | two Shopify orders |
| `refund` | finding: refund before the capture is recorded | a refunded payment, a checkout that is not |
| `stranded` | finding: 2 checkout requests of one key, the drains, nothing failing | a paid checkout that no schedule comes back to |

Why these bounds are enough: checkouts share no document and no lock, they meet only in
the worker being busy, so one checkout with every kind of caller shows the
interleavings; two Shopify orders are what a violation of "at most one" needs; one crash
and one abandoned request each give a second attempt that overlaps what the first left;
two checkout requests let one attach the Razorpay order after the other's payment arrived.
The browser is where `Verify` and a confirmation beside the webhook come from; where it is
left out (`races`, `payments`) the drains confirm the payment repeatedly, and a second
confirmation comes from a second delivery. All runs have one payment: that a capture of
another payment, on another Razorpay order, buys nothing is what `NoOrderUnpaid` proves for
any number of payments. The theorems on provenance, on "at most one order" and on exclusive
attempts hold for any number of requests.

What two requests of one key do to a paid checkout is the subject of three statements.
`NeverStranded`, "a checkout whose payment is on record is finished or the worker comes back
to it", is what the documentation says and is false (`stranded`). `StrandedByLateRequestsOnly`
is what the code does guarantee: nothing but such a late attachment takes a paid checkout out
of reach, and one that is out of reach is one a repeated confirmation takes up again.
`PaidIsRemembered` proves `NeverStranded` where requests of a key do not overlap.

Fairness (`payments`). Weak fairness on each call's step (the event loop resumes every
call), on the worker's claim (a 15 s timer), on clocks and on Shopify's index. Strong
fairness on `FindExisting`, `ShopifyCommits` and `MarkOrderCreated`: attempts are
repeated for ever, and the provider and the database are not down at every one.

### Findings

* `double` - `markPaid` accepts `ORDER_CREATING` and reopens an attempt under way, so a
  confirmation by the browser and one by the webhook can both send `orderCreate`.
* `refund` - a refund processed before the capture is recorded is forgotten.
* `stranded` - `attachRazorpayOrder` has no status filter, so a checkout request that attaches
  late takes a paid checkout of its key back to `PAYMENT_PENDING`, out of the worker's filter.

A late attachment also overwrites `REFUNDED`; a capture that is delivered again afterwards
then orders for a refunded payment. `KeepsPromise` is therefore proved, and checked, for
requests of one key that do not overlap.

### Proofs

`PaidOrderProofs!TypesAndCalls` proves `IInv == TypeOK /\ WellFormedCalls` invariant for
every value of the constants: `WellFormedCalls` is what makes the types inductive, since
a step writes the identifiers its call carries.

The same module proves `Provenance`, and from it `OrderedMeansCaptured`,
`LinkedToOwnOrder`. "No order without a captured payment" is not inductive: it needs the
trail back from the order to the request that created it, to the payment the document
held when it was claimed, to the delivery or the fetch that said `CAPTURED`.
`Provenance` is that trail at every place an identifier may be. The proof splits a
step into how the documents move (`DocumentsMove`: fields written once) and what the
moved call carries. `IdentifiersWrittenOnce` and `PageNeverAsksTwice` are action
properties that follow from the same invariant (the latter through `paid` being set with
the payment and never cleared). These theorems assume the named
`ASSUME`s of the modules only; no timing switch is used.

`OnePaymentOneOrder` and `LeaseExcludes` prove `AtMostOneOrder` and `AttemptsExclude` from
`Prompt` (both timing switches on, `PromptShopify` and `SpacedConfirmations`), which is what
the run assumes. Neither is inductive. `OneAttempt(c)` adds what ties the attempts to the
document and to Shopify: one call at most works on the order of `c`; a document that can be
claimed finds Shopify `Quiet` about it (no call at work, no abandoned request outstanding,
every order of `c` visible to the search); an abandoned request is alone and there is no
order yet; and a call that is past a search that found nothing knows that there is nothing.

`OnlyLateRequestsStrand` proves `StrandedByLateRequestsOnly` without timing switches and for
any number of overlapping requests: a lemma per way a document moves says that a stranded
document is `PAYMENT_PENDING`, and that it was stranded before or has just been attached.
`PaidIsRemembered` proves `NeverStranded`, without timing switches too, for behaviours in
which of the requests of one key one at a time is past its insert (`OneRequestPerKey`). The
hypothesis is needed, as the run `stranded` shows, and the code does not enforce it. The
strengthening `AttachedOnce` says that a request that has still to attach finds a checkout
without a payment.

`ImplementsPromise` proves the refinement of `OrderPromise`, every step to a step or a
stutter, under the same hypothesis and without browsers: with the drain as the only
observer, nobody writes a payment's status between an observer's read and its write.
`StagesMatch` relates the document's fields to its stage, `OneObserver` says who may be
between the two.

Only model-checked: liveness (`PaidIsSettled`), which like `ENABLED` is out of the proof
system's reach.

## 3. The Shopify webhook queue

### Modules

* `WebhookQueue` - the delivery request of `webhooks.controller.ts` (store, acknowledge,
  nudge), the inline fallback for `app/uninstalled`, the claim, the settlement and the
  operator's retry of `webhook.queue.ts`.
* `WebhookQueueProperties`, `MCWebhookQueue` - properties and the TLC instance.
* `DeliveryPromise` - abstract: the sender is told to stop only once its event is stored, or
  its work was done on the spot (`handled`); an event ends once, and is reopened only after it
  was given up, or by the worker that settled it without learning that it had. A crash takes
  any number of such doubts with it (`Desert`). Both queues implement it.
* `WebhookQueueProofs` - theorems and proofs.

`row[e]` is the document of delivery `e`, `holding` the deliveries Shopify still has to
make (one that was not answered with a 2xx stays there), `call[k]` a delivery request or
the poller with the row it claimed. A request that stored its event goes on as a worker
for one event beside the poller, as the code's nudge does. `next` and `lease` keep only
what the claim's filter compares with now. What processing an event does is left open:
processed, ignored or failed. Faults are named and bounded: a crash anywhere, a database
call that fails with or without having been carried out, a lease that runs out under a
live worker (`overrun`), a database that is down for everybody (`outage`).

### Runs

* `shop`, service `deliveries`: a normal and an uninstall event, one request slot and the
  poller, two attempts, two faults of any kind but an outage. Shows `DeliveriesAreSafe`,
  which is `AcknowledgedIsSafe` (an acknowledged delivery is stored or was handled),
  `ClaimsExclude` (two workers hold an event only after a fault) and `RepetitionBudget`
  (its work is done again only for a fault). Two faults are the least with which a first
  fault's leftovers meet a second one; every extra effect or attempt is charged to a fault.
* `webhook_promise`: one fault (a crash or a database write whose answer is lost)
  and one operator retry, under fairness. Shows `KeepsPromise`,
  that the queue implements `DeliveryPromise`, and `DeliveriesSettle`. In the promise a
  settled event is touched again only by the worker that settled it and got no answer
  (`doubted`: `markProcessed` fails although it was carried out, and the worker goes on to
  `markFailure`, webhook.queue.ts). An overrun lease is left out of the refinement: it
  lets a late worker act on a row that somebody else finished. So is an outage, for which the
  promise does not hold:
* `uninstall`: finding. An `app/uninstalled` arrives while the database is down for everybody.
  It cannot be stored, the inline fallback runs, `clearOfflineToken` returns without having
  cleared the token, and the delivery is answered 200. `AcknowledgedIsSafe` is violated, against
  `docs/ARCHITECTURE.md` ("200 only when that inline work actually succeeded").

Fairness: weak on every call's step (event loop), on the poller's claim (its timer), on
retry times and lease ends (clocks); strong on Shopify's delivery of what was not
acknowledged and on its insert, since deliveries are repeated and not every one of them
finds the database failing.

### Proofs

`IInv` is the types; that a call beyond its claim works on a row that was stored; that the
workers on an event beyond the one the live lease names are at most the faults so far; and
that effects and attempts, together with those the workers still have in hand, stay within
the schedule and the faults. The workers are counted, not named, because a crash or an
overrun lease frees the event for any of the others. From it follow `ClaimsExclude` and
`RepetitionBudget` for any number of workers, events, faults and retries.

`AcknowledgedStaysSafe` (`AcknowledgedIsSafe`) assumes that no outage is among the faults, in
which it is false (`uninstall`). `ImplementsPromise` assumes no outage and no overrun lease, as
the run does; then a row being worked on has one worker (`EveryoneAlone`), the only one that
may settle it or be in doubt.

## 4. The Razorpay webhook queue

`RazorpayQueue` has the same shape and different rules: one drain per process, a row that failed
for good is `FAILED` and stays so (a redelivery finds its row and leaves it alone, and no
operator reopens it), the number of attempts comes from the table of delays, and the answer to
Razorpay is an error unless the event is stored. The run `payments`, service `queue`, has two
events, one request slot, one delay (two attempts) and one fault, which may be a crash, a
database call or a worker slower than its lease. It shows `RepetitionBudget` and, under the same
fairness as above, `EventsSettle` (`DeliveriesSettle`): what Razorpay sends is settled in the end
and stays so. `MCPayments` puts the queue beside the lifecycle as two services of one run
(section 7); they share no state. What `processWebhook` does to a checkout is in `PaidOrder`,
where a delivery may come at any time and repeatedly, which is all this queue promises to it.

`DurableProofs` proves `RepetitionBudget` for any number of events, receivers, delays and
faults (`QueueBounds`: the delays and the faults are numbers), about the instance `Queue` of
`MCRazorpayQueue`. The module has the theorems of the two parts that rest on a unique key in
Mongo, this queue and the gate of section 6; they share no state. The invariant, `QueueInv`,
says what the one worker holds (`WorkerOK`) and charges attempts and effects, those the worker
is about to make included (`Entitled`), to the schedule and the faults. It also proves that
this queue implements `DeliveryPromise`, overrun leases included: there is one worker, so a
late one meets nobody.

## 5. Candidates and the push to drafts

### Modules

* `Candidate` - the document, the table of allowed transitions, and the filter and update
  of each store operation (claim, intent, completion, release, incident, edit, analysis).
* `PushDraft` - the push orchestrator, one action per await, on one candidate; the
  requests that edit, analyse and decide beside it; Shopify as the environment.
* `PushDraftProperties`, `MCPushDraft` - properties and a TLC instance.
* `PushDraftProofs`, `SourcingProofs` - theorems about the push, and the same theorems about
  the run in which it stands beside other services.

`doc` is the candidate, `call[k]` a push operation or an edit in progress with what it
read, `draft[p]` the inputs product `p` was made from and those that were approved,
`indexed` what the search by research tag finds, `late` the `productCreate` requests whose
answer was lost, `visible` the products somebody published by hand, `cost` the supplier
cost recorded per product. `Inputs` are the inputs of a decision as the decision hash
tells them apart; a score is the inputs it was computed from. The checks between the
analysis and the intent (sourceability, variants, duplicates, price floor) write nothing
and are one choice of passing or refusing.

`MaxDisturbances` bounds edits, lost answers, manual publications and faults together.
`PromptShopify` says that Shopify settles a request and indexes the product before anybody
looks; `PromptPushes` that a push which runs on ends within its lease.

### Runs

* `sourcing`, service `push`: two push operations, one editor that may select or reject, two
  inputs, three products, two disturbances, leases that may run out under a push. Shows
  `OneDraft`, `DecisionsAreHonest` (`DraftsCarryTheirDecision`: a draft and its recorded cost
  are those the operator approved; `ScoreIsHonest`: a score that does not count as stale is
  about the present inputs) and `LinkIsFinal`. Two operations and two disturbances give the
  take-over of a claim whose owner lost its answer; three products leave room for one draft
  more than the bound of `OneDraft` allows. One editor at a time: two concurrent edits can
  leave a stale score that looks current (section 11).
* `durable`, service `push`: the same with `PromptPushes`, an editor that may only reject, and
  fairness. Shows `DraftsAreAdopted`: a draft that was made is linked in the end unless the
  candidate is rejected. Weak fairness on the steps of a push, on its being requested again,
  and on clocks and the index; strong fairness on the tag search: the operator repeats a push
  that did not end, and the search is not down at every attempt.
* `push_closed`: finding. An analysis that read `NEW` overwrites a rejection stored while
  it ran.

### Proofs

`PushDraftProofs` holds for any number of push operations, editors, inputs, products,
disturbances and faults (`PushBounds` says only that pushes and editors have different
slots, that the editors' are finitely many, and that `None` is no value).

* `TypeCorrect`: `IInv` is the types and what a call has in hand at each await: a push beyond
  its claim carries approved inputs, and one beyond a create or an adoption carries a product
  that exists.
* `TheLinkIsFinal` (`LinkIsFinal`) follows from `IInv` alone: whatever Shopify's timing, an
  expired lease or a second operation, a linked product exists, a link is never cleared, and
  the only step that may exchange it is the marking of a safety incident, whose update
  (`markSafetyIncident`) does not ask who owns the claim or what is linked.
* `OneCandidateOneDraft` and `DraftsAreApproved` assume `Prompt` (`PromptShopify`: Shopify
  settles a request and indexes the product before anybody looks), as the run does. "One draft
  and one more per lost answer" is not inductive. `PromptInv` adds what a search that found
  nothing knows (no draft that the search could have found, no request in flight), that only
  the owner of the claim is past it, and that each draft is accounted for by the intent or by
  a lost answer.
* `ScoresAreHonest` assumes `Alone`, one request at a time that edits, analyses or decides;
  for two it is false (section 11). `ReadsAreTold` says that what the request read is still the
  document's, or that the request will find the revision changed.

`SourcingProofs` carries them to the run (`CandidatesBecomeOneDraft`, `DecisionsStayHonest`,
`LinksAreFinal`).

## 6. The idempotency gate

`Idempotency` is one key: `record` its row, `request[r]` a request that carries it
(`claim` before the insert, `look` after the duplicate-key error, `run` with the claim,
`unclaimed` without it, `finalise` between the answer and the write). The handler is
reduced to whether it had its effect and the class of its answer, `error` standing for
5xx and 429. Bodies are compared, not hashed. The TTL removes a record no request holds:
its two days are longer than any request. `excuses` counts what the gate knowingly lets
run again: a failure after the effect, an expired record, and a duplicate whose record was
gone when it looked.

The run `durable`, service `gate`, has two request slots, used again by later requests, two
bodies, three handler runs and one mishap (a crash, a failing insert or completion, a client
that is gone). It shows `EffectOnce`, `ReplaysAreFaithful` and, with weak fairness on the
requests and the TTL monitor, `ClaimsEnd`.

`DurableProofs` proves `TypeOK`, `EffectOnce` and `ReplaysAreFaithful` for any number
of requests and bodies. `EffectOnce` alone is not inductive. `Ownership` adds that whoever
is past the claim owns the record, is alone, and asked the record's question; `Balance`
counts a run as an effect from the moment it is let through: effects and running handlers
together never exceed the excuses plus the allowance of the record, which is one while the
record stands and nothing once its claimant has reported a failure. Every release of the
record is thereby paid for: by the failure's excuse or by the expiry's. The assumptions are
that `Requests` is finite and that `None` is no body, answer or record.

## 7. Several services in one run

The services of sections 8 and 9 share no state with each other, so checking them together
would only multiply their states. `MCShop` and `MCSourcing` instantiate them side by side
over one pool of variables `v1`, `v2`, ...: a variable `service`, chosen in `Init` and never
changed, says whose variables they are, and `Next` is a step of that service. The states of
the run are the sum of the services' states, and a property of a service reads
`service = "..." => ...`. `MCDurable` does the same with the gate and the push, and
`MCPayments` with the checkout lifecycle and the Razorpay queue, which have variables of their
own there; the fairness is that of the service that runs.

What bounds a service is a constant of the composing module, so that its theorems speak of any
value: `MCShop` has `Slots`, `Listings`, `Stocks`, `Limit`, `HalfLife`, `Few` and `Many`,
`MCSourcing` has `Slots`, `Items`, `Editors`, `References`, `Uncoded`, `Few` and `Many`, and
the `.cfg` files give them the sizes named below (two slots, one listing, stocks 5 and 20
around the limit 10, a half-life of three ticks, one and two events). So are the data whose
computations are proved about: the prices, costs and rules of automation (`Prices`,
`UnitCosts`, `ManualCosts`, `PriceRules`), the orders of the books and what happens to them
(`Orders`, `OrderKinds`, `LaterCosts`, `Patches`), and what the research sees (`Market`,
`Entries`, `Offers`, `Sheets`, `Category`, `Batches`, `Size`, `Waits`); the `.cfg` gives them
the samples defined in `MCSourcing`. The three services about prices, verdicts and books are
instantiated in `SourcingFigures` with these constants and `v1` to `v8`; `MCSourcing` extends
it, and so does `FiguresProofs`, which proves that each of them keeps its property without
seeing the other services. What the theorems assume of the constants is named there:
`BoundsAssumption` and `NoneAssumption` in `MCShop` (numbers are numbers, half of a session's
life is longer than an answer takes, and the markers of a free slot are no listings or events),
in `MCSourcing` `SlotsAssumption`, and in `SourcingFigures` `PricesAssumption` (amounts are
whole minor units, the percentages of a band not negative, as `validateAutomationRules`
requires), `BooksAssumption` (finitely many orders, quantities and recorded amounts not
negative) and `ResearchAssumption` (figures have a date, a batch has orders, a wait is not
negative).

Slots for requests are interchangeable (`Symmetry`), and so are the products of automation
and the inputs of a candidate; nothing in the properties or the initial states tells one
from another. No run with symmetry checks liveness.

Bounds are constants in the guards, never state constraints: at a bound an action is
disabled and everything before it has been explored.

## 8. The run `shop`: between the shop and the outside

### The Shopify client (`Gateway`)

`shopify.client.ts`, `shopify.breaker.ts`, `shopify/token/`, `auth/oauth.service.ts`. A call
of `shopifyGraphql` is a loop of `GetAccessToken`, `Execute` (Shopify carries the operation
out or not, and answers, refuses the token, or is lost) and `Settle` (retry, renew the token
once, give up, count for the breaker). `AnswerFlight` and `LandFlight` are the two ends of
the one token request all callers share. `ExchangeCode`, `PersistOfflineToken`, `Uninstall`
and `ClearOfflineToken` are an installation beside it. Tokens are numbered as they are issued.
`TokenComesDue`, `RefusalForgotten`, `BreakerCools`, `FailureDecays` are the clocks.

* `PausedOnlyWhileFailing`: bulk writes are paused only while Shopify keeps failing.
* `CallsEndRightly`: no call ends as rejected for a token that another call has renewed or is
  just loading, and Shopify carries an operation out again only where it gave no usable answer.

Three calls, two at once, two attempts each, a threshold of two failures, two tokens, and all
three token strategies: two calls share a flight, the second attempt is the retry, the second
failure opens the breaker, and a third call can succeed after that or between two failures (a
breaker that forgets to reset its count on such a success is caught).

`GatewayProofs` proves `PausedOnlyWhileFailing`, `RejectedOnlyWhenUnsettled` and
`RepeatsArePaidFor` for any number of calls, attempts, tokens and any threshold
(`GatewayBounds` types them), and that no operation is sent more often than the attempts and
the one renewal allow (`ExecutionsAreBounded`). "No call is refused for a token that another
call renewed" needs the trail of the token: a token in the cache, in a flight or in a call's
hand that Shopify no longer takes was revoked while that call ran, or was already revoked
when it was stored, and each of these marks the call. `ShopProofs` carries this and the
queue's invariant over to the run: there the theorems are about `MCShop!Spec`, in which the
services stand side by side, as are those about sessions, registration and writes below.

### Operators (`OperatorSessions`)

The browser's `jar`, up to two requests under way (`tab[t]`), and a server that keeps
nothing. `Login`, `Logout`, `Me`, `Csrf` and `Console` are the answers, the guards in the
order `app.ts` mounts them; `Receive` puts the answer's cookies into the jar, in any order.
`ActiveStaysSignedIn`: an operator who does something in each half of a session's life stays
signed in, whichever tab's answer comes last. A session lives two half-lives, 6 ticks in the
run, whose clock runs to 7: it is issued, renewed in its second half, and would have expired.
`ActiveOperatorsStay` proves it for any number of tabs and any half-life of three ticks or
more. Its invariant `SessionInv` ties the jar to the answers under way: once the operator has
been active in the second half of the jar's session, some tab has an answer under way that
brings a successor, sent early enough to arrive before the end (`Renewing`), and every request
of an active operator carries a session that outlasts its answer.
Two statements of the documentation are stated in the module and not run, because the code
does otherwise: `ActiveOperatorWrites` and `ReadsStayOpen` (section 11).

### Webhook registration (`WebhookRegistration`)

`Start` lists the subscriptions and plans (`PlanWebhookRegistration`); `Keep`, `Skip`,
`DryRun`, `Create`, `Update` perform one planned action each, `Call` saying what a mutation
may do: be refused, or take effect without its answer arriving. Another deployment, the
merchant and an uninstall change the subscriptions in between. `RegistrationDelivers`: what a
run reports as created, updated or kept is delivered to this backend, unless somebody else
took it away meanwhile. Two overlapping runs, two wanted topics and one unwanted, one refusal,
one lost answer, one stranger. `ReportedTopicsAreDelivered` proves it for any number of runs
and mishaps: unless a run was disturbed, every subscription it listed is still there or points to
this backend by now (`Seen`), and each outcome so far that claims success is delivered
(`Truthful`).

### Product, publication and stock writes (`ProductWrites`)

A request is a sequence of calls (`Step`), each refused, carried out, or carried out without an
answer. Create: product, variants, publication, verification, activation. Edit: the stale check,
then status, tags and price. Stock: read, expectation, confirmation of large changes, set.
Publish and unpublish with their read-back. The merchant writes in between, which ends what a
request may be `sure` of. `ReportsAreTrue`: what a request reports as done is what Shopify has, a
product is not for sale at another price than its own while it is being made, and a product
reported as left in draft is not for sale unless the very call that activated it took effect
unheard (`unheard`, the one call a request is told nothing true about; section 11).
`ExpectationsHold`: an edit that names the status and the price it expects changes nothing of a
product that has others (`Believed`), except for the status the edit has itself just written, and
a stock write overwrites no other level than the expected one, unless somebody wrote between the
read and the write. Of the run's three edits one expects a status and changes status and tags,
one expects a price and changes tags and price, and one expects nothing. One product, two
requests, one mishap, forms with no options, with distinct options, and with a duplicate that
Shopify refuses; stocks below and above the limit for unconfirmed changes.

`ReportsStayTrue` and `WritesMeetExpectations` prove both for any number of requests,
listings, stocks and mishaps. A report of success is the end of up to five calls, and says
something of all of them. The calls of a request come in one order (`Turn`, `InTurn`): what is
left is what was asked for less what was made (`Asked`), and as long as nobody else wrote to
the product, each call that was made still has its effect (`Holds`). `WritesInv` puts these
together; one lemma per kind of call shows what the call adds to `Holds`, and that a call of
one request takes the certainty (`sure`) from every other request on its product.

### Storefront (`Storefront`, `Sourceability`)

A customer opens a page (`ReadShop`, then `ReadEvidence`, then `ShowPage`), fills a cart with up
to two lines, and checks out (the two reads again, then `Decide`). The merchant edits the
product, operators record what the supplier has (a sheet whose rows may lack ids or SKUs), the
push links the candidate, a second candidate claims the same product, time passes in steps of 72
h, the age at which a verification stops being fresh. `PurchasesHold`: what is sold is on an
active product of the storefront's channel, of which a check within 144 h found the supplier to
have it; the variant is the one the customer's choice stands for, and if the check named any
variants, it named this one as available. (A check that names none is not compared,
`sellability.ts:73`; section 11, `AbsenceNeverSells`.) And the customer gets the quantity of all
the cart's lines at the price the page showed, within the minimum and the stock there was. Three
changes of the world fall anywhere between the reads; a later violation needs at least two.

`PurchasesAlwaysHold` proves it for any number of changes. `StoreInv` says of every reader,
page and cart what makes a sale right later on: the rows of a sheet were true of their
variants when they were recorded (`TrueSheet`), a mapping pairs a source with the one variant
that was made from it (`TrueMappings`), evidence is a sheet with its mappings as they were at
one moment (`TrueEvidence`), and all lines of a cart expect the price the page showed, or none
(`TrueCart`). The checkout sells at most one line per variant (`Asked` adds the quantities of
the cart's lines), so what was asked for is what is sold.

## 9. The run `sourcing`: what the shop offers

### Automation (`Automation`, `Repricing`)

A task is a preview, an apply, a run started by a delivery, a hold of a new product or an
approval. `BeginPreview`, `ResolveEffectiveRules`, `FetchProduct` and `RecordPreview` make a
plan; `BeginApply` consumes a preview; `Apply` and `ApplyForDelivery` take the lock;
`ApplyStatus`, `ApplyTag`, `ApplyPrices` are the writes, each a call to Shopify, and
`AbortDegraded` stops before the next one. Merchants, suppliers and saved rules interfere; a
`Restart` loses tasks, previews and the lock, which are in memory.

* `RunsAreReviewed`: an apply executes exactly the plan the operator was shown, each preview
  once, and no two runs write at the same time.
* `StopsForGood`: a run that left an action out because Shopify was failing applies nothing
  after it.

Two products, two tasks of which three are begun, one preview, one edit, both rule sets.

`SourcingProofs` proves both for any number of tasks, products, previews, edits and restarts.
`RunInv` says that whoever writes holds the lock, that a preview which can still be consumed
has admitted nobody, that an apply which writes does so with the plan and the rules of the
preview it consumed, and that an aborted run has given up what it has not applied.

`Repricing` follows the price of one variant through run after run: the choice of its cost
(manual, Shopify's, other currency), target, floors, raises, rounding, clamps and the
threshold. `PricesSettle`: while nobody edits anything, runs move a price in one direction
only until it rests, and none writes a price below a floor except after a hundred raises.
Prices of 19.99 and 1000.00, four rule sets (margin, multiplier, an uplift that insists on a
known shipping cost, and one that raises nothing and calls every difference a change), costs
missing, in another currency, small and far above the price.

`PricesAlwaysSettle` proves it for any prices, costs and rules that `validateAutomationRules`
accepts. What a run aims at (`Candidate`: target, floors, raises and rounding) depends on the
cost and the rules and not on the price, the band a run may move the price in holds the price
(`BandHoldsPrice`), so the price moves towards the candidate and the clamp keeps it from
passing. `PricingInv` says so for each trend: while prices rise the candidate is above the
price or the price has arrived (`Arrived`: the next run would write what is there), while they
fall below it, and a price that settled is not written again, or as it is. Of the hundred raises
the proof needs that they end at the first that clears the floors or at the last (`StepsEnd`).

### The recommended price (`Recommendation`, `Money`)

One question and its answer over a grid of 80 cost records and 144 policies.
`RecommendationIsSound`: a recommended price clears both floors, no viable one is withheld, and
so does the minimum viable price when there is one.

### Research (`Research`, `Sourceability`)

`Analyse` stores a verdict; orders of the category are sold, shipped, delivered, refunded and
cancelled, Shopify becomes unreadable, the supplier is verified, time passes. `VerdictsAreEarned`:
a candidate called good was researched and its supplier has it now, and waiting improves no
verdict, analysed again or only read again, but for a candidate whose supplier has it in none of
its variants (`AllVariantsOut`): it is rejected, and held at WATCH once the sheet is stale. A
batch of nine orders and one of one let the number pass the thresholds for a history; 80 h is
longer than 72 h, twice 80 h longer than twice 72 h, and both longer than the delivery promises
of the orders. The sheets say nothing of variants, that the only one is out, or that one of two
is.

`VerdictsAreAlwaysEarned` proves it for any figures, offers, sheets, category, batches and waits.
Time passing makes each factor of the analysis fade (`Fades`): it stays scored or unscored, and
value and freshness do not rise. The score and the confidence are quotients of sums over the
factors, and sums of faded terms have faded (`PointsFade`, `CurrentFades`), so neither rises
(`OverallFades`, `ConfidenceFades`) and the bands, which are thresholds on them, do not either
(`BandFades`). The gate by the supplier comes last: it lifts nothing but the case above
(`GateFades`). That a good verdict was researched follows from its threshold on the confidence:
60 is not reached, rounding included, with less than 63 of the 105 points of weight covered.

### Supplier imports (`DeodapImport`)

An import claims a reference in the ledger (`InsertClaim`, `TakeOver`), searches Shopify for the
SKU, creates the product, records the cost and settles the row; each await is a step and a
request may die at each. A cost sync reads the manual cost and writes it.
`OneProductPerReference`: overlapping, failing, repeated requests make one product, except where
the SKU search could not see a product that was there or a claim ran out under a live request.
`ImportedForGood`: a reference recorded as imported stays so and is never offered again. (Which
product the row names is not part of it: a request that outlived its claim may still write its
own.) One reference with a SKU and one without, two products each at most, two requests, two
mishaps (a failed write, a death, an expiry).

`OneProductOfAReference` and `ImportedStays` prove both for any number of requests,
references, products and mishaps. `ImportInv` says that a claim of the ledger has one live
owner unless it ran out under one (`ClaimsHold`), that a request about to create the product
is the first to do so, or a search has missed one or a claim has run out (`FirstCreates`), and
that the search by SKU knows at most what was made (`IndexBehind`).

### Price lists (`DeodapCatalog`)

A file is uploaded, its columns recognised, its rows grouped into products; Shopify creates all
or part of the variants; a later list is matched with the ledger, and of the changes found the
operator applies some (a write that fails is one he did not get). `CostsReachTheirVariant`: the
recorded cost of a variant is the one of its own row. Two rows with and without handle, SKU,
size and cost, and an operator's mapping that takes the price for the cost: two rows are what a
mix-up needs.

### Supplier orders (`DeodapOrders`, `Shipments`)

Which lines are the supplier's, what the operator records, what becomes of the parcels.
`NobodyWaitsSilently`: an open order the supplier never dispatched gets attention once it is
overdue. `StagesKeepTheirTime`: a stage keeps the time it was first reached, unless two updates
overlapped. Hours 0 and 30 lie on both sides of the 24 h threshold; the code compares
milliseconds, and the model the moments it looks at, so an order that is late by part of an hour
is late at the next of these. `StagesAreKept` and `NobodyWaits` prove both: an update that nobody
overlapped writes over the record it read (`UpdatesSeeTheRecord`), and an order without parcels
is unfulfilled, in progress or on hold (`OrderMoves`), none of which the page takes for
dispatched.

### Books (`Dropshipping`, `Shipments`, `Money`)

Orders arrive, are paid, sent, cancelled; costs are recorded; two operators save settings.
`BooksAreHonest`: the cash still owed is exactly what the unsent paid orders of the main
currency cost, and what is unknown is counted and listed. `SavesLeaveTheRest`: a save changes
only the fields it names, unless it was overtaken or could not read. Orders with several
lines, without revenue, in a second currency and without lines.

`BooksAreAlwaysHonest` proves the first for any finite set of orders with any lines and recorded
costs, the settings included: the cost of an order is the sum over its lines, or unknown when one
of them is, and what is committed over all counted orders is what is fulfilled and what is
outstanding, because the two are sums over the parts of one finite set (`SumSplits`).
`SavesAreLocal` proves the second: a save that was not overtaken and could read holds the
settings as they are stored (`SavesAreCurrent`).

## 10. What is proved and what is not

| Theorems | Property | For every |
|---|---|---|
| `PaidOrderProofs!TypesAndCalls` | `TypeOK`, `WellFormedCalls` | number of checkouts, calls, orders, crashes |
| `PaidOrderProofs!ProvenanceHolds` | the trail from every identifier to a captured payment | the same, without timing assumptions |
| `PaidOrderProofs!NoOrderUnpaid`, `LinksAreSound`, `NeverAskedTwice`, `IdentifiersStay` | `OrderedMeansCaptured`, `LinkedToOwnOrder`, `PageNeverAsksTwice`, `IdentifiersWrittenOnce` | the same, without timing assumptions |
| `PaidOrderProofs!OnePaymentOneOrder`, `LeaseExcludes` | `AtMostOneOrder`, `AttemptsExclude` | the same, with both timing switches on |
| `PaidOrderProofs!OnlyLateRequestsStrand` | `StrandedByLateRequestsOnly` | the same, any number of overlapping requests, without timing assumptions |
| `PaidOrderProofs!PaidIsRemembered` | `NeverStranded` | behaviours with one request of a key at a time past its insert |
| `PaidOrderProofs!ImplementsPromise` | `KeepsPromise` of `OrderPromise` | the same behaviours, without browsers |
| `WebhookQueueProofs!ClaimsAreExclusive`, `RepetitionsArePaidFor`, `TypeCorrect` | `ClaimsExclude`, `RepetitionBudget`, `TypeOK` | number of events, requests, attempts, faults, manual retries |
| `WebhookQueueProofs!AcknowledgedStaysSafe` | `AcknowledgedIsSafe` | the same, no outage |
| `WebhookQueueProofs!ImplementsPromise` | `KeepsPromise` of `DeliveryPromise` | the same, no overrun lease and no outage |
| `DurableProofs!RepetitionsArePaidFor`, `QueueTypeCorrect`, `ImplementsPromise` | `RepetitionBudget`, `TypeOK`, `DeliveryPromise` | number of events, receivers, delays, faults |
| `GatewayProofs!PausedForCause`, `RenewedTokensServe`, `RepetitionsArePaidFor`, `ExecutionsAreBounded` | `PausedOnlyWhileFailing`, `RejectedOnlyWhenUnsettled`, `RepeatsArePaidFor`, `ExecutionBound` | number of calls, attempts, tokens, any threshold |
| `ShopProofs!PausedForCause`, `CallsAreServed`, `QueueIsSafe` | `PausedOnlyWhileFailing`, `CallsEndRightly`, `DeliveriesAreSafe` of the run `shop` | behaviour of `MCShop`, from the theorems of the components |
| `ShopProofs!ActiveOperatorsStay` | `ActiveStaysSignedIn` | number of tabs, half-life of three ticks or more |
| `ShopProofs!ReportedTopicsAreDelivered` | `RegistrationDelivers` | number of overlapping runs, refusals, lost answers, strangers |
| `ShopProofs!ReportsStayTrue`, `WritesMeetExpectations` | `ReportsAreTrue`, `ExpectationsHold` | number of requests, listings, stocks, mishaps |
| `ShopProofs!PurchasesAlwaysHold` | `PurchasesHold` | number of changes of shop and supplier, any time between reads |
| `PushDraftProofs!TypeCorrect`, `TheLinkIsFinal` | `TypeOK`, `LinkIsFinal` | number of operations, editors, inputs, products, disturbances |
| `PushDraftProofs!OneCandidateOneDraft`, `DraftsAreApproved` | `OneDraft`, `DraftsCarryTheirDecision` | the same, where Shopify settles before anybody looks |
| `PushDraftProofs!ScoresAreHonest` | `ScoreIsHonest` | the same, one editing request at a time |
| `SourcingProofs!CandidatesBecomeOneDraft`, `DecisionsStayHonest`, `LinksAreFinal` | `OneDraft`, `DecisionsAreHonest`, `LinkIsFinal` of the run `sourcing` | behaviour of `MCSourcing`, the second with one editing request at a time |
| `SourcingProofs!OneProductOfAReference`, `ImportedStays` | `OneProductPerReference`, `ImportedForGood` | number of requests, references, products, mishaps |
| `SourcingProofs!RunsStayReviewed`, `AbortedRunsStop` | `RunsAreReviewed`, `StopsForGood` | number of tasks, products, previews, edits |
| `SourcingProofs!StagesAreKept`, `NobodyWaits` | `StagesKeepTheirTime`, `NobodyWaitsSilently` | number of requests and events |
| `SourcingProofs!SavesAreLocal` | `SavesLeaveTheRest` | number of saves |
| `SourcingProofs!BooksAreAlwaysHonest` | `BooksAreHonest` | finite set of orders, their lines, currencies and costs |
| `SourcingProofs!PricesAlwaysSettle` | `PricesSettle` | prices, costs, validated rules |
| `SourcingProofs!VerdictsAreAlwaysEarned` | `VerdictsAreEarned` | figures, offers, sheets, category, batches of orders, waits |
| `DurableProofs!NextIInv`, `TypeCorrect`, `EffectsAreOnce`, `ReplaysFaithful` | `TypeOK`, `EffectOnce`, `ReplaysAreFaithful` | number of requests, bodies, runs, mishaps |

What proving found. `Stage` of `PaidOrderProperties` and `PlanWebhookRegistration` were written
with `CASE` and overlapping guards, which TLC evaluates from the top and TLA+ leaves open; they
are nested conditions now. `DeliveryPromise` let a crash lose one worker's doubt at a time, while
one crash of the process takes all workers: the refinement did not go through until `Desert` took
any number. `NeverStranded` holds for one checkout request at a time and not for two (section 2;
the run `stranded` shows the two), and a score is honest with one editor at a time and not with
two (section 5), which runs with one of them could not show. `ActiveOperatorsStay` needs a
half-life longer than a request and its answer take together (three ticks), which is an
assumption of `MCShop` now; the code's sessions live for hours. The research was checked with
sheets that said nothing of variants; the proof of the gate did not go through, and with rows in
the run's sheets TLC refuted "waiting improves no verdict" (`RejectionStays`, section 11), which
now names the exception. Stating the prices for any validated rules brought up the rule set that
calls every difference a change (section 11) and is in the run since.

Sums over sets are the community module's `MapThenSumSet`, a function over the subsets of its
argument that picks an element at a time. `FiguresProofs` has the lemmas about it: such a
function exists for every finite set and is unique (`SumsExist`, `TotalIs`), so the library's
sum is `Total`, of which it is proved that it takes out any element (`TotalWithout`), keeps the
type of the terms (`TotalIsNat`, `TotalIsInt`), grows with them, and splits over a partition of
the set (`SumSplits`). Each of these is an induction without an induction theorem: the set of
subsets that contradict the claim has a smallest member (`SmallestSet`, over `Least` for
numbers, from the library's `WFMin`), and that one cannot be.

`FiguresProofs` is a module of lemmas only. Its lemmas `PricesStart`, `BooksStart`, `BooksRest`,
`ResearchStart` and `ResearchRest`, and those about the steps, say that a service starts and stays
in its invariant; `SourcingProofs` adds `service = "..."` to them and states the theorems of the
run. The split keeps the context of each obligation, and with it the time to prove the whole,
small.

These are model-checked only, on the instances of sections 2 to 9:

* liveness, and the fairness it rests on (`PaidIsSettled`, `DeliveriesSettle`, `ClaimsEnd`,
  `DraftsAreAdopted`): like `ENABLED`, out of the proof system's reach;
* `RecommendationIsSound`: the minimum viable price is found by raising a price by halves until
  it clears both floors, and that the first one that does is found from the computed start needs
  bounds on products and quotients of amounts that the provers do not find;
* `CostsReachTheirVariant`: rows of a price list are grouped and matched with variants by
  recursive functions over the sequence of rows, where a claim about every prefix of every list
  would have to be carried through four stages of the import.

The library's induction theorems take an operator as a parameter, which the installed provers
cannot instantiate; smallest counterexamples take their place where the proofs above need them.

The type invariants `TypeOK` of the two queues, the gate and the push are proved; those of
the remaining modules document the shape of their variables, and the proofs about these
modules state the part they need.

## 11. Where code and words, or code and expectation, disagree

Five disagreements are runs that expect a violation (`double`, `refund`, `stranded`,
`uninstall`, `push_closed`) and are listed under "findings" in `PROJECT.json`. Eight properties
are stated in
the modules under "Not guaranteed by the code" and not run, because the code does not promise
them or contradicts itself about them; each is named below. The rest was met while modelling,
and the models follow the code.

Paid orders, gate, queues
* `attachRazorpayOrder` has no status filter: of two checkout requests with one key, the
  late one can take a paid checkout back to `PAYMENT_PENDING` (finding `stranded`), or a
  refunded one, which a redelivered capture then takes to an order.
* `common/idempotency.ts` names expiry as the only way a duplicate finds no record; a
  release between the failed insert and the read has the same result, and the handler runs
  unclaimed beside the next claimant. A `finish` event that never comes (client gone) keeps
  the key in progress until its TTL.
* `webhooks.controller.ts` says of the inline uninstall "even with no database", and
  `webhook.ack.ts` that a failure is answered 503; `clearOfflineToken` then returns without
  having cleared anything, and the answer is 200 (finding `uninstall`).
* `webhook.processor.ts` answers a trigger that finds a run under way with "it covers this
  product": a run that read the product before does not. `TriggerCooldown` is never used.

Candidates and pushes
* `intelligence/push.ports.ts` says the intent is written once and not overwritten; the
  store's filter lets a second operation that took the claim over overwrite it. Where
  Shopify's search lags this leads to two drafts.
* `intelligence/candidate.transitions.ts` says the research tag makes a second product
  impossible; a `productCreate` sent again after its answer was lost makes one
  (`OneDraft` allows one extra per lost answer).
* `intelligence/push.orchestrator.ts` says the claim re-checks the conditions atomically;
  its filter has no status, so a candidate rejected after the check is still pushed.
* Two concurrent edits that read the same revision can leave a score that counts as current
  and is about other inputs.

Shopify client and installation
* `mapNetworkFailure` in `shopify.errors.ts` says "the resource is re-read rather than the
  write being repeated"; `shopifyGraphql` repeats the mutation.
* `shopify.breaker.ts` says that after the cool-down a failed trial "re-opens immediately": a trial
  that fails more than 120 s after the last failure counts as the first one, and failures after
  a cool-down that nobody has looked at yet do not open it again.
* A late `app/uninstalled` that is processed after a reinstallation clears the new token, and
  the token provider's cache is not told.
* Webhook registration: a create whose answer was lost is sent again, refused as taken, and
  reported as failed although the subscription exists; a payload without a subscription is
  reported as created with id null.

Operators
* `ReadsStayOpen`: a router mounted at `/api` with `requireOperator` guards every read that no
  router above it answers (`app.ts:279`), while `app.ts:263-266` and `docs/OPERATOR_AUTH.md`
  say that reads need no session.
* `ActiveOperatorWrites`: renewing a session does not renew its CSRF cookie, so the writes of
  an operator who is signed in all along are refused once the cookie's own lifetime is over,
  until the page asks for a new one. The "absolute cap" the middleware's comment names does
  not exist. A renewed cookie that arrives after the logout signs the browser in again.

Automation and prices
* A plan made from a stale read writes `DRAFT` over `ARCHIVED`, although "automation must never
  resurrect an archived product". The expiry of a preview is not looked at again when it is
  consumed, and an apply that is refused the lock has consumed it. `GateHolds`: holding and
  approving do not take the lock, so a run planned before the hold can publish a held product.
* `minMarginPercentage` is a "Hard floor" whose price is "clamped or skipped"; after a hundred
  raises the price is written below it. `lowestCurrentMargin` is computed from the product's
  cost, not the landed cost.
* `computeMinimumViablePrice` promises the "lowest price that clears both floors"; starting at
  a price in .99 and rising by 0.50 it passes through .49, and stops within half a unit of the
  lowest at best. Its `ceilMoney` rounds what already is whole.
* `automation.triggers.ts` promises that the run our own write starts "finds nothing to do, and
  stops". `validateAutomationRules` accepts a `minChangeAmount` of 0, for which no difference is
  too small: each such run writes the same price again.

Supplier
* An import whose last ledger write failed stays claimed; once the lease is over a product
  without SKU can be created again, against "Nothing below may report a failure that would
  invite a retry and a second product". An import that outlived its lease settles, fails or
  deletes the claim of its successor.
* "An operator who switched the override off keeps it off" does not hold for a switch between
  the cost sync's read and its write. After a failed second write ledger and cost differ.
* "A stage keeps the time it was FIRST reached" does not hold for overlapping updates, and two
  overlapping saves of the settings can leave other prefixes active than stored.
* A cancelled fulfilment or a failed delivery brings no attention on the supplier's page,
  while `dropshipping.status.ts` says "Someone has to act"; an order without a status is
  unknown and not flagged.
* After a partial import, or when only one row of a product is left in a later list, the
  fallback for products with a single variant can take the cost of another variant's row
  (`CostsReachTheirVariant` speaks of later rows that are still there); a variant without a
  match is passed over in silence when a sibling matched.

Books and settings
* An order is said to be unknown when only some of its lines have a fulfilment cost; the code's
  `?? 0` makes it known (no source fills that field yet).
* The dashboard's warning refers to "Needs Attention", but an order with an unknown total or a
  foreign currency is in none of its buckets. `DELIVERY_FAILED` is not among the dispatched
  states, so such an order counts as still owed.
* `MarginOfOneBook`: with several currencies the dashboard divides the profit of some orders by
  the revenue of others. The economics of an order ignore the currency of a recorded cost.
* A save of settings whose read failed resets every field it did not name, where the comment
  says "leaving the rest alone"; of two overlapping saves one is lost.

Product writes
* `LeftAsDraft`: an activation whose answer is lost leaves a product that is active and
  published and reported as "left as a DRAFT and is not visible". `ReportsAreTrue` says that
  this is the only way to get there.
* A variants call that throws leaves a draft nobody tracks, although "Throwing here would
  orphan it"; several variants without declared options pass the validation and are refused
  by Shopify after the product exists.
* `visibleToCustomers` after a publication looks at neither status nor channel, and an
  unpublication treats a channel that is missing from the read-back as a failure.
* Expectations are compared and then written, and Shopify is told to ignore the quantity it
  could compare (`ignoreCompareQuantity`). A confirmed stock change whose present quantity
  cannot be read is written whatever was expected.

Storefront
* `AbsenceNeverSells`: "absence never grants sale" (`sellability.ts:61`), but a sheet that says
  nothing of variants sells all of them, also a product whose earlier sheet named them.
* A variant with tracked stock of zero that Shopify would still sell, or a minimum quantity
  above the stock, is shown as sellable and refused at checkout. Repeated lines of a variant
  keep the first line's price only. A checkout reads stock and reserves nothing.

Research
* `matchGeography` in `scoring.types.ts` asks callers to discard a mismatched signal "rather
  than down-weighting it"; store fit uses it, and the fulfilment history is not compared at all.
* A cost without a time counts as observed now, and is fresh.
* "A null factor costs confidence instead": losing a factor whose evidence is old can raise the
  confidence.
* `RejectionStays`: "no amount of demand overrides a confirmed inability to source"
  (`sourceability.ts`). A supplier that has a product in none of its variants gets the candidate
  rejected while the sheet is fresh; once it is stale its rows are not looked at, and the verdict
  is WATCH again.
* `RefundNeverHelps`: fully refunded orders leave the population over which the refund rate is
  computed, so a full refund can lift the score. The delay rate counts present delays only.

## 12. Not modelled

* Storefront tracking and the HTTP surface, diagnostics, health, analytics, customers, orders,
  integrations: they read, format and report, and no step of another component depends on what
  they return. The audit trail is appended to and not read back to decide anything.
* Application shell, configuration, logging, rate limits: wiring and parsing. The mount order of
  the routers, which decides what needs an operator, is in `OperatorSessions`.
* Signatures, password hashing, HMAC and cryptography in general: a token is one this server
  signed, a delivery one its sender signed.
* Parsing of CSV text, scraping, mappers of Shopify's answers, capability probes and themes:
  conversions without state of their own. The Tradelle provider is a placeholder.
* Shopify's cost-based throttle: it only delays calls, and delays are left out of `Gateway`.
* Several processes: breaker, lock, previews and token cache live in one process, and the code
  is written for one.

## 13. Plan

Next, in order of what they would add:

1. `RecommendationIsSound` split into what a formula decides (a viable recommendation is at least
   the floor it reports) and what the repeated raise computes; the first part is like the
   floors of `PricesAlwaysSettle`.
2. The delivery promise of the Shopify queue with overrun leases: the abstract specification
   needs a doubt for a worker whose row somebody else finished.
3. `CostsReachTheirVariant` for a list whose rows all carry a SKU, where the matching is a
   function and not a search.
4. Lemmas about pure operators: `ApplyRounding` never rounds a price of at least one unit to
   nothing, `VariantCoverageOf` and `CurrentSourceability` are total and agree with each other.
