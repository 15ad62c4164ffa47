------------------------------ MODULE PaidOrder ------------------------------
(***************************************************************************)
(* From a checkout to one Shopify order: CheckoutService.create,           *)
(* StorefrontPaymentService.verify and processWebhook, and                 *)
(* PaidOrderOrchestrator with ShopifyOrderAdapter, all working on the      *)
(* documents of CheckoutSessions and PaymentAttempt.                       *)
(*                                                                         *)
(* A call in progress is a record whose pc is the await the code is        *)
(* suspended at; one step runs from one await to the next.  The callers    *)
(* are the storefront's checkout requests (Creators), the browser's        *)
(* verification requests (Browsers), the Razorpay webhook drain and the    *)
(* paid-order drain; the process-local `draining' flags of the last two    *)
(* make each of them one call at a time.  A crash of the process loses     *)
(* every call.  Razorpay, Shopify and the network are external.            *)
(***************************************************************************)
EXTENDS CheckoutSessions, Naturals, FiniteSets

CONSTANTS
    Checkouts,            \* checkouts, one per Idempotency-Key
    Creators,             \* slots for concurrent checkout requests
    Browsers,             \* slots for concurrent verification requests
    MaxCrashes,           \* bound on process crashes
    MaxAbandoned,         \* bound on requests left in the network, per checkout
    PromptShopify,        \* delays of the code outlast Shopify's processing
    SpacedConfirmations,  \* no confirmation lands while an attempt is open
    UniqueReceipts        \* Razorpay refuses a second order for a receipt

ASSUME BoundsAssumption == MaxCrashes \in Nat /\ MaxAbandoned \in Nat
ASSUME SwitchAssumption ==
    {PromptShopify, SpacedConfirmations, UniqueReceipts} \subseteq BOOLEAN
ASSUME NullAssumption == None \notin Checkouts
ASSUME FiniteAssumption == IsFiniteSet(Creators) /\ IsFiniteSet(Browsers)
ASSUME RolesAssumption ==
    /\ Creators \cap Browsers = {}
    /\ (Creators \cup Browsers) \cap {"webhook", "worker"} = {}

VARIABLES
    session,    \* storefront_checkout_sessions
    attempt,    \* storefront_payment_attempts: last status of each payment
    call,       \* calls in progress in the process
    receipt,    \* Razorpay: the checkout each order was created for
    pay,        \* Razorpay: its payments
    sent,       \* Razorpay: webhook deliveries, each may arrive repeatedly
    shop,       \* Shopify: its orders
    abandoned,  \* orderCreate requests nobody waits for any more
    crashes     \* crashes so far

db == <<session, attempt>>
razorpay == <<receipt, pay, sent>>
shopify == <<shop, abandoned>>
vars == <<db, call, razorpay, shopify, crashes>>

-----------------------------------------------------------------------------
Calls == Creators \cup Browsers \cup {"webhook", "worker"}
Confirmers == Browsers \cup {"webhook"}

PaymentKinds == {"FAILED", "AUTHORIZED", "CAPTURED", "REFUNDED"}

Rank == [kind \in PaymentKinds \cup {"none"} |->
            CASE kind = "none" -> 0
              [] kind = "FAILED" -> 1
              [] kind = "AUTHORIZED" -> 2
              [] kind = "CAPTURED" -> 3
              [] kind = "REFUNDED" -> 4]

OrderSteps == {"find", "create", "creating", "created", "recover", "link",
               "release"}
PCs == OrderSteps \cup
       {"idle", "insert", "rzpPost", "rzpRecover", "attach", "fetch",
        "observeRead", "observeWrite", "markPaid", "markRefunded", "claim"}

CallState ==
    [pc: PCs,
     co: Checkouts \cup {None},             \* the checkout it works for
     rzp: RzpOrders \cup {None},            \* Razorpay order it was given
     pay: Payments \cup {None},             \* payment it works for
     kind: PaymentKinds \cup {"none"},      \* status it is to record
     same: BOOLEAN,                         \* session read held this payment
     order: ShopOrders \cup {None}]         \* Shopify order it was given

Idle == [pc |-> "idle", co |-> None, rzp |-> None, pay |-> None,
         kind |-> "none", same |-> FALSE, order |-> None]

NoPayment == [status |-> "none", order |-> None, exact |-> FALSE]
NoShopOrder == [co |-> None, pay |-> None, indexed |-> FALSE]

TypeOK ==
    /\ session \in [Checkouts -> Session]
    /\ attempt \in [Payments -> PaymentKinds \cup {"none"}]
    /\ call \in [Calls -> CallState]
    /\ receipt \in [RzpOrders -> Checkouts \cup {None}]
    /\ pay \in [Payments -> [status: PaymentKinds \cup {"none"},
                             order: RzpOrders \cup {None}, exact: BOOLEAN]]
    /\ sent \subseteq PaymentKinds \X Payments
    /\ shop \in [ShopOrders -> [co: Checkouts \cup {None},
                                pay: Payments \cup {None}, indexed: BOOLEAN]]
    /\ abandoned \in [Checkouts -> 0..MaxAbandoned]
    /\ crashes \in 0..MaxCrashes

Init ==
    /\ session = [c \in Checkouts |-> NoSession]
    /\ attempt = [p \in Payments |-> "none"]
    /\ call = [k \in Calls |-> Idle]
    /\ receipt = [o \in RzpOrders |-> None]
    /\ pay = [p \in Payments |-> NoPayment]
    /\ sent = {}
    /\ shop = [n \in ShopOrders |-> NoShopOrder]
    /\ abandoned = [c \in Checkouts |-> 0]
    /\ crashes = 0

-----------------------------------------------------------------------------
\* How a step of call k ends: at another await, or with the call over.
Become(k, x) == call' = [call EXCEPT ![k] = x]
Goto(k, pc) == Become(k, [call[k] EXCEPT !.pc = pc])
Finish(k) == Become(k, Idle)

ReceiptOrders(c) == {o \in RzpOrders : receipt[o] = c}
ShopOrdersOf(c) == {n \in ShopOrders : shop[n].co = c}

\* The orders Shopify's search by source identifier finds: its index lags.
Visible(c) == {n \in ShopOrdersOf(c) : shop[n].indexed}

\* No attempt to create the order of c is still under way at Shopify.
Quiet(c) ==
    /\ abandoned[c] = 0
    /\ Visible(c) = ShopOrdersOf(c)
    /\ \A k \in Calls : call[k].co = c => call[k].pc \notin OrderSteps

\* matchesSnapshot: the payment is for this order and of the frozen total.
MatchesSnapshot(s, p) == pay[p].order = s.rzpOrder /\ pay[p].exact

-----------------------------------------------------------------------------
(* CheckoutService.create                                                  *)

\* The idempotency key's document is read first; with a Razorpay order on it
\* the request is answered at once and changes nothing.
CreateCheckout(k, c) ==
    /\ call[k].pc = "idle"
    /\ session[c].rzpOrder = None
    /\ Become(k, [Idle EXCEPT !.co = c,
                              !.pc = IF session[c].status = "ABSENT"
                                     THEN "insert" ELSE "rzpPost"])
    /\ UNCHANGED <<db, razorpay, shopify, crashes>>

InsertSession(k) ==
    LET c == call[k].co IN
    /\ call[k].pc = "insert"
    /\ session' = [session EXCEPT ![c] = Inserted(@)]
    /\ IF session[c].rzpOrder = None THEN Goto(k, "rzpPost") ELSE Finish(k)
    /\ UNCHANGED <<attempt, razorpay, shopify, crashes>>

\* POST /orders is sent once.  Razorpay may create an order and the answer
\* may be lost; every failure goes to the lookup by receipt.
PostRazorpayOrder(k) ==
    LET c == call[k].co IN
    /\ call[k].pc = "rzpPost"
    /\ \/ \E o \in RzpOrders :
            /\ receipt[o] = None
            /\ UniqueReceipts => ReceiptOrders(c) = {}
            /\ receipt' = [receipt EXCEPT ![o] = c]
            /\ \/ Become(k, [call[k] EXCEPT !.pc = "attach", !.rzp = o])
               \/ Goto(k, "rzpRecover")
       \/ Goto(k, "rzpRecover") /\ UNCHANGED receipt
    /\ UNCHANGED <<db, pay, sent, shopify, crashes>>

RecoverByReceipt(k) ==
    /\ call[k].pc = "rzpRecover"
    /\ IF Cardinality(ReceiptOrders(call[k].co)) = 1
       THEN \E o \in ReceiptOrders(call[k].co) :
                Become(k, [call[k] EXCEPT !.pc = "attach", !.rzp = o])
       ELSE Finish(k)
    /\ UNCHANGED <<db, razorpay, shopify, crashes>>

AttachRazorpayOrder(k) ==
    LET c == call[k].co
        o == call[k].rzp IN
    /\ call[k].pc = "attach"
    /\ session' = IF CanAttachRazorpayOrder(session[c], o)
                  THEN [session EXCEPT ![c] = RazorpayOrderAttached(@, o)]
                  ELSE session
    /\ Finish(k)
    /\ UNCHANGED <<attempt, razorpay, shopify, crashes>>

-----------------------------------------------------------------------------
(* StorefrontPaymentService                                                *)

\* verify: the browser holds a signature for a payment of the checkout's own
\* Razorpay order; any other request is refused without effect.
Verify(k, c, p) ==
    /\ call[k].pc = "idle"
    /\ pay[p].status # "none"
    /\ pay[p].order = session[c].rzpOrder
    /\ Become(k, [Idle EXCEPT !.pc = "fetch", !.co = c, !.pay = p])
    /\ UNCHANGED <<db, razorpay, shopify, crashes>>

\* GET /payments/:id, then matchesSnapshot.  Whatever the status, an exact
\* payment is recorded; only a captured one goes on from there.
FetchPayment(k) ==
    LET p == call[k].pay IN
    /\ call[k].pc = "fetch"
    /\ IF MatchesSnapshot(session[call[k].co], p)
       THEN Become(k, [call[k] EXCEPT !.pc = "observeRead",
                                     !.kind = pay[p].status])
       ELSE Finish(k)
    /\ UNCHANGED <<db, razorpay, shopify, crashes>>

\* processWebhook for one delivery.  order.paid is handled exactly as
\* payment.captured and is the same kind here.  A delivery that fits no
\* checkout, or not its total, is ignored.
ProcessWebhook(kind, p, c) ==
    /\ call["webhook"].pc = "idle"
    /\ <<kind, p>> \in sent
    /\ session[c].rzpOrder # None
    /\ MatchesSnapshot(session[c], p)
    /\ Become("webhook",
              [Idle EXCEPT !.pc = "observeRead", !.co = c, !.pay = p,
                           !.kind = kind, !.same = (session[c].payment = p)])
    /\ UNCHANGED <<db, razorpay, shopify, crashes>>

\* Mutant: an authorized payment counts as paid.
AfterObserveEarly(k) ==
    CASE call[k].kind \in {"AUTHORIZED", "CAPTURED"} -> Goto(k, "markPaid")
      [] call[k].kind = "REFUNDED" /\ call[k].same -> Goto(k, "markRefunded")
      [] OTHER -> Finish(k)

\* Where a call goes once the payment attempt is recorded.
AfterObserve(k) ==
    CASE call[k].kind = "CAPTURED" -> Goto(k, "markPaid")
      [] call[k].kind = "REFUNDED" /\ call[k].same -> Goto(k, "markRefunded")
      [] OTHER -> Finish(k)

\* Mutant: no comparison of the ranks.
ObserveReadUnranked(k) ==
    /\ call[k].pc = "observeRead"
    /\ Goto(k, "observeWrite")
    /\ UNCHANGED <<db, razorpay, shopify, crashes>>

\* MongoosePaymentAttemptRepository.observe is a read and then a write.
ObserveRead(k) ==
    /\ call[k].pc = "observeRead"
    /\ IF Rank[attempt[call[k].pay]] > Rank[call[k].kind]
       THEN AfterObserve(k)
       ELSE Goto(k, "observeWrite")
    /\ UNCHANGED <<db, razorpay, shopify, crashes>>

ObserveWrite(k) ==
    /\ call[k].pc = "observeWrite"
    /\ attempt' = [attempt EXCEPT ![call[k].pay] = call[k].kind]
    /\ AfterObserve(k)
    /\ UNCHANGED <<session, razorpay, shopify, crashes>>

\* markCaptured's markPaid.  The status is not PAYMENT_MISMATCH in two cases
\* and only then does the call go on to processOne.
MarkPaid(k) ==
    LET c == call[k].co
        p == call[k].pay
        o == pay[p].order IN
    /\ call[k].pc = "markPaid"
    /\ SpacedConfirmations =>
          Quiet(c) /\ session[c].status # "ORDER_CREATING"
    /\ IF CanMarkPaid(session[c], o, p)
       THEN /\ session' = [session EXCEPT ![c] = MarkedPaid(@, p)]
            /\ Goto(k, "claim")
       ELSE /\ IF AlreadyCompleted(session[c], o, p)
               THEN Goto(k, "claim") ELSE Finish(k)
            /\ UNCHANGED session
    /\ UNCHANGED <<attempt, razorpay, shopify, crashes>>

MarkRefunded(k) ==
    LET c == call[k].co IN
    /\ call[k].pc = "markRefunded"
    /\ session' = IF CanMarkRefunded(session[c], call[k].pay)
                  THEN [session EXCEPT ![c] = MarkedRefunded(@)]
                  ELSE session
    /\ Finish(k)
    /\ UNCHANGED <<attempt, razorpay, shopify, crashes>>

-----------------------------------------------------------------------------
(* PaidOrderOrchestrator.processOne                                        *)

Claim(k, c) ==
    /\ session' = [session EXCEPT ![c] = OrderClaimed(@)]
    /\ Become(k, [Idle EXCEPT !.pc = "find", !.co = c,
                              !.pay = session[c].payment])

\* processOne(publicId), from markCaptured.
ClaimOne(k) ==
    LET c == call[k].co IN
    /\ call[k].pc = "claim"
    /\ IF CanClaimOrder(session[c])
       THEN Claim(k, c)
       ELSE Finish(k) /\ UNCHANGED session
    /\ UNCHANGED <<attempt, razorpay, shopify, crashes>>

\* processOne() from the worker's drain; which claimable checkout is first is
\* a matter of paidAt, which is left open.
ClaimNext(c) ==
    /\ call["worker"].pc = "idle"
    /\ CanClaimOrder(session[c])
    /\ Claim("worker", c)
    /\ UNCHANGED <<attempt, razorpay, shopify, crashes>>

\* ensureOrder's findExisting: none, one, more than one, or an error.
FindExisting(k) ==
    LET found == Visible(call[k].co) IN
    /\ call[k].pc = "find"
    /\ \/ found = {} /\ Goto(k, "create")
       \/ /\ Cardinality(found) = 1
          /\ \E n \in found :
                Become(k, [call[k] EXCEPT !.pc = "link", !.order = n])
       \/ Cardinality(found) > 1 /\ Goto(k, "release")
    /\ UNCHANGED <<db, razorpay, shopify, crashes>>

\* The one orderCreate of this attempt; its input demands a recorded payment.
SendOrderCreate(k) ==
    /\ call[k].pc = "create"
    /\ Goto(k, IF call[k].pay = None THEN "release" ELSE "creating")
    /\ UNCHANGED <<db, razorpay, shopify, crashes>>

NewShopOrder(n, c, p) ==
    /\ shop[n].co = None
    /\ shop' = [shop EXCEPT ![n] = [co |-> c, pay |-> p, indexed |-> FALSE]]

\* External: Shopify carries the request out while the call waits.
ShopifyCommits(k) ==
    /\ call[k].pc = "creating"
    /\ \E n \in ShopOrders :
          /\ NewShopOrder(n, call[k].co, call[k].pay)
          /\ Become(k, [call[k] EXCEPT !.pc = "created", !.order = n])
    /\ UNCHANGED <<db, razorpay, abandoned, crashes>>

OrderCreateAnswered(k) ==
    /\ call[k].pc = "created"
    /\ Goto(k, "link")
    /\ UNCHANGED <<db, razorpay, shopify, crashes>>

\* userErrors, GraphQL errors, an HTTP error or an unreadable body: an error
\* without outcomeUncertain, even when Shopify did create the order.
OrderCreateFails(k) ==
    /\ call[k].pc \in {"creating", "created"}
    /\ Become(k, [call[k] EXCEPT !.pc = "release", !.order = None])
    /\ UNCHANGED <<db, razorpay, shopify, crashes>>

\* The 20 s abort or a broken connection: outcomeUncertain.  A request not
\* yet carried out is lost or stays in the network.
OrderCreateTimesOut(k) ==
    LET c == call[k].co IN
    /\ call[k].pc \in {"creating", "created"}
    /\ Become(k, [call[k] EXCEPT !.pc = "recover", !.order = None])
    /\ \/ UNCHANGED abandoned
       \/ /\ call[k].pc = "creating"
          /\ abandoned[c] < MaxAbandoned
          /\ abandoned' = [abandoned EXCEPT ![c] = @ + 1]
    /\ UNCHANGED <<db, razorpay, shop, crashes>>

\* Mutant: a search that finds nothing is taken for a success.
RecoverOrderBlindly(k) ==
    LET found == Visible(call[k].co) IN
    /\ call[k].pc = "recover"
    /\ \/ \E n \in found :
             Become(k, [call[k] EXCEPT !.pc = "link", !.order = n])
       \/ found = {} /\ Goto(k, "link")
    /\ UNCHANGED <<db, razorpay, shopify, crashes>>

\* Mutant: a search that finds nothing is followed by a second create.
RecoverOrderByCreating(k) ==
    LET found == Visible(call[k].co) IN
    /\ call[k].pc = "recover"
    /\ IF Cardinality(found) = 1
       THEN \E n \in found :
                Become(k, [call[k] EXCEPT !.pc = "link", !.order = n])
       ELSE Goto(k, IF found = {} THEN "create" ELSE "release")
    /\ UNCHANGED <<db, razorpay, shopify, crashes>>

\* The second findExisting: only a single match ends the attempt well.
RecoverOrder(k) ==
    LET found == Visible(call[k].co) IN
    /\ call[k].pc = "recover"
    /\ IF Cardinality(found) = 1
       THEN \E n \in found :
                Become(k, [call[k] EXCEPT !.pc = "link", !.order = n])
       ELSE Goto(k, "release")
    /\ UNCHANGED <<db, razorpay, shopify, crashes>>

\* markOrderCreated; when its filter matches nothing it throws, and the error
\* takes the attempt to releaseOrderForRetry.
MarkOrderCreated(k) ==
    LET c == call[k].co
        n == call[k].order IN
    /\ call[k].pc = "link"
    /\ IF CanMarkOrderCreated(session[c], n)
       THEN /\ session' = [session EXCEPT ![c] = OrderMarkedCreated(@, n)]
            /\ Finish(k)
       ELSE /\ Goto(k, "release")
            /\ UNCHANGED session
    /\ UNCHANGED <<attempt, razorpay, shopify, crashes>>

ReleaseOrderForRetry(k) ==
    LET c == call[k].co IN
    /\ call[k].pc = "release"
    /\ session' = [session EXCEPT ![c] = OrderReleased(@)]
    /\ Finish(k)
    /\ UNCHANGED <<attempt, razorpay, shopify, crashes>>

-----------------------------------------------------------------------------
(* Failures and the passing of time                                        *)

\* The database or the provider fails at an await.  Inside processOne's try
\* the attempt is released; anywhere else the call ends with the error.
CallFails(k) ==
    /\ call[k].pc # "idle"
    /\ IF call[k].pc \in {"find", "recover", "link"}
       THEN Become(k, [call[k] EXCEPT !.pc = "release", !.order = None])
       ELSE /\ call[k].pc \notin {"create", "creating", "created"}
            /\ Finish(k)
    /\ UNCHANGED <<db, razorpay, shopify, crashes>>

Capped(n) == IF n > MaxAbandoned THEN MaxAbandoned ELSE n

\* The process dies and comes back: its requests may still reach Shopify.
Crash ==
    /\ crashes < MaxCrashes
    /\ crashes' = crashes + 1
    /\ call' = [k \in Calls |-> Idle]
    /\ abandoned' =
          [c \in Checkouts |->
             Capped(abandoned[c] +
                    Cardinality({k \in Calls : call[k].pc = "creating"
                                               /\ call[k].co = c}))]
    /\ UNCHANGED <<db, razorpay, shop>>

RetryComesDue(c) ==
    /\ session[c].next = "later"
    /\ PromptShopify => Quiet(c)
    /\ session' = [session EXCEPT ![c].next = "due"]
    /\ UNCHANGED <<attempt, call, razorpay, shopify, crashes>>

LeaseExpires(c) ==
    /\ session[c].status = "ORDER_CREATING"
    /\ session[c].lease = "live"
    /\ PromptShopify => Quiet(c)
    /\ session' = [session EXCEPT ![c].lease = "expired"]
    /\ UNCHANGED <<attempt, call, razorpay, shopify, crashes>>

-----------------------------------------------------------------------------
(* External: Razorpay and Shopify                                          *)

\* The customer pays on the order the storefront showed.  A failed payment
\* may be tried again or be authorized late.
PaymentMoves(p, kind) ==
    /\ pay' = [pay EXCEPT ![p].status = kind]
    /\ sent' = sent \cup {<<kind, p>>}
    /\ UNCHANGED <<db, call, receipt, shopify, crashes>>

StartPayment(p, c, exact, kind) ==
    /\ pay[p].status = "none"
    /\ session[c].rzpOrder # None
    /\ pay' = [pay EXCEPT ![p] = [status |-> kind, exact |-> exact,
                                  order |-> session[c].rzpOrder]]
    /\ sent' = sent \cup {<<kind, p>>}
    /\ UNCHANGED <<db, call, receipt, shopify, crashes>>

AuthorizeLate(p) == pay[p].status = "FAILED" /\ PaymentMoves(p, "AUTHORIZED")

\* Razorpay captures at most one payment of an order.
CapturePayment(p) ==
    /\ pay[p].status = "AUTHORIZED"
    /\ \A q \in Payments : pay[q].order = pay[p].order =>
                             pay[q].status \notin {"CAPTURED", "REFUNDED"}
    /\ PaymentMoves(p, "CAPTURED")

RefundPayment(p) == pay[p].status = "CAPTURED" /\ PaymentMoves(p, "REFUNDED")

\* Shopify carries out a request whose caller is gone, or drops it.
AbandonedCommits(c) ==
    /\ abandoned[c] > 0
    /\ abandoned' = [abandoned EXCEPT ![c] = @ - 1]
    /\ \/ \E n \in ShopOrders : NewShopOrder(n, c, session[c].payment)
       \/ UNCHANGED shop
    /\ UNCHANGED <<db, call, razorpay, crashes>>

IndexOrder(n) ==
    /\ shop[n].co # None
    /\ ~shop[n].indexed
    /\ shop' = [shop EXCEPT ![n].indexed = TRUE]
    /\ UNCHANGED <<db, call, razorpay, abandoned, crashes>>

-----------------------------------------------------------------------------
\* A call of any kind takes its next step.
Step(k) ==
    \/ InsertSession(k) \/ PostRazorpayOrder(k) \/ RecoverByReceipt(k)
    \/ AttachRazorpayOrder(k)
    \/ FetchPayment(k) \/ ObserveRead(k) \/ ObserveWrite(k)
    \/ MarkPaid(k) \/ MarkRefunded(k) \/ ClaimOne(k)
    \/ FindExisting(k) \/ SendOrderCreate(k) \/ ShopifyCommits(k)
    \/ OrderCreateAnswered(k) \/ OrderCreateFails(k) \/ OrderCreateTimesOut(k)
    \/ RecoverOrder(k) \/ MarkOrderCreated(k) \/ ReleaseOrderForRetry(k)
    \/ CallFails(k)

Request ==
    \/ \E k \in Creators, c \in Checkouts : CreateCheckout(k, c)
    \/ \E k \in Browsers, c \in Checkouts, p \in Payments : Verify(k, c, p)
    \/ \E kind \in PaymentKinds, p \in Payments, c \in Checkouts :
          ProcessWebhook(kind, p, c)
    \/ \E c \in Checkouts : ClaimNext(c)

Razorpay ==
    \/ \E p \in Payments, c \in Checkouts, exact \in BOOLEAN :
          \E kind \in {"FAILED", "AUTHORIZED"} : StartPayment(p, c, exact, kind)
    \/ \E p \in Payments :
          AuthorizeLate(p) \/ CapturePayment(p) \/ RefundPayment(p)

Shopify ==
    \/ \E c \in Checkouts : AbandonedCommits(c)
    \/ \E n \in ShopOrders : IndexOrder(n)

Time == \E c \in Checkouts : RetryComesDue(c) \/ LeaseExpires(c)

Next ==
    \/ \E k \in Calls : Step(k)
    \/ Request
    \/ Razorpay
    \/ Shopify
    \/ Time
    \/ Crash

Spec == Init /\ [][Next]_vars

\* Scheduling the code justifies: the event loop resumes every call, both
\* drains run on a 15 s timer, clocks advance, and Shopify's index and network
\* settle.  Strong fairness says the provider is not down for ever: attempts
\* repeated without end do not all fail in the same place.
OrderCalls == Browsers \cup {"webhook", "worker"}
Fairness ==
    /\ \A k \in Calls : WF_vars(Step(k))
    /\ \A c \in Checkouts :
          /\ WF_vars(ClaimNext(c))
          /\ WF_vars(RetryComesDue(c))
          /\ WF_vars(LeaseExpires(c))
          /\ WF_vars(AbandonedCommits(c))
    /\ \A n \in ShopOrders : WF_vars(IndexOrder(n))
    /\ \A k \in OrderCalls :
          /\ SF_vars(FindExisting(k))
          /\ SF_vars(ShopifyCommits(k))
          /\ SF_vars(MarkOrderCreated(k))

FairSpec == Spec /\ Fairness
=============================================================================
