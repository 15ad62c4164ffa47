------------------------- MODULE PaidOrderProperties -------------------------
(***************************************************************************)
(* What the paid-order lifecycle has to guarantee.                         *)
(***************************************************************************)
EXTENDS PaidOrder

\* What a call holds at each await.
WellFormed(x) ==
    /\ x.pc # "idle" => x.co \in Checkouts
    /\ x.pc \in {"fetch", "observeRead", "observeWrite", "markPaid",
                 "markRefunded"} => x.pay \in Payments
    /\ x.pc = "attach" => x.rzp \in RzpOrders
    /\ x.pc \in {"created", "link"} => x.order \in ShopOrders

\* A call under way always holds what its next step works on: a checkout, and
\* the payment, Razorpay order or Shopify order the await it is at returns to.
WellFormedCalls == \A k \in Calls : WellFormed(call[k])

\* One payment buys one Shopify order: no interleaving of attempts, crashes,
\* lost answers and retries creates a second order for the same checkout.
AtMostOneOrder == \A c \in Checkouts : Cardinality(ShopOrdersOf(c)) <= 1

\* The lease excludes: two calls are never both between claiming a checkout
\* and giving it back.
AttemptsExclude ==
    \A c \in Checkouts :
        Cardinality({k \in Calls : call[k].co = c
                                   /\ call[k].pc \in OrderSteps}) <= 1

\* An order is created at Shopify only for a payment that Razorpay captured,
\* in full, on the very Razorpay order of the checkout, and that the checkout
\* has recorded as its own.
OrderedMeansCaptured ==
    \A n \in ShopOrders : shop[n].co # None =>
        LET p == shop[n].pay IN
        /\ p # None
        /\ session[shop[n].co].payment = p
        /\ pay[p].status \in {"CAPTURED", "REFUNDED"}
        /\ pay[p].exact
        /\ pay[p].order = session[shop[n].co].rzpOrder

\* A completed checkout is linked to an order that exists and was created for
\* it, and a link is only ever there once the order is.
LinkedToOwnOrder ==
    \A c \in Checkouts :
        /\ session[c].status = "ORDER_CREATED" => session[c].shopOrder # None
        /\ session[c].shopOrder # None => shop[session[c].shopOrder].co = c

-----------------------------------------------------------------------------
(* Why the two above hold: the trail from Razorpay's capture to Shopify.   *)

WasCaptured(p) == pay[p].status \in {"CAPTURED", "REFUNDED"} /\ pay[p].exact

\* p was captured in full on the Razorpay order of c.
PaidFor(p, c) ==
    /\ p \in Payments
    /\ WasCaptured(p)
    /\ session[c].rzpOrder # None
    /\ pay[p].order = session[c].rzpOrder

AbsentIsEmpty ==
    \A c \in Checkouts : session[c].status = "ABSENT" => session[c] = NoSession

DeliveriesMeanPayments ==
    \A p \in Payments :
        /\ <<"CAPTURED", p>> \in sent =>
              pay[p].status \in {"CAPTURED", "REFUNDED"}
        /\ pay[p].exact => pay[p].status # "none" /\ pay[p].order # None

RecordedMeansPaid ==
    \A c \in Checkouts : session[c].payment # None =>
                             PaidFor(session[c].payment, c)

Carries(x) ==
    /\ x.pc = "markPaid" => x.kind = "CAPTURED"
    /\ x.pc \in {"observeRead", "observeWrite", "markPaid"}
          /\ x.kind = "CAPTURED" => PaidFor(x.pay, x.co)
    /\ x.pc \in OrderSteps /\ x.pay # None =>
          session[x.co].payment = x.pay
    /\ x.pc \in {"creating", "created"} => x.pay # None
    /\ x.pc \in {"created", "link"} => shop[x.order].co = x.co

CallsCarryPayment == \A k \in Calls : Carries(call[k])

OrdersCarryPayment ==
    /\ \A c \in Checkouts : abandoned[c] > 0 => session[c].payment # None
    /\ \A n \in ShopOrders : shop[n].co # None =>
          /\ shop[n].pay # None
          /\ session[shop[n].co].payment = shop[n].pay

\* Every identifier of a payment or an order, wherever a call, a request or a
\* document carries it, leads back to one captured payment of that checkout.
Provenance ==
    /\ AbsentIsEmpty
    /\ DeliveriesMeanPayments
    /\ RecordedMeansPaid
    /\ CallsCarryPayment
    /\ OrdersCarryPayment
    /\ LinkedToOwnOrder
-----------------------------------------------------------------------------

\* The document is finished, or a retry time or a lease brings the paid-order
\* worker back to it.
InReach(s) ==
    \/ s.status \in {"ORDER_CREATED", "REFUNDED"}
    \/ s.status = "ORDER_PENDING" /\ s.next # "none"
    \/ s.status = "ORDER_CREATING" /\ s.lease # "none"

Stranded(s) == s.payment # None /\ ~InReach(s)

\* A failed order attempt leaves a paid checkout where the retry schedule finds
\* it, and every transition has a status filter (docs/ARCHITECTURE.md:111-118):
\* a checkout whose payment is recorded is never out of the worker's reach.
\* False when two checkout requests of one Idempotency-Key overlap
\* (README, section 11); true when they do not, see PaidIsRemembered.
NeverStranded == \A c \in Checkouts : ~Stranded(session[c])

\* No race of confirmations, deliveries, attempts, failures, refunds and time
\* takes a paid checkout out of the worker's reach, but one step: a checkout
\* request of the same Idempotency-Key that attaches its payment order late
\* (attachRazorpayOrder asks for no status).  A checkout it has left out of
\* reach is one that a repeated confirmation of its payment takes up again.
StrandedByLateRequestsOnly ==
    [][\A c \in Checkouts : Stranded(session'[c]) =>
          /\ CanMarkPaid(session'[c], session'[c].rzpOrder, session'[c].payment)
          /\ \/ Stranded(session[c])
             \/ \E k \in Calls : AttachRazorpayOrder(k) /\ call[k].co = c]_vars

\* The provider identifiers of a checkout are written once: nothing replaces
\* or clears the Razorpay order, the payment or the Shopify order.
IdentifiersWrittenOnce ==
    [][\A c \in Checkouts :
          /\ session[c].rzpOrder # None =>
                session'[c].rzpOrder = session[c].rzpOrder
          /\ session[c].payment # None =>
                session'[c].payment = session[c].payment
          /\ session[c].shopOrder # None =>
                session'[c].shopOrder = session[c].shopOrder]_vars

\* Once the customer's page has said that the payment arrived it never asks
\* for the payment again, even when a second checkout request of the same
\* Idempotency-Key attaches late and sets the durable status back to
\* PAYMENT_PENDING.
PageNeverAsksTwice ==
    [][\A c \in Checkouts :
          PublicStatus(session[c]) # "PAYMENT_PENDING" =>
              PublicStatus(session'[c]) # "PAYMENT_PENDING"]_vars

\* Once every call is over, a checkout whose payment is on record as refunded
\* is REFUNDED itself.
RefundEndsCheckout ==
    (\A k \in Calls : call[k].pc = "idle") =>
        \A c \in Checkouts : session[c].payment # None =>
            (attempt[session[c].payment] = "REFUNDED" =>
                session[c].status = "REFUNDED")

-----------------------------------------------------------------------------
\* The abstract promise, read off the documents.
Stage(s) ==
    IF s.status = "REFUNDED" THEN "refunded"
    ELSE IF s.status = "ORDER_CREATED" THEN "fulfilled"
    ELSE IF s.payment # None THEN "paid"
    ELSE "open"

Promise == INSTANCE OrderPromise
               WITH stage <- [c \in Checkouts |-> Stage(session[c])],
                    order <- [c \in Checkouts |-> session[c].shopOrder],
                    recorded <- [p \in Payments |-> Rank[attempt[p]]]

\* The lifecycle implements the promise: whatever happens inside, a checkout
\* is paid once and after a capture is on record, fulfilled once by an order no
\* other checkout has, a refund is final, and with the drain as the only observer
\* the recorded status of a payment never goes back, in whatever order Razorpay's
\* deliveries arrive or repeat.
KeepsPromise == Promise!Spec

\* Every recorded payment ends in a linked Shopify order or a refund, across
\* lost answers, provider failures and a crash at any await.
PaidIsSettled == Promise!Settles
=============================================================================
