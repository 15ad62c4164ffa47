--------------------------- MODULE CheckoutSessions ---------------------------
(***************************************************************************)
(* The durable document of one storefront checkout and the atomic          *)
(* operations of MongooseCheckoutSessionRepository on it.  Each operation  *)
(* is a findOneAndUpdate: a filter (a state predicate of the document) and *)
(* an update (a function of it).  The filter of operation X is CanX, the   *)
(* document the update leaves is the past participle of X.                 *)
(*                                                                         *)
(* Clock times are abstracted to what the filters tell apart: a retry time *)
(* is absent, in the future ("later") or reached ("due"); a lease is       *)
(* absent, "live" or "expired".  orderAttempts selects a delay only, names *)
(* and error texts are display data: both are left out.                    *)
(***************************************************************************)
CONSTANTS
    RzpOrders,      \* identifiers Razorpay can give to payment orders
    Payments,       \* identifiers Razorpay can give to payments
    ShopOrders,     \* identifiers Shopify can give to orders
    None            \* the null of the document's optional fields

ASSUME NoneAssumption == None \notin RzpOrders \cup Payments \cup ShopOrders

Statuses == {"CREATED", "PAYMENT_PENDING", "PAYMENT_PAID", "ORDER_PENDING",
             "ORDER_CREATING", "ORDER_CREATED", "REFUNDED"}

\* A document; status "ABSENT" stands for a document not inserted yet.
Session ==
    [status: Statuses \cup {"ABSENT"},
     rzpOrder: RzpOrders \cup {None},        \* razorpayOrderId
     payment: Payments \cup {None},          \* razorpayPaymentId
     paid: BOOLEAN,                          \* paidAt is set
     shopOrder: ShopOrders \cup {None},      \* shopifyOrderId
     next: {"none", "due", "later"},         \* nextOrderAttemptAt
     lease: {"none", "live", "expired"}]     \* orderLeaseExpiresAt

NoSession ==
    [status |-> "ABSENT", rzpOrder |-> None, payment |-> None, paid |-> FALSE,
     shopOrder |-> None, next |-> "none", lease |-> "none"]

-----------------------------------------------------------------------------
\* create: the unique index on idempotencyKey makes a second insert fail, and
\* the repository then answers with the document that is already there.
Inserted(s) ==
    IF s.status = "ABSENT" THEN [NoSession EXCEPT !.status = "CREATED"] ELSE s

\* attachRazorpayOrder: the filter looks at the order identifier only, never
\* at the status.
CanAttachRazorpayOrder(s, o) ==
    /\ s.status # "ABSENT"
    /\ s.rzpOrder \in {None, o}

RazorpayOrderAttached(s, o) ==
    [s EXCEPT !.rzpOrder = o, !.status = "PAYMENT_PENDING"]

\* markPaid: ORDER_CREATING is among the statuses the filter lets through, and
\* the lease is left as it is.
CanMarkPaid(s, o, p) ==
    /\ s.rzpOrder = o
    /\ s.status \in {"CREATED", "PAYMENT_PENDING", "PAYMENT_PAID",
                     "ORDER_PENDING", "ORDER_CREATING"}
    /\ s.payment \in {None, p}

\* Mutant: writes the public vocabulary's status instead of the durable one.
MarkedPaidPublicly(s, p) ==
    [s EXCEPT !.payment = p, !.paid = TRUE, !.status = "PAID", !.next = "due"]

MarkedPaid(s, p) ==
    [s EXCEPT !.payment = p, !.paid = TRUE, !.status = "ORDER_PENDING",
              !.next = "due"]

\* markPaid's second answer: this very payment has already become an order.
AlreadyCompleted(s, o, p) ==
    /\ s.rzpOrder = o
    /\ s.payment = p
    /\ s.status = "ORDER_CREATED"

\* markRefunded: the payment identifier is the whole filter.
CanMarkRefunded(s, p) == s.payment = p

MarkedRefunded(s) == [s EXCEPT !.status = "REFUNDED"]

\* Mutant: an attempt under way is claimed whatever its lease.
CanClaimOrderLeased(s) ==
    \/ s.status \in {"PAYMENT_PAID", "ORDER_PENDING"} /\ s.next = "due"
    \/ s.status = "ORDER_CREATING"

\* Mutant: nobody takes over an attempt whose lease has run out.
CanClaimOrderPending(s) ==
    s.status \in {"PAYMENT_PAID", "ORDER_PENDING"} /\ s.next = "due"

\* claimOrder
CanClaimOrder(s) ==
    \/ s.status \in {"PAYMENT_PAID", "ORDER_PENDING"} /\ s.next = "due"
    \/ s.status = "ORDER_CREATING" /\ s.lease = "expired"

OrderClaimed(s) ==
    [s EXCEPT !.status = "ORDER_CREATING", !.lease = "live", !.next = "none"]

\* markOrderCreated
CanMarkOrderCreated(s, n) ==
    /\ s.status \in {"ORDER_CREATING", "ORDER_PENDING", "ORDER_CREATED"}
    /\ s.shopOrder \in {None, n}

OrderMarkedCreated(s, n) ==
    [s EXCEPT !.status = "ORDER_CREATED", !.shopOrder = n,
              !.lease = "none", !.next = "none"]

\* Mutant: gives the lease back without a time for the next attempt.
OrderReleasedForGood(s) ==
    IF s.status = "ORDER_CREATING"
    THEN [s EXCEPT !.status = "ORDER_PENDING", !.lease = "none"]
    ELSE s

\* releaseOrderForRetry: an updateOne that may match nothing.
OrderReleased(s) ==
    IF s.status = "ORDER_CREATING"
    THEN [s EXCEPT !.status = "ORDER_PENDING", !.next = "later",
                   !.lease = "none"]
    ELSE s

-----------------------------------------------------------------------------
\* Mutant: the durable status goes before paidAt, so that a payment order
\* attached late asks for the payment again.
PublicStatusOfStatus(s) ==
    IF s.status = "REFUNDED" THEN "REFUNDED"
    ELSE IF s.status = "ORDER_CREATED" THEN "COMPLETE"
    ELSE IF s.status # "PAYMENT_PENDING" /\ s.paid THEN "ORDER_PENDING"
    ELSE "PAYMENT_PENDING"

\* StorefrontPaymentService.publicStatus: what the customer's page shows.
PublicStatus(s) ==
    IF s.status = "REFUNDED" THEN "REFUNDED"
    ELSE IF s.status = "ORDER_CREATED" THEN "COMPLETE"
    ELSE IF s.paid THEN "ORDER_PENDING"
    ELSE "PAYMENT_PENDING"
=============================================================================
