----------------------------- MODULE OrderPromise -----------------------------
(***************************************************************************)
(* What the storefront promises of a checkout, without any mechanism: it   *)
(* is open until a payment is on record as captured, a paid checkout gets  *)
(* exactly one Shopify order of its own, a refund ends it for good, and    *)
(* what is on record of a payment only moves forward.                      *)
(***************************************************************************)
EXTENDS Naturals

CONSTANTS Checkouts, ShopOrders, Payments, None

VARIABLES
    stage,      \* what the customer has: nothing, a payment, an order, a refund
    order,      \* the Shopify order of a fulfilled checkout
    recorded    \* how far each payment is known to have come

vars == <<stage, order, recorded>>

\* Nothing, failed, authorized, captured, refunded.
Progress == 0..4
Captured == 3

Init ==
    /\ stage = [c \in Checkouts |-> "open"]
    /\ order = [c \in Checkouts |-> None]
    /\ recorded = [p \in Payments |-> 0]

Record(p) ==
    /\ \E n \in Progress :
          n > recorded[p] /\ recorded' = [recorded EXCEPT ![p] = n]
    /\ UNCHANGED <<stage, order>>

Pay(c) ==
    /\ stage[c] = "open"
    /\ \E p \in Payments : recorded[p] >= Captured
    /\ stage' = [stage EXCEPT ![c] = "paid"]
    /\ UNCHANGED <<order, recorded>>

Fulfil(c, n) ==
    /\ stage[c] = "paid"
    /\ \A d \in Checkouts : order[d] # n
    /\ stage' = [stage EXCEPT ![c] = "fulfilled"]
    /\ order' = [order EXCEPT ![c] = n]
    /\ UNCHANGED recorded

Refund(c) ==
    /\ stage[c] \in {"paid", "fulfilled"}
    /\ stage' = [stage EXCEPT ![c] = "refunded"]
    /\ UNCHANGED <<order, recorded>>

Next ==
    \/ \E p \in Payments : Record(p)
    \/ \E c \in Checkouts :
          Pay(c) \/ Refund(c) \/ \E n \in ShopOrders : Fulfil(c, n)

Spec == Init /\ [][Next]_vars

\* A paid checkout does not stay that way.
Settles ==
    \A c \in Checkouts : stage[c] = "paid" ~> stage[c] # "paid"
=============================================================================
