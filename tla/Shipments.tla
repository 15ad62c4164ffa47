-------------------------------- MODULE Shipments --------------------------------
(***************************************************************************)
(* Where an order is: Shopify's fulfillment signals collapsed into one     *)
(* state and the reasons to call the order late                            *)
(* (dropshipping/dropshipping.status.ts).  Times are hours.               *)
(***************************************************************************)
EXTENDS Integers, FiniteSets, FiniteSetsExt

Missing == -1

Sla == [processing |-> 24, tracking |-> 48, delivery |-> 0]

\* A parcel: its display status ("none" when Shopify gives none), the status
\* of its record, when it was made, promised, moved and delivered, its number
NewParcel == [display |-> "none", record |-> "SUCCESS", made |-> 0, eta |-> Missing,
              moved |-> Missing, arrived |-> Missing, number |-> "none"]

-----------------------------------------------------------------------------
\* DISPLAY_STATUS_MAP
DisplayStatusMap ==
    [SUBMITTED |-> "SUPPLIER_PROCESSING", CONFIRMED |-> "SUPPLIER_PROCESSING",
     FULFILLED |-> "FULFILLED", MARKED_AS_FULFILLED |-> "FULFILLED",
     LABEL_PRINTED |-> "LABEL_CREATED", LABEL_PURCHASED |-> "LABEL_CREATED",
     PICKED_UP |-> "CARRIER_PICKED_UP", IN_TRANSIT |-> "IN_TRANSIT",
     OUT_FOR_DELIVERY |-> "OUT_FOR_DELIVERY", READY_FOR_PICKUP |-> "OUT_FOR_DELIVERY",
     DELIVERED |-> "DELIVERED", ATTEMPTED_DELIVERY |-> "DELIVERY_FAILED",
     NOT_DELIVERED |-> "DELIVERY_FAILED", FAILURE |-> "DELIVERY_FAILED",
     CANCELED |-> "CANCELLED", LABEL_VOIDED |-> "CANCELLED"]

\* STATE_RANK
StateRank ==
    [UNKNOWN |-> 0, ORDER_RECEIVED |-> 1, AWAITING_SUPPLIER |-> 2, SUPPLIER_PROCESSING |-> 3,
     FULFILLED |-> 4, LABEL_CREATED |-> 5, CARRIER_PICKED_UP |-> 6, IN_TRANSIT |-> 7,
     OUT_FOR_DELIVERY |-> 8, DELIVERED |-> 9, DELIVERY_FAILED |-> 10, CANCELLED |-> 11]

IsPaid(financial) == financial \in {"PAID", "PARTIALLY_PAID", "PARTIALLY_REFUNDED"}

IsTerminal(state) == state \in {"DELIVERED", "CANCELLED", "DELIVERY_FAILED"}

FromOrderStatus(status, paid) ==
    CASE status = "FULFILLED" -> "FULFILLED"
      [] status \in {"IN_PROGRESS", "PARTIALLY_FULFILLED"} -> "SUPPLIER_PROCESSING"
      [] status \in {"PENDING_FULFILLMENT", "SCHEDULED", "ON_HOLD", "REQUEST_DECLINED"} ->
            "AWAITING_SUPPLIER"
      [] status = "RESTOCKED" -> "CANCELLED"
      [] status \in {"OPEN", "UNFULFILLED"} -> IF paid THEN "AWAITING_SUPPLIER" ELSE "ORDER_RECEIVED"
      [] OTHER -> "UNKNOWN"

FromFulfillment(f) ==
    IF f.display \in DOMAIN DisplayStatusMap THEN DisplayStatusMap[f.display]
    ELSE IF f.arrived # Missing THEN "DELIVERED"
    ELSE IF f.moved # Missing THEN "IN_TRANSIT"
    ELSE CASE f.record = "CANCELLED" -> "CANCELLED"
           [] f.record \in {"ERROR", "FAILURE"} -> "DELIVERY_FAILED"
           [] f.record = "SUCCESS" -> "FULFILLED"
           [] f.record \in {"OPEN", "PENDING"} -> "SUPPLIER_PROCESSING"
           [] OTHER -> "UNKNOWN"

\* The furthest of the parcels, one that failed or was cancelled first
Furthest(parcels) ==
    LET states == {FromFulfillment(f) : f \in parcels} \cup {"UNKNOWN"}
    IN  CHOOSE s \in states : \A other \in states : StateRank[other] <= StateRank[s]

\* An order: its status, its payment, whether it was cancelled, when it was
\* made, its parcels
StateOf(order) ==
    IF order.cancelled THEN "CANCELLED"
    ELSE IF order.parcels = {} THEN FromOrderStatus(order.status, IsPaid(order.financial))
    ELSE Furthest(order.parcels)

Notes(order) ==
    IF order.cancelled THEN {}
    ELSE IF order.parcels = {} THEN {order.status} \cap {"ON_HOLD", "REQUEST_DECLINED", "RESTOCKED"}
    ELSE {n \in {order.status} : n = "PARTIALLY_FULFILLED" /\ ~IsTerminal(StateOf(order))}

TrackingNumbers(order) == {f.number : f \in order.parcels} \ {"none"}

Promised(order) == {f.eta : f \in order.parcels} \ {Missing}

\* Paid, and the supplier has not dispatched it
Overdue(order, now) ==
    LET state == StateOf(order)
    IN  /\ IsPaid(order.financial) /\ state \in {"AWAITING_SUPPLIER", "SUPPLIER_PROCESSING"}
        /\ now - order.made > Sla.processing

DelaySignals(order, now) ==
    LET state == StateOf(order)
        watched == ~IsTerminal(state) /\ state # "ORDER_RECEIVED"
        late == Promised(order) # {} /\ now > Min(Promised(order)) + Sla.delivery
        untracked == /\ TrackingNumbers(order) = {} /\ order.parcels # {}
                     /\ StateRank[state] >= StateRank["FULFILLED"]
                     /\ now - Min({f.made : f \in order.parcels}) > Sla.tracking
    IN  Notes(order)
          \cup {s \in {"late"} : watched /\ late}
          \cup {s \in {"overdue"} : watched /\ Overdue(order, now)}
          \cup {s \in {"untracked"} : watched /\ untracked}

ResolveShipment(order, now) ==
    [state |-> StateOf(order), signals |-> DelaySignals(order, now),
     numbers |-> TrackingNumbers(order)]

\* effectiveStatus
EffectiveStatus(shipment) == IF shipment.signals # {} THEN "DELAYED" ELSE shipment.state
================================================================================
