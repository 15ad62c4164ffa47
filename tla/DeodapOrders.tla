------------------------------ MODULE DeodapOrders ------------------------------
(***************************************************************************)
(* The supplier's page of an order: which lines come from the supplier and *)
(* who places them, what an operator records about it, and what is brought *)
(* to somebody's attention (suppliers/deodap/deodap.orders.ts,             *)
(* deodap.service.ts), while Shopify, the supplier's app and time move     *)
(* the order on.  One order is followed.  Time is counted in whole hours,  *)
(* where the code compares milliseconds and rounds down to hours for its   *)
(* message only: an order overdue by less than an hour counts here from    *)
(* the next moment that is looked at.                                      *)
(***************************************************************************)
EXTENDS Shipments

CONSTANTS
    LineKinds,      \* lines: [ours, vendor, prefix], all Boolean
    Requests,       \* slots for the operator's requests
    Hours,          \* the moments looked at, 0 among them
    MaxParcels,     \* bound on the parcels of the order
    MaxEvents       \* bound on the operator's requests and Shopify's changes

VARIABLES
    order,      \* the order in Shopify
    lines,      \* its lines
    now,        \* hours since the order was made
    setting,    \* the stored settings: order flow, SKU prefixes on or off
    active,     \* the SKU prefixes in effect in the process
    record,     \* the forwarding record, with the times of its stages
    request,    \* the requests at work
    overlapped, \* two updates of the record were at work at once
    events

ordersVars == <<order, lines, now, setting, active, record, request, overlapped,
                events>>

-----------------------------------------------------------------------------
Statuses == {"NOT_PLACED", "PLACED", "SHIPPED", "DELIVERED", "CANCELLED", "PROBLEM"}

NoRecord == [status |-> "none", number |-> "none", placed |-> Missing, shipped |-> Missing,
             delivered |-> Missing]

NoRequest == [pc |-> "idle", status |-> "none", number |-> "none", seen |-> NoRecord,
              want |-> [flow |-> "MANUAL", prefixes |-> FALSE]]

OrdersInit ==
    /\ order = [status |-> "UNFULFILLED", financial |-> "PENDING", cancelled |-> FALSE,
                made |-> 0, parcels |-> {}]
    /\ lines \in SUBSET LineKinds \ {{}}
    /\ now = 0
    /\ setting \in [flow : {"SHOPIFY_APP", "MANUAL"}, prefixes : BOOLEAN]
    /\ active = setting.prefixes
    /\ record = NoRecord
    /\ request = [q \in Requests |-> NoRequest]
    /\ overlapped = FALSE
    /\ events = 0

-----------------------------------------------------------------------------
(* The order seen by the page *)

\* collectDeodapEvidence, with the prefixes in effect
CollectDeodapEvidence(l) == l.vendor \/ (l.prefix /\ active)

\* extractDeodapLines: identified, or imported by the importer (its reference
\* is in the ledger)
ExtractDeodapLines == {l \in lines : CollectDeodapEvidence(l) \/ l.ours}

Route(l) == IF setting.flow = "SHOPIFY_APP" /\ ~l.ours THEN "DEODAP_APP" ELSE "MANUAL"

OrderRoute ==
    LET routes == {Route(l) : l \in ExtractDeodapLines}
    IN  IF Cardinality(routes) > 1 THEN "MIXED"
        ELSE IF "DEODAP_APP" \in routes THEN "DEODAP_APP" ELSE "MANUAL"

NotDispatched == {"ORDER_RECEIVED", "AWAITING_SUPPLIER", "SUPPLIER_PROCESSING"}

ClosedInShopify == order.cancelled \/ order.financial \in {"REFUNDED", "VOIDED", "EXPIRED"}

\* Somebody has to place it with the supplier.
MustBePlaced ==
    /\ \E l \in ExtractDeodapLines : Route(l) = "MANUAL"
    /\ record.status \notin {"PLACED", "SHIPPED", "DELIVERED"}
    /\ order.status # "FULFILLED"

\* The customer has not been told the tracking that was recorded.
TrackingMissing ==
    /\ record.status \in {"SHIPPED", "DELIVERED"} /\ record.number # "none"
    /\ record.number \notin TrackingNumbers(order)

\* Mutant: only orders the operator places are looked at.
UnpaidAndLateManual ==
    /\ ~MustBePlaced /\ ~IsPaid(order.financial)
    /\ StateOf(order) \in NotDispatched
    /\ now - order.made > Sla.processing
    /\ OrderRoute = "MANUAL"

UnpaidAndLate ==
    /\ ~MustBePlaced /\ ~IsPaid(order.financial)
    /\ StateOf(order) \in NotDispatched
    /\ now - order.made > Sla.processing

AssessDeodapOrder ==
    LET problem == {r \in {"problem"} : record.status = "PROBLEM"}
    IN  IF ClosedInShopify THEN problem
        ELSE IF record.status = "CANCELLED" THEN {"cancelled with the supplier"}
        ELSE LET place == {r \in {"place it"} : MustBePlaced}
             IN  IF TrackingMissing THEN problem \cup place \cup {"tracking missing"}
                 ELSE problem \cup place \cup DelaySignals(order, now)
                        \cup {r \in {"unpaid and late"} : UnpaidAndLate}

-----------------------------------------------------------------------------
(* The operator's requests *)

Asks(q, x) == request[q].pc = "idle" /\ events < MaxEvents /\ events' = events + 1
              /\ request' = [request EXCEPT ![q] = x]

\* updateDeodapOrder reads the record it is about to replace.
UpdateDeodapOrder(q) ==
    /\ ExtractDeodapLines # {}
    /\ \E s \in Statuses, n \in {"none", "n1"} :
          /\ n # "none" => s = "SHIPPED"
          /\ Asks(q, [NoRequest EXCEPT !.pc = "store", !.status = s, !.number = n, !.seen = record])
    /\ overlapped' = (overlapped \/ \E other \in Requests : request[other].pc = "store")
    /\ UNCHANGED <<order, lines, now, setting, active, record>>

\* Mutant: a stage is stamped by the update that names it.
StageAnew(seen, reached) == IF reached THEN now ELSE seen

\* A stage keeps the time it was first reached.
Stage(seen, reached) == IF seen # Missing THEN seen ELSE IF reached THEN now ELSE Missing

StageTimestamps(x) ==
    [status |-> x.status, number |-> x.number,
     placed |-> Stage(x.seen.placed, x.status \in {"PLACED", "SHIPPED", "DELIVERED"}),
     shipped |-> Stage(x.seen.shipped, x.status \in {"SHIPPED", "DELIVERED"}),
     delivered |-> Stage(x.seen.delivered, x.status = "DELIVERED")]

StoreDeodapOrder(q) ==
    /\ request[q].pc = "store"
    /\ record' = StageTimestamps(request[q])
    /\ request' = [request EXCEPT ![q] = NoRequest]
    /\ UNCHANGED <<order, lines, now, setting, active, overlapped, events>>

\* saveDeodapSettings: what is not in the body keeps the value read here.
SaveDeodapSettings(q) ==
    /\ \E w \in [flow : {"SHOPIFY_APP", "MANUAL"}, prefixes : BOOLEAN] :
          /\ w # setting
          /\ Asks(q, [NoRequest EXCEPT !.pc = "save", !.want = w])
    /\ UNCHANGED <<order, lines, now, setting, active, record, overlapped>>

StoreSettings(q) ==
    /\ request[q].pc = "save"
    /\ setting' = request[q].want
    /\ request' = [request EXCEPT ![q].pc = "apply"]
    /\ UNCHANGED <<order, lines, now, active, record, overlapped, events>>

ApplySettings(q) ==
    /\ request[q].pc = "apply"
    /\ active' = request[q].want.prefixes
    /\ request' = [request EXCEPT ![q] = NoRequest]
    /\ UNCHANGED <<order, lines, now, setting, record, overlapped, events>>

\* applyStoredDeodapSettings at the start of the process; it never throws.
StartProcess ==
    /\ active' \in {setting.prefixes, FALSE}
    /\ request' = [q \in Requests |-> NoRequest]
    /\ \E q \in Requests : request[q].pc # "idle"
    /\ UNCHANGED <<order, lines, now, setting, record, overlapped, events>>

-----------------------------------------------------------------------------
(* Shopify, the supplier's app and time *)

Changes(x) ==
    /\ events < MaxEvents /\ events' = events + 1
    /\ ~order.cancelled /\ order' = x
    /\ UNCHANGED <<lines, now, setting, active, record, request, overlapped>>

PaymentMoves ==
    \E to \in {"PAID", "PARTIALLY_PAID", "REFUNDED"} :
        Changes([order EXCEPT !.financial = to])

OrderIsCancelled == Changes([order EXCEPT !.cancelled = TRUE])

\* Without a parcel: the fulfillment request moves on.
FulfillmentRequestMoves ==
    /\ order.parcels = {}
    /\ \E to \in {"IN_PROGRESS", "ON_HOLD"} :
          Changes([order EXCEPT !.status = to])

ParcelIsMade ==
    /\ Cardinality(order.parcels) < MaxParcels
    /\ \E display \in {"none", "LABEL_PRINTED"}, number \in {"none", "n1"},
          eta \in {Missing, now + 24}, all \in BOOLEAN :
          Changes([order EXCEPT
              !.status = IF all THEN "FULFILLED" ELSE "PARTIALLY_FULFILLED",
              !.parcels = @ \cup {[NewParcel EXCEPT !.display = display, !.made = now,
                                                     !.number = number, !.eta = eta]}])

ParcelMoves ==
    \E f \in order.parcels, display \in {"IN_TRANSIT", "DELIVERED", "FAILURE", "CANCELED"} :
        Changes([order EXCEPT !.parcels = (@ \ {f}) \cup {[f EXCEPT !.display = display]},
                              !.status = IF display = "CANCELED" THEN "UNFULFILLED" ELSE @])

TimePasses ==
    /\ \E h \in Hours : h > now /\ now' = h
    /\ UNCHANGED <<order, lines, setting, active, record, request, overlapped, events>>

OrdersNext ==
    \/ \E q \in Requests :
          \/ UpdateDeodapOrder(q) \/ StoreDeodapOrder(q)
          \/ SaveDeodapSettings(q) \/ StoreSettings(q) \/ ApplySettings(q)
    \/ StartProcess
    \/ PaymentMoves \/ OrderIsCancelled \/ FulfillmentRequestMoves
    \/ ParcelIsMade \/ ParcelMoves \/ TimePasses

-----------------------------------------------------------------------------
(* Properties *)

\* An open order the supplier never dispatched is brought to somebody's
\* attention once it is older than the threshold, whoever was to place it,
\* however it is paid and whatever the operator recorded about it
\* (deodap.settings.ts:75, deodap.orders.ts:283).
NobodyWaitsSilently ==
    /\ ExtractDeodapLines # {} /\ order.parcels = {} /\ ~ClosedInShopify
    /\ now - order.made > Sla.processing
    => AssessDeodapOrder # {}

\* A stage keeps the time it was first reached, however often the record is
\* corrected and whatever it says in between; only updates that overlapped
\* may lose a time (deodap.orders.ts:437).
KeepsTimes ==
    \A s \in {"placed", "shipped", "delivered"} :
        record[s] # Missing /\ ~overlapped' => record'[s] = record[s]

StagesKeepTheirTime == [][KeepsTimes]_ordersVars
=============================================================================
