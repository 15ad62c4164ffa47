------------------------------ MODULE Dropshipping ------------------------------
(***************************************************************************)
(* The dropshipping books: what each order earns and owes its supplier,    *)
(* the dashboard over all of them, and the settings both are computed with *)
(* (dropshipping.cost.ts, dropshipping.analytics.ts, dropshipping.view.ts, *)
(* dropshipping.settings.ts, dropshipping.settings.service.ts).            *)
(*                                                                         *)
(* Orders move in Shopify, costs are recorded, operators save settings;    *)
(* every figure is computed anew from the orders.  Amounts are minor       *)
(* units, Null an amount nobody knows.                                     *)
(***************************************************************************)
EXTENDS Money, Shipments

CONSTANTS
    Orders,         \* slots for orders, numbered
    OrderKinds,     \* [currency, revenue, lines: a sequence of [quantity, cost, ship]]
    LaterCosts,     \* costs recorded after an order came in
    Patches,        \* what an operator saves: functions of some settings
    Savers,         \* slots for requests that save
    MaxEvents       \* bound on what happens to orders, costs and settings

VARIABLES
    book,       \* the orders, as Shopify and the recorded costs have them
    settings,   \* the stored settings; <<>> when nothing was saved
    saver,      \* the requests that save
    clean,      \* the requests no other save overtook and whose reads succeeded
    happened

dropVars == <<book, settings, saver, clean, happened>>

-----------------------------------------------------------------------------
\* The configuration a row in the database replaces: DEFAULT_DROPSHIP_COST_CONFIG,
\* rates per mille, and the target the pricing policy adds
DefaultSettings == [shipping |-> TRUE, fee |-> 29, floor |-> 150, target |-> 300]

NoOrder == [currency |-> "none", revenue |-> Null, lines |-> <<>>, status |-> "none",
            financial |-> "none", cancelled |-> FALSE, made |-> 0, parcels |-> {}]

NoSave == [pc |-> "idle", patch |-> <<>>, merged |-> DefaultSettings]

DropInit ==
    /\ book = [o \in Orders |-> NoOrder]
    /\ settings = <<>>
    /\ saver = [s \in Savers |-> NoSave]
    /\ clean = {}
    /\ happened = 0

Present == {o \in Orders : book[o] # NoOrder}

-----------------------------------------------------------------------------
(* Settings *)

\* mergeDropshipSettings: a field the patch does not supply is kept.
Merge(base, patch) == [f \in DOMAIN base |-> IF f \in DOMAIN patch THEN patch[f] ELSE base[f]]

\* Mutant: what the patch leaves out falls back to the configuration.
MergeOverDefaults(base, patch) ==
    [f \in DOMAIN base |-> IF f \in DOMAIN patch THEN patch[f] ELSE DefaultSettings[f]]

MergeSettings(base, patch) == Merge(base, patch)

\* validateDropshipSettings, with the pricing policy the record produces
ValidSettings(r) ==
    /\ r.fee \in 0..999 /\ r.floor \in 0..999
    /\ r.target >= r.floor /\ r.fee + r.target < 1000

\* loadSettings: the configuration when nothing valid can be read
LoadSettings(row) ==
    IF row = <<>> \/ ~ValidSettings(Merge(DefaultSettings, row)) THEN DefaultSettings
    ELSE Merge(DefaultSettings, row)

-----------------------------------------------------------------------------
(* One order: computeOrderEconomics *)

\* Mutant: a line without a recorded cost counts as free.
TotalOfRecorded(lines, unit) ==
    MapThenSumSet(LAMBDA i : IF Known(lines[i][unit]) THEN lines[i].quantity * lines[i][unit] ELSE 0,
                  DOMAIN lines)

\* totalPerUnit: unknown as soon as one line is
TotalPerUnit(lines, unit) ==
    IF lines = <<>> \/ \E i \in DOMAIN lines : ~Known(lines[i][unit]) THEN Null
    ELSE MapThenSumSet(LAMBDA i : lines[i].quantity * lines[i][unit], DOMAIN lines)

\* addFigures
AddFigures(a, b) == IF Known(a) /\ Known(b) THEN a + b ELSE Null

ProductCost(o) == TotalPerUnit(book[o].lines, "cost")

\* Left out by configuration it is a known zero.
ShippingCost(o, config) == IF config.shipping THEN TotalPerUnit(book[o].lines, "ship") ELSE 0

\* What the supplier is owed
LandedCost(o, config) == AddFigures(ProductCost(o), ShippingCost(o, config))

Fees(o, config) ==
    IF Known(book[o].revenue) THEN PercentageOf(book[o].revenue, config.fee) ELSE Null

CommercialCost(o, config) == AddFigures(LandedCost(o, config), Fees(o, config))

\* A profit, or unknown; a loss is a negative amount, so it is kept in a set
EstimatedProfit(o, config) ==
    IF Known(book[o].revenue) /\ Known(CommercialCost(o, config))
    THEN {book[o].revenue - CommercialCost(o, config)} ELSE {}

\* In hundredths of a percent
EstimatedMargin(o, config) ==
    {RoundRatio(p * 10000, book[o].revenue) : p \in {p \in EstimatedProfit(o, config) :
                                                        book[o].revenue > 0}}

-----------------------------------------------------------------------------
(* All orders: the dashboard *)

Dispatched == {"FULFILLED", "LABEL_CREATED", "CARRIER_PICKED_UP", "IN_TRANSIT",
               "OUT_FOR_DELIVERY", "DELIVERED"}

PaidOrders == {o \in Present : IsPaid(book[o].financial) /\ StateOf(book[o]) # "CANCELLED"}

DispatchedOrders == {o \in PaidOrders : StateOf(book[o]) \in Dispatched}

\* primaryCurrencyOf: the most frequent, of equals the one seen first
PrimaryCurrency ==
    LET of(c) == {o \in Present : book[o].currency = c}
        currencies == {book[o].currency : o \in Present} \ {"none"}
    IN  IF currencies = {} THEN "none"
        ELSE CHOOSE c \in currencies : \A d \in currencies \ {c} :
                \/ Cardinality(of(c)) > Cardinality(of(d))
                \/ Cardinality(of(c)) = Cardinality(of(d)) /\ Min(of(c)) < Min(of(d))

InCurrency(o) == book[o].currency \in {PrimaryCurrency, "none"}

\* aggregate: what is unknown or in another currency is left out and counted.
Aggregate(orders, figure) ==
    LET included == {o \in orders : Known(figure[o]) /\ InCurrency(o)}
    IN  [amount |-> MapThenSumSet(LAMBDA o : figure[o], included), included |-> Cardinality(included),
         excluded |-> Cardinality(orders \ included)]

\* computeExposure
Exposure(config) ==
    LET landed == [o \in PaidOrders |-> LandedCost(o, config)]
        commitments == Aggregate(PaidOrders, landed)
        fulfilled == Aggregate(DispatchedOrders, landed)
    IN  [commitments |-> commitments, fulfilled |-> fulfilled,
         outstanding |-> Max({0, commitments.amount - fulfilled.amount}),
         unknown |-> Cardinality({o \in PaidOrders : ~Known(LandedCost(o, config))})]

\* buildAttention: the buckets an order falls into
Attention(o, config) ==
    LET state == StateOf(book[o])
        margin == EstimatedMargin(o, config)
        bucket(name, match) == {b \in {name} : match}
    IN  UNION {
          bucket("FAILED_FULFILLMENT", state = "DELIVERY_FAILED"),
          bucket("NEGATIVE_MARGIN", \E m \in margin : m < 0),
          bucket("NO_TRACKING", state \in Dispatched /\ TrackingNumbers(book[o]) = {}),
          bucket("LOW_MARGIN", \E m \in margin : m >= 0 /\ m < config.floor * 10),
          bucket("UNKNOWN_SUPPLIER_COST", ~Known(ProductCost(o))),
          bucket("UNKNOWN_SUPPLIER_SHIPPING", ~Known(ShippingCost(o, config))),
          bucket("UNKNOWN_FULFILLMENT_STATE", state = "UNKNOWN")}

\* countStates
CountStates ==
    LET n(states) == Cardinality({o \in Present : StateOf(book[o]) \in states})
    IN  [awaiting |-> n({"ORDER_RECEIVED", "AWAITING_SUPPLIER"}), processing |-> n({"SUPPLIER_PROCESSING"}),
         shipped |-> n({"FULFILLED", "LABEL_CREATED", "CARRIER_PICKED_UP"}), transit |-> n({"IN_TRANSIT"}),
         out |-> n({"OUT_FOR_DELIVERY"}), delivered |-> n({"DELIVERED"}),
         failed |-> n({"DELIVERY_FAILED"}), cancelled |-> n({"CANCELLED"}), unknown |-> n({"UNKNOWN"})]

\* buildDashboard: the estimated margin divides the profit of the primary
\* currency by the revenue of every order whose profit is known.
DashboardMargin(config) ==
    LET costed == {o \in Present : EstimatedProfit(o, config) # {}}
        revenue == MapThenSumSet(LAMBDA o : book[o].revenue, costed)
        profit == MapThenSumSet(LAMBDA o : CHOOSE p \in EstimatedProfit(o, config) : TRUE,
                                {o \in costed : InCurrency(o)})
    IN  IF revenue > 0 THEN {RoundRatio(profit * 10000, revenue)} ELSE {}

-----------------------------------------------------------------------------
Happens == happened < MaxEvents /\ happened' = happened + 1

ToBook(o, x) ==
    /\ Happens /\ book' = [book EXCEPT ![o] = x]
    /\ UNCHANGED <<settings, saver, clean>>

OrderArrives ==
    \E o \in Orders \ Present, kind \in OrderKinds, financial \in {"PENDING", "PAID"} :
        /\ \A other \in Orders \ Present : o <= other
        /\ ToBook(o, [NoOrder EXCEPT !.currency = kind.currency, !.revenue = kind.revenue,
                                     !.lines = kind.lines, !.status = "UNFULFILLED",
                                     !.financial = financial])

OrderIsSent ==
    \E o \in Present, display \in {"none", "IN_TRANSIT", "FAILURE"} :
        /\ ~book[o].cancelled
        /\ ToBook(o, [book[o] EXCEPT !.parcels = {[NewParcel EXCEPT !.display = display]}])

OrderIsPaid ==
    \E o \in Present : book[o].financial = "PENDING" /\ ToBook(o, [book[o] EXCEPT !.financial = "PAID"])

OrderIsCancelled ==
    \E o \in Present : ~book[o].cancelled /\ ToBook(o, [book[o] EXCEPT !.cancelled = TRUE])

\* A cost is recorded, or removed, for the product of a line.
CostIsRecorded ==
    \E o \in Present, cost \in LaterCosts :
        \E i \in DOMAIN book[o].lines, unit \in {"cost", "ship"} :
            /\ book[o].lines[i][unit] # cost
            /\ ToBook(o, [book[o] EXCEPT !.lines[i][unit] = cost])

-----------------------------------------------------------------------------
(* saveSettings: read, merge and validate, write the whole record *)

\* The read falls back to the configuration when it fails.
ReadAndMerge(s) ==
    /\ saver[s].pc = "idle" /\ Happens
    /\ \E patch \in Patches, readable \in BOOLEAN :
          LET base == LoadSettings(IF readable THEN settings ELSE <<>>)
              merged == MergeSettings(base, patch)
          IN  /\ ValidSettings(merged) /\ merged # base
              /\ saver' = [saver EXCEPT ![s] = [pc |-> "write", patch |-> patch, merged |-> merged]]
              /\ clean' = IF readable THEN clean \cup {s} ELSE clean \ {s}
    /\ UNCHANGED <<book, settings>>

WriteSettings(s) ==
    /\ saver[s].pc = "write"
    /\ settings' = saver[s].merged
    /\ saver' = [saver EXCEPT ![s] = NoSave]
    /\ clean' = {}
    /\ UNCHANGED <<book, happened>>

DropNext ==
    \/ OrderArrives \/ OrderIsSent \/ OrderIsPaid \/ OrderIsCancelled \/ CostIsRecorded
    \/ \E s \in Savers : ReadAndMerge(s) \/ WriteSettings(s)

-----------------------------------------------------------------------------
(* Properties *)

Owed(o, config) ==
    MapThenSumSet(LAMBDA i : book[o].lines[i].quantity *
                                 (book[o].lines[i].cost + (IF config.shipping THEN book[o].lines[i].ship ELSE 0)),
                  DOMAIN book[o].lines)

OwedBy(orders, config) == MapThenSumSet(LAMBDA o : Owed(o, config), orders)

Costed(o, config) ==
    /\ book[o].lines # <<>>
    /\ \A i \in DOMAIN book[o].lines :
        Known(book[o].lines[i].cost) /\ (config.shipping => Known(book[o].lines[i].ship))

\* The cash still owed to suppliers is, to the unit, what the lines of the paid
\* orders of the main currency that nobody dispatched cost; an order with a
\* line whose cost or shipping nobody recorded adds nothing, is counted as
\* unknown and is on the attention list (dropshipping.cost.ts,
\* dropshipping.analytics.ts:375).
BooksAreHonest ==
    LET config == LoadSettings(settings)
        counted == {o \in PaidOrders : Costed(o, config) /\ InCurrency(o)}
    IN  /\ Exposure(config).outstanding = OwedBy(counted \ DispatchedOrders, config)
        /\ Exposure(config).unknown = Cardinality({o \in PaidOrders : ~Costed(o, config)})
        /\ \A o \in PaidOrders : ~Costed(o, config) =>
              Attention(o, config) \cap {"UNKNOWN_SUPPLIER_COST", "UNKNOWN_SUPPLIER_SHIPPING"} # {}

\* A save changes what it was asked to change and nothing else, unless another
\* save came between its read and its write or its read failed
\* (dropshipping.write.controller.ts:31).
SaveIsLocal ==
    \A s \in Savers, f \in DOMAIN DefaultSettings :
        saver[s].pc = "write" /\ saver'[s].pc = "idle" /\ s \in clean
            /\ f \notin DOMAIN saver[s].patch
        => LoadSettings(settings')[f] = LoadSettings(settings)[f]

SavesLeaveTheRest == [][SaveIsLocal]_dropVars

\* Not guaranteed by the code (README, section 11).
\* The margin of the dashboard is that of one population: the orders whose
\* profit it counts (dropshipping.analytics.ts:536).
MarginOfOneBook ==
    LET config == LoadSettings(settings)
        costed == {o \in Present : EstimatedProfit(o, config) # {} /\ InCurrency(o)}
        revenue == MapThenSumSet(LAMBDA o : book[o].revenue, costed)
        profit == MapThenSumSet(LAMBDA o : CHOOSE p \in EstimatedProfit(o, config) : TRUE, costed)
    IN  \A m \in DashboardMargin(config) : revenue > 0 => m = RoundRatio(profit * 10000, revenue)
=============================================================================
