---------------------------- MODULE SourcingFigures ----------------------------
(***************************************************************************)
(* The services of MCSourcing that compute figures from what they are      *)
(* told: the price of a variant under automation, the verdict on a         *)
(* candidate, and the books of the orders.  They stand apart because what  *)
(* FiguresProofs proves about their sums needs none of the other services. *)
(* v1 to v8 are the variables of the service that runs.                    *)
(***************************************************************************)
EXTENDS Integers, Sequences, FiniteSets

CONSTANT Slots      \* requests, deliveries and operations

\* Of a price under automation (Repricing)
CONSTANTS Prices, UnitCosts, ManualCosts, PriceRules

\* Of the books (Dropshipping)
CONSTANTS Orders, OrderKinds, LaterCosts, Patches

\* Of the research on a candidate (Research)
CONSTANTS Market, Entries, Offers, Sheets, Category, Batches, Size, Waits

\* Amounts are whole minor units, percentages of a band are not negative
\* (validateAutomationRules), and a rule has finitely many fees.
ASSUME PricesAssumption ==
    /\ Prices \subseteq Nat
    /\ \A cost \in UnitCosts : cost.amount \in Int
    /\ \A cost \in ManualCosts : cost.amount \in Int /\ cost.shipping \in Int
    /\ \A r \in PriceRules :
          /\ r.mode \in {"margin", "multiplier", "fixed_uplift"}
          /\ r.rounding \in {"charm99", "integer", "none"}
          /\ {r.multiplier, r.uplift, r.target, r.other} \subseteq Int
          /\ {r.up, r.down, r.change} \subseteq Nat
          /\ IsFiniteSet(DOMAIN r.rates) /\ \A fee \in DOMAIN r.rates : r.rates[fee] \in Nat

\* A line counts items; what one of them costs or ships for is an amount or unknown (-1).
BookLine == [quantity : Nat, cost : Nat \cup {-1}, ship : Nat \cup {-1}]

ASSUME BooksAssumption ==
    /\ IsFiniteSet(Orders)
    /\ \A kind \in OrderKinds : kind.lines \in Seq(BookLine)
    /\ LaterCosts \subseteq Nat \cup {-1}

\* What was typed has a date, batches have orders, and time only passes.
ASSUME ResearchAssumption ==
    /\ \A figures \in Entries \cup Offers : figures.observedAt \in Int
    /\ \A s \in Sheets :
          s \in [availability : {"AVAILABLE", "UNAVAILABLE", "UNKNOWN"}, checkedAt : Int,
                manual : BOOLEAN, rows : {s.rows}]
    /\ IsFiniteSet(Batches) /\ \A b \in Batches : Size[b] \in Nat \ {0}
    /\ Waits \subseteq Nat

VARIABLES v1, v2, v3, v4, v5, v6, v7, v8

Pricing == INSTANCE Repricing WITH
    MaxCostEdits <- 1, price <- v1, unitCost <- v2, manual <- v3, rules <- v4,
    trend <- v5, written <- v6, costEdits <- v7

Candidates == INSTANCE Research WITH
    MaxTime <- 160, MaxChanges <- 2, entry <- v1, offer <- v2,
    sheet <- v3, orders <- v4, reachable <- v5, analysis <- v6, now <- v7,
    changes <- v8

Books == INSTANCE Dropshipping WITH
    Savers <- Slots, MaxEvents <- 4, book <- v1,
    settings <- v2, saver <- v3, clean <- v4, happened <- v5
=============================================================================
