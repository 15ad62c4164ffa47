----------------------------- MODULE MCPaidOrder -----------------------------
(* Finite instances of PaidOrder. *)
EXTENDS PaidOrderProperties, TLC

\* Shopify's order identifiers are interchangeable, and so are the slots in
\* which checkout requests run.
OrderSymmetry == Permutations(ShopOrders) \cup Permutations(Creators)
=============================================================================
