----------------------------- MODULE DeodapCatalog -----------------------------
(***************************************************************************)
(* From a supplier's price list to costs in the shop: the columns of the   *)
(* file are recognised, its rows become products with variants, prices and *)
(* reasons not to import them, what was imported is matched with what      *)
(* Shopify created, and a later list is matched with what was imported     *)
(* (deodap.catalog.ts, deodap.pricing.ts, deodap.import.ts,                *)
(* deodap.sync.ts).                                                        *)
(*                                                                         *)
(* A row is a record of cells.  Amounts are minor units, Null an empty     *)
(* cell, Unreadable one that is no amount.  Texts are compared without     *)
(* case.  The option of a product is called Title where its value is       *)
(* Default Title, as in Shopify's own export.  Stock, pictures, texts and  *)
(* tags are left out.                                                      *)
(***************************************************************************)
EXTENDS Money, Sequences, SequencesExt

CONSTANTS
    Rows,           \* rows a file may have
    LaterCosts,     \* cells of the cost column of the later list
    Overrides,      \* column mappings of the operator: functions of some fields
    PricingRules,   \* [mode, markup, rounding, shipping]
    MaxRows         \* bound on the rows of a file

VARIABLES
    stage,      \* "file", "imported", "list" or "synced"
    list,       \* the price list being read, a sequence of rows
    first,      \* the list that was imported
    override,   \* the operator's mapping, sent with every request
    ledger,     \* the imported products: reference, variants and their SKU, option
    stored,     \* the recorded cost of each variant
    updated     \* the variants the later list changed

catalogVars == <<stage, list, first, override, ledger, stored, updated>>

-----------------------------------------------------------------------------
Unreadable == -2

IsAmount(cell) == cell >= 0

Lines == 1..MaxRows

NoCost == [cost |-> Null, ship |-> Null]

-----------------------------------------------------------------------------
(* Reading a list *)

Strong == [cost |-> "cost", retail |-> "mrp"]

HasValues(rows, column) == \E i \in DOMAIN rows : rows[i][column] # Null

\* detectMapping: a weak alias is used when no stronger one has values.
DetectMapping(rows) ==
    [f \in DOMAIN Strong |->
        IF HasValues(rows, Strong[f]) THEN Strong[f]
        ELSE IF f = "cost" /\ HasValues(rows, "price") THEN "price" ELSE "none"]

\* applyMappingOverride: a column the operator gives to a field is taken away
\* from the field it was detected for.
ColumnsOf(rows) ==
    LET detected == DetectMapping(rows)
        claimed == {override[f] : f \in DOMAIN override}
    IN  [f \in DOMAIN Strong |->
            IF f \in DOMAIN override THEN override[f]
            ELSE IF detected[f] \in claimed THEN "none" ELSE detected[f]]

\* The warning that the cost is read from a column that may be something else
CostIsGuessed(rows) == "cost" \notin DOMAIN override /\ ColumnsOf(rows).cost = "price"

Cell(rows, i, f) ==
    LET column == ColumnsOf(rows)[f]
    IN  IF column = "none" THEN Null ELSE rows[i][column]

\* readCatalog: rows of one handle are one product, named by its first line.
Group(rows, i) ==
    IF rows[i].handle = "" THEN {i} ELSE {j \in DOMAIN rows : rows[j].handle = rows[i].handle}

ProductsOf(rows) == {Group(rows, i) : i \in DOMAIN rows}

\* Rows of a group that are more than another picture
VariantRows(rows, g) ==
    IF Cardinality(g) = 1 THEN g
    ELSE {i \in g : \/ rows[i].sku # "" \/ rows[i].size # ""
                    \/ Cell(rows, i, "cost") # Null \/ Cell(rows, i, "retail") # Null
                    \/ rows[i].ship # Null}

FirstValue(rows, g, column) ==
    LET given == {i \in g : rows[i][column] # ""}
    IN  IF given = {} THEN "" ELSE rows[Min(given)][column]

HasOptions(rows, g) ==
    /\ FirstValue(rows, g, "size") # ""
    /\ ~ /\ FirstValue(rows, g, "size") = "Default Title"
         /\ \A i \in VariantRows(rows, g) : rows[i].size \in {"", "Default Title"}

OptionOf(rows, g, i) == IF HasOptions(rows, g) THEN rows[i].size ELSE "none"

CostOf(rows, i) == IF Cell(rows, i, "cost") > 0 THEN Cell(rows, i, "cost") ELSE Null

ShippingOf(rows, i) == IF IsAmount(rows[i].ship) THEN rows[i].ship ELSE Null

RetailOf(rows, i) == IF Cell(rows, i, "retail") > 0 THEN Cell(rows, i, "retail") ELSE Null

RefOf(rows, g) ==
    LET variants == VariantRows(rows, g)
        handle == FirstValue(rows, g, "handle")
        id == FirstValue(rows, g, "id")
    IN  IF id # "" THEN id
        ELSE IF handle # "" THEN handle
        ELSE IF Cardinality(variants) = 1 THEN rows[Min(variants)].sku ELSE ""

\* buildProduct, and the reference of an earlier product of the file
HasIssues(rows, g) ==
    LET variants == VariantRows(rows, g)
    IN  \/ variants = {} \/ RefOf(rows, g) = ""
        \/ \E i \in variants : \/ CostOf(rows, i) = Null
                               \/ HasOptions(rows, g) /\ rows[i].size = ""
        \/ Cardinality(variants) > 1 /\ ~HasOptions(rows, g)
        \/ \E i, j \in variants :
              /\ i < j
              /\ \/ HasOptions(rows, g) /\ rows[i].size = rows[j].size
                 \/ rows[i].sku # "" /\ rows[i].sku = rows[j].sku
        \/ \E other \in ProductsOf(rows) :
              Min(other) < Min(g) /\ RefOf(rows, other) = RefOf(rows, g)

-----------------------------------------------------------------------------
(* The offer *)

LandedCost(rows, i, rule) ==
    SumMoney(CostOf(rows, i), IF rule.shipping THEN ShippingOf(rows, i) ELSE Null)

\* priceVariant: rounding down to .99 may land under the cost, so the price is
\* raised by one unit, three times at most.
PriceOf(rows, i, rule) ==
    LET landed == LandedCost(rows, i, rule)
        raised[n \in 0..3] ==
            IF n = 0 THEN ApplyRounding(landed + PercentageOf(landed, rule.markup), rule.rounding)
            ELSE IF raised[n - 1] >= landed THEN raised[n - 1]
            ELSE ApplyRounding(raised[n - 1] + 100, rule.rounding)
    IN  IF rule.mode = "RETAIL" /\ Known(RetailOf(rows, i)) THEN RetailOf(rows, i) ELSE raised[3]

\* buildImportPreview and, again on what the browser sends back, validateDraft
Ready(rows, g, rule) ==
    /\ ~HasIssues(rows, g)
    /\ \A i \in VariantRows(rows, g) : PriceOf(rows, i, rule) >= LandedCost(rows, i, rule)

-----------------------------------------------------------------------------
(* The import *)

\* What Shopify made of the variant of line i: its id (the line it was made
\* for), its SKU unless that was dropped, its option
MadeOf(rows, g, i, skuKept) ==
    [id |-> i, sku |-> IF skuKept THEN rows[i].sku ELSE "", option |-> OptionOf(rows, g, i)]

\* Mutant: variants are paired in the order Shopify returns them.
MatchByPosition(rows, drafts, made) ==
    [k \in DOMAIN drafts |-> IF k \in DOMAIN made THEN made[k].id ELSE 0]

\* matchCreatedVariants: by SKU, by option, or because there is only one; 0
\* when there is none.
MatchCreatedVariants(rows, drafts, made) ==
    LET g == Group(rows, drafts[1])
        match[k \in DOMAIN drafts] ==
            LET i == drafts[k]
                free == {j \in DOMAIN made : made[j].id \notin {match[n] : n \in 1..(k - 1)}}
                bySku == {j \in free : rows[i].sku # "" /\ made[j].sku = rows[i].sku}
                byOption == {j \in free : HasOptions(rows, g) /\ made[j].option = rows[i].size}
            IN  IF bySku # {} THEN made[Min(bySku)].id
                ELSE IF byOption # {} THEN made[Min(byOption)].id
                ELSE IF Len(drafts) = 1 /\ Len(made) = 1 THEN made[1].id ELSE 0
    IN  match

UploadList ==
    /\ stage = "empty"
    /\ \E n \in Lines : list' \in [1..n -> Rows]
    /\ override' \in Overrides
    /\ first' = list' /\ stage' = "file"
    /\ UNCHANGED <<ledger, stored, updated>>

\* A manual cost never stores zero: free shipping is recorded as none.
StoredShipping(ship) == IF ship > 0 THEN ship ELSE Null

\* A product that is ready is created, with all of its variants or some, and
\* the costs of those that can be told are recorded.
ImportProduct ==
    /\ stage = "file"
    /\ \E g \in ProductsOf(list), rule \in PricingRules :
          /\ Ready(list, g, rule) /\ \A e \in ledger : e.ref # RefOf(list, g)
          /\ LET drafts == SetToSortSeq(VariantRows(list, g), <)
             IN  \E some \in SUBSET VariantRows(list, g) \ {{}}, skuKept \in BOOLEAN :
                 \E order \in SetToSeqs(some) :
                    LET made == [j \in DOMAIN order |-> MadeOf(list, g, order[j], skuKept)]
                        ids == MatchCreatedVariants(list, drafts, made)
                        known == {k \in DOMAIN drafts : ids[k] # 0}
                    IN  /\ ledger' = ledger \cup
                            {[ref |-> RefOf(list, g),
                              variants |-> {[id |-> ids[k], sku |-> list[drafts[k]].sku,
                                             option |-> OptionOf(list, g, drafts[k])] : k \in known}]}
                        /\ stored' = [i \in Lines |->
                              IF \E k \in known : ids[k] = i
                              THEN LET k == CHOOSE k \in known : ids[k] = i
                                   IN  [cost |-> CostOf(list, drafts[k]),
                                        ship |-> StoredShipping(ShippingOf(list, drafts[k]))]
                              ELSE stored[i]]
    /\ UNCHANGED <<stage, list, first, override, updated>>

-----------------------------------------------------------------------------
(* A later list: the same rows, in part, with other costs, or without that  *)
(* column                                                                  *)

LaterList ==
    /\ stage = "file" /\ ledger # {}
    /\ \E kept \in SUBSET DOMAIN list \ {{}}, cells \in [DOMAIN list -> LaterCosts] :
          /\ \/ \A i \in DOMAIN list : cells[i] = Null
             \/ \A i \in DOMAIN list : cells[i] = Null <=> list[i].cost = Null
          /\ first' = [i \in DOMAIN list |->
                          IF i \in kept THEN [list[i] EXCEPT !.cost = cells[i]]
                          ELSE [list[i] EXCEPT !.gone = TRUE]]
          /\ list' = LET lines == SetToSortSeq(kept, <)
                     IN  [k \in DOMAIN lines |-> first'[lines[k]]]
    /\ stage' = "list"
    /\ UNCHANGED <<override, ledger, stored, updated>>

\* findVariant
FindVariant(g, wanted, count) ==
    LET variants == VariantRows(list, g)
        bySku == {i \in variants : wanted.sku # "" /\ list[i].sku = wanted.sku}
        byOption == {i \in variants : HasOptions(list, g) /\ list[i].size = wanted.option}
    IN  IF bySku # {} THEN Min(bySku)
        ELSE IF byOption # {} THEN Min(byOption)
        ELSE IF Cardinality(variants) = 1 /\ count = 1 THEN Min(variants) ELSE 0

\* planCostSync: the product of that reference, or any row of that SKU
MatchedRow(entry, wanted) ==
    LET byRef == {g \in ProductsOf(list) : RefOf(list, g) = entry.ref}
        inProduct == IF byRef = {} THEN 0
                     ELSE FindVariant(CHOOSE g \in byRef : \A h \in byRef : Min(g) <= Min(h),
                                      wanted, Cardinality(entry.variants))
        bySku == {i \in UNION {VariantRows(list, g) : g \in ProductsOf(list)} :
                     wanted.sku # "" /\ list[i].sku = wanted.sku}
    IN  IF inProduct # 0 THEN inProduct ELSE IF bySku # {} THEN Min(bySku) ELSE 0

\* describeChange: the new cost of a variant; no shipping in the list keeps
\* what is recorded, free shipping is recorded as none.
NewCost(i, before) ==
    [cost |-> CostOf(list, i),
     ship |-> IF Known(ShippingOf(list, i)) THEN StoredShipping(ShippingOf(list, i)) ELSE before.ship]

\* What planCostSync finds for the variants it matched; without a cost there is nothing
\* to apply.
Changes ==
    {c \in ledger \X UNION {e.variants : e \in ledger} :
        /\ c[2] \in c[1].variants
        /\ LET row == MatchedRow(c[1], c[2]) IN row # 0 /\ CostOf(list, row) # Null}

\* applyDeodapSync: the changes the operator chose, less those whose write failed.
SyncCosts ==
    /\ stage = "list" /\ stage' = "synced"
    /\ \E chosen \in SUBSET Changes \ {{}} :
          /\ updated' = {c[2].id : c \in chosen}
          /\ stored' = [i \in Lines |->
                LET mine == {c \in chosen : c[2].id = i}
                IN  IF mine = {} THEN stored[i]
                    ELSE LET c == CHOOSE c \in mine : TRUE
                         IN  NewCost(MatchedRow(c[1], c[2]), stored[i])]
    /\ UNCHANGED <<list, first, override, ledger>>

CatalogInit ==
    /\ stage = "empty" /\ list = <<>> /\ first = <<>> /\ override = <<>>
    /\ ledger = {} /\ stored = [i \in Lines |-> NoCost] /\ updated = {}

CatalogNext == UploadList \/ ImportProduct \/ LaterList \/ SyncCosts

-----------------------------------------------------------------------------
(* Properties *)

\* The cost recorded for a variant is the cost its own row gives, however the
\* columns are named, whatever part of the product Shopify created, with or
\* without its SKUs, in whatever order it returns the variants; a later list
\* that still has the row brings that row's cost, unless it warns that its cost
\* column is a guess (deodap.import.ts:646, deodap.sync.ts:99).
CostsReachTheirVariant ==
    \A i \in DOMAIN first :
        /\ stage = "file" /\ Known(stored[i].cost) => stored[i].cost = CostOf(first, i)
        /\ i \in updated /\ ~first[i].gone /\ ~CostIsGuessed(list) => stored[i].cost = CostOf(first, i)
=============================================================================
