------------------------------- MODULE Storefront -------------------------------
(***************************************************************************)
(* What the storefront shows and what its checkout accepts                 *)
(* (storefront/catalog, the catalog adapter, the request validation and    *)
(* the snapshot of storefront/checkout), with the mapping from supplier    *)
(* variants to Shopify variants that both rest on                          *)
(* (intelligence/variant.mapping.ts).                                      *)
(*                                                                         *)
(* One product.  The merchant edits it in Shopify, operators record what   *)
(* the supplier has, time passes, and customers read both, one after the   *)
(* other, to see a page and then to check out what they saw.               *)
(***************************************************************************)
EXTENDS Sourceability, Sequences, SequencesExt

CONSTANTS
    Variants,           \* the variants the supplier makes
    Sheets,             \* verifications operators record (checkedAt is filled in)
    Shelves,            \* states the merchant puts the product in:
                        \* [status, channel, price, moq: tag values, sale: v -> yes, no, unknown,
                        \*  stock: v -> quantity, or Untracked]
    Quantities,         \* quantities of a cart line
    MaxLineQuantity,    \* MAX_LINE_QUANTITY
    Tick, MaxTime, MaxChanges

VARIABLES
    now,        \* hours
    shelf,      \* the product in Shopify
    candidate,  \* [linked, sheet, created, mappings]: the research candidate it was pushed from
    twin,       \* another candidate claims the same product
    customer,   \* the request of a customer: what it has read so far and what came of it
    changes

storefrontVars == <<now, shelf, candidate, twin, customer, changes>>

-----------------------------------------------------------------------------
Untracked == -1

Hidden == [status |-> "DRAFT", channel |-> "UNKNOWN", price |-> 0, moq |-> {},
           sale |-> [v \in Variants |-> "unknown"], stock |-> [v \in Variants |-> Untracked]]

NoEvidence == [sheet |-> EmptySupplierInfo, mappings |-> {}]

Away == [stage |-> "away", page |-> {}, cart |-> <<>>, lines |-> {},
         read |-> {}, shop |-> Hidden, evidence |-> NoEvidence, sold |-> {}, at |-> 0]

StorefrontInit ==
    /\ now = 0 /\ changes = 0 /\ twin = FALSE
    /\ shelf = Hidden
    /\ candidate = [linked |-> FALSE, sheet |-> EmptySupplierInfo, created |-> {}, mappings |-> {}]
    /\ customer = Away

-----------------------------------------------------------------------------
(* The mapping of variants *)

\* buildVariantPlanFromSupplierVariants: only rows that are available; a sheet without
\* rows is a product of one default variant.
Default == [v |-> "default", id |-> Unset, sku |-> Unset, option |-> Unset, availability |-> "AVAILABLE"]

Planned(rows) == IF rows = {} THEN {Default} ELSE {r \in rows : r.availability = "AVAILABLE"}

\* validateStableSupplierIdentities and the rules for options
PlanIsStable(plan) ==
    /\ plan # {}
    /\ \A r, s \in plan : r # s =>
          /\ r.id = Unset \/ r.id # s.id
          /\ r.sku = Unset \/ r.sku # s.sku
          /\ r.option # Unset /\ s.option # Unset /\ r.option # s.option

\* Mutant: one variant in the answer needs no matching.
MatchesTheOnlyOne(source, sources, created) ==
    IF Cardinality(created) = 1 THEN created
    ELSE {c \in created : IF source.sku # Unset THEN c.sku = source.sku ELSE c.option = source.option}

\* A source that has a SKU matches by SKU, another by its options, and one without
\* either only when nothing else is about.
Matches(source, sources, created) ==
    {c \in created :
        IF source.sku # Unset THEN c.sku = source.sku
        ELSE IF source.option = Unset THEN Cardinality(sources) = 1 /\ Cardinality(created) = 1
        ELSE c.option = source.option}

\* publicVariantId: a digest of the candidate and the most stable identity there is
PublicId(source) ==
    IF source.id # Unset THEN <<"id", source.id>>
    ELSE IF source.sku # Unset THEN <<"sku", source.sku>> ELSE <<"option", source.option>>

\* mapCreatedVariants: an exact match or none.
MapCreatedVariants(sources, created) ==
    {[public |-> PublicId(p[1]), shopify |-> p[2].v, id |-> p[1].id, sku |-> p[1].sku,
      option |-> p[1].option] :
        p \in {pair \in sources \X created : Matches(pair[1], sources, created) = {pair[2]}}}

-----------------------------------------------------------------------------
(* The gate that the catalog and the checkout share *)

\* parseMinimumOrderQuantity: the largest tag that a checkout could satisfy
MinimumOrderQuantity(tags) ==
    LET valid == {t \in tags : t >= 1 /\ t <= MaxLineQuantity}
    IN  IF valid = {} THEN 0 ELSE Max(valid)

\* currentSupplierVariant: the one row of the sheet the mapping names, if it is one
CurrentSupplierRows(mapping, rows) ==
    IF mapping.id # Unset THEN {r \in rows : r.id = mapping.id}
    ELSE IF mapping.sku # Unset THEN {r \in rows : r.sku = mapping.sku}
    ELSE {r \in rows : r.option = mapping.option}

\* The supplier still has it, as far as the sheet tells variants apart.
SupplierHasIt(mapping, sheet, time) ==
    sheet.rows # {} =>
        /\ \E r \in sheet.rows : CurrentSupplierRows(mapping, sheet.rows) = {r} /\ r.availability = "AVAILABLE"
        /\ CheckFreshness(sheet.checkedAt, time) \in {"FRESH", "AGING"}

\* evaluateStorefrontSellability: every authority has to agree; stock is asked last.
Sellability(mapping, shop, sheet, time) ==
    IF \/ shop.status # "ACTIVE"
       \/ shop.channel # "PUBLISHED"
       \/ ~PushEligible(sheet, time)
       \/ ~SupplierHasIt(mapping, sheet, time)
       \/ shop.price <= 0
       \/ shop.sale[mapping.shopify] = "unknown"
    THEN "UNAVAILABLE"
    ELSE IF shop.sale[mapping.shopify] = "no" THEN "OUT_OF_STOCK" ELSE "SELLABLE"

\* projectStorefrontProduct: no product without evidence or without a variant to sell,
\* no variant without a mapping of its own, and none without a price.
Project(shop, evidence, time) ==
    LET unique == {m \in evidence.mappings :
                      \A n \in evidence.mappings : n.shopify = m.shopify => n = m}
        shown == {[public |-> m.public, shopify |-> m.shopify, price |-> shop.price,
                   availability |-> Sellability(m, shop, evidence.sheet, time)] :
                    m \in {u \in unique : shop.price > 0}}
    IN  IF \A x \in shown : x.availability = "UNAVAILABLE" THEN {} ELSE shown

\* loadCatalogEvidenceByProductIds: two candidates of one product are no evidence.
Evidence ==
    IF candidate.linked /\ ~twin
    THEN [sheet |-> candidate.sheet, mappings |-> candidate.mappings] ELSE NoEvidence

-----------------------------------------------------------------------------
(* The world *)

Change == changes < MaxChanges /\ changes' = changes + 1

MerchantEdits ==
    /\ Change /\ candidate.linked
    /\ shelf' \in Shelves \ {shelf}
    /\ UNCHANGED <<now, candidate, twin, customer>>

\* recordSupplierVerification: the whole sheet is replaced, and everything on it is as
\* old as this check.
RecordSupplierVerification ==
    /\ Change
    /\ \E s \in Sheets : candidate' = [candidate EXCEPT !.sheet =
            [availability |-> s.availability, checkedAt |-> now, manual |-> TRUE, rows |-> s.rows]]
    /\ UNCHANGED <<now, shelf, twin, customer>>

\* The push creates the product from the sheet (PushDraft has its steps): Shopify may
\* make only some of the variants, and may keep the default one it began with.
PushSucceeds ==
    LET plan == Planned(candidate.sheet.rows) IN
    /\ ~candidate.linked
    /\ PushEligible(candidate.sheet, now) /\ PlanIsStable(plan)
    /\ \E made \in SUBSET plan, extra \in SUBSET {Default} :
          LET created == made \cup extra IN
          candidate' = [candidate EXCEPT !.linked = TRUE, !.created = created,
                                         !.mappings = MapCreatedVariants(plan, created)]
    /\ UNCHANGED <<now, shelf, twin, customer, changes>>

\* Another candidate is linked to the product too, or no longer is.
TwinAppears ==
    /\ Change /\ candidate.linked /\ twin' = ~twin
    /\ UNCHANGED <<now, shelf, candidate, customer>>

TimePasses ==
    /\ now + Tick <= MaxTime /\ now' = now + Tick
    /\ UNCHANGED <<shelf, candidate, twin, customer, changes>>

-----------------------------------------------------------------------------
(* The customer *)

Become(x) == customer' = x /\ UNCHANGED <<now, shelf, candidate, twin, changes>>

OpenPage == customer.stage = "away" /\ Become([Away EXCEPT !.stage = "browse"])

\* Both a page and a checkout read the product in Shopify and the evidence apart.
ReadShop ==
    /\ customer.stage \in {"browse", "checkout"} /\ "shop" \notin customer.read
    /\ Become([customer EXCEPT !.shop = shelf, !.read = @ \cup {"shop"}])

ReadEvidence ==
    /\ customer.stage \in {"browse", "checkout"} /\ "evidence" \notin customer.read
    /\ customer.stage = "browse" => "shop" \in customer.read
    /\ Become([customer EXCEPT !.evidence = Evidence, !.read = @ \cup {"evidence"}])

\* getProduct
ShowPage ==
    /\ customer.stage = "browse" /\ "evidence" \in customer.read
    /\ Become([Away EXCEPT !.stage = "shown",
                           !.page = Project(customer.shop, customer.evidence, now)])

\* A cart holds what the page offered, with or without the prices it showed.
AddToCart ==
    /\ customer.stage = "shown"
    /\ \E offers \in UNION {[1..n -> customer.page] : n \in 1..2}, quoted \in BOOLEAN :
          /\ \A i \in DOMAIN offers : offers[i].availability = "SELLABLE"
          /\ \E quantities \in [DOMAIN offers -> Quantities] :
                Become([customer EXCEPT !.stage = "cart", !.cart =
                   [i \in DOMAIN offers |->
                       [public |-> offers[i].public, quantity |-> quantities[i],
                        expected |-> IF quoted THEN offers[i].price ELSE 0]]])

\* What all lines of a cart ask for of one variant.
Asked(cart, public) ==
    FoldSeq(LAMBDA x, sum : sum + (IF x.public = public THEN x.quantity ELSE 0), 0, cart)

\* parseLines: the lines of one variant become one, which keeps the first one's price.
ParseLines(cart) ==
    {[cart[i] EXCEPT !.quantity = Asked(cart, cart[i].public)] :
        i \in {j \in DOMAIN cart : \A k \in 1..(j - 1) : cart[k].public # cart[j].public}}

\* validateCreateCheckoutRequest
CheckOut ==
    /\ customer.stage = "cart"
    /\ LET lines == ParseLines(customer.cart) IN
       Become(IF \A x \in lines : x.quantity <= MaxLineQuantity
              THEN [customer EXCEPT !.stage = "checkout", !.lines = lines]
              ELSE [Away EXCEPT !.stage = "refused"])

\* revalidateLines: what the page would show for the line now, at the quoted price
Approved(x, offers) ==
    {o \in offers : o.public = x.public /\ x.expected \in {0, o.price}}

\* assertMinimumOrderQuantities and buildCheckoutSnapshot
Satisfies(x, o, shop) ==
    /\ x.quantity >= MinimumOrderQuantity(shop.moq)
    /\ o.availability = "SELLABLE"
    /\ shop.stock[o.shopify] # Untracked => x.quantity <= shop.stock[o.shopify]

PaymentMinimum == 10

\* create, up to the session that it stores (PaidOrder has what follows).  The ids of
\* the cart come from a page and the mapping of a product never changes: they resolve.
Decide ==
    /\ customer.stage = "checkout" /\ customer.read = {"shop", "evidence"}
    /\ LET offers == Project(customer.shop, customer.evidence, now)
           sold == {[shopify |-> p[2].shopify, public |-> p[1].public,
                     quantity |-> p[1].quantity, price |-> p[2].price] :
                       p \in {pair \in customer.lines \X offers :
                           pair[2] \in Approved(pair[1], offers) /\ Satisfies(pair[1], pair[2], customer.shop)}}
           total == FoldSet(LAMBDA s, sum : sum + s.price * s.quantity, 0, sold)
       IN  Become(IF Cardinality(sold) = Cardinality(customer.lines) /\ total >= PaymentMinimum
                  THEN [customer EXCEPT !.stage = "sold", !.sold = sold, !.at = now]
                  ELSE [Away EXCEPT !.stage = "refused"])

StorefrontNext ==
    \/ MerchantEdits \/ RecordSupplierVerification \/ PushSucceeds \/ TwinAppears \/ TimePasses
    \/ OpenPage \/ ReadShop \/ ReadEvidence \/ ShowPage \/ AddToCart \/ CheckOut \/ Decide

StorefrontSpec == StorefrontInit /\ [][StorefrontNext]_storefrontVars

-----------------------------------------------------------------------------
(* Properties *)

\* What is sold was active and on the channel of the storefront, and a check of the
\* supplier that was not stale had found the product available.  If that check named any
\* variants (sellability.ts:73 compares only then), it had that very variant: two
\* matchings, by SKU or options when the product was made and by id, SKU or options
\* today, lead to the same thing although rows lose their ids and Shopify made fewer
\* variants than it was asked for.  Whether or not it named any, the variant sold is the
\* one whose identity the customer's choice carries (variant.mapping.ts).
SoldIsSourced ==
    customer.stage = "sold" => \A s \in customer.sold :
        LET sheet == customer.evidence.sheet IN
        /\ customer.shop.status = "ACTIVE" /\ customer.shop.channel = "PUBLISHED"
        /\ \E m \in customer.evidence.mappings :
              /\ m.public = s.public /\ m.shopify = s.shopify
              /\ {m.id, m.sku, m.option} \subseteq {s.shopify, Unset}
        /\ sheet.availability = "AVAILABLE"
        /\ customer.at - sheet.checkedAt <= 2 * ManualAvailabilityFreshHours
        /\ sheet.rows # {} =>
              \E r \in sheet.rows : r.v = s.shopify /\ r.availability = "AVAILABLE"

\* The customer gets what the cart says: for each variant all of the quantity, at the
\* price the page showed, no less than the minimum and no more than the stock there was.
CartsHold ==
    customer.stage = "sold" => \A i \in DOMAIN customer.cart :
        LET line == customer.cart[i]
            asked == Asked(customer.cart, line.public)
        IN  \E s \in customer.sold :
              /\ s.public = line.public /\ s.quantity = asked
              /\ line.expected # 0 => s.price = line.expected
              /\ \A t \in customer.shop.moq : t <= MaxLineQuantity => asked >= t
              /\ \/ customer.shop.stock[s.shopify] = Untracked
                 \/ asked <= customer.shop.stock[s.shopify]

\* Not guaranteed by the code (README, section 11).
\* Sellability.ts says "absence never grants sale": a variant the supplier was once said
\* to have in rows of its own is sold only while a row says so.
AbsenceNeverSells ==
    customer.stage = "sold" => \A s \in customer.sold :
        s.shopify # "default" =>
            \E r \in customer.evidence.sheet.rows : r.v = s.shopify /\ r.availability = "AVAILABLE"

=============================================================================
