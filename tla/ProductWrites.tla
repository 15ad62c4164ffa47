------------------------------ MODULE ProductWrites ------------------------------
(***************************************************************************)
(* What operators write to the products of the shop: creating, publishing, *)
(* unpublishing and editing them and setting their stock                   *)
(* (products.create.service.ts, products.write.service.ts,                 *)
(* publications.service.ts, inventory.write.service.ts).                   *)
(*                                                                         *)
(* A request is a sequence of calls to Shopify.  Any of them can be        *)
(* refused, fail, or take effect although its answer is lost; requests of  *)
(* other operators and the merchant in the Shopify admin come in between.  *)
(***************************************************************************)
EXTENDS Integers, Sequences, FiniteSetsExt, Functions

CONSTANTS
    Listings,           \* products
    Writers,            \* slots for requests
    CreateForms,        \* [options: values, variants: a sequence of [sku, value]]
    Edits,              \* [status, add, remove, price, expectedStatus, expectedPrice]
    Stocks,             \* quantities an operator sets
    MaxInventoryDelta,  \* config.maxInventoryDelta
    MaxRequests, MaxMishaps

VARIABLES
    listing,    \* listing[p]: the product in Shopify
    writer,     \* writer[w]: the request in the slot
    sure,       \* requests on whose product nobody else wrote since they last read it
    began, mishaps

writeVars == <<listing, writer, sure, began, mishaps>>

-----------------------------------------------------------------------------
Unset == -1             \* a field of a request nobody filled in
DefaultPrice == 0       \* of the variant productCreate makes by itself

Channels == {"online", "headless"}

NoListing == [status |-> "none", price |-> DefaultPrice, channels |-> {}, tags |-> {}, stock |-> 0]

Made == {p \in Listings : listing[p].status # "none"}

\* todo holds the calls still to make; report is what the caller was told, and
\* unheard the call that took effect although its answer was lost.
Free == [p |-> Unset, todo |-> <<>>, body |-> <<>>, report |-> "none", visible |-> FALSE,
         unheard |-> "none"]

WritesInit ==
    /\ listing = [p \in Listings |-> NoListing]
    /\ writer = [w \in Writers |-> Free]
    /\ sure = {} /\ began = 0 /\ mishaps = 0

\* resolveCustomerVisibility: the Online Store is the one channel that counts.
VisibleToCustomers(x) == x.status = "ACTIVE" /\ "online" \in x.channels

\* resolveHeadlessVisibility
SellableOnHeadless(x) == x.status = "ACTIVE" /\ "headless" \in x.channels

Mishap == mishaps < MaxMishaps /\ mishaps' = mishaps + 1

\* Everybody else who works on p no longer knows what it looks like.
Change(p, x, mine) ==
    /\ listing' = [listing EXCEPT ![p] = x]
    /\ sure' = IF x = listing[p] THEN sure ELSE {w \in sure : writer[w].p # p \/ w \in mine}

-----------------------------------------------------------------------------
(* What an operator asks for *)

Begin(w, p, todo, body) ==
    /\ writer[w].todo = <<>> /\ began < MaxRequests
    /\ writer' = [writer EXCEPT ![w] = [Free EXCEPT !.p = p, !.todo = todo, !.body = body]]
    /\ sure' = sure \cup {w} /\ began' = began + 1
    /\ UNCHANGED <<listing, mishaps>>

\* validateNewVariants: what Shopify would refuse once the product exists is
\* refused before; "none" is no SKU, and option values count when options are declared.
ValidateNewVariants(form) ==
    /\ form.variants # <<>>
    /\ \A i, j \in DOMAIN form.variants :
          i # j /\ form.variants[i].sku # "none" => form.variants[i].sku # form.variants[j].sku
    /\ form.options # {} => \A i, j \in DOMAIN form.variants :
          /\ form.variants[i].value \in form.options
          /\ i # j => form.variants[i].value # form.variants[j].value

\* validateProductCreate: always a DRAFT; publishing is a wish of its own.
AskToCreate(w) ==
    \E p \in Listings \ Made, publish \in BOOLEAN, form \in CreateForms :
        /\ ValidateNewVariants(form)
        /\ \A v \in Writers : writer[v].p # p
        /\ Begin(w, p, <<"create", "variants">> \o
                       (IF publish THEN <<"publish", "verify", "activate">> ELSE <<>>),
                 [kind |-> "create", price |-> 1, targets |-> {"online"}, form |-> form])

\* The Online Store unless channels are named; the headless channel by configuration.
AskToPublish(w) ==
    \E p \in Made, targets \in SUBSET Channels \ {{}}, kind \in {"publish", "unpublish"} :
        Begin(w, p, <<kind, "verify">>, [kind |-> kind, targets |-> targets])

\* requiresConcurrencyCheck
RequiresConcurrencyCheck(edit) == edit.expectedStatus # "any" \/ edit.expectedPrice # Unset

\* validateProductEdit and editProduct: the parts that change, in order
AskToEdit(w) ==
    \E p \in Made, edit \in Edits :
        LET part(name, wanted) == IF wanted THEN <<name>> ELSE <<>>
        IN  Begin(w, p, part("check", RequiresConcurrencyCheck(edit))
                          \o part("status", edit.status # "any")
                          \o part("addTags", edit.add # {})
                          \o part("removeTags", edit.remove # {})
                          \o part("price", edit.price # Unset),
                  [kind |-> "edit", edit |-> edit])

\* validateInventorySet
AskForStock(w) ==
    \E p \in Made, to \in Stocks, expected \in Stocks \cup {Unset}, confirm \in BOOLEAN :
        Begin(w, p, <<"read", "stock">>,
              [kind |-> "stock", to |-> to, expected |-> expected, confirm |-> confirm])

-----------------------------------------------------------------------------
(* The calls *)

Step(w) == IF writer[w].todo = <<>> THEN "none" ELSE Head(writer[w].todo)

\* Every failure ends the request, whatever it was about to do.
Left(todo, outcome) == IF outcome = "ok" THEN Tail(todo) ELSE <<>>

\* createProduct reports what came of the product instead of throwing, once it
\* exists and unless the variants call itself failed.
Partial(w, outcome) ==
    /\ writer[w].body.kind = "create"
    /\ Step(w) \in {"publish", "verify", "activate"} \/ (Step(w) = "variants" /\ outcome = "refused")

Report(w, outcome) ==
    IF Left(writer[w].todo, outcome) # <<>> THEN "none"
    ELSE IF outcome = "ok" THEN "success"
    ELSE IF Partial(w, outcome) THEN "partial" ELSE "error"

\* Only an activation that answered lets createProduct claim visibility.
After(w, outcome) ==
    writer' = [writer EXCEPT ![w] =
        [@ EXCEPT !.todo = Left(writer[w].todo, outcome), !.report = Report(w, outcome),
                  !.visible = Step(w) = "activate" /\ outcome = "ok",
                  !.unheard = IF outcome = "lost" THEN Step(w) ELSE "none"]]

\* A mutation: done, refused with user errors, failed, or done without an answer
Mutate(w, x) ==
    \E outcome \in {"ok", "refused", "failed", "lost"} :
        /\ IF outcome = "ok" THEN UNCHANGED mishaps ELSE Mishap
        /\ IF outcome \in {"ok", "lost"} THEN Change(writer[w].p, x, {w}) ELSE UNCHANGED <<listing, sure>>
        /\ After(w, outcome)
        /\ UNCHANGED began

\* A call that only reads, or that is refused before anything is written
Check(w, outcome) ==
    /\ After(w, outcome)
    /\ UNCHANGED <<listing, began>>

Now(w) == listing[writer[w].p]

\* Mutant: Shopify is asked to make the product active at once.
ProductCreateActive(w) ==
    Step(w) = "create" /\ Mutate(w, [NoListing EXCEPT !.status = "ACTIVE"])

ProductCreate(w) == Step(w) = "create" /\ Mutate(w, [NoListing EXCEPT !.status = "DRAFT"])

\* Shopify refuses variants a customer could not choose between.
ProductVariantsBulkCreate(w) ==
    /\ Step(w) = "variants"
    /\ LET variants == writer[w].body.form.variants
       IN  IF IsInjective([i \in DOMAIN variants |-> variants[i].value])
           THEN Mutate(w, [Now(w) EXCEPT !.price = writer[w].body.price])
           ELSE Check(w, "refused") /\ UNCHANGED <<sure, mishaps>>

ProductCreateActivate(w) == Step(w) = "activate" /\ Mutate(w, [Now(w) EXCEPT !.status = "ACTIVE"])

\* publishProduct and unpublishProduct resolve their channels first: a channel
\* the app cannot see is an error, an unpublish leaves it out.
PublishProduct(w) ==
    /\ Step(w) = "publish"
    /\ \/ Mutate(w, [Now(w) EXCEPT !.channels = @ \cup writer[w].body.targets])
       \/ Mishap /\ Check(w, "failed") /\ UNCHANGED sure

UnpublishProduct(w) ==
    /\ Step(w) = "unpublish"
    /\ \/ Mutate(w, [Now(w) EXCEPT !.channels = @ \ writer[w].body.targets])
       \/ Mishap /\ Check(w, "failed") /\ UNCHANGED sure

\* verifyPublicationState over the read-back, which may leave out a channel the
\* product is not on; a target that is absent is a failure.
VerifyPublicationState(w) ==
    /\ Step(w) = "verify"
    /\ \E readable \in BOOLEAN, listed \in SUBSET Channels :
          LET targets == writer[w].body.targets
              confirmed == IF writer[w].body.kind = "unpublish"
                           THEN targets \subseteq listed \ Now(w).channels
                           ELSE targets \subseteq Now(w).channels
          IN  /\ Now(w).channels \subseteq listed
              /\ IF readable THEN UNCHANGED mishaps ELSE Mishap
              /\ Check(w, IF readable /\ confirmed THEN "ok" ELSE "failed")
    /\ UNCHANGED sure

\* Mutant: a status that changed since the page was loaded is no conflict.
ConflictsOfPrice(edit, x) == edit.expectedPrice \notin {Unset, x.price}

\* assertNotStale
Conflicts(edit, x) ==
    edit.expectedStatus \notin {"any", x.status} \/ edit.expectedPrice \notin {Unset, x.price}

AssertNotStale(w) ==
    /\ Step(w) = "check"
    /\ \/ /\ Check(w, IF Conflicts(writer[w].body.edit, Now(w)) THEN "refused" ELSE "ok")
          /\ sure' = sure \cup {w} /\ UNCHANGED mishaps
       \/ Mishap /\ Check(w, "failed") /\ UNCHANGED sure

EditProduct(w) ==
    LET edit == writer[w].body.edit
    IN  \/ Step(w) = "status" /\ Mutate(w, [Now(w) EXCEPT !.status = edit.status])
        \/ Step(w) = "addTags" /\ Mutate(w, [Now(w) EXCEPT !.tags = @ \cup edit.add])
        \/ Step(w) = "removeTags" /\ Mutate(w, [Now(w) EXCEPT !.tags = @ \ edit.remove])
        \/ Step(w) = "price" /\ Mutate(w, [Now(w) EXCEPT !.price = edit.price])

\* assessInventoryChange: a large change, or one of unknown size, needs a word.
AssessInventoryChange(body, known, current) ==
    body.confirm \/ (known /\ body.to - current \in -MaxInventoryDelta..MaxInventoryDelta)

\* A quantity that cannot be read is unknown: nothing is compared with it.
GetCurrentInventoryLevel(w) ==
    /\ Step(w) = "read"
    /\ \E known \in BOOLEAN :
          LET body == writer[w].body
              stale == known /\ body.expected \notin {Unset, Now(w).stock}
          IN  /\ IF known THEN UNCHANGED mishaps ELSE Mishap
              /\ sure' = IF known THEN sure \cup {w} ELSE sure \ {w}
              /\ Check(w, IF ~stale /\ AssessInventoryChange(body, known, Now(w).stock)
                          THEN "ok" ELSE "refused")

SetInventoryQuantity(w) == Step(w) = "stock" /\ Mutate(w, [Now(w) EXCEPT !.stock = writer[w].body.to])

\* A merchant, or automation, changes the product.
MerchantChanges ==
    \E p \in Made :
        /\ Mishap
        /\ \/ \E status \in {"ACTIVE", "DRAFT", "ARCHIVED"} : Change(p, [listing[p] EXCEPT !.status = status], {})
           \/ \E price \in 1..2 : Change(p, [listing[p] EXCEPT !.price = price], {})
           \/ \E channels \in SUBSET Channels : Change(p, [listing[p] EXCEPT !.channels = channels], {})
           \/ \E stock \in Stocks : Change(p, [listing[p] EXCEPT !.stock = stock], {})
        /\ UNCHANGED <<writer, began>>

WritesNext ==
    \/ \E w \in Writers :
          \/ AskToCreate(w) \/ AskToPublish(w) \/ AskToEdit(w) \/ AskForStock(w)
          \/ ProductCreate(w) \/ ProductVariantsBulkCreate(w) \/ ProductCreateActivate(w)
          \/ PublishProduct(w) \/ UnpublishProduct(w) \/ VerifyPublicationState(w)
          \/ AssertNotStale(w) \/ EditProduct(w)
          \/ GetCurrentInventoryLevel(w) \/ SetInventoryQuantity(w)
    \/ MerchantChanges

-----------------------------------------------------------------------------
(* Properties *)

\* What a request that reported success promised of the product
Applied(body, x) ==
    CASE body.kind = "create" -> x.price = body.price
      [] body.kind = "publish" -> body.targets \subseteq x.channels
      [] body.kind = "unpublish" -> body.targets \cap x.channels = {}
      [] body.kind = "stock" -> x.stock = body.to
      [] body.kind = "edit" ->
            /\ body.edit.status \in {"any", x.status} /\ body.edit.price \in {Unset, x.price}
            /\ body.edit.add \ body.edit.remove \subseteq x.tags
            /\ body.edit.remove \cap x.tags = {}

\* While nobody else wrote to its product: what a request reported as done is
\* what Shopify has, and a product reported visible can be bought.  A created
\* product is not for sale at another price than the one the operator entered,
\* and one reported as left in draft cannot be bought, except when the call that
\* activated it took effect and only its answer was lost
\* (products.create.service.ts:146 and 235-255, publications.service.ts:284).
ReportsAreTrue ==
    \A w \in sure :
        /\ writer[w].report = "success" => Applied(writer[w].body, Now(w))
        /\ writer[w].visible => VisibleToCustomers(Now(w))
        /\ writer[w].body.kind = "create" =>
              /\ VisibleToCustomers(Now(w)) => Now(w).price = writer[w].body.price
              /\ writer[w].report = "partial" /\ VisibleToCustomers(Now(w))
                    => writer[w].unheard = "activate"
              /\ writer[w].body.form.options # {} /\ mishaps = 0 => writer[w].report \in {"none", "success"}

\* The product is as the caller of the edit said it believed it to be, but for
\* the status that the edit itself may already have written.
Believed(w) ==
    LET edit == writer[w].body.edit
    IN  /\ edit.expectedPrice \in {Unset, Now(w).price}
        /\ \/ edit.expectedStatus \in {"any", Now(w).status}
           \/ Step(w) # "status" /\ edit.status = Now(w).status

\* An edit whose caller said which status and which price it believed the product
\* to have changes nothing of a product that has others; a stock level overwrites
\* no other than the one its caller expected, and a change nobody confirmed is no
\* larger than the limit: unless somebody wrote between the read and the write
\* (product.write.ts:35-58, inventory.write.ts:20).
WritesAsExpected ==
    \A w \in {w \in sure : writer'[w] # writer[w]} :
        LET p == writer[w].p
            body == writer[w].body
            delta == body.to - listing[p].stock
        IN  /\ Step(w) \in {"status", "addTags", "removeTags", "price"} /\ listing'[p] # listing[p]
               => Believed(w)
            /\ Step(w) = "stock" /\ listing'[p].stock # listing[p].stock
               => /\ body.expected \in {Unset, listing[p].stock}
                  /\ body.confirm \/ delta \in -MaxInventoryDelta..MaxInventoryDelta

ExpectationsHold == [][WritesAsExpected]_writeVars

\* Not guaranteed by the code (README, section 11).
\* A product a create reported as left in draft cannot be bought
\* (products.create.service.ts:255).
LeftAsDraft ==
    \A w \in sure : writer[w].report = "partial" => ~VisibleToCustomers(Now(w))
================================================================================
