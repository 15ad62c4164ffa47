------------------------------ MODULE DeodapImport ------------------------------
(***************************************************************************)
(* Importing supplier products as Shopify drafts, and keeping their costs  *)
(* (suppliers/deodap/deodap.service.ts): the claim in the import ledger,   *)
(* the SKU search, the create, the costs and the ledger row of a product,  *)
(* and the cost sync from a price list.                                    *)
(*                                                                         *)
(* A task is one request at work; every await of the code ends a step.  A  *)
(* product stands for its one variant.                                     *)
(***************************************************************************)
EXTENDS Integers, FiniteSets

CONSTANTS
    Refs,           \* supplier references
    SkuLess,        \* those whose products carry no SKU
    Importers,      \* slots for import requests and for sync requests
    Costs,          \* cost levels
    MaxProducts,    \* bound on the products a reference gets in Shopify
    MaxRequests,    \* bound on requests
    MaxMishaps      \* bound on failed writes, crashes, expiries and operator edits

VARIABLES
    ledger,     \* supplier_imports, one row for each reference
    shop,       \* the products of each reference in Shopify
    stored,     \* the manual cost of each product
    importer,   \* the requests
    lagged,     \* references searched for while a product could not be found
    outlived,   \* references whose claim expired under a live request
    requests, mishaps

importVars == <<ledger, shop, stored, importer, lagged, outlived, requests, mishaps>>

-----------------------------------------------------------------------------
Absent == [status |-> "absent", expired |-> FALSE, product |-> 0, cost |-> 0]

Settled == {"CREATED", "PARTIAL"}

NoCost == [cost |-> 0, override |-> FALSE]

\* A product in Shopify: found by the search once it is indexed
Products == 1..MaxProducts

Resting == [pc |-> "idle", todo |-> {}, ref |-> {}, product |-> 0, cost |-> 0,
            override |-> FALSE, complete |-> TRUE]

DeodapInit ==
    /\ ledger = [r \in Refs |-> Absent]
    /\ shop = [r \in Refs |-> [made |-> 0, indexed |-> 0]]
    /\ stored = [r \in Refs |-> [i \in Products |-> NoCost]]
    /\ importer = [t \in Importers |-> Resting]
    /\ lagged = {} /\ outlived = {}
    /\ requests = 0 /\ mishaps = 0

Becomes(t, x) == importer' = [importer EXCEPT ![t] = x]

Steps(t, pc) == Becomes(t, [importer[t] EXCEPT !.pc = pc])

\* The item at work
Is(t, pc, r) == importer[t].pc = pc /\ importer[t].ref = {r}

Mishap == mishaps < MaxMishaps /\ mishaps' = mishaps + 1

Requested == requests < MaxRequests /\ requests' = requests + 1

\* The next item of the batch
Proceed(t) == Becomes(t, [Resting EXCEPT !.pc = "item", !.todo = importer[t].todo])

\* A STOP_CODES failure: the rest of the batch is not attempted.
Stop(t) == Becomes(t, Resting)

-----------------------------------------------------------------------------
(* importDeodapProducts: the batch has been validated, a reference is in it *)
(* at most once.                                                           *)

ImportDeodapProducts(t) ==
    /\ importer[t].pc = "idle" /\ Requested
    /\ \E batch \in SUBSET Refs \ {{}} :
          Becomes(t, [Resting EXCEPT !.pc = "item", !.todo = batch])
    /\ UNCHANGED <<ledger, shop, stored, lagged, outlived, mishaps>>

FinishBatch(t) ==
    /\ importer[t].pc = "item" /\ importer[t].todo = {}
    /\ Becomes(t, Resting)
    /\ UNCHANGED <<ledger, shop, stored, lagged, outlived, requests, mishaps>>

Claimed == [Absent EXCEPT !.status = "CLAIMED"]

\* claimImport: the unique index makes the insert the claim.
InsertClaim(t) ==
    /\ importer[t].pc = "item"
    /\ \E r \in importer[t].todo, c \in Costs :
          LET at(pc) == [Resting EXCEPT !.pc = pc, !.todo = importer[t].todo \ {r},
                                        !.ref = {r}, !.cost = c]
          IN  IF ledger[r].status = "absent"
              THEN ledger' = [ledger EXCEPT ![r] = Claimed] /\ Becomes(t, at("search"))
              ELSE UNCHANGED ledger /\ Becomes(t, at("take over"))
    /\ UNCHANGED <<shop, stored, lagged, outlived, requests, mishaps>>

\* Mutant: a claim is taken over whether or not its lease ran out.
ClaimableNow(r) == ledger[r].status \in {"FAILED", "CLAIMED"}

Claimable(r) ==
    \/ ledger[r].status = "FAILED"
    \/ ledger[r].status = "CLAIMED" /\ ledger[r].expired

\* Only the claim is renewed: product and costs of the row stay.
TakeOver(t) ==
    /\ \E r \in Refs :
          /\ Is(t, "take over", r)
          /\ IF Claimable(r)
             THEN /\ ledger' = [ledger EXCEPT ![r].status = "CLAIMED", ![r].expired = FALSE]
                  /\ Steps(t, "search")
             ELSE UNCHANGED ledger /\ Proceed(t)
    /\ UNCHANGED <<shop, stored, lagged, outlived, requests, mishaps>>

FindProductWithSku(t) ==
    /\ \E r \in Refs :
          /\ Is(t, "search", r)
          /\ Steps(t, IF shop[r].indexed > 0 THEN "unclaim" ELSE "create")
          /\ lagged' = IF shop[r].made > 0 /\ shop[r].indexed = 0 THEN lagged \cup {r} ELSE lagged
    /\ UNCHANGED <<ledger, shop, stored, outlived, requests, mishaps>>

SearchFails(t) ==
    /\ importer[t].pc = "search" /\ Mishap /\ Steps(t, "fail")
    /\ UNCHANGED <<ledger, shop, stored, lagged, outlived, requests>>

\* The SKU is in Shopify already: the claim is given back.
ReleaseClaim(t) ==
    /\ \E r \in Refs :
          /\ Is(t, "unclaim", r)
          /\ ledger' = IF ledger[r].status = "CLAIMED" THEN [ledger EXCEPT ![r] = Absent] ELSE ledger
    /\ Proceed(t)
    /\ UNCHANGED <<shop, stored, lagged, outlived, requests, mishaps>>

\* createProduct, which may report that only a part was done
CreateProduct(t) ==
    /\ \E r \in Refs, complete \in BOOLEAN :
          /\ Is(t, "create", r) /\ shop[r].made < MaxProducts
          /\ shop' = [shop EXCEPT ![r].made = @ + 1]
          /\ Becomes(t, [importer[t] EXCEPT !.pc = "cost", !.product = shop[r].made + 1,
                                            !.complete = complete])
    /\ UNCHANGED <<ledger, stored, lagged, outlived, requests, mishaps>>

\* It throws: refused, or carried out with the answer lost or the call that
\* adds the variants failed.
CreateFails(t) ==
    /\ \E r \in Refs :
          /\ Is(t, "create", r) /\ Mishap
          /\ \/ UNCHANGED shop
             \/ shop[r].made < MaxProducts /\ shop' = [shop EXCEPT ![r].made = @ + 1]
    /\ Steps(t, "fail")
    /\ UNCHANGED <<ledger, stored, lagged, outlived, requests>>

\* Mutant: the row is marked whatever it has become.
MarkedFailedAlways(row) == [row EXCEPT !.status = "FAILED", !.expired = FALSE]

MarkedFailed(row) ==
    IF row.status = "CLAIMED" THEN [row EXCEPT !.status = "FAILED", !.expired = FALSE] ELSE row

\* markImportFailed; when the write fails too, the claim waits for its lease.
MarkImportFailed(t) ==
    /\ \E r \in Refs :
          /\ Is(t, "fail", r)
          /\ \/ ledger' = [ledger EXCEPT ![r] = MarkedFailed(@)] /\ UNCHANGED mishaps
             \/ Mishap /\ UNCHANGED ledger
    /\ Proceed(t) \/ Stop(t)
    /\ UNCHANGED <<shop, stored, lagged, outlived, requests>>

\* upsertManualCost for the created variant; a failure is only a warning.
RecordCost(t) ==
    /\ \E r \in Refs :
          /\ Is(t, "cost", r)
          /\ \/ /\ stored' = [stored EXCEPT ![r][importer[t].product] =
                                  [cost |-> importer[t].cost, override |-> TRUE]]
                /\ Steps(t, "settle") /\ UNCHANGED mishaps
             \/ /\ Mishap /\ UNCHANGED stored
                /\ Becomes(t, [importer[t] EXCEPT !.pc = "settle", !.complete = FALSE])
    /\ UNCHANGED <<ledger, shop, lagged, outlived, requests>>

\* The row is written whoever holds it now, when there is one.
SettleImport(t) ==
    /\ \E r \in Refs :
          /\ Is(t, "settle", r)
          /\ \/ /\ ledger' = IF ledger[r].status = "absent" THEN ledger
                    ELSE [ledger EXCEPT ![r] =
                            [status |-> IF importer[t].complete THEN "CREATED" ELSE "PARTIAL",
                             expired |-> FALSE, product |-> importer[t].product,
                             cost |-> importer[t].cost]]
                /\ UNCHANGED mishaps
             \/ Mishap /\ UNCHANGED ledger
    /\ Proceed(t)
    /\ UNCHANGED <<shop, stored, lagged, outlived, requests>>

-----------------------------------------------------------------------------
(* applyDeodapSync *)

\* The owners of the variants are read once, before the first update.
ApplyDeodapSync(t) ==
    /\ importer[t].pc = "idle" /\ Requested
    /\ \E r \in Refs, c \in Costs :
          /\ ledger[r].status \in Settled
          /\ Becomes(t, [Resting EXCEPT !.pc = "previous", !.ref = {r}, !.cost = c,
                                        !.product = ledger[r].product])
    /\ UNCHANGED <<ledger, shop, stored, lagged, outlived, mishaps>>

FindManualCost(t) ==
    /\ \E r \in Refs :
          /\ Is(t, "previous", r)
          /\ LET previous == stored[r][importer[t].product]
             IN  Becomes(t, [importer[t] EXCEPT !.pc = "upsert",
                                !.override = previous = NoCost \/ previous.override])
    /\ UNCHANGED <<ledger, shop, stored, lagged, outlived, requests, mishaps>>

UpsertManualCost(t) ==
    /\ \E r \in Refs :
          /\ Is(t, "upsert", r)
          /\ \/ /\ stored' = [stored EXCEPT ![r][importer[t].product] =
                                  [cost |-> importer[t].cost, override |-> importer[t].override]]
                /\ Steps(t, "ledger cost") /\ UNCHANGED mishaps
             \/ Mishap /\ Becomes(t, Resting) /\ UNCHANGED stored
    /\ UNCHANGED <<ledger, shop, lagged, outlived, requests>>

\* The row whose variants hold this one
UpdateLedgerCost(t) ==
    /\ \E r \in Refs :
          /\ Is(t, "ledger cost", r)
          /\ \/ /\ ledger' = IF ledger[r].product = importer[t].product
                             THEN [ledger EXCEPT ![r].cost = importer[t].cost] ELSE ledger
                /\ UNCHANGED mishaps
             \/ Mishap /\ UNCHANGED ledger
    /\ Becomes(t, Resting)
    /\ UNCHANGED <<shop, stored, lagged, outlived, requests>>

-----------------------------------------------------------------------------
(* The operator, Shopify's index, the lease and the process *)

\* The product page: the cost is removed or its override switched
EditCost ==
    /\ Mishap
    /\ \E r \in Refs, i \in Products :
          /\ stored[r][i] # NoCost
          /\ \/ stored' = [stored EXCEPT ![r][i] = NoCost]
             \/ stored' = [stored EXCEPT ![r][i].override = ~@]
    /\ UNCHANGED <<ledger, shop, importer, lagged, outlived, requests>>

IndexCatchesUp ==
    /\ \E r \in Refs \ SkuLess :
          /\ shop[r].indexed < shop[r].made
          /\ shop' = [shop EXCEPT ![r].indexed = shop[r].made]
    /\ UNCHANGED <<ledger, stored, importer, lagged, outlived, requests, mishaps>>

Working(r) == {t \in Importers : importer[t].ref = {r} /\
                  importer[t].pc \in {"search", "unclaim", "create", "fail", "cost", "settle"}}

LeaseRunsOut ==
    /\ Mishap
    /\ \E r \in Refs :
          /\ ledger[r].status = "CLAIMED" /\ ~ledger[r].expired
          /\ ledger' = [ledger EXCEPT ![r].expired = TRUE]
          /\ outlived' = IF Working(r) # {} THEN outlived \cup {r} ELSE outlived
    /\ UNCHANGED <<shop, stored, importer, lagged, requests>>

RequestDies(t) ==
    /\ importer[t].pc # "idle" /\ Mishap
    /\ Becomes(t, Resting)
    /\ UNCHANGED <<ledger, shop, stored, lagged, outlived, requests>>

DeodapNext ==
    \/ \E t \in Importers :
          \/ ImportDeodapProducts(t) \/ FinishBatch(t)
          \/ InsertClaim(t) \/ TakeOver(t)
          \/ FindProductWithSku(t) \/ SearchFails(t) \/ ReleaseClaim(t)
          \/ CreateProduct(t) \/ CreateFails(t) \/ MarkImportFailed(t)
          \/ RecordCost(t) \/ SettleImport(t)
          \/ ApplyDeodapSync(t) \/ FindManualCost(t) \/ UpsertManualCost(t)
          \/ UpdateLedgerCost(t)
          \/ RequestDies(t)
    \/ EditCost \/ IndexCatchesUp \/ LeaseRunsOut

-----------------------------------------------------------------------------
(* Properties *)

\* Requests that overlap, fail, die or are repeated make one product of a
\* reference, except where the SKU search could not see a product that was
\* there or a claim ran out under a request still at work
\* (deodap.service.ts:537, :543, :662).
OneProductPerReference ==
    \A r \in Refs : shop[r].made > 1 => r \in lagged \cup outlived

\* A reference recorded as imported is never offered to another import again, not
\* even by a request that lost its claim and ends later than the one that took it
\* over (deodap.service.ts:619, :652).  Such a request may settle the row once more
\* and then names its own product.
KeepsImported ==
    \A r \in Refs : ledger[r].status \in Settled => ledger'[r].status \in Settled

ImportedForGood == [][KeepsImported]_importVars
=============================================================================
