-------------------------------- MODULE MCShop --------------------------------
(***************************************************************************)
(* The services between the shop and the outside: the Shopify client with  *)
(* its tokens and breaker, the sessions of operators, the registration of  *)
(* webhooks and their queue, product and stock writes, and the storefront. *)
(* They share no state with each other: a behaviour is one of one of them, *)
(* and the variables v1 to v13 are those of the service that runs.  A      *)
(* component with theorems is instantiated together with them, for         *)
(* ShopProofs.                                                             *)
(***************************************************************************)
EXTENDS Integers, TLC

CONSTANTS
    Slots,      \* requests, tabs, runs and calls that may be under way at once
    Listings,   \* products
    Stocks,     \* quantities an operator sets
    Limit,      \* the largest change of a stock that needs no confirmation
    HalfLife,   \* half of the life of a session, in ticks
    Few, Many,  \* bounds on what happens
    None

\* No event and no product is called what a free slot holds.
ASSUME NoneAssumption == None \notin {"event", "uninstall"} /\ -1 \notin Listings

\* An answer takes a tick at most, and half of a session's life is longer than that.
ASSUME BoundsAssumption ==
    /\ Few \in Nat /\ Many \in Nat \ {0}
    /\ HalfLife \in Nat /\ HalfLife >= 3
    /\ Limit \in Nat /\ Stocks \subseteq Nat

\* Requests are interchangeable.
Symmetry == Permutations(Slots)

Forms ==
    {[options |-> {}, variants |-> <<[sku |-> "none", value |-> ""]>>],
     [options |-> {}, variants |-> <<[sku |-> "a", value |-> ""], [sku |-> "none", value |-> ""]>>],
     [options |-> {"S", "M"}, variants |-> <<[sku |-> "a", value |-> "S"],
                                             [sku |-> "none", value |-> "M"]>>],
     [options |-> {"S", "M"}, variants |-> <<[sku |-> "a", value |-> "S"],
                                             [sku |-> "none", value |-> "S"]>>]}

Keep == [status |-> "any", add |-> {}, remove |-> {}, price |-> -1,
         expectedStatus |-> "any", expectedPrice |-> -1]

ProductEdits ==
    {[Keep EXCEPT !.status = "ACTIVE", !.add = {"t"}, !.expectedStatus = "DRAFT"],
     [Keep EXCEPT !.add = {"t"}, !.price = 2, !.expectedPrice = 1],
     [Keep EXCEPT !.status = "ARCHIVED", !.add = {"t"}, !.remove = {"t"}]}

Row(v, named, coded, a) ==
    [v |-> v, id |-> IF named THEN v ELSE "unset", sku |-> IF coded THEN v ELSE "unset",
     option |-> v, availability |-> a]

\* What the supplier was found to have: all of it, one size, nothing for sure,
\* a product without sizes, none of it.
Verifications ==
    {[availability |-> "AVAILABLE", rows |-> rows] :
        rows \in {{Row("v1", TRUE, TRUE, "AVAILABLE"), Row("v2", FALSE, TRUE, "AVAILABLE")},
                 {Row("v1", TRUE, FALSE, "AVAILABLE"), Row("v2", FALSE, FALSE, "UNAVAILABLE")},
                 {Row("v1", FALSE, FALSE, "UNKNOWN"), Row("v2", FALSE, TRUE, "AVAILABLE")},
                 {}}}
        \cup {[availability |-> "UNAVAILABLE", rows |-> {}]}

Sizes == {"v1", "v2", "default"}

Shelf(channel, price, moq, sale, stock) ==
    [status |-> "ACTIVE", channel |-> channel, price |-> price, moq |-> moq,
     sale |-> [v \in Sizes |-> IF v = "v1" THEN sale ELSE "yes"],
     stock |-> [v \in Sizes |-> IF v = "v1" THEN stock ELSE -1]]

Displays ==
    {Shelf("PUBLISHED", 10, {}, "yes", 3), Shelf("PUBLISHED", 12, {2, 9}, "yes", 1),
     Shelf("PUBLISHED", 10, {}, "no", 0), Shelf("UNPUBLISHED", 10, {}, "unknown", -1)}

VARIABLES service, v1, v2, v3, v4, v5, v6, v7, v8, v9, v10, v11, v12, v13

pool == <<v1, v2, v3, v4, v5, v6, v7, v8, v9, v10, v11, v12, v13>>

Client == INSTANCE GatewayProofs WITH
    Operations <- Slots,
    Strategies <- {"STATIC_TOKEN", "CLIENT_CREDENTIALS", "OAUTH_OFFLINE"},
    MaxAttempts <- Many, Threshold <- Many, MaxTokens <- Many,
    MaxBegins <- Few + Many, strategy <- v1, good <- v2, issued <- v3, stored <- v4,
    notices <- v5, handshake <- v6, cache <- v7, flight <- v8, refused <- v9,
    op <- v10, breaker <- v11, failing <- v12, begins <- v13

Sessions == INSTANCE OperatorSessions WITH
    Tabs <- Slots, SessionTtl <- 2 * HalfLife, ProtectReads <- FALSE,
    MaxClock <- 2 * HalfLife + 1, clock <- v1, jar <- v2, tab <- v3,
    lastSeen <- v4

Registration == INSTANCE WebhookRegistration WITH
    Runs <- Slots, PlannedTopics <- <<"create", "update">>,
    OtherTopic <- "other", MaxRefusals <- Few, MaxLostAnswers <- Few,
    MaxStrangers <- Few, MaxSubscriptions <- Few + Many, subs <- v1,
    issued <- v2, run <- v3, refusals <- v4, lost <- v5, strangers <- v6

Deliveries == INSTANCE WebhookQueueProofs WITH
    Events <- {"event", "uninstall"}, Inline <- {"uninstall"},
    Receivers <- {"receiver"}, MaxAttempts <- Many,
    FaultKinds <- {"crash", "database", "overrun"}, MaxFaults <- Many,
    MaxRetries <- 0, row <- v1, holding <- v2, acked <- v3, call <- v4,
    done <- v5, faults <- v6, retries <- v7

Writes == INSTANCE ProductWrites WITH
    Writers <- Slots, CreateForms <- Forms, Edits <- ProductEdits,
    MaxInventoryDelta <- Limit, MaxRequests <- Many, MaxMishaps <- Few,
    listing <- v1, writer <- v2, sure <- v3, began <- v4, mishaps <- v5

Store == INSTANCE Storefront WITH
    Variants <- Sizes, Sheets <- Verifications, Shelves <- Displays,
    Quantities <- {1, 2}, MaxLineQuantity <- 3, Tick <- 72, MaxTime <- 216,
    MaxChanges <- Few + Many, now <- v1, shelf <- v2, candidate <- v3,
    twin <- v4, customer <- v5, changes <- v6

\* A service with fewer variables leaves the others alone.
after4 == <<v5, v6, v7, v8, v9, v10, v11, v12, v13>>
after5 == <<v6, v7, v8, v9, v10, v11, v12, v13>>
after6 == <<v7, v8, v9, v10, v11, v12, v13>>
after7 == <<v8, v9, v10, v11, v12, v13>>

Unused7 == v8 = "unused" /\ v9 = "unused" /\ v10 = "unused" /\ v11 = "unused" /\ v12 = "unused" /\ v13 = "unused"
Unused6 == v7 = "unused" /\ Unused7
Unused5 == v6 = "unused" /\ Unused6
Unused4 == v5 = "unused" /\ Unused5

Init ==
    \/ service = "client" /\ Client!GatewayInit
    \/ service = "sessions" /\ Sessions!SessionsInit /\ Unused4
    \/ service = "registration" /\ Registration!RegistrationInit /\ Unused6
    \/ service = "deliveries" /\ Deliveries!Init /\ Unused7
    \/ service = "writes" /\ Writes!WritesInit /\ Unused5
    \/ service = "storefront" /\ Store!StorefrontInit /\ Unused6

Next ==
    /\ UNCHANGED service
    /\ \/ service = "client" /\ Client!GatewayNext
       \/ service = "sessions" /\ Sessions!SessionsNext /\ UNCHANGED after4
       \/ service = "registration" /\ Registration!RegistrationNext /\ UNCHANGED after6
       \/ service = "deliveries" /\ Deliveries!Next /\ UNCHANGED after7
       \/ service = "writes" /\ Writes!WritesNext /\ UNCHANGED after5
       \/ service = "storefront" /\ Store!StorefrontNext /\ UNCHANGED after6

Spec == Init /\ [][Next]_<<service, pool>>

-----------------------------------------------------------------------------
\* Bulk writes are paused only while Shopify keeps failing: every success
\* (shopify.breaker.ts, recordShopifySuccess) resumes them.
PausedOnlyWhileFailing == service = "client" => Client!PausedOnlyWhileFailing

\* No call fails for a token that another call has renewed or is just loading, and
\* an operation is carried out again only where Shopify gave no usable answer
\* (shopify.client.ts, the retry loop and the token providers).
CallsEndRightly ==
    service = "client" =>
        /\ Client!RejectedOnlyWhenUnsettled
        /\ Client!RepeatsArePaidFor

\* An active operator stays signed in, however the answers of his tabs overtake
\* each other (operator.session.ts, the sliding renewal).
ActiveStaysSignedIn == service = "sessions" => Sessions!ActiveStaysSignedIn

\* A topic a registration run reports as registered is delivered here, also when
\* runs overlap and calls are refused or lost (webhook.registration.ts).
RegistrationDelivers == service = "registration" => Registration!RegistrationDelivers

\* An acknowledged delivery is stored or was handled on the spot, and two workers
\* hold it, or do its work again, only after a fault (webhook.queue.ts).
DeliveriesAreSafe ==
    service = "deliveries" =>
        /\ Deliveries!AcknowledgedIsSafe
        /\ Deliveries!ClaimsExclude
        /\ Deliveries!RepetitionBudget

\* What a request for a product, a publication or a stock level reports is what
\* Shopify has, while nobody else wrote to the product; only a create whose
\* activation lost its answer may report a draft where a product is for sale
\* (products.create.service.ts, publications.service.ts).
ReportsAreTrue == service = "writes" => Writes!ReportsAreTrue

\* A write overwrites only the status, the price and the stock its caller expected
\* (product.write.ts, inventory.write.ts).
ExpectationsHold == [][service = "writes" => Writes!WritesAsExpected]_pool

\* What a customer buys is the variant chosen, of a product the supplier was recently
\* seen to have, in that very variant unless the check named none; and the customer
\* gets what the cart says (sellability.ts, variant.mapping.ts, checkout.snapshot.ts).
PurchasesHold ==
    service = "storefront" =>
        /\ Store!SoldIsSourced
        /\ Store!CartsHold
=============================================================================
