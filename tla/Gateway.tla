-------------------------------- MODULE Gateway --------------------------------
(***************************************************************************)
(* The way to the Shopify Admin API: shopifyGraphql with its retries       *)
(* (shopify.client.ts), the token providers with their cache and their     *)
(* single flight (shopify/token), the circuit breaker (shopify.breaker.ts) *)
(* and, beside them, the installation of the app (auth/oauth.service.ts).  *)
(*                                                                         *)
(* Tokens are numbered as Shopify issues them, 0 is no token.  Delays are  *)
(* left out: a call that backs off is a call between two attempts.  Times  *)
(* are what the code compares: a cached token is fresh or due, a failure   *)
(* is recent or decayed, an open breaker is young or has cooled down.      *)
(***************************************************************************)
EXTENDS Integers

CONSTANTS
    Operations,     \* slots for calls of shopifyGraphql
    Strategies,     \* the token providers to consider
    MaxAttempts,    \* MAX_ATTEMPTS
    Threshold,      \* FAILURE_THRESHOLD
    MaxTokens,      \* bound on tokens Shopify issues
    MaxBegins       \* bound on calls

VARIABLES
    strategy,   \* the provider that was configured
    good,       \* Shopify: tokens it accepts
    issued,     \* Shopify: the last token issued
    stored,     \* Mongo: the offline token of the shop
    notices,    \* uninstall notifications not yet processed
    handshake,  \* the callback's token between exchange and store
    cache,      \* the provider's token
    flight,     \* its token request in progress
    refused,    \* the terminal failure it remembers
    op,         \* the calls
    breaker,    \* the breaker's data
    failing,    \* infrastructure failures since the last success, close together
    begins      \* calls begun

shop == <<good, issued, stored, notices, handshake>>
provider == <<cache, flight, refused>>
outcomes == <<breaker, failing>>
gatewayVars == <<strategy, shop, provider, op, outcomes, begins>>

-----------------------------------------------------------------------------
\* How an attempt ends, as mapHttpFailure, mapGraphqlErrors, mapNetworkFailure
\* and mapTokenFailure classify it.
\* "ok", "unauthorized", "degraded" (throttled, 5xx, timeout, network),
\* "broken" (any other status, an answer that is no JSON), "unavailable" (Mongo
\* away, 5xx for a token), "rejected" (a scope, a GraphQL error, the configuration).

IsRetryable(verdict) == verdict \in {"degraded", "unavailable"}

\* BREAKER_CODES: infrastructure, never a permission or a rejected mutation.
CountsForBreaker(verdict) == verdict \in {"degraded", "broken"}

NoFlight == [pc |-> "none", token |-> 0, verdict |-> "ok"]

\* applied counts executions by Shopify, unanswered those without a usable
\* answer; unsettled says that tokens changed while the call ran.
Unused == [pc |-> "idle", token |-> 0, verdict |-> "ok", attempt |-> 1,
           reauthenticated |-> FALSE, applied |-> 0, unanswered |-> 0,
           unsettled |-> FALSE]

GatewayInit ==
    /\ strategy \in Strategies
    /\ good = {1} /\ issued = 1
    /\ stored = IF strategy = "OAUTH_OFFLINE" THEN 1 ELSE 0
    /\ notices = 0 /\ handshake = 0
    /\ \E held \in CASE strategy = "STATIC_TOKEN" -> {1}
                    [] strategy = "CLIENT_CREDENTIALS" -> {0, 1}  \* one was exchanged before
                    [] strategy = "OAUTH_OFFLINE" -> {0} :
          cache = [token |-> held, fresh |-> TRUE]
    /\ flight = NoFlight
    /\ refused = FALSE
    /\ op = [k \in Operations |-> Unused]
    /\ breaker = [failures |-> 0, opened |-> "no", recent |-> FALSE]
    /\ failing = 0
    /\ begins = 0

Move(k, x) == op' = [op EXCEPT ![k] = x]

\* What is stored is not what Shopify accepts.
Astray == strategy = "OAUTH_OFFLINE" /\ stored \notin good

-----------------------------------------------------------------------------
(* The breaker                                                             *)

BreakerOpen == breaker.opened = "young"

\* Mutant: a success closes the breaker and leaves the count of failures.
RecoveredHalf(b) == [b EXCEPT !.opened = "no"]

\* A success forgets the failures before it and closes the breaker.
Recovered(b) == [b EXCEPT !.failures = 0, !.opened = "no"]

\* A quiet period forgets the earlier failures; an open breaker, and one that
\* cooled down unseen, is not opened anew.
Failed(b) ==
    LET n == IF b.recent THEN b.failures + 1 ELSE 1 IN
    [failures |-> n, recent |-> TRUE,
     opened |-> IF n >= Threshold /\ b.opened = "no" THEN "young" ELSE b.opened]

\* recordShopifyOutcome, on the final outcome of a call.
RecordShopifyOutcome(verdict) ==
    IF verdict = "ok"
    THEN breaker' = Recovered(breaker) /\ failing' = 0
    ELSE IF CountsForBreaker(verdict)
    THEN breaker' = Failed(breaker)
         /\ failing' = IF breaker.recent THEN failing + 1 ELSE 1
    ELSE UNCHANGED outcomes

\* getBreakerState lets the next bulk write through once it has cooled down.
ObserveBreaker ==
    /\ breaker' = IF breaker.opened = "cooled" THEN [breaker EXCEPT !.opened = "no"]
                  ELSE breaker
    /\ UNCHANGED failing

-----------------------------------------------------------------------------
(* A call                                                                  *)

Start(k) ==
    /\ op[k].pc \in {"idle", "done"}
    /\ begins < MaxBegins /\ begins' = begins + 1
    /\ Move(k, [Unused EXCEPT !.pc = "token", !.unsettled = Astray])

\* A read, or one deliberate write: the breaker is not asked.
Begin(k) == Start(k) /\ UNCHANGED <<strategy, shop, provider, outcomes>>

\* assertShopifyHealthyForBulkWrites before a bulk run.
BeginBulk(k) ==
    /\ ~BreakerOpen
    /\ Start(k)
    /\ ObserveBreaker
    /\ UNCHANGED <<strategy, shop, provider>>

\* getAccessToken: the cache, the remembered failure, or the one flight that
\* everybody shares.
GetAccessToken(k) ==
    /\ op[k].pc = "token"
    /\ IF cache.token # 0 /\ cache.fresh
       THEN /\ Move(k, [op[k] EXCEPT !.pc = "send", !.token = cache.token])
            /\ UNCHANGED flight
       ELSE IF refused
       THEN /\ Move(k, [op[k] EXCEPT !.pc = "answer", !.verdict = "rejected"])
            /\ UNCHANGED flight
       ELSE /\ Move(k, [op[k] EXCEPT !.pc = "wait"])
            /\ flight' = IF flight.pc = "none" THEN [NoFlight EXCEPT !.pc = "asked"]
                         ELSE flight
    /\ UNCHANGED <<strategy, shop, cache, refused, outcomes, begins>>

\* The far end of the flight: Shopify issues a token where the app is
\* installed, or Mongo answers with the stored one.
AnswerFlight ==
    /\ flight.pc = "asked"
    /\ \/ /\ strategy = "CLIENT_CREDENTIALS" /\ good # {} /\ issued < MaxTokens
          /\ issued' = issued + 1 /\ good' = good \cup {issued + 1}
          /\ flight' = [pc |-> "answered", token |-> issued + 1, verdict |-> "ok"]
       \/ /\ strategy = "OAUTH_OFFLINE" /\ stored # 0
          /\ flight' = [pc |-> "answered", token |-> stored, verdict |-> "ok"]
          /\ UNCHANGED <<good, issued>>
       \/ /\ IF strategy = "CLIENT_CREDENTIALS" THEN good = {} ELSE stored = 0
          /\ flight' = [pc |-> "answered", token |-> 0, verdict |-> "rejected"]
          /\ UNCHANGED <<good, issued>>
       \/ /\ \E verdict \in {"degraded", "unavailable"} :
                flight' = [pc |-> "answered", token |-> 0, verdict |-> verdict]
          /\ UNCHANGED <<good, issued>>
    /\ UNCHANGED <<strategy, stored, notices, handshake, cache, refused, op,
                   outcomes, begins>>

Landed(o) ==
    IF o.pc # "wait" THEN o
    ELSE IF flight.verdict = "ok" THEN [o EXCEPT !.pc = "send", !.token = flight.token]
    ELSE [o EXCEPT !.pc = "answer", !.verdict = flight.verdict]

\* The flight lands: its token is cached, a terminal failure is remembered
\* for a while, and everybody who waits goes on with it.
LandFlight ==
    /\ flight.pc = "answered"
    /\ flight' = NoFlight
    /\ cache' = IF flight.verdict = "ok" THEN [token |-> flight.token, fresh |-> TRUE]
                ELSE cache
    /\ refused' = (strategy = "CLIENT_CREDENTIALS" /\ flight.verdict = "rejected")
    /\ op' = [k \in Operations |-> Landed(op[k])]
    /\ UNCHANGED <<strategy, shop, outcomes, begins>>

\* Shopify receives the request: it carries it out and answers, or the answer
\* is lost or unusable, or it throttles or refuses it, or does not know the
\* token.
Execute(k) ==
    /\ op[k].pc = "send"
    /\ IF op[k].token \notin good
       THEN Move(k, [op[k] EXCEPT !.pc = "answer", !.verdict = "unauthorized"])
       ELSE \/ Move(k, [op[k] EXCEPT !.pc = "answer", !.verdict = "ok",
                                     !.applied = @ + 1])
            \/ \E verdict \in {"degraded", "broken", "rejected"}, n \in 0..1 :
                  Move(k, [op[k] EXCEPT !.pc = "answer", !.verdict = verdict,
                                        !.applied = @ + n, !.unanswered = @ + n])
    /\ UNCHANGED <<strategy, shop, provider, outcomes, begins>>

\* Mutant: a revoked token is kept for everybody else.
CanRefreshNever(o) == FALSE

\* One free attempt to authenticate again, with a provider that can.
CanRefresh(o) == strategy # "STATIC_TOKEN" /\ ~o.reauthenticated

TriesAgain(o) == IsRetryable(o.verdict) /\ o.attempt < MaxAttempts

\* The attempt is over: done, authenticated again, retried, or given up.
\* Only the final outcome reaches the breaker.
Settle(k) ==
    LET o == op[k] IN
    /\ o.pc = "answer"
    /\ IF o.verdict = "unauthorized" /\ CanRefresh(o)
       THEN /\ Move(k, [o EXCEPT !.pc = "token", !.reauthenticated = TRUE])
            /\ cache' = [cache EXCEPT !.token = 0]
            /\ refused' = FALSE
            /\ UNCHANGED outcomes
       ELSE /\ UNCHANGED <<cache, refused>>
            /\ IF TriesAgain(o)
               THEN Move(k, [o EXCEPT !.pc = "token", !.attempt = @ + 1])
                    /\ UNCHANGED outcomes
               ELSE Move(k, [o EXCEPT !.pc = "done"])
                    /\ RecordShopifyOutcome(o.verdict)
    /\ UNCHANGED <<strategy, shop, flight, begins>>

-----------------------------------------------------------------------------
(* The installation and its end                                            *)

\* Every call in progress sees that tokens change.
Unsettle == op' = [k \in Operations |-> [op[k] EXCEPT !.unsettled = TRUE]]

\* The merchant uninstalls the app: Shopify revokes its tokens and says so.
Uninstall ==
    /\ strategy # "STATIC_TOKEN"
    /\ good # {} /\ issued < MaxTokens
    /\ good' = {} /\ notices' = notices + 1
    /\ Unsettle
    /\ UNCHANGED <<strategy, issued, stored, handshake, provider, outcomes, begins>>

\* exchangeCodeForToken, in the callback of an installation.
ExchangeCode ==
    /\ strategy # "STATIC_TOKEN"
    /\ good = {} /\ issued < MaxTokens
    /\ issued' = issued + 1 /\ good' = {issued + 1}
    /\ handshake' = issued + 1
    /\ Unsettle
    /\ UNCHANGED <<strategy, stored, notices, provider, outcomes, begins>>

\* persistOfflineToken.  The provider's cache is not told.
PersistOfflineToken ==
    /\ handshake # 0
    /\ stored' = handshake /\ handshake' = 0
    /\ Unsettle
    /\ UNCHANGED <<strategy, good, issued, notices, provider, outcomes, begins>>

\* clearOfflineToken, whenever the notification is processed: it clears what
\* is stored by then, and without a database it quietly does nothing.
ClearOfflineToken ==
    /\ notices > 0
    /\ notices' = notices - 1 /\ stored' \in {0, stored}
    /\ Unsettle
    /\ UNCHANGED <<strategy, good, issued, handshake, provider, outcomes, begins>>

-----------------------------------------------------------------------------
(* Clocks                                                                  *)

\* isTokenUsable: the safety window before a token's expiry begins.
TokenComesDue ==
    /\ strategy = "CLIENT_CREDENTIALS" /\ cache.fresh /\ cache.token # 0
    /\ issued < MaxTokens
    /\ cache' = [cache EXCEPT !.fresh = FALSE]
    /\ UNCHANGED <<strategy, shop, flight, refused, op, outcomes, begins>>

RefusalForgotten ==
    /\ refused /\ refused' = FALSE
    /\ UNCHANGED <<strategy, shop, cache, flight, op, outcomes, begins>>

BreakerCools ==
    /\ breaker.opened = "young"
    /\ breaker' = [breaker EXCEPT !.opened = "cooled"]
    /\ UNCHANGED <<strategy, shop, provider, op, failing, begins>>

\* The decay is longer than the cooldown.
FailureDecays ==
    /\ breaker.recent /\ breaker.opened # "young"
    /\ breaker' = [breaker EXCEPT !.recent = FALSE]
    /\ UNCHANGED <<strategy, shop, provider, op, failing, begins>>

-----------------------------------------------------------------------------
GatewayNext ==
    \/ \E k \in Operations :
          Begin(k) \/ BeginBulk(k) \/ GetAccessToken(k) \/ Execute(k) \/ Settle(k)
    \/ AnswerFlight \/ LandFlight
    \/ Uninstall \/ ExchangeCode \/ PersistOfflineToken \/ ClearOfflineToken
    \/ TokenComesDue \/ RefusalForgotten \/ BreakerCools \/ FailureDecays

-----------------------------------------------------------------------------
\* A call fails for its token only where tokens were revoked, issued or
\* cleared while it ran, or the token Mongo holds was already revoked: a token
\* that another call has renewed, or that is just being loaded, never makes it
\* fail.  A token from the environment cannot be renewed.
RejectedOnlyWhenUnsettled ==
    \A k \in Operations :
        op[k].pc = "done" /\ op[k].verdict = "unauthorized" => op[k].unsettled

\* Shopify carries a call's operation out again only where it gave no usable answer,
\* and a call that succeeded or was refused was carried out accordingly.
RepeatsArePaidFor ==
    \A k \in Operations :
        LET o == op[k] IN
        /\ o.applied <= o.unanswered + 1
        /\ o.pc = "done" => (o.verdict = "ok" <=> o.applied > o.unanswered)

\* Bulk writes are paused only while Shopify really fails, and a success of
\* any call resumes them: an open breaker has seen its number of failures
\* close together with no success between or since, whichever calls they were of.
PausedOnlyWhileFailing ==
    BreakerOpen => failing >= Threshold
=============================================================================
