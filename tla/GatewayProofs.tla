----------------------------- MODULE GatewayProofs -----------------------------
(***************************************************************************)
(* Theorems about Gateway for any number of calls, tokens and attempts and *)
(* any threshold of the breaker.                                           *)
(***************************************************************************)
EXTENDS Gateway, TLAPS

\* The three providers of shopify/token/index.ts, MAX_ATTEMPTS of
\* shopify.client.ts and FAILURE_THRESHOLD of shopify.breaker.ts.
GatewayBounds ==
    /\ Strategies \subseteq {"STATIC_TOKEN", "CLIENT_CREDENTIALS", "OAUTH_OFFLINE"}
    /\ MaxAttempts \in Nat \ {0}
    /\ Threshold \in Nat \ {0}

GatewaySpec == GatewayInit /\ [][GatewayNext]_gatewayVars

-----------------------------------------------------------------------------
Verdict == {"ok", "unauthorized", "degraded", "broken", "unavailable", "rejected"}

Call == [pc : {"idle", "token", "wait", "send", "answer", "done"}, token : Nat,
         verdict : Verdict, attempt : 1..MaxAttempts, reauthenticated : BOOLEAN,
         applied : Nat, unanswered : Nat, unsettled : BOOLEAN]

Flight == [pc : {"none", "asked", "answered"}, token : Nat,
           verdict : Verdict \ {"unauthorized"}]

TokensTyped ==
    /\ strategy \in Strategies
    /\ good \subseteq Nat /\ issued \in Nat /\ stored \in Nat
    /\ notices \in Nat /\ handshake \in Nat
    /\ cache \in [token : Nat, fresh : BOOLEAN]
    /\ flight \in Flight
    /\ refused \in BOOLEAN

CallsTyped == op \in [Operations -> Call]

BreakerTyped ==
    /\ breaker \in [failures : Nat, opened : {"no", "young", "cooled"},
                    recent : BOOLEAN]
    /\ failing \in Nat

TypeOK == TokensTyped /\ CallsTyped /\ BreakerTyped

-----------------------------------------------------------------------------
\* What the breaker counts is what failed, unless it is about to forget it,
\* and while it is open it forgets nothing.
BreakerCounts ==
    /\ breaker.recent => breaker.failures = failing
    /\ breaker.opened = "young" => breaker.recent /\ failing >= Threshold

\* The attempt has ended.
Ended(o) == o.pc \in {"answer", "done"}

\* An execution that no failure explains is the success the call ends with, and
\* an attempt executes at most once.
CallPaid(o) ==
    /\ o.applied = o.unanswered + (IF Ended(o) /\ o.verdict = "ok" THEN 1 ELSE 0)
    /\ o.applied <= o.attempt - (IF Ended(o) /\ o.verdict # "unauthorized" THEN 0 ELSE 1)

CallsPaid == \A k \in Operations : CallPaid(op[k])

FlightGood == flight.pc = "answered" /\ flight.verdict = "ok" => flight.token \in good

CacheGood == cache.token # 0 => cache.token \in good

\* A flight is begun only where the cache has nothing to serve, and only a
\* landing fills the cache.
OneSource == flight.pc # "none" => cache.token = 0 \/ ~cache.fresh

\* A token from the environment stays what it is.
StaticStays ==
    strategy = "STATIC_TOKEN" =>
        /\ good = {1} /\ notices = 0 /\ handshake = 0
        /\ cache = [token |-> 1, fresh |-> TRUE]
        /\ \A k \in Operations :
              /\ op[k].pc # "wait"
              /\ op[k].pc = "send" => op[k].token = 1
              /\ Ended(op[k]) => op[k].verdict # "unauthorized"

\* A call during which no token changed: once it holds a token, a flight brings
\* a good one; once it has authenticated again, it can only get a good one.
CallServed(o) ==
    ~o.unsettled =>
        /\ o.pc = "done" => o.verdict # "unauthorized"
        /\ o.pc \notin {"idle", "done"} =>
              /\ strategy = "OAUTH_OFFLINE" => stored \in good
              /\ o.pc = "send" \/ (o.pc = "answer" /\ o.verdict = "unauthorized") =>
                    FlightGood
              /\ o.reauthenticated =>
                    /\ FlightGood /\ CacheGood
                    /\ o.pc = "send" => o.token \in good
                    /\ o.pc = "answer" => o.verdict # "unauthorized"

CallsServed == \A k \in Operations : CallServed(op[k])

IInv ==
    /\ TypeOK
    /\ BreakerCounts
    /\ CallsPaid
    /\ OneSource /\ StaticStays /\ CallsServed

-----------------------------------------------------------------------------
\* The invariant of a state where only the call k was touched.
LEMMA OthersStay ==
    ASSUME CallsTyped, CallsPaid, NEW k \in Operations, NEW x \in Call,
           CallPaid(x), op' = [op EXCEPT ![k] = x]
    PROVE  /\ CallsTyped' /\ CallsPaid'
           /\ op'[k] = x
           /\ \A j \in Operations : j # k => op'[j] = op[j]
<1>1. /\ op'[k] = x
      /\ \A j \in Operations : j # k => op'[j] = op[j]
      /\ op' \in [Operations -> Call]
  BY DEF CallsTyped
<1>2. \A j \in Operations : CallPaid(op'[j])
  BY <1>1 DEF CallsPaid
<1> QED BY <1>1, <1>2 DEF CallsTyped, CallsPaid

\* The breaker after an outcome, whatever it is.
LEMMA OutcomeKeeps ==
    ASSUME GatewayBounds, BreakerTyped, BreakerCounts, NEW verdict \in Verdict,
           RecordShopifyOutcome(verdict)
    PROVE  BreakerTyped' /\ BreakerCounts'
<1>1. CASE verdict = "ok"
  <2>1. failing' = 0 /\ breaker' = [breaker EXCEPT !.failures = 0, !.opened = "no"]
    BY <1>1 DEF RecordShopifyOutcome, Recovered
  <2>2. /\ breaker' \in [failures : Nat, opened : {"no", "young", "cooled"},
                         recent : BOOLEAN]
        /\ breaker'.failures = 0 /\ breaker'.opened = "no"
    BY <2>1 DEF BreakerTyped
  <2> QED BY <2>1, <2>2 DEF BreakerTyped, BreakerCounts
<1>2. CASE verdict # "ok" /\ CountsForBreaker(verdict)
  <2> DEFINE n == IF breaker.recent THEN breaker.failures + 1 ELSE 1
  <2>1. n \in Nat /\ failing' = n
    BY <1>2 DEF BreakerTyped, BreakerCounts, RecordShopifyOutcome
  <2>2. breaker' = [failures |-> n, recent |-> TRUE,
                    opened |-> IF n >= Threshold /\ breaker.opened = "no" THEN "young"
                               ELSE breaker.opened]
    BY <1>2 DEF RecordShopifyOutcome, Failed
  <2>3. breaker.opened = "young" => n >= Threshold
    BY DEF BreakerTyped, BreakerCounts, GatewayBounds
  <2> HIDE DEF n
  <2> QED BY <2>1, <2>2, <2>3 DEF BreakerTyped, BreakerCounts
<1>3. CASE verdict # "ok" /\ ~CountsForBreaker(verdict)
  BY <1>3 DEF RecordShopifyOutcome, BreakerTyped, BreakerCounts, outcomes
<1> QED BY <1>1, <1>2, <1>3

THEOREM InitIInv == GatewayBounds /\ GatewayInit => IInv
<1> SUFFICES ASSUME GatewayBounds, GatewayInit PROVE IInv
  OBVIOUS
<1>1. Unused \in Call /\ Unused.pc = "idle" /\ CallPaid(Unused) /\ CallServed(Unused)
  BY DEF Unused, Call, Verdict, CallPaid, CallServed, Ended, GatewayBounds
<1>2. NoFlight \in Flight /\ NoFlight.pc = "none"
  BY DEF NoFlight, Flight, Verdict
<1>3. \E held \in {0, 1} : /\ cache = [token |-> held, fresh |-> TRUE]
                           /\ strategy = "STATIC_TOKEN" => held = 1
  BY DEF GatewayInit, GatewayBounds
<1>4. TypeOK
  <2>1. TokensTyped
    <3>1. cache \in [token : Nat, fresh : BOOLEAN]
      BY <1>3
    <3>2. /\ strategy \in Strategies /\ good = {1} /\ issued = 1 /\ stored \in {0, 1}
          /\ notices = 0 /\ handshake = 0 /\ flight = NoFlight /\ refused = FALSE
      BY DEF GatewayInit
    <3>3. flight \in Flight
      BY <1>2, <3>2
    <3>4. good \subseteq Nat /\ issued \in Nat /\ stored \in Nat
      BY <3>2
    <3>5. notices \in Nat /\ handshake \in Nat /\ refused \in BOOLEAN
      BY <3>2
    <3> QED BY <3>1, <3>2, <3>3, <3>4, <3>5 DEF TokensTyped
  <2>2. CallsTyped /\ BreakerTyped
    BY <1>1 DEF GatewayInit, CallsTyped, BreakerTyped
  <2> QED BY <2>1, <2>2 DEF TypeOK
<1>5. BreakerCounts /\ CallsPaid /\ OneSource /\ CallsServed
  BY <1>1, <1>2 DEF GatewayInit, BreakerCounts, CallsPaid, OneSource, CallsServed
<1>6. StaticStays
  BY <1>1, <1>3 DEF GatewayInit, StaticStays, Ended
<1> QED BY <1>4, <1>5, <1>6 DEF IInv

-----------------------------------------------------------------------------
(* Each action keeps the invariant.                                        *)

LEMMA StartKeeps ==
    ASSUME GatewayBounds, IInv, NEW k \in Operations, Start(k),
           UNCHANGED <<strategy, shop, provider>>
    PROVE  /\ TokensTyped' /\ CallsTyped' /\ CallsPaid'
           /\ OneSource' /\ StaticStays' /\ CallsServed'
<1> DEFINE x == [Unused EXCEPT !.pc = "token", !.unsettled = Astray]
<1>1. /\ x \in Call /\ CallPaid(x)
      /\ x.pc = "token" /\ x.reauthenticated = FALSE /\ x.unsettled = Astray
  <2>1. Unused \in Call /\ Astray \in BOOLEAN
    BY DEF Unused, Astray, Call, Verdict, GatewayBounds
  <2>2. x \in Call /\ x.pc = "token" /\ x.unsettled = Astray
    BY <2>1 DEF Call
  <2>3. /\ x.reauthenticated = FALSE /\ x.applied = 0 /\ x.unanswered = 0
        /\ x.attempt = 1
    BY DEF Unused
  <2> QED BY <2>2, <2>3 DEF CallPaid, Ended
<1>2. op' = [op EXCEPT ![k] = x]
  BY DEF Start, Move
<1> HIDE DEF x
<1>3. /\ CallsTyped' /\ CallsPaid'
      /\ op'[k] = x
      /\ \A j \in Operations : j # k => op'[j] = op[j]
  BY <1>1, <1>2, OthersStay DEF IInv, TypeOK
<1>4. TokensTyped' /\ OneSource'
  BY DEF IInv, TypeOK, TokensTyped, OneSource, shop, provider
<1>5. StaticStays'
  BY <1>1, <1>3 DEF IInv, StaticStays, Ended, shop, provider
<1>6. CallsServed'
  <2> SUFFICES ASSUME NEW j \in Operations PROVE CallServed(op[j])'
    BY DEF CallsServed
  <2>1. CASE j = k
    BY <2>1, <1>1, <1>3 DEF CallServed, Astray, shop, provider
  <2>2. CASE j # k
    BY <2>2, <1>3 DEF IInv, CallsServed, CallServed, FlightGood, CacheGood, shop, provider
  <2> QED BY <2>1, <2>2
<1> QED BY <1>3, <1>4, <1>5, <1>6

LEMMA BeginKeeps ==
    ASSUME GatewayBounds, IInv, NEW k \in Operations, Begin(k) PROVE IInv'
<1>1. BreakerTyped' /\ BreakerCounts'
  BY DEF IInv, TypeOK, BreakerTyped, BreakerCounts, Begin, outcomes
<1> QED BY <1>1, StartKeeps DEF Begin, IInv, TypeOK

LEMMA BeginBulkKeeps ==
    ASSUME GatewayBounds, IInv, NEW k \in Operations, BeginBulk(k) PROVE IInv'
<1>1. BreakerTyped' /\ BreakerCounts'
  BY DEF IInv, TypeOK, BreakerTyped, BreakerCounts, BeginBulk, ObserveBreaker
<1> QED BY <1>1, StartKeeps DEF BeginBulk, IInv, TypeOK

\* A step of one call that changes no token; it may ask for one.
LEMMA CallMoves ==
    ASSUME IInv, NEW k \in Operations, NEW x \in Call,
           CallPaid(x), op' = [op EXCEPT ![k] = x],
           UNCHANGED <<strategy, shop, cache, refused>>,
           \/ UNCHANGED flight
           \/ /\ flight' \in Flight /\ flight'.pc = "asked"
              /\ cache.token = 0 \/ ~cache.fresh,
           strategy = "STATIC_TOKEN" =>
               /\ x.pc # "wait"
               /\ x.pc = "send" => x.token = 1
               /\ Ended(x) => x.verdict # "unauthorized",
           CallServed(x)
    PROVE  /\ TokensTyped' /\ CallsTyped' /\ CallsPaid'
           /\ OneSource' /\ StaticStays' /\ CallsServed'
<1>1. /\ CallsTyped' /\ CallsPaid'
      /\ op'[k] = x
      /\ \A j \in Operations : j # k => op'[j] = op[j]
  BY OthersStay DEF IInv, TypeOK
<1>2. TokensTyped' /\ OneSource'
  BY DEF IInv, TypeOK, TokensTyped, OneSource, shop
<1>3. StaticStays'
  BY <1>1 DEF IInv, StaticStays, Ended, shop
<1>4. CallsServed'
  BY <1>1 DEF IInv, CallsServed, CallServed, FlightGood, CacheGood, shop
<1> QED BY <1>1, <1>2, <1>3, <1>4

LEMMA GetAccessTokenKeeps ==
    ASSUME GatewayBounds, IInv, NEW k \in Operations, GetAccessToken(k)
    PROVE  IInv'
<1>1. BreakerTyped' /\ BreakerCounts'
  BY DEF IInv, TypeOK, BreakerTyped, BreakerCounts, GetAccessToken, outcomes
<1>2. op[k] \in Call /\ op[k].pc = "token" /\ CallPaid(op[k]) /\ CallServed(op[k])
  BY DEF IInv, TypeOK, CallsTyped, CallsPaid, CallsServed, GetAccessToken
<1>3. cache \in [token : Nat, fresh : BOOLEAN] /\ flight \in Flight
  BY DEF IInv, TypeOK, TokensTyped
<1>4. CASE cache.token # 0 /\ cache.fresh
  <2> DEFINE x == [op[k] EXCEPT !.pc = "send", !.token = cache.token]
  <2>1. op' = [op EXCEPT ![k] = x] /\ flight' = flight
    BY <1>4 DEF GetAccessToken, Move
  <2>2. /\ x \in Call /\ x.pc = "send" /\ x.token = cache.token
        /\ x.unsettled = op[k].unsettled
        /\ x.reauthenticated = op[k].reauthenticated
        /\ x.applied = op[k].applied /\ x.unanswered = op[k].unanswered
        /\ x.attempt = op[k].attempt
    BY <1>2, <1>3 DEF Call
  <2> HIDE DEF x
  <2>3. CallPaid(x)
    BY <1>2, <2>2 DEF CallPaid, Ended
  <2>4. FlightGood
    BY <1>4 DEF IInv, OneSource, FlightGood
  <2>5. CallServed(x)
    BY <1>2, <1>4, <2>2, <2>4 DEF CallServed, CacheGood
  <2>6. strategy = "STATIC_TOKEN" => x.token = 1
    BY <2>2 DEF IInv, StaticStays
  <2> QED
    BY <1>1, <2>1, <2>2, <2>3, <2>5, <2>6, CallMoves
    DEF GetAccessToken, Ended, IInv, TypeOK
<1>5. CASE ~(cache.token # 0 /\ cache.fresh) /\ refused
  <2> DEFINE x == [op[k] EXCEPT !.pc = "answer", !.verdict = "rejected"]
  <2>1. op' = [op EXCEPT ![k] = x] /\ flight' = flight
    BY <1>5 DEF GetAccessToken, Move
  <2>2. /\ x \in Call /\ x.pc = "answer" /\ x.verdict = "rejected"
        /\ x.unsettled = op[k].unsettled
        /\ x.reauthenticated = op[k].reauthenticated
        /\ x.applied = op[k].applied /\ x.unanswered = op[k].unanswered
        /\ x.attempt = op[k].attempt
    BY <1>2 DEF Call, Verdict
  <2> HIDE DEF x
  <2>3. CallPaid(x)
    BY <1>2, <2>2 DEF CallPaid, Ended, Call
  <2>4. CallServed(x)
    BY <1>2, <2>2 DEF CallServed
  <2> QED
    BY <1>1, <2>1, <2>2, <2>3, <2>4, CallMoves
    DEF GetAccessToken, Ended, IInv, TypeOK
<1>6. CASE ~(cache.token # 0 /\ cache.fresh) /\ ~refused
  <2> DEFINE x == [op[k] EXCEPT !.pc = "wait"]
  <2>1. op' = [op EXCEPT ![k] = x]
    BY <1>6 DEF GetAccessToken, Move
  <2>2. \/ flight' = flight
        \/ flight' \in Flight /\ flight'.pc = "asked"
    BY <1>3, <1>6 DEF GetAccessToken, Flight, NoFlight, Verdict
  <2>3. /\ x \in Call /\ x.pc = "wait"
        /\ x.unsettled = op[k].unsettled
        /\ x.reauthenticated = op[k].reauthenticated
        /\ x.applied = op[k].applied /\ x.unanswered = op[k].unanswered
        /\ x.attempt = op[k].attempt
    BY <1>2 DEF Call
  <2> HIDE DEF x
  <2>4. CallPaid(x)
    BY <1>2, <2>3 DEF CallPaid, Ended
  <2>5. CallServed(x)
    BY <1>2, <2>3 DEF CallServed
  <2>6. strategy # "STATIC_TOKEN"
    BY <1>6 DEF IInv, StaticStays
  <2> QED
    BY <1>1, <1>6, <2>1, <2>2, <2>3, <2>4, <2>5, <2>6, CallMoves
    DEF GetAccessToken, Ended, IInv, TypeOK
<1> QED BY <1>4, <1>5, <1>6

LEMMA ExecuteKeeps ==
    ASSUME GatewayBounds, IInv, NEW k \in Operations, Execute(k)
    PROVE  IInv'
<1>1. BreakerTyped' /\ BreakerCounts'
  BY DEF IInv, TypeOK, BreakerTyped, BreakerCounts, Execute, outcomes
<1>2. op[k] \in Call /\ op[k].pc = "send" /\ CallPaid(op[k]) /\ CallServed(op[k])
  BY DEF IInv, TypeOK, CallsTyped, CallsPaid, CallsServed, Execute
<1>3. ASSUME NEW x \in Call, op' = [op EXCEPT ![k] = x],
             x.pc = "answer",
             x.unsettled = op[k].unsettled,
             x.reauthenticated = op[k].reauthenticated,
             x.attempt = op[k].attempt,
             x.applied \in {op[k].applied, op[k].applied + 1},
             x.applied = x.unanswered + (IF x.verdict = "ok" THEN 1 ELSE 0),
             x.verdict = "unauthorized" => x.applied = op[k].applied,
             x.verdict = "unauthorized" <=> op[k].token \notin good
      PROVE  IInv'
  <2>1. CallPaid(x)
    BY <1>2, <1>3 DEF CallPaid, Ended, Call
  <2>2. CallServed(x)
    BY <1>2, <1>3 DEF CallServed
  <2>3. strategy = "STATIC_TOKEN" => x.verdict # "unauthorized"
    BY <1>2, <1>3 DEF IInv, StaticStays
  <2> QED
    BY <1>1, <1>3, <2>1, <2>2, <2>3, CallMoves
    DEF Execute, Ended, IInv, TypeOK, provider
<1>4. CASE op[k].token \notin good
  <2> DEFINE x == [op[k] EXCEPT !.pc = "answer", !.verdict = "unauthorized"]
  <2>1. op' = [op EXCEPT ![k] = x]
    BY <1>4 DEF Execute, Move
  <2>2. /\ x \in Call /\ x.pc = "answer" /\ x.verdict = "unauthorized"
        /\ x.unsettled = op[k].unsettled
        /\ x.reauthenticated = op[k].reauthenticated
        /\ x.applied = op[k].applied /\ x.unanswered = op[k].unanswered
        /\ x.attempt = op[k].attempt
    BY <1>2 DEF Call, Verdict
  <2> HIDE DEF x
  <2>3. x.applied = x.unanswered + (IF x.verdict = "ok" THEN 1 ELSE 0)
    BY <1>2, <2>2 DEF CallPaid, Ended, Call
  <2> QED BY <1>3, <1>4, <2>1, <2>2, <2>3
<1>5. CASE op[k].token \in good /\ Move(k, [op[k] EXCEPT !.pc = "answer", !.verdict = "ok",
                                                         !.applied = @ + 1])
  <2> DEFINE x == [op[k] EXCEPT !.pc = "answer", !.verdict = "ok", !.applied = @ + 1]
  <2>1. op' = [op EXCEPT ![k] = x]
    BY <1>5 DEF Move
  <2>2. op[k].applied + 1 \in Nat
    BY <1>2 DEF Call
  <2>3. /\ x \in Call /\ x.pc = "answer" /\ x.verdict = "ok"
        /\ x.unsettled = op[k].unsettled
        /\ x.reauthenticated = op[k].reauthenticated
        /\ x.applied = op[k].applied + 1 /\ x.unanswered = op[k].unanswered
        /\ x.attempt = op[k].attempt
    BY <1>2, <2>2 DEF Call, Verdict
  <2> HIDE DEF x
  <2>4. x.applied = x.unanswered + (IF x.verdict = "ok" THEN 1 ELSE 0)
    BY <1>2, <2>3 DEF CallPaid, Ended, Call
  <2> QED BY <1>3, <1>5, <2>1, <2>3, <2>4
<1>6. ASSUME NEW verdict \in {"degraded", "broken", "rejected"}, NEW n \in 0..1,
             op[k].token \in good,
             Move(k, [op[k] EXCEPT !.pc = "answer", !.verdict = verdict,
                                   !.applied = @ + n, !.unanswered = @ + n])
      PROVE  IInv'
  <2> DEFINE x == [op[k] EXCEPT !.pc = "answer", !.verdict = verdict,
                                !.applied = @ + n, !.unanswered = @ + n]
  <2>1. op' = [op EXCEPT ![k] = x]
    BY <1>6 DEF Move
  <2>2. op[k].applied + n \in Nat /\ op[k].unanswered + n \in Nat
    BY <1>2 DEF Call
  <2>3. /\ x \in Call /\ x.pc = "answer" /\ x.verdict = verdict
        /\ x.unsettled = op[k].unsettled
        /\ x.reauthenticated = op[k].reauthenticated
        /\ x.applied = op[k].applied + n /\ x.unanswered = op[k].unanswered + n
        /\ x.attempt = op[k].attempt
    BY <1>2, <2>2 DEF Call, Verdict
  <2> HIDE DEF x
  <2>4. /\ x.applied = x.unanswered + (IF x.verdict = "ok" THEN 1 ELSE 0)
        /\ x.applied \in {op[k].applied, op[k].applied + 1}
    BY <1>2, <2>3 DEF CallPaid, Ended, Call
  <2> QED BY <1>3, <1>6, <2>1, <2>3, <2>4
<1> QED BY <1>4, <1>5, <1>6 DEF Execute

\* A call that authenticates again has found its provider with nothing to serve
\* but what the next flight brings.
LEMMA SettleKeeps ==
    ASSUME GatewayBounds, IInv, NEW k \in Operations, Settle(k)
    PROVE  IInv'
<1>1. op[k] \in Call /\ op[k].pc = "answer" /\ CallPaid(op[k]) /\ CallServed(op[k])
  BY DEF IInv, TypeOK, CallsTyped, CallsPaid, CallsServed, Settle
<1>2. cache \in [token : Nat, fresh : BOOLEAN] /\ flight \in Flight
  BY DEF IInv, TypeOK, TokensTyped
<1>3. CASE op[k].verdict = "unauthorized" /\ CanRefresh(op[k])
  <2> DEFINE x == [op[k] EXCEPT !.pc = "token", !.reauthenticated = TRUE]
             c == [cache EXCEPT !.token = 0]
  <2>1. /\ op' = [op EXCEPT ![k] = x] /\ cache' = c /\ refused' = FALSE
        /\ UNCHANGED <<strategy, shop, flight, outcomes>>
    BY <1>3 DEF Settle, Move
  <2>2. /\ x \in Call /\ x.pc = "token" /\ x.reauthenticated = TRUE
        /\ x.unsettled = op[k].unsettled
        /\ x.applied = op[k].applied /\ x.unanswered = op[k].unanswered
        /\ x.attempt = op[k].attempt
    BY <1>1 DEF Call
  <2>3. c \in [token : Nat, fresh : BOOLEAN] /\ c.token = 0
    BY <1>2
  <2>4. strategy # "STATIC_TOKEN"
    BY <1>3 DEF CanRefresh
  <2> HIDE DEF x, c
  <2>5. CallPaid(x)
    BY <1>1, <1>3, <2>2 DEF CallPaid, Ended, Call
  <2>6. /\ CallsTyped' /\ CallsPaid'
        /\ op'[k] = x
        /\ \A j \in Operations : j # k => op'[j] = op[j]
    BY <2>1, <2>2, <2>5, OthersStay DEF IInv, TypeOK
  <2>7. BreakerTyped' /\ BreakerCounts'
    BY <2>1 DEF IInv, TypeOK, BreakerTyped, BreakerCounts, outcomes
  <2>8. TokensTyped' /\ OneSource' /\ StaticStays'
    BY <2>1, <2>3, <2>4 DEF IInv, TypeOK, TokensTyped, OneSource, StaticStays, shop
  <2>9. CallsServed'
    <3> SUFFICES ASSUME NEW j \in Operations PROVE CallServed(op[j])'
      BY DEF CallsServed
    <3>1. CacheGood'
      BY <2>1, <2>3 DEF CacheGood
    <3>2. FlightGood => FlightGood'
      BY <2>1 DEF FlightGood, shop
    <3>3. CASE j = k
      BY <3>1, <3>2, <3>3, <1>1, <1>3, <2>1, <2>2, <2>6 DEF CallServed, shop
    <3>4. CASE j # k
      BY <3>1, <3>2, <3>4, <2>1, <2>6 DEF IInv, CallsServed, CallServed, shop
    <3> QED BY <3>3, <3>4
  <2> QED BY <2>6, <2>7, <2>8, <2>9 DEF IInv, TypeOK
<1>4. CASE ~(op[k].verdict = "unauthorized" /\ CanRefresh(op[k])) /\ TriesAgain(op[k])
  <2> DEFINE x == [op[k] EXCEPT !.pc = "token", !.attempt = @ + 1]
  <2>1. op' = [op EXCEPT ![k] = x] /\ UNCHANGED <<strategy, shop, provider, outcomes>>
    BY <1>4 DEF Settle, Move, provider
  <2>2. op[k].attempt + 1 \in 1..MaxAttempts
    BY <1>1, <1>4 DEF Call, TriesAgain, GatewayBounds
  <2>3. /\ x \in Call /\ x.pc = "token" /\ x.reauthenticated = op[k].reauthenticated
        /\ x.unsettled = op[k].unsettled
        /\ x.applied = op[k].applied /\ x.unanswered = op[k].unanswered
        /\ x.attempt = op[k].attempt + 1
    BY <1>1, <2>2 DEF Call
  <2> HIDE DEF x
  <2>4. op[k].verdict \in {"degraded", "unavailable"}
    BY <1>4 DEF TriesAgain, IsRetryable
  <2>5. CallPaid(x)
    BY <1>1, <2>3, <2>4 DEF CallPaid, Ended, Call
  <2>6. CallServed(x)
    BY <1>1, <2>3, <2>4 DEF CallServed
  <2>7. BreakerTyped' /\ BreakerCounts'
    BY <2>1 DEF IInv, TypeOK, BreakerTyped, BreakerCounts, outcomes
  <2> QED
    BY <2>1, <2>3, <2>5, <2>6, <2>7, CallMoves DEF Ended, IInv, TypeOK, provider
<1>5. CASE ~(op[k].verdict = "unauthorized" /\ CanRefresh(op[k])) /\ ~TriesAgain(op[k])
  <2> DEFINE x == [op[k] EXCEPT !.pc = "done"]
  <2>1. /\ op' = [op EXCEPT ![k] = x] /\ UNCHANGED <<strategy, shop, provider>>
        /\ RecordShopifyOutcome(op[k].verdict)
    BY <1>5 DEF Settle, Move, provider
  <2>2. /\ x \in Call /\ x.pc = "done" /\ x.verdict = op[k].verdict
        /\ x.unsettled = op[k].unsettled
        /\ x.applied = op[k].applied /\ x.unanswered = op[k].unanswered
        /\ x.attempt = op[k].attempt
    BY <1>1 DEF Call
  <2> HIDE DEF x
  <2>3. CallPaid(x)
    BY <1>1, <2>2 DEF CallPaid, Ended
  <2>4. strategy = "STATIC_TOKEN" => x.verdict # "unauthorized"
    BY <1>1, <2>2 DEF IInv, StaticStays, Ended
  <2>5. CallServed(x)
    BY <1>1, <1>5, <2>2, <2>4 DEF CallServed, CanRefresh, Call
  <2>6. BreakerTyped' /\ BreakerCounts'
    BY <1>1, <2>1, OutcomeKeeps DEF IInv, TypeOK, Call
  <2> QED
    BY <2>1, <2>2, <2>3, <2>4, <2>5, <2>6, CallMoves DEF Ended, IInv, TypeOK, provider
<1> QED BY <1>3, <1>4, <1>5

LEMMA AnswerFlightKeeps ==
    ASSUME GatewayBounds, IInv, AnswerFlight PROVE IInv'
<1>1. BreakerTyped' /\ BreakerCounts'
  BY DEF IInv, TypeOK, BreakerTyped, BreakerCounts, AnswerFlight, outcomes
<1>2. CallsTyped' /\ CallsPaid'
  BY DEF IInv, TypeOK, CallsTyped, CallsPaid, AnswerFlight
<1>3. /\ flight' \in Flight /\ flight'.pc = "answered"
      /\ good \subseteq good' /\ good' \subseteq Nat /\ issued' \in Nat
      /\ strategy = "CLIENT_CREDENTIALS" \/ stored \in good => FlightGood'
  <2>1. CASE /\ strategy = "CLIENT_CREDENTIALS"
             /\ issued' = issued + 1 /\ good' = good \cup {issued + 1}
             /\ flight' = [pc |-> "answered", token |-> issued + 1, verdict |-> "ok"]
    BY <2>1 DEF IInv, TypeOK, TokensTyped, Flight, Verdict, FlightGood
  <2>2. CASE /\ strategy = "OAUTH_OFFLINE"
             /\ flight' = [pc |-> "answered", token |-> stored, verdict |-> "ok"]
             /\ UNCHANGED <<good, issued>>
    BY <2>2 DEF IInv, TypeOK, TokensTyped, Flight, Verdict, FlightGood
  <2>3. ASSUME NEW verdict \in {"rejected", "degraded", "unavailable"},
               flight' = [pc |-> "answered", token |-> 0, verdict |-> verdict],
               UNCHANGED <<good, issued>>
        PROVE  /\ flight' \in Flight /\ flight'.pc = "answered"
               /\ good \subseteq good' /\ good' \subseteq Nat /\ issued' \in Nat
               /\ FlightGood'
    BY <2>3 DEF IInv, TypeOK, TokensTyped, Flight, Verdict, FlightGood
  <2> QED BY <2>1, <2>2, <2>3 DEF AnswerFlight
<1>4. strategy # "STATIC_TOKEN" /\ flight.pc = "asked"
  BY DEF IInv, StaticStays, OneSource, AnswerFlight
<1>5. TokensTyped' /\ OneSource' /\ StaticStays'
  BY <1>3, <1>4
  DEF IInv, TypeOK, TokensTyped, OneSource, StaticStays, AnswerFlight
<1>6. CallsServed'
  <2> SUFFICES ASSUME NEW j \in Operations PROVE CallServed(op[j])'
    BY DEF CallsServed
  <2>1. /\ op' = op /\ UNCHANGED <<strategy, stored, cache>>
        /\ CallServed(op[j])
    BY DEF IInv, CallsServed, AnswerFlight
  <2>2. CacheGood => CacheGood'
    BY <1>3, <2>1 DEF CacheGood
  <2>3. strategy \in {"CLIENT_CREDENTIALS", "OAUTH_OFFLINE"}
    BY <1>4 DEF IInv, TypeOK, TokensTyped, GatewayBounds
  <2> QED BY <1>3, <2>1, <2>2, <2>3 DEF CallServed
<1> QED BY <1>1, <1>2, <1>5, <1>6 DEF IInv, TypeOK

LEMMA LandFlightKeeps ==
    ASSUME GatewayBounds, IInv, LandFlight PROVE IInv'
<1>1. BreakerTyped' /\ BreakerCounts'
  BY DEF IInv, TypeOK, BreakerTyped, BreakerCounts, LandFlight, outcomes
<1>2. flight \in Flight /\ cache \in [token : Nat, fresh : BOOLEAN]
  BY DEF IInv, TypeOK, TokensTyped
<1>3. strategy # "STATIC_TOKEN"
  BY DEF IInv, StaticStays, OneSource, LandFlight
<1>4. ASSUME NEW k \in Operations
      PROVE  LET x == op'[k] IN
             /\ x \in Call
             /\ x.applied = op[k].applied /\ x.unanswered = op[k].unanswered
             /\ x.attempt = op[k].attempt
             /\ x.unsettled = op[k].unsettled
             /\ x.reauthenticated = op[k].reauthenticated
             /\ \/ op[k].pc # "wait" /\ x = op[k]
                \/ /\ op[k].pc = "wait" /\ flight.verdict = "ok"
                   /\ x.pc = "send" /\ x.token = flight.token
                \/ /\ op[k].pc = "wait" /\ flight.verdict # "ok"
                   /\ x.pc = "answer" /\ x.verdict = flight.verdict
  <2>1. op[k] \in Call /\ op'[k] = Landed(op[k])
    BY DEF IInv, TypeOK, CallsTyped, LandFlight
  <2>2. CASE op[k].pc # "wait"
    BY <2>1, <2>2 DEF Landed
  <2>3. CASE op[k].pc = "wait" /\ flight.verdict = "ok"
    <3>1. op'[k] = [op[k] EXCEPT !.pc = "send", !.token = flight.token]
      BY <2>1, <2>3 DEF Landed
    <3> QED BY <1>2, <2>1, <2>3, <3>1 DEF Call, Flight
  <2>4. CASE op[k].pc = "wait" /\ flight.verdict # "ok"
    <3>1. op'[k] = [op[k] EXCEPT !.pc = "answer", !.verdict = flight.verdict]
      BY <2>1, <2>4 DEF Landed
    <3> QED BY <1>2, <2>1, <2>4, <3>1 DEF Call, Flight
  <2> QED BY <2>2, <2>3, <2>4
<1>5. CallsTyped'
  BY <1>4 DEF LandFlight, CallsTyped
<1>6. ASSUME NEW k \in Operations PROVE CallPaid(op[k])'
  <2>1. op[k] \in Call /\ CallPaid(op[k])
    BY DEF IInv, TypeOK, CallsTyped, CallsPaid
  <2> QED BY <1>2, <1>4, <2>1 DEF CallPaid, Ended, Flight, Call
<1>7. flight' = NoFlight /\ FlightGood'
  BY DEF LandFlight, FlightGood, NoFlight
<1>8. cache' \in [token : Nat, fresh : BOOLEAN] /\ refused' \in BOOLEAN
  BY <1>2 DEF LandFlight, Flight
<1>9. TokensTyped' /\ OneSource' /\ StaticStays'
  <2>1. NoFlight \in Flight /\ NoFlight.pc = "none"
    BY DEF NoFlight, Flight, Verdict
  <2> QED BY <1>3, <1>7, <1>8, <2>1
    DEF IInv, TypeOK, TokensTyped, OneSource, StaticStays, LandFlight, shop
<1>10. ASSUME NEW k \in Operations PROVE CallServed(op[k])'
  <2>1. op[k] \in Call /\ CallServed(op[k])
    BY DEF IInv, TypeOK, CallsTyped, CallsServed
  <2>2. flight.pc = "answered" /\ UNCHANGED <<strategy, shop>>
    BY DEF LandFlight
  <2>3. FlightGood /\ CacheGood => CacheGood'
    BY <2>2 DEF LandFlight, FlightGood, CacheGood, shop
  <2>4. flight.verdict # "unauthorized"
    BY <1>2 DEF Flight
  <2> QED BY <1>4, <1>7, <2>1, <2>2, <2>3, <2>4 DEF CallServed, FlightGood, shop
<1> QED BY <1>1, <1>5, <1>6, <1>9, <1>10
  DEF IInv, TypeOK, CallsPaid, CallsServed

\* Where the shop's tokens change, every call in progress is unsettled.
LEMMA UnsettleKeeps ==
    ASSUME GatewayBounds, IInv, Unsettle, strategy # "STATIC_TOKEN",
           UNCHANGED <<strategy, provider, outcomes>>,
           good' \subseteq Nat, issued' \in Nat, stored' \in Nat,
           notices' \in Nat, handshake' \in Nat
    PROVE  IInv'
<1>1. BreakerTyped' /\ BreakerCounts'
  BY DEF IInv, TypeOK, BreakerTyped, BreakerCounts, outcomes
<1>2. TokensTyped' /\ OneSource' /\ StaticStays'
  BY DEF IInv, TypeOK, TokensTyped, OneSource, StaticStays, provider
<1>3. ASSUME NEW k \in Operations
      PROVE  /\ op'[k] \in Call /\ op'[k].unsettled = TRUE
             /\ op'[k].pc = op[k].pc /\ op'[k].verdict = op[k].verdict
             /\ op'[k].attempt = op[k].attempt
             /\ op'[k].applied = op[k].applied
             /\ op'[k].unanswered = op[k].unanswered
  <2>1. op[k] \in Call /\ op'[k] = [op[k] EXCEPT !.unsettled = TRUE]
    BY DEF IInv, TypeOK, CallsTyped, Unsettle
  <2> QED BY <2>1 DEF Call
<1>4. CallsTyped'
  BY <1>3 DEF Unsettle, CallsTyped
<1>5. CallsPaid'
  BY <1>3 DEF IInv, CallsPaid, CallPaid, Ended
<1>6. CallsServed'
  BY <1>3 DEF CallsServed, CallServed
<1> QED BY <1>1, <1>2, <1>4, <1>5, <1>6 DEF IInv, TypeOK

LEMMA InstallationKeeps ==
    ASSUME GatewayBounds, IInv,
           Uninstall \/ ExchangeCode \/ PersistOfflineToken \/ ClearOfflineToken
    PROVE  IInv'
<1>1. CASE Uninstall
  BY <1>1, UnsettleKeeps DEF IInv, TypeOK, TokensTyped, Uninstall
<1>2. CASE ExchangeCode
  BY <1>2, UnsettleKeeps DEF IInv, TypeOK, TokensTyped, ExchangeCode
<1>3. CASE PersistOfflineToken
  BY <1>3, UnsettleKeeps DEF IInv, TypeOK, TokensTyped, StaticStays, PersistOfflineToken
<1>4. CASE ClearOfflineToken
  BY <1>4, UnsettleKeeps DEF IInv, TypeOK, TokensTyped, StaticStays, ClearOfflineToken
<1> QED BY <1>1, <1>2, <1>3, <1>4

LEMMA TokenComesDueKeeps == ASSUME GatewayBounds, IInv, TokenComesDue PROVE IInv'
<1>1. /\ cache' \in [token : Nat, fresh : BOOLEAN]
      /\ cache'.token = cache.token /\ ~cache'.fresh
      /\ strategy # "STATIC_TOKEN"
      /\ UNCHANGED <<strategy, shop, flight, refused, op, outcomes>>
  BY DEF IInv, TypeOK, TokensTyped, TokenComesDue
<1>2. CallsServed'
  BY <1>1 DEF IInv, CallsServed, CallServed, FlightGood, CacheGood, shop
<1>3. TokensTyped' /\ OneSource' /\ StaticStays'
  BY <1>1 DEF IInv, TypeOK, TokensTyped, OneSource, StaticStays, shop
<1> QED BY <1>1, <1>2, <1>3
  DEF IInv, TypeOK, CallsTyped, CallsPaid, BreakerTyped, BreakerCounts, outcomes

LEMMA ClocksKeep ==
    ASSUME GatewayBounds, IInv, RefusalForgotten \/ BreakerCools \/ FailureDecays
    PROVE  IInv'
<1>1. /\ refused' \in BOOLEAN /\ UNCHANGED <<strategy, shop, cache, flight, op>>
  BY DEF IInv, TypeOK, TokensTyped, RefusalForgotten, BreakerCools, FailureDecays, provider
<1>2. /\ TokensTyped' /\ CallsTyped' /\ CallsPaid'
      /\ OneSource' /\ StaticStays' /\ CallsServed'
  BY <1>1 DEF IInv, TypeOK, TokensTyped, CallsTyped, CallsPaid, OneSource, StaticStays,
              CallsServed, CallServed, FlightGood, CacheGood, shop
<1>3. BreakerTyped' /\ BreakerCounts'
  BY DEF IInv, TypeOK, BreakerTyped, BreakerCounts,
         RefusalForgotten, BreakerCools, FailureDecays, outcomes
<1> QED BY <1>2, <1>3 DEF IInv, TypeOK

-----------------------------------------------------------------------------
\* The invariant is inductive.
THEOREM NextIInv ==
    GatewayBounds /\ IInv /\ [GatewayNext]_gatewayVars => IInv'
<1> SUFFICES ASSUME GatewayBounds, IInv, [GatewayNext]_gatewayVars PROVE IInv'
  OBVIOUS
<1>1. CASE UNCHANGED gatewayVars
  BY <1>1 DEF gatewayVars, shop, provider, outcomes, IInv, TypeOK, TokensTyped,
              CallsTyped, BreakerTyped, BreakerCounts, CallsPaid, OneSource,
              StaticStays, CallsServed, CallServed, FlightGood, CacheGood
<1>2. CASE GatewayNext
  BY <1>2, BeginKeeps, BeginBulkKeeps, GetAccessTokenKeeps, ExecuteKeeps, SettleKeeps,
     AnswerFlightKeeps, LandFlightKeeps, InstallationKeeps, TokenComesDueKeeps, ClocksKeep
  DEF GatewayNext
<1> QED BY <1>1, <1>2

\* The inductive invariant holds of every behaviour.
THEOREM AlwaysIInv == ASSUME GatewayBounds PROVE GatewaySpec => []IInv
BY InitIInv, NextIInv, PTL DEF GatewaySpec

\* What the inductive invariant says of one state.
LEMMA PausesFollow == IInv => PausedOnlyWhileFailing
BY DEF IInv, BreakerCounts, PausedOnlyWhileFailing, BreakerOpen

LEMMA RejectionsFollow == IInv => RejectedOnlyWhenUnsettled
BY DEF IInv, TypeOK, CallsTyped, Call, CallsServed, CallServed, RejectedOnlyWhenUnsettled

LEMMA RepeatsFollow == IInv => RepeatsArePaidFor
<1> SUFFICES ASSUME IInv, NEW k \in Operations
             PROVE  /\ op[k].applied <= op[k].unanswered + 1
                    /\ op[k].pc = "done" =>
                          (op[k].verdict = "ok" <=> op[k].applied > op[k].unanswered)
  BY DEF RepeatsArePaidFor
<1>1. op[k] \in Call /\ CallPaid(op[k])
  BY DEF IInv, TypeOK, CallsTyped, CallsPaid
<1> QED BY <1>1 DEF Call, CallPaid, Ended

\* What MAX_ATTEMPTS promises of one call, whatever Shopify answers.
ExecutionBound == \A k \in Operations : op[k].applied <= MaxAttempts

LEMMA BoundFollows == GatewayBounds /\ IInv => ExecutionBound
<1> SUFFICES ASSUME IInv, GatewayBounds, NEW k \in Operations
             PROVE  op[k].applied <= MaxAttempts
  BY DEF ExecutionBound
<1>1. op[k] \in Call /\ CallPaid(op[k])
  BY DEF IInv, TypeOK, CallsTyped, CallsPaid
<1> QED BY <1>1 DEF Call, CallPaid, Ended, GatewayBounds

\* The state of the client, its provider and its breaker is what the code
\* declares, and no call tries more often than MAX_ATTEMPTS (shopify.client.ts).
THEOREM TypeCorrect == ASSUME GatewayBounds PROVE GatewaySpec => []TypeOK
<1>1. IInv => TypeOK
  BY DEF IInv
<1> QED BY <1>1, AlwaysIInv, PTL

\* Bulk writes are paused only while FAILURE_THRESHOLD operations failed close
\* together with no success since (shopify.breaker.ts, recordShopifyOutcome).
THEOREM PausedForCause ==
    ASSUME GatewayBounds PROVE GatewaySpec => []PausedOnlyWhileFailing
BY PausesFollow, AlwaysIInv, PTL

\* A call fails for its token only where tokens changed while it ran
\* (shopify.client.ts, the re-authentication after a 401, and the single flight
\* of the token providers).
THEOREM RenewedTokensServe ==
    ASSUME GatewayBounds PROVE GatewaySpec => []RejectedOnlyWhenUnsettled
BY RejectionsFollow, AlwaysIInv, PTL

\* Every repetition of an operation has a lost or unusable answer behind it
\* (shopify.client.ts, executeWithRetries).
THEOREM RepetitionsArePaidFor ==
    ASSUME GatewayBounds PROVE GatewaySpec => []RepeatsArePaidFor
BY RepeatsFollow, AlwaysIInv, PTL

\* Shopify carries the operation of one call out MAX_ATTEMPTS times at most: the
\* attempt after a 401 is free because nothing was carried out before it
\* (shopify.client.ts, executeWithRetries).
THEOREM ExecutionsAreBounded ==
    ASSUME GatewayBounds PROVE GatewaySpec => []ExecutionBound
BY BoundFollows, AlwaysIInv, PTL

=============================================================================
