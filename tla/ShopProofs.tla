------------------------------ MODULE ShopProofs ------------------------------
(***************************************************************************)
(* Theorems about the services of MCShop as they run there, from those of  *)
(* the components: what the run finds of the Shopify client and of the     *)
(* webhook queue is proved of them.                                        *)
(***************************************************************************)
EXTENDS MCShop, Sequences, FiniteSetTheorems, WellFoundedInduction, TLAPS

\* The service that runs is in a state its component's invariant describes.
IInv ==
    /\ service = "client" => Client!IInv
    /\ service = "deliveries" => Deliveries!IInv /\ Deliveries!AcknowledgedIsSafe

-----------------------------------------------------------------------------
(* What the components assume of their constants.                          *)

LEMMA ClientBounds == Client!GatewayBounds
BY BoundsAssumption DEF Client!GatewayBounds

LEMMA OneReceiver == Deliveries!IsFiniteSet({"receiver"})
<1> DEFINE one == <<"receiver">>
<1>1. one \in Seq({"receiver"}) /\ 1 \in 1..Len(one) /\ one[1] = "receiver"
  OBVIOUS
<1> HIDE DEF one
<1>2. \E seq \in Seq({"receiver"}) :
         \A s \in {"receiver"} : \E n \in 1..Len(seq) : seq[n] = s
  BY <1>1
<1> QED BY <1>2 DEF Deliveries!IsFiniteSet

\* The named assumptions of WebhookQueue, of the constants it has here.
LEMMA DeliveryBounds ==
    /\ {"uninstall"} \subseteq {"event", "uninstall"} /\ None \notin {"event", "uninstall"}
    /\ "poller" \notin {"receiver"} /\ Deliveries!IsFiniteSet({"receiver"})
    /\ Many \in Nat \ {0}
    /\ {"crash", "database", "overrun"} \subseteq {"crash", "database", "overrun", "outage"}
    /\ Many \in Nat
    /\ 0 \in Nat
BY OneReceiver, NoneAssumption, BoundsAssumption

-----------------------------------------------------------------------------
LEMMA InitIInv == Init => IInv
<1>1. Client!GatewayInit => Client!IInv
  BY ClientBounds, Client!InitIInv
<1>2. Deliveries!Init => Deliveries!IInv
  BY DeliveryBounds, Deliveries!InitIInv
<1>3. Deliveries!Init => Deliveries!AcknowledgedIsSafe
  BY DEF Deliveries!Init, Deliveries!AcknowledgedIsSafe
<1> QED BY <1>1, <1>2, <1>3 DEF Init, IInv

LEMMA ClientSteps == Client!IInv /\ [Client!GatewayNext]_(Client!gatewayVars) => Client!IInv'
BY ClientBounds, Client!NextIInv

LEMMA DeliverySteps ==
    Deliveries!IInv /\ [Deliveries!Next]_(Deliveries!vars) => Deliveries!IInv'
BY DeliveryBounds, Deliveries!NextIInv

LEMMA AcknowledgedSteps ==
    Deliveries!IInv /\ Deliveries!AcknowledgedIsSafe /\ [Deliveries!Next]_(Deliveries!vars)
        => Deliveries!AcknowledgedIsSafe'
<1>1. "outage" \notin {"crash", "database", "overrun"}
  OBVIOUS
<1> QED BY <1>1, DeliveryBounds, Deliveries!AcknowledgedKeeps

LEMMA NextIInv == IInv /\ [Next]_<<service, pool>> => IInv'
<1> SUFFICES ASSUME IInv, [Next]_<<service, pool>> PROVE IInv'
  OBVIOUS
<1>1. service' = service
  BY DEF Next
<1>2. CASE service = "client"
  <2>1. [Client!GatewayNext]_(Client!gatewayVars)
    BY <1>2 DEF Next, pool, Client!gatewayVars, Client!shop, Client!provider, Client!outcomes
  <2> QED BY <1>1, <1>2, <2>1, ClientSteps DEF IInv
<1>3. CASE service = "deliveries"
  <2>1. [Deliveries!Next]_(Deliveries!vars)
    BY <1>3 DEF Next, pool, Deliveries!vars
  <2> QED BY <1>1, <1>3, <2>1, DeliverySteps, AcknowledgedSteps DEF IInv
<1>4. CASE service \notin {"client", "deliveries"}
  BY <1>1, <1>4 DEF IInv
<1> QED BY <1>2, <1>3, <1>4

\* The invariant of the components in every state of the run.
THEOREM AlwaysIInv == Spec => []IInv
BY InitIInv, NextIInv, PTL DEF Spec

-----------------------------------------------------------------------------
\* Bulk writes are paused only while Shopify keeps failing
\* (shopify.breaker.ts, recordShopifyOutcome).
THEOREM PausedForCause == Spec => []PausedOnlyWhileFailing
<1>1. Client!IInv => Client!PausedOnlyWhileFailing
  BY ClientBounds, Client!PausesFollow
<1>2. IInv => PausedOnlyWhileFailing
  BY <1>1 DEF IInv, PausedOnlyWhileFailing
<1> QED BY <1>2, AlwaysIInv, PTL

\* No call fails for a token that another call has renewed or is loading, and
\* every repetition has an answer that was lost behind it (shopify.client.ts,
\* executeWithRetries, and the token providers).
THEOREM CallsAreServed == Spec => []CallsEndRightly
<1>1. Client!IInv => Client!RejectedOnlyWhenUnsettled
  BY ClientBounds, Client!RejectionsFollow
<1>2. Client!IInv => Client!RepeatsArePaidFor
  BY ClientBounds, Client!RepeatsFollow
<1>3. IInv => CallsEndRightly
  BY <1>1, <1>2 DEF IInv, CallsEndRightly
<1> QED BY <1>3, AlwaysIInv, PTL

\* An acknowledged delivery is safe, a claim excludes other workers, and only
\* faults repeat its work (webhook.queue.ts).
THEOREM QueueIsSafe == Spec => []DeliveriesAreSafe
<1>1. Deliveries!IInv => Deliveries!ClaimsExclude
  BY DeliveryBounds, Deliveries!ClaimsFollow
<1>2. Deliveries!IInv => Deliveries!RepetitionBudget
  BY DeliveryBounds, Deliveries!BudgetFollows
<1>3. IInv => DeliveriesAreSafe
  BY <1>1, <1>2 DEF IInv, DeliveriesAreSafe
<1> QED BY <1>3, AlwaysIInv, PTL

-----------------------------------------------------------------------------
(* The sessions of operators: v1 is the clock, v2 the jar, v3 the tabs and *)
(* v4 when the operator last did something.                                *)

\* Every session was signed by this server.
Signed(s) ==
    s # Sessions!NoSession =>
        s.issuedAt \in 1..v1 /\ s.expiresAt = s.issuedAt + 2 * HalfLife

\* A tab is answered within a tick, and a session it brings is as young.
TabOK(x) ==
    /\ x.stage \in {"closed", "sent", "answered"}
    /\ x.stage # "closed" => x.at \in Nat /\ x.at <= v1 /\ v1 <= x.at + 1
    /\ Signed(x.cookies.session) /\ Signed(x.set.session)
    /\ x.set.session # Sessions!NoSession =>
          /\ x.stage = "answered" /\ x.answer # "cleared"
          /\ x.at <= x.set.session.issuedAt

\* A request carries what is in the jar or older, or was sent before the jar
\* fell back to a session issued at most a tick before; and one of an operator
\* who is active has more than a tick to go.
RequestOK(x) ==
    x.stage = "sent" /\ x.cookies.session # Sessions!NoSession =>
        /\ v2.session # Sessions!NoSession =>
              \/ x.cookies.session.issuedAt <= v2.session.issuedAt
              \/ x.at <= v2.session.issuedAt + 1
        /\ v4 # 0 => x.at <= x.cookies.session.issuedAt + 2 * HalfLife - 2

\* A session in its second half has its successor under way, soon enough.
Renewing(x) ==
    x.set.session # Sessions!NoSession /\ x.at <= v2.session.issuedAt + 2 * HalfLife - 3

JarOK ==
    /\ Signed(v2.session)
    /\ v2.session # Sessions!NoSession =>
          /\ v1 < v2.session.expiresAt
          /\ v4 # 0 =>
                /\ v1 <= v2.session.issuedAt + 2 * HalfLife - 2
                /\ v4 >= v2.session.issuedAt + HalfLife => \E p \in Slots : Renewing(v3[p])

SessionInv ==
    /\ v1 \in Nat \ {0} /\ v4 \in 0..v1
    /\ v3 = [t \in Slots |-> v3[t]]
    /\ \A t \in Slots : TabOK(v3[t]) /\ RequestOK(v3[t])
    /\ JarOK

LEMMA InitSessionInv == Sessions!SessionsInit => SessionInv
BY BoundsAssumption DEF Sessions!SessionsInit, SessionInv, TabOK, RequestOK, JarOK, Signed,
   Sessions!Closed, Sessions!NoCookies, Sessions!NoSession, Sessions!Never

LEMMA SessionsFollow == SessionInv => Sessions!ActiveStaysSignedIn
<1> SUFFICES ASSUME SessionInv, NEW t \in Slots, v3[t].stage = "sent",
                    v3[t].cookies.session # Sessions!NoSession, v4 # 0
             PROVE  v1 < v3[t].cookies.session.expiresAt
  BY DEF Sessions!ActiveStaysSignedIn, Sessions!VerifySessionToken, Sessions!Lively,
         Sessions!Never
<1>1. /\ TabOK(v3[t]) /\ RequestOK(v3[t])
      /\ v1 \in Nat
  BY DEF SessionInv
<1> QED BY <1>1, BoundsAssumption DEF TabOK, RequestOK, Signed

-----------------------------------------------------------------------------
\* One tab changes and neither the clock nor the jar: a session it brought stays
\* or was none.
LEMMA TabMoves ==
    ASSUME SessionInv, NEW t \in Slots, NEW x, v3' = [v3 EXCEPT ![t] = x],
           v1' = v1, v2' = v2, v4' \in 0..v1, v3[t].set.session = Sessions!NoSession,
           TabOK(x), RequestOK(x)',
           v4' # 0 => v4 # 0 \/ (/\ v2.session = Sessions!NoSession
                                 /\ \A u \in Slots : v3[u].cookies.session = Sessions!NoSession),
           v4' # v4 /\ v4' # 0 /\ v2.session # Sessions!NoSession =>
               \/ v4' < v2.session.issuedAt + HalfLife
               \/ v4 >= v2.session.issuedAt + HalfLife
               \/ Renewing(x)
    PROVE  SessionInv'
<1>1. v3' = [u \in Slots |-> v3'[u]] /\ v3'[t] = x /\ \A u \in Slots : u # t => v3'[u] = v3[u]
  BY DEF SessionInv
<1>2. ASSUME NEW u \in Slots PROVE TabOK(v3[u])'
  <2>1. CASE u = t
    BY <1>1, <2>1 DEF TabOK, Signed
  <2>2. CASE u # t
    BY <1>1, <2>2 DEF SessionInv, TabOK, Signed
  <2> QED BY <2>1, <2>2
<1>3. ASSUME NEW u \in Slots PROVE RequestOK(v3[u])'
  <2>1. CASE u = t
    BY <1>1, <2>1 DEF RequestOK
  <2>2. CASE u # t
    <3>1. RequestOK(v3[u])
      BY DEF SessionInv
    <3> QED BY <1>1, <2>2, <3>1 DEF RequestOK
  <2> QED BY <2>1, <2>2
<1>4. JarOK'
  <2>1. Signed(v2.session)'
    BY DEF SessionInv, JarOK, Signed
  <2> SUFFICES ASSUME v2.session # Sessions!NoSession
               PROVE  /\ v1 < v2.session.expiresAt
                      /\ v4' # 0 =>
                           /\ v1 <= v2.session.issuedAt + 2 * HalfLife - 2
                           /\ v4' >= v2.session.issuedAt + HalfLife
                                  => \E p \in Slots : Renewing(v3[p])'
    BY <2>1 DEF JarOK
  <2>2. v1 < v2.session.expiresAt
    BY DEF SessionInv, JarOK
  <2> SUFFICES ASSUME v4' # 0
               PROVE  /\ v1 <= v2.session.issuedAt + 2 * HalfLife - 2
                      /\ v4' >= v2.session.issuedAt + HalfLife
                                  => \E p \in Slots : Renewing(v3[p])'
    BY <2>2
  <2>3. v4 # 0
    OBVIOUS
  <2>4. v1 <= v2.session.issuedAt + 2 * HalfLife - 2
    BY <2>3 DEF SessionInv, JarOK
  <2>5. ASSUME v4' >= v2.session.issuedAt + HalfLife
        PROVE  \E p \in Slots : Renewing(v3[p])'
    <3>1. v2.session.issuedAt + HalfLife \in Nat
      BY BoundsAssumption DEF SessionInv, JarOK, Signed
    <3>2. CASE v4 >= v2.session.issuedAt + HalfLife
      <4>1. PICK p \in Slots : Renewing(v3[p])
        BY <2>3, <3>2 DEF SessionInv, JarOK
      <4>2. p # t
        BY <4>1 DEF Renewing
      <4> QED BY <1>1, <4>1, <4>2 DEF Renewing
    <3>3. CASE ~(v4 >= v2.session.issuedAt + HalfLife)
      <4>1. Renewing(x)
        BY <2>3, <2>5, <3>1, <3>3 DEF SessionInv
      <4> QED BY <1>1, <4>1 DEF Renewing
    <3> QED BY <3>2, <3>3
  <2> QED BY <2>4, <2>5
<1>5. v1' \in Nat \ {0} /\ v4' \in 0..v1'
  BY DEF SessionInv
<1> QED BY <1>1, <1>2, <1>3, <1>4, <1>5 DEF SessionInv

LEMMA SendKeeps == ASSUME SessionInv, NEW t \in Slots, Sessions!Send(t) PROVE SessionInv'
<1>a. PICK route \in {"login", "logout", "me", "csrf", "console"},
          method \in {"GET", "POST"}, bearer \in {"none", "right", "wrong"} :
         v3' = [v3 EXCEPT ![t] =
                   [Sessions!Closed EXCEPT !.stage = "sent", !.method = method,
                           !.route = route, !.bearer = bearer, !.at = v1,
                           !.cookies = IF bearer = "none" THEN Sessions!Sent(v2, v1)
                                       ELSE Sessions!NoCookies]]
  BY Zenon DEF Sessions!Send
<1>1. PICK x :
         x = [Sessions!Closed EXCEPT !.stage = "sent", !.method = method,
                 !.route = route, !.bearer = bearer, !.at = v1,
                 !.cookies = IF bearer = "none" THEN Sessions!Sent(v2, v1)
                             ELSE Sessions!NoCookies]
  OBVIOUS
<1>2. /\ x.stage = "sent" /\ x.at = v1 /\ x.set = Sessions!NoCookies
      /\ x.cookies.session \in {v2.session, Sessions!NoSession}
  BY <1>1 DEF Sessions!Closed, Sessions!Sent, Sessions!NoCookies
<1>3. v1' = v1 /\ v2' = v2 /\ v4' = v4 /\ v3[t].stage = "closed"
  BY DEF Sessions!Send
<1>4. v3' = [v3 EXCEPT ![t] = x]
  BY <1>a, <1>1
<1>5. v3[t].set.session = Sessions!NoSession
  BY <1>3 DEF SessionInv, TabOK
<1>6. TabOK(x)
  BY <1>2 DEF SessionInv, JarOK, TabOK, Signed, Sessions!NoCookies
<1>7. RequestOK(x)'
  BY <1>2, <1>3 DEF SessionInv, JarOK, RequestOK, Signed
<1> QED BY <1>3, <1>4, <1>5, <1>6, <1>7, TabMoves DEF SessionInv

\* A tab is answered, and nobody else is concerned.
LEMMA AnswerKeeps ==
    ASSUME SessionInv, NEW t \in Slots, NEW a, NEW set, Sessions!Answer(t, a, set),
           v3[t].stage = "sent", a # "cleared" \/ set = Sessions!NoCookies,
           set.session \in {Sessions!NoSession, Sessions!CreateSessionToken(v1)},
           v4' \in 0..v1,
           v4' # 0 => v4 # 0 \/ (/\ v2.session = Sessions!NoSession
                                 /\ \A u \in Slots : v3[u].cookies.session = Sessions!NoSession),
           v4' # v4 /\ v4' # 0 /\ v2.session # Sessions!NoSession =>
               \/ v4' < v2.session.issuedAt + HalfLife
               \/ v4 >= v2.session.issuedAt + HalfLife
               \/ /\ set.session # Sessions!NoSession
                  /\ v1 <= v2.session.issuedAt + 2 * HalfLife - 3
    PROVE  SessionInv'
<1>0. PICK x : x = [Sessions!Closed EXCEPT !.stage = "answered", !.method = v3[t].method,
                            !.answer = a, !.set = set, !.at = v3[t].at]
  OBVIOUS
<1>1. v3' = [v3 EXCEPT ![t] = x] /\ v1' = v1 /\ v2' = v2
  BY <1>0 DEF Sessions!Answer
<1>2. /\ x.stage = "answered" /\ x.at = v3[t].at /\ x.set = set /\ x.answer = a
      /\ x.cookies = Sessions!NoCookies
  BY <1>0 DEF Sessions!Closed
<1>3. v3[t].set.session = Sessions!NoSession
  BY DEF SessionInv, TabOK
<1>4. v3[t].at \in Nat /\ v3[t].at <= v1 /\ v1 <= v3[t].at + 1 /\ v1 \in Nat \ {0}
  BY DEF SessionInv, TabOK
<1>5. TabOK(x)
  <2>1. Signed(set.session)
    BY <1>4, BoundsAssumption DEF Signed, Sessions!CreateSessionToken
  <2>2. set.session # Sessions!NoSession => a # "cleared" /\ set.session.issuedAt = v1
    BY DEF Sessions!NoCookies, Sessions!CreateSessionToken
  <2>3. Signed(Sessions!NoCookies.session)
    BY DEF Sessions!NoCookies, Signed
  <2> QED BY <1>2, <1>4, <2>1, <2>2, <2>3 DEF TabOK
<1>6. RequestOK(x)'
  BY <1>2 DEF RequestOK
<1>7. \/ ~(v4' # v4 /\ v4' # 0 /\ v2.session # Sessions!NoSession)
      \/ v4' < v2.session.issuedAt + HalfLife
      \/ v4 >= v2.session.issuedAt + HalfLife
      \/ Renewing(x)
  <2> SUFFICES ASSUME v2.session # Sessions!NoSession, set.session # Sessions!NoSession,
                      v1 <= v2.session.issuedAt + 2 * HalfLife - 3
               PROVE  Renewing(x)
    OBVIOUS
  <2>1. v2.session.issuedAt \in Nat
    BY DEF SessionInv, JarOK, Signed
  <2> QED BY <1>2, <1>4, <2>1, BoundsAssumption DEF Renewing
<1> QED BY <1>1, <1>3, <1>5, <1>6, <1>7, TabMoves

LEMMA LoginKeeps == ASSUME SessionInv, NEW t \in Slots, Sessions!Login(t) PROVE SessionInv'
<1> DEFINE set == [session |-> Sessions!CreateSessionToken(v1),
        csrf |-> Sessions!CreateCsrfToken(v1)]
<1>1. /\ Sessions!Answer(t, "done", set) /\ v3[t].stage = "sent"
      /\ v4' = IF Sessions!Lively \/ Sessions!SignedOut THEN v1 ELSE 0
  BY DEF Sessions!Login, Sessions!At, Sessions!Never
<1>2. set.session = Sessions!CreateSessionToken(v1) /\ set.session # Sessions!NoSession
  BY DEF Sessions!CreateSessionToken, Sessions!NoSession, SessionInv, Sessions!Never
<1> HIDE DEF set
<1>3. v4' \in 0..v1
  BY <1>1 DEF SessionInv
<1>4. Sessions!SignedOut =>
         /\ v2.session = Sessions!NoSession
         /\ \A u \in Slots : v3[u].cookies.session = Sessions!NoSession
  BY DEF Sessions!SignedOut, Sessions!Sent, SessionInv, JarOK
<1>5. Sessions!Lively => v4 # 0 /\ v1 <= v4 + HalfLife - 2
  BY BoundsAssumption DEF Sessions!Lively, Sessions!Never, SessionInv
<1>6. v2.session # Sessions!NoSession => v2.session.issuedAt \in Nat
  BY DEF SessionInv, JarOK, Signed
<1>7. ASSUME v4' # 0, v2.session # Sessions!NoSession
      PROVE  \/ v4 >= v2.session.issuedAt + HalfLife
             \/ v1 <= v2.session.issuedAt + 2 * HalfLife - 3
  <2>1. Sessions!Lively
    BY <1>1, <1>4, <1>7
  <2> QED BY <1>5, <1>6, <1>7, <2>1, BoundsAssumption DEF SessionInv
<1>8. v4' # 0 => v4 # 0 \/ (/\ v2.session = Sessions!NoSession
                            /\ \A u \in Slots : v3[u].cookies.session = Sessions!NoSession)
  BY <1>1, <1>4, <1>5
<1> QED BY <1>1, <1>2, <1>3, <1>7, <1>8, AnswerKeeps

\* Whoever is seen with a session in its second half gets another one.
LEMMA SeenKeeps ==
    ASSUME SessionInv, NEW t \in Slots, NEW a, NEW set, Sessions!Answer(t, a, set),
           v3[t].stage = "sent", a # "cleared", Sessions!Seen(t),
           set.session = Sessions!Renewed(v3[t], v1)
    PROVE  SessionInv'
<1>1. set.session \in {Sessions!NoSession, Sessions!CreateSessionToken(v1)}
  BY DEF Sessions!Renewed
<1>2. v4' \in 0..v1
  BY DEF Sessions!Seen, Sessions!Never, SessionInv
<1>3. v4' # v4 /\ v4' # 0 =>
         /\ Sessions!ResolveOperator(v3[t], v1) = "SESSION"
         /\ Sessions!Lively /\ v4' = v1
  BY DEF Sessions!Seen, Sessions!Never
<1>4. Sessions!Lively => v4 # 0 /\ v1 <= v4 + HalfLife - 2
  BY BoundsAssumption DEF Sessions!Lively, Sessions!Never, SessionInv
<1>5. ASSUME v4' # v4, v4' # 0, v2.session # Sessions!NoSession
      PROVE  \/ v4' < v2.session.issuedAt + HalfLife
             \/ v4 >= v2.session.issuedAt + HalfLife
             \/ /\ set.session # Sessions!NoSession
                /\ v1 <= v2.session.issuedAt + 2 * HalfLife - 3
  <2>1. v2.session.issuedAt \in Nat /\ v1 \in Nat \ {0} /\ v4 \in Nat
    BY <1>5 DEF SessionInv, JarOK, Signed
  <2>2. v3[t].cookies.session # Sessions!NoSession
    BY <1>3, <1>5 DEF Sessions!ResolveOperator, Sessions!VerifySessionToken
  <2>3. v3[t].cookies.session.issuedAt \in Nat
    BY <2>2 DEF SessionInv, TabOK, Signed
  <2>4. \/ v3[t].cookies.session.issuedAt <= v2.session.issuedAt
        \/ v3[t].at <= v2.session.issuedAt + 1
    BY <1>5, <2>2 DEF SessionInv, RequestOK
  <2>5. v3[t].at \in Nat /\ v1 <= v3[t].at + 1
    BY DEF SessionInv, TabOK
  <2>6. CASE v1 < v2.session.issuedAt + HalfLife
    BY <1>3, <1>5, <2>6
  <2>7. CASE ~(v1 < v2.session.issuedAt + HalfLife)
    <3>1. v3[t].cookies.session.issuedAt <= v2.session.issuedAt
      BY <2>1, <2>3, <2>4, <2>5, <2>7, BoundsAssumption
    <3>2. 2 * (v1 - v3[t].cookies.session.issuedAt) >= 2 * HalfLife
      BY <2>1, <2>3, <2>7, <3>1, BoundsAssumption
    <3>3. set.session = Sessions!CreateSessionToken(v1)
      BY <1>3, <1>5, <3>2 DEF Sessions!Renewed, Sessions!ShouldRenewSession
    <3>4. set.session # Sessions!NoSession
      BY <2>1, <3>3 DEF Sessions!CreateSessionToken, Sessions!NoSession, Sessions!Never
    <3>5. v1 <= v4 + HalfLife - 2
      BY <1>3, <1>4, <1>5
    <3>6. \/ v4 >= v2.session.issuedAt + HalfLife
          \/ v1 <= v2.session.issuedAt + 2 * HalfLife - 3
      BY <2>1, <3>5, BoundsAssumption
    <3> QED BY <3>4, <3>6
  <2> QED BY <2>6, <2>7
<1>6. v4' # 0 => v4 # 0
  BY <1>3, <1>4
<1> QED BY <1>1, <1>2, <1>5, <1>6, AnswerKeeps

\* An answer that brings no session and tells nothing of the operator.
LEMMA PlainKeeps ==
    ASSUME SessionInv, NEW t \in Slots, NEW a, NEW set, Sessions!Answer(t, a, set),
           v3[t].stage = "sent", a # "cleared" \/ set = Sessions!NoCookies,
           set.session = Sessions!NoSession, v4' = v4
    PROVE  SessionInv'
BY AnswerKeeps DEF SessionInv

LEMMA AnswersKeep ==
    ASSUME SessionInv, NEW t \in Slots,
           \/ Sessions!Login(t) \/ Sessions!LoginFails(t) \/ Sessions!Logout(t)
           \/ Sessions!Me(t) \/ Sessions!Csrf(t) \/ Sessions!Console(t)
    PROVE  SessionInv'
<1>1. CASE Sessions!Login(t)
  BY <1>1, LoginKeeps
<1>2. CASE Sessions!LoginFails(t)
  BY <1>2, PlainKeeps DEF Sessions!LoginFails, Sessions!At, Sessions!NoCookies
<1>3. CASE Sessions!Logout(t)
  BY <1>3, PlainKeeps DEF Sessions!Logout, Sessions!At, Sessions!NoCookies
<1>4. CASE Sessions!Me(t)
  <2> DEFINE set == [Sessions!NoCookies EXCEPT !.session = Sessions!Renewed(v3[t], v1)]
  <2>1. set.session = Sessions!Renewed(v3[t], v1)
    BY DEF Sessions!NoCookies
  <2>2. Sessions!Answer(t, "done", set) /\ v3[t].stage = "sent" /\ Sessions!Seen(t)
    BY <1>4 DEF Sessions!Me, Sessions!At
  <2> HIDE DEF set
  <2> QED BY <2>1, <2>2, SeenKeeps
<1>5. CASE Sessions!Csrf(t)
  <2> DEFINE set == [Sessions!NoCookies EXCEPT !.csrf = Sessions!CreateCsrfToken(v1)]
  <2>1. set.session = Sessions!NoSession
    BY DEF Sessions!NoCookies
  <2>2. Sessions!Answer(t, "done", set) /\ v3[t].stage = "sent" /\ v4' = v4
    BY <1>5 DEF Sessions!Csrf, Sessions!At
  <2> HIDE DEF set
  <2> QED BY <2>1, <2>2, PlainKeeps
<1>6. CASE Sessions!Console(t)
  <2> DEFINE set == [Sessions!NoCookies EXCEPT !.session = Sessions!Renewed(v3[t], v1)]
             a == Sessions!Guarded(v3[t], v1)
  <2>1. set.session = Sessions!Renewed(v3[t], v1)
    BY DEF Sessions!NoCookies
  <2>2. Sessions!Answer(t, a, set) /\ v3[t].stage = "sent" /\ Sessions!Seen(t)
    BY <1>6 DEF Sessions!Console, Sessions!At
  <2>3. a # "cleared"
    <3> DEFINE one == Sessions!RequireOperator(v3[t], v1)
               two == Sessions!RequireOperatorForWrites(v3[t], v1)
               three == Sessions!RequireOperatorForReads(v3[t], v1)
    <3>1. {one, two, three} \subseteq {"done", "UNAUTHORIZED", "CSRF_INVALID"}
      BY DEF Sessions!RequireOperator, Sessions!RequireOperatorForWrites,
             Sessions!RequireOperatorForReads
    <3>2. a = IF {one, two, three} = {"done"} THEN "done"
              ELSE CHOOSE v \in {one, two, three} : v # "done"
      BY DEF Sessions!Guarded
    <3> HIDE DEF one, two, three, a
    <3> QED BY <3>1, <3>2
  <2> HIDE DEF set, a
  <2> QED BY <2>1, <2>2, <2>3, SeenKeeps
<1> QED BY <1>1, <1>2, <1>3, <1>4, <1>5, <1>6

\* What an answer brings is younger than a tick, so nothing falls back further.
LEMMA ReceiveKeeps == ASSUME SessionInv, NEW t \in Slots, Sessions!Receive(t) PROVE SessionInv'
<1>1. PICK new : new = v3[t].set
  OBVIOUS
<1>2. /\ v2' = IF v3[t].answer = "cleared" THEN Sessions!NoCookies
               ELSE [session |-> IF new.session = Sessions!NoSession THEN v2.session
                                 ELSE new.session,
                     csrf |-> IF new.csrf = Sessions!Never THEN v2.csrf ELSE new.csrf]
      /\ v3' = [v3 EXCEPT ![t] = Sessions!Closed] /\ v1' = v1 /\ v4' = v4
  BY <1>1 DEF Sessions!Receive
<1>3. \/ v2'.session = Sessions!NoSession
      \/ v2'.session = v2.session /\ new.session = Sessions!NoSession
      \/ v2'.session = new.session /\ new.session # Sessions!NoSession
  BY <1>2 DEF Sessions!NoCookies
<1>4. v3' = [u \in Slots |-> v3'[u]] /\ v3'[t] = Sessions!Closed
      /\ \A u \in Slots : u # t => v3'[u] = v3[u]
  BY <1>2 DEF SessionInv
<1>5. ASSUME NEW u \in Slots PROVE TabOK(v3[u])'
  <2>1. CASE u = t
    BY <1>4, <2>1 DEF TabOK, Signed, Sessions!Closed, Sessions!NoCookies
  <2>2. CASE u # t
    BY <1>2, <1>4, <2>2 DEF SessionInv, TabOK, Signed
  <2> QED BY <2>1, <2>2
<1>6. v1 \in Nat \ {0} /\ v4 \in 0..v1
  BY DEF SessionInv
<1>7. new.session # Sessions!NoSession =>
         /\ new.session.issuedAt \in 1..v1 /\ v1 <= new.session.issuedAt + 1
         /\ new.session.expiresAt = new.session.issuedAt + 2 * HalfLife
  BY <1>1 DEF SessionInv, TabOK, Signed
<1>8. ASSUME NEW u \in Slots PROVE RequestOK(v3[u])'
  <2>1. CASE u = t
    BY <1>4, <2>1 DEF RequestOK, Sessions!Closed
  <2>2. CASE u # t
    <3>1. RequestOK(v3[u]) /\ TabOK(v3[u])
      BY DEF SessionInv
    <3>2. SUFFICES ASSUME v3[u].stage = "sent", v3[u].cookies.session # Sessions!NoSession,
                          v2'.session # Sessions!NoSession
                   PROVE  \/ v3[u].cookies.session.issuedAt <= v2'.session.issuedAt
                          \/ v3[u].at <= v2'.session.issuedAt + 1
      BY <1>2, <1>4, <2>2, <3>1 DEF RequestOK
    <3>3. CASE v2'.session = v2.session
      BY <3>1, <3>2, <3>3 DEF RequestOK
    <3>4. CASE v2'.session = new.session /\ new.session # Sessions!NoSession
      BY <1>6, <1>7, <3>1, <3>2, <3>4 DEF TabOK
    <3> QED BY <1>3, <3>2, <3>3, <3>4
  <2> QED BY <2>1, <2>2
<1>9. JarOK'
  <2>1. CASE v2'.session = Sessions!NoSession
    BY <2>1 DEF JarOK, Signed
  <2>2. CASE v2'.session = v2.session /\ new.session = Sessions!NoSession
    <3>1. ASSUME NEW p \in Slots, Renewing(v3[p]) PROVE Renewing(v3[p])'
      BY <1>1, <1>4, <2>2, <3>1 DEF Renewing
    <3>2. JarOK
      BY DEF SessionInv
    <3> QED BY <1>2, <2>2, <3>1, <3>2 DEF JarOK, Signed
  <2>3. CASE v2'.session = new.session /\ new.session # Sessions!NoSession
    BY <1>2, <1>6, <1>7, <2>3, BoundsAssumption DEF JarOK, Signed
  <2> QED BY <1>3, <2>1, <2>2, <2>3
<1> QED BY <1>2, <1>4, <1>5, <1>6, <1>8, <1>9 DEF SessionInv

\* The clock waits for the answers that are due.
LEMMA TickKeeps == ASSUME SessionInv, Sessions!ClockTicks PROVE SessionInv'
<1>1. /\ v1' = v1 + 1 /\ v3' = v3
      /\ \A t \in Slots : v3[t].stage # "closed" => v3[t].at = v1
      /\ v2'.session \in {v2.session, Sessions!NoSession}
      /\ v2'.session # Sessions!NoSession => v1 + 1 < v2.session.expiresAt
      /\ v4' = IF Sessions!Lively THEN v4 ELSE 0
  BY DEF Sessions!ClockTicks, Sessions!Sent, Sessions!Never
<1>2. v1 \in Nat \ {0} /\ v4 \in 0..v1
  BY DEF SessionInv
<1>3. ASSUME NEW t \in Slots PROVE TabOK(v3[t])' /\ RequestOK(v3[t])'
  <2>1. TabOK(v3[t]) /\ RequestOK(v3[t])
    BY DEF SessionInv
  <2> QED BY <1>1, <1>2, <2>1 DEF TabOK, RequestOK, Signed
<1>4. JarOK'
  <2>1. Signed(v2.session)'
    BY <1>1, <1>2 DEF SessionInv, JarOK, Signed
  <2> SUFFICES ASSUME v2'.session # Sessions!NoSession, v4' # 0
               PROVE  /\ v1 + 1 <= v2.session.issuedAt + 2 * HalfLife - 2
                      /\ v4 >= v2.session.issuedAt + HalfLife
                            => \E p \in Slots : Renewing(v3[p])'
    BY <1>1, <2>1 DEF JarOK
  <2>2. v2'.session = v2.session /\ v2.session # Sessions!NoSession /\ v4 # 0 /\ v4' = v4
    BY <1>1
  <2>3. v2.session.issuedAt \in Nat
    BY <2>2 DEF SessionInv, JarOK, Signed
  <2>4. v1 <= v4 + HalfLife - 2
    BY <1>1, <1>2, <2>2, BoundsAssumption DEF Sessions!Lively, Sessions!Never
  <2>5. CASE v4 >= v2.session.issuedAt + HalfLife
    <3>1. PICK p \in Slots : Renewing(v3[p])
      BY <2>2, <2>5 DEF SessionInv, JarOK
    <3>2. v3[p].at = v1
      BY <1>1, <3>1 DEF SessionInv, TabOK, Renewing
    <3>3. Renewing(v3[p])'
      BY <1>1, <2>2, <3>1 DEF Renewing
    <3>4. v1 <= v2.session.issuedAt + 2 * HalfLife - 3
      BY <3>1, <3>2 DEF Renewing
    <3> QED BY <1>2, <2>3, <3>3, <3>4, BoundsAssumption
  <2>6. CASE ~(v4 >= v2.session.issuedAt + HalfLife)
    BY <1>2, <2>3, <2>4, <2>6, BoundsAssumption
  <2> QED BY <2>5, <2>6
<1>5. v1' \in Nat \ {0} /\ v4' \in 0..v1'
  BY <1>1, <1>2
<1>6. v3' = [t \in Slots |-> v3'[t]]
  BY <1>1 DEF SessionInv
<1> QED BY <1>3, <1>4, <1>5, <1>6 DEF SessionInv

LEMMA NextSessionInv ==
    SessionInv /\ [Sessions!SessionsNext]_(Sessions!sessionVars) => SessionInv'
<1> SUFFICES ASSUME SessionInv, [Sessions!SessionsNext]_(Sessions!sessionVars)
             PROVE  SessionInv'
  OBVIOUS
<1>1. ASSUME NEW t \in Slots, Sessions!Send(t) PROVE SessionInv'
  BY <1>1, SendKeeps
<1>2. ASSUME NEW t \in Slots,
             \/ Sessions!Login(t) \/ Sessions!LoginFails(t) \/ Sessions!Logout(t)
             \/ Sessions!Me(t) \/ Sessions!Csrf(t) \/ Sessions!Console(t)
      PROVE SessionInv'
  BY <1>2, AnswersKeep
<1>3. ASSUME NEW t \in Slots, Sessions!Receive(t) PROVE SessionInv'
  BY <1>3, ReceiveKeeps
<1>4. CASE Sessions!ClockTicks
  BY <1>4, TickKeeps
<1>5. CASE UNCHANGED Sessions!sessionVars
  BY <1>5 DEF Sessions!sessionVars, SessionInv, TabOK, RequestOK, JarOK, Signed, Renewing
<1> QED BY <1>1, <1>2, <1>3, <1>4, <1>5 DEF Sessions!SessionsNext

\* An operator who does something in every half of a session's life stays signed
\* in, in whatever order the answers of any number of tabs come back
\* (operator.middleware.ts, renewSessionCookie).
THEOREM ActiveOperatorsStay == Spec => []ActiveStaysSignedIn
<1>1. Init => (service = "sessions" => SessionInv)
  BY InitSessionInv DEF Init
<1>2. (service = "sessions" => SessionInv) /\ [Next]_<<service, pool>>
          => (service = "sessions" => SessionInv)'
  <2>1. service = "sessions" /\ [Next]_<<service, pool>>
            => [Sessions!SessionsNext]_(Sessions!sessionVars)
    BY DEF Next, pool, Sessions!sessionVars
  <2>2. [Next]_<<service, pool>> => service' = service
    BY DEF Next
  <2> QED BY <2>1, <2>2, NextSessionInv
<1>3. (service = "sessions" => SessionInv) => ActiveStaysSignedIn
  BY SessionsFollow DEF ActiveStaysSignedIn
<1> QED BY <1>1, <1>2, <1>3, PTL DEF Spec

-----------------------------------------------------------------------------
(* The registration of webhooks: v1 are the subscriptions, v2 the ids      *)
(* given out, v3 the runs.                                                 *)

Subscription == [id : Nat, topic : Registration!Topics, url : Registration!Urls]

Outcomes == {"created", "updated", "kept", "skipped", "failed"}

RunShape(x) ==
    x = [pc |-> x.pc, dryRun |-> x.dryRun, existing |-> x.existing, outcomes |-> x.outcomes,
         orphaned |-> x.orphaned, disturbed |-> x.disturbed]

\* A subscription a run listed is still there, or repointed to this backend.
Seen(e) ==
    e.topic \in Registration!Desired =>
        \E d \in v1 : d.id = e.id /\ d.topic = e.topic /\ d.url \in {e.url, "ours"}

\* What a run that nobody disturbed has seen and reported is so.
Truthful(x) ==
    /\ \A e \in x.existing : Seen(e)
    /\ \A i \in 1..Len(x.outcomes) : x.outcomes[i] \in {"created", "updated", "kept"} =>
          Registration!Delivered(<<"create", "update">>[i])

RunOK(x) ==
    /\ RunShape(x)
    /\ x.existing \subseteq Subscription
    /\ x.outcomes \in Seq(Outcomes) /\ Len(x.outcomes) <= 2
    /\ x.pc = "idle" => x.existing = {} /\ x.outcomes = <<>>
    /\ ~x.disturbed /\ ~x.dryRun => Truthful(x)

RegistrationInv ==
    /\ v1 \subseteq Subscription /\ v2 \in Nat
    /\ v3 = [r \in Slots |-> v3[r]]
    /\ \A r \in Slots : RunOK(v3[r])

LEMMA Planned ==
    /\ Registration!Desired = {"create", "update"}
    /\ Len(<<"create", "update">>) = 2
    /\ \A i \in 1..2 : <<"create", "update">>[i] \in {"create", "update"}
<1>1. DOMAIN <<"create", "update">> = 1..2
  OBVIOUS
<1> QED BY <1>1 DEF Registration!Desired

LEMMA InitRegistrationInv == Registration!RegistrationInit => RegistrationInv
<1> SUFFICES ASSUME Registration!RegistrationInit PROVE RegistrationInv
  OBVIOUS
<1>1. v1 \subseteq Subscription
  BY DEF Registration!RegistrationInit, Subscription
<1>2. RunOK(Registration!Idle)
  BY DEF Registration!Idle, RunOK, RunShape, Truthful
<1> QED BY <1>1, <1>2 DEF Registration!RegistrationInit, RegistrationInv

LEMMA DeliveredFollows == RegistrationInv => Registration!RegistrationDelivers
<1> SUFFICES ASSUME RegistrationInv, NEW r \in Slots, ~v3[r].disturbed, ~v3[r].dryRun,
                    NEW i \in DOMAIN v3[r].outcomes,
                    v3[r].outcomes[i] \in {"created", "updated", "kept"}
             PROVE  Registration!Delivered(<<"create", "update">>[i])
  BY DEF Registration!RegistrationDelivers
<1>1. RunOK(v3[r])
  BY DEF RegistrationInv
<1>2. v3[r].outcomes \in Seq(Outcomes) /\ Truthful(v3[r])
  BY <1>1 DEF RunOK
<1>3. i \in 1..Len(v3[r].outcomes)
  BY <1>2
<1> QED BY <1>2, <1>3 DEF Truthful

-----------------------------------------------------------------------------
\* No wanted subscription goes, and none is pointed elsewhere.
Subscribed ==
    \A e \in v1 : e.topic \in Registration!Desired =>
        \E d \in v1' : d.id = e.id /\ d.topic = e.topic /\ d.url \in {e.url, "ours"}

\* What was delivered stays so.
LEMMA DeliveredStays ==
    ASSUME Subscribed, NEW topic \in {"create", "update"}, Registration!Delivered(topic)
    PROVE  Registration!Delivered(topic)'
<1>1. PICK e \in v1 : e.topic = topic /\ Registration!NormaliseCallbackUrl(e.url) = "ours"
  BY DEF Registration!Delivered
<1>2. PICK d \in v1' : d.topic = topic /\ d.url \in {e.url, "ours"}
  BY <1>1, Planned DEF Subscribed
<1>3. Registration!NormaliseCallbackUrl(d.url) = "ours"
  BY <1>1, <1>2 DEF Registration!NormaliseCallbackUrl
<1> QED BY <1>2, <1>3 DEF Registration!Delivered

LEMMA SeenStays == ASSUME Subscribed, NEW e, Seen(e) PROVE Seen(e)'
<1> SUFFICES ASSUME e.topic \in Registration!Desired
             PROVE  \E d \in v1' : d.id = e.id /\ d.topic = e.topic /\ d.url \in {e.url, "ours"}
  BY DEF Seen, Registration!Desired
<1>1. PICK c \in v1 : c.id = e.id /\ c.topic = e.topic /\ c.url \in {e.url, "ours"}
  BY DEF Seen
<1>2. PICK d \in v1' : d.id = c.id /\ d.topic = c.topic /\ d.url \in {c.url, "ours"}
  BY <1>1 DEF Subscribed
<1> QED BY <1>1, <1>2

LEMMA RunStays == ASSUME Subscribed, NEW x, RunOK(x) PROVE RunOK(x)'
<1>1. ASSUME Truthful(x) PROVE Truthful(x)'
  <2>1. \A e \in x.existing : Seen(e)'
    BY <1>1, SeenStays DEF Truthful
  <2>2. ASSUME NEW i \in 1..Len(x.outcomes), x.outcomes[i] \in {"created", "updated", "kept"}
        PROVE  Registration!Delivered(<<"create", "update">>[i])'
    <3>1. i \in 1..2
      BY DEF RunOK
    <3>2. PICK topic : topic = <<"create", "update">>[i]
      OBVIOUS
    <3>3. topic \in {"create", "update"}
      BY <3>1, <3>2, Planned
    <3>4. Registration!Delivered(topic)
      BY <1>1, <2>2, <3>2 DEF Truthful
    <3> QED BY <3>2, <3>3, <3>4, DeliveredStays
  <2> QED BY <2>1, <2>2 DEF Truthful
<1> QED BY <1>1 DEF RunOK, Registration!Topics, Subscription

\* One run moves, and the wanted subscriptions stay.
LEMMA RunMoves ==
    ASSUME RegistrationInv, NEW r \in Slots, NEW x, v3' = [v3 EXCEPT ![r] = x],
           v1' \subseteq Subscription, v2' \in Nat, Subscribed, RunOK(x)'
    PROVE  RegistrationInv'
<1>1. v3' = [u \in Slots |-> v3'[u]] /\ v3'[r] = x /\ \A u \in Slots : u # r => v3'[u] = v3[u]
  BY DEF RegistrationInv
<1>2. ASSUME NEW u \in Slots PROVE RunOK(v3[u])'
  <2>1. CASE u = r
    BY <1>1, <2>1 DEF RunOK, Truthful, RunShape
  <2>2. CASE u # r
    <3>1. PICK y : y = v3[u]
      OBVIOUS
    <3>2. RunOK(y)
      BY <3>1 DEF RegistrationInv
    <3>3. RunOK(y)' /\ y = v3'[u]
      BY <1>1, <2>2, <3>1, <3>2, RunStays
    <3> QED BY <3>3 DEF RunOK, Truthful, RunShape
  <2> QED BY <2>1, <2>2
<1> QED BY <1>1, <1>2 DEF RegistrationInv, Subscription

\* Nobody touches the subscriptions.
LEMMA SubscribedStays == ASSUME UNCHANGED v1 PROVE Subscribed
BY DEF Subscribed

\* A run reports one topic, truthfully.
LEMMA OutcomeKeeps ==
    ASSUME RegistrationInv, NEW r \in Slots, NEW o \in Outcomes, Registration!Outcome(r, o),
           v3[r].pc = "acting", Len(v3[r].outcomes) < 2,
           v1' \subseteq Subscription, v2' \in Nat, Subscribed,
           NEW topic, topic = Registration!Topic(r),
           ~v3[r].disturbed /\ ~v3[r].dryRun /\ o \in {"created", "updated", "kept"}
               => Registration!Delivered(topic)'
    PROVE  RegistrationInv'
<1>1. PICK x : x = [v3[r] EXCEPT !.outcomes = Append(@, o)]
  OBVIOUS
<1>2. v3' = [v3 EXCEPT ![r] = x]
  BY <1>1 DEF Registration!Outcome
<1>3. RunOK(v3[r])
  BY DEF RegistrationInv
<1>4. /\ x.pc = v3[r].pc /\ x.dryRun = v3[r].dryRun /\ x.existing = v3[r].existing
      /\ x.disturbed = v3[r].disturbed /\ x.outcomes = Append(v3[r].outcomes, o)
      /\ RunShape(x)
  BY <1>1, <1>3 DEF RunOK, RunShape
<1>5. /\ x.outcomes \in Seq(Outcomes) /\ Len(x.outcomes) = Len(v3[r].outcomes) + 1
      /\ x.outcomes[Len(v3[r].outcomes) + 1] = o
      /\ \A i \in 1..Len(v3[r].outcomes) : x.outcomes[i] = v3[r].outcomes[i]
  BY <1>3, <1>4 DEF RunOK
<1>6. PICK n : n = Len(v3[r].outcomes)
  OBVIOUS
<1>7. n \in 0..1 /\ Len(x.outcomes) = n + 1
  <2>1. v3[r].outcomes \in Seq(Outcomes)
    BY <1>3 DEF RunOK
  <2>2. Len(v3[r].outcomes) \in Nat
    BY <2>1
  <2>3. n \in 0..1
    <3>1. n \in Nat /\ n < 2
      BY <1>6, <2>2, Zenon
    <3>2. \A m \in Nat : m < 2 => m \in 0..1
      OBVIOUS
    <3> QED BY <3>1, <3>2, Zenon
  <2>4. Len(x.outcomes) = n + 1
    BY <1>5, <1>6
  <2> QED BY <2>3, <2>4
<1>8. topic = <<"create", "update">>[n + 1]
  BY <1>6 DEF Registration!Topic
<1>10. ASSUME ~x.disturbed, ~x.dryRun PROVE Truthful(x)'
  <2>1. PICK y : y = v3[r]
    OBVIOUS
  <2>2. Truthful(y)'
    <3>1. RunOK(y)'
      BY <1>3, <2>1, RunStays
    <3> QED BY <1>4, <1>10, <2>1, <3>1 DEF RunOK
  <2>3. \A e \in x.existing : Seen(e)'
    BY <1>4, <2>1, <2>2 DEF Truthful
  <2>4. ASSUME NEW i \in 1..Len(x.outcomes), x.outcomes[i] \in {"created", "updated", "kept"}
        PROVE  Registration!Delivered(<<"create", "update">>[i])'
    <3>1. CASE i = n + 1
      <4>1. Registration!Delivered(topic)'
        BY <1>4, <1>5, <1>6, <1>10, <2>4, <3>1
      <4> QED BY <1>8, <3>1, <4>1
    <3>2. CASE i # n + 1
      <4>1. i \in 1..Len(y.outcomes) /\ y.outcomes[i] = x.outcomes[i]
        BY <1>5, <1>6, <1>7, <2>1, <3>2
      <4> QED BY <2>2, <2>4, <4>1 DEF Truthful
    <3> QED BY <3>1, <3>2
  <2> QED BY <2>3, <2>4 DEF Truthful
<1>11. RunOK(x)'
  BY <1>3, <1>4, <1>5, <1>7, <1>10 DEF RunOK, RunShape, Subscription
<1> QED BY <1>2, <1>11, RunMoves

\* A set of natural numbers that is not empty has a least one.
LEMMA Least == ASSUME NEW S, S \subseteq Nat, S # {} PROVE \E m \in S : \A n \in S : m <= n
<1> DEFINE R == {ss \in Nat \X Nat : ss[1] < ss[2]}
<1>1. IsWellFoundedOn(R, Nat)
  BY NatLessThanWellFounded DEF OpToRel
<1>2. \A x, y \in Nat : <<x, y>> \notin R => y <= x
  OBVIOUS
<1>3. PICK m \in S : \A y \in S : <<y, m>> \notin R
  <2> HIDE DEF R
  <2> QED BY <1>1, WFMin
<1> HIDE DEF R
<1> QED BY <1>2, <1>3

\* Of the subscriptions to repoint, the first one exists.
LEMMA FirstIsOne ==
    ASSUME NEW entries, entries \subseteq Subscription, entries # {}
    PROVE  Registration!First(entries) \in entries
<1>1. PICK m \in {e.id : e \in entries} : \A n \in {e.id : e \in entries} : m <= n
  <2>1. {e.id : e \in entries} \subseteq Nat /\ {e.id : e \in entries} # {}
    BY DEF Subscription
  <2> QED BY <2>1, Least
<1>2. \E e \in entries : \A d \in entries : e.id <= d.id
  BY <1>1
<1> QED BY <1>2 DEF Registration!First

\* The entry of the plan a run has come to, from what it listed.
LEMMA PlannedEntry ==
    ASSUME RegistrationInv, NEW r \in Slots, NEW action, Registration!At(r, action),
           NEW topic, topic = Registration!Topic(r)
    PROVE  /\ v3[r].pc = "acting" /\ Len(v3[r].outcomes) < 2
           /\ topic \in {"create", "update"}
           /\ action = "keep" => \E e \in v3[r].existing :
                 e.topic = topic /\ Registration!NormaliseCallbackUrl(e.url) = "ours"
           /\ action = "update" => \E e \in v3[r].existing :
                 e.topic = topic /\ e.id = Registration!Entry(r).id
<1>1. v3[r].pc = "acting" /\ Len(v3[r].outcomes) < 2 /\ Registration!Entry(r).action = action
  BY Planned DEF Registration!At
<1>2. topic \in {"create", "update"}
  <2>1. PICK n : n = Len(v3[r].outcomes)
    OBVIOUS
  <2>2. n \in Nat /\ n < 2
    <3>1. Len(v3[r].outcomes) \in Nat
      BY DEF RegistrationInv, RunOK
    <3> QED BY <1>1, <2>1, <3>1, Zenon
  <2>3. n + 1 \in 1..2
    BY <2>2
  <2>4. topic = <<"create", "update">>[n + 1]
    BY <2>1 DEF Registration!Topic
  <2> QED BY <2>3, <2>4, Planned
<1> DEFINE matches == {e \in v3[r].existing : e.topic = topic}
           exact == {e \in matches : Registration!NormaliseCallbackUrl(e.url) = "ours"}
           http == {e \in matches : e.url # "pubsub"}
           entry == Registration!Entry(r)
<1>3. entry = IF matches = {} THEN [action |-> "create", id |-> 0]
              ELSE IF exact # {} THEN [action |-> "keep", id |-> Registration!First(exact).id]
              ELSE IF http # {} THEN [action |-> "update", id |-> Registration!First(http).id]
              ELSE [action |-> "skip", id |-> Registration!First(matches).id]
  BY DEF Registration!Entry, Registration!PlanWebhookRegistration
<1>4. v3[r].existing \subseteq Subscription
  BY DEF RegistrationInv, RunOK
<1>5. entry.action = action
  BY <1>1
<1>6. ASSUME action = "keep" PROVE exact # {}
  <2> HIDE DEF matches, exact, http, entry
  <2> QED BY <1>3, <1>5, <1>6
<1>7. ASSUME action = "update" PROVE http # {} /\ entry.id = Registration!First(http).id
  <2> HIDE DEF matches, exact, http, entry
  <2> QED BY <1>3, <1>5, <1>7
<1>8. ASSUME http # {} PROVE Registration!First(http) \in http
  <2>1. http \subseteq Subscription
    BY <1>4
  <2> HIDE DEF http
  <2> QED BY <1>8, <2>1, FirstIsOne
<1> QED BY <1>1, <1>2, <1>6, <1>7, <1>8

LEMMA KeepKeeps == ASSUME RegistrationInv, NEW r \in Slots, Registration!Keep(r)
                   PROVE RegistrationInv'
<1>1. /\ Registration!At(r, "keep") /\ Registration!Outcome(r, "kept") /\ v1' = v1 /\ v2' = v2
  BY DEF Registration!Keep
<1>2. PICK topic : topic = Registration!Topic(r)
  OBVIOUS
<1>3. v1' \subseteq Subscription /\ v2' \in Nat /\ Subscribed
  BY <1>1, SubscribedStays DEF RegistrationInv
<1>4. ASSUME ~v3[r].disturbed, ~v3[r].dryRun PROVE Registration!Delivered(topic)'
  <2>1. PICK e \in v3[r].existing :
            e.topic = topic /\ Registration!NormaliseCallbackUrl(e.url) = "ours"
    BY <1>1, <1>2, PlannedEntry
  <2>2. Seen(e)
    BY <1>4 DEF RegistrationInv, RunOK, Truthful
  <2>3. topic \in {"create", "update"}
    BY <1>1, <1>2, PlannedEntry
  <2>4. PICK d \in v1 : d.topic = topic /\ d.url \in {e.url, "ours"}
    BY <2>1, <2>2, <2>3, Planned DEF Seen
  <2>5. Registration!NormaliseCallbackUrl(d.url) = "ours"
    BY <2>1, <2>4 DEF Registration!NormaliseCallbackUrl
  <2> QED BY <1>1, <2>4, <2>5 DEF Registration!Delivered
<1>5. "kept" \in Outcomes
  BY DEF Outcomes
<1> QED BY <1>1, <1>2, <1>3, <1>4, <1>5, PlannedEntry, OutcomeKeeps

\* What is skipped, only planned or failed claims nothing.
LEMMA SkipKeeps ==
    ASSUME RegistrationInv, NEW r \in Slots, Registration!Skip(r) \/ Registration!DryRun(r)
    PROVE  RegistrationInv'
<1>1. PICK action \in {"skip", "create", "update"}, o \in {"skipped", "created", "updated"} :
         /\ Registration!At(r, action) /\ Registration!Outcome(r, o)
         /\ v1' = v1 /\ v2' = v2 /\ (v3[r].dryRun \/ o = "skipped")
  BY Zenon DEF Registration!Skip, Registration!DryRun
<1>2. PICK topic : topic = Registration!Topic(r)
  OBVIOUS
<1>3. v1' \subseteq Subscription /\ v2' \in Nat /\ Subscribed
  BY <1>1, SubscribedStays DEF RegistrationInv
<1>4. o \in Outcomes
  BY <1>1 DEF Outcomes
<1> QED BY <1>1, <1>2, <1>3, <1>4, PlannedEntry, OutcomeKeeps

LEMMA CreateKeeps ==
    ASSUME RegistrationInv, NEW r \in Slots, Registration!Create(r) PROVE RegistrationInv'
<1>1. PICK topic : topic = Registration!Topic(r)
  OBVIOUS
<1>2. Registration!At(r, "create")
  BY DEF Registration!Create
<1>3. PICK new : new = [id |-> v2 + 1, topic |-> topic, url |-> "ours"]
  OBVIOUS
<1>4. PICK answer \in Registration!Answers :
         /\ Registration!Outcome(r, Registration!Reported("created", answer))
         /\ \/ v1' = v1 \cup {new} /\ v2' = v2 + 1
            \/ v1' = v1 /\ v2' = v2 /\ answer # "done"
  BY <1>1, <1>3 DEF Registration!Create, Registration!Call
<1>5. PICK o : o = Registration!Reported("created", answer)
  OBVIOUS
<1>6. o \in {"created", "failed"} /\ (o = "created" => answer = "done")
  BY <1>5 DEF Registration!Reported
<1>7. topic \in {"create", "update"} /\ v3[r].pc = "acting" /\ Len(v3[r].outcomes) < 2
  BY <1>1, <1>2, PlannedEntry
<1>8. new \in Subscription
  BY <1>3, <1>7, Planned DEF RegistrationInv, Subscription, Registration!Topics, Registration!Urls
<1>9. v1' \subseteq Subscription /\ v2' \in Nat /\ Subscribed
  BY <1>4, <1>8 DEF RegistrationInv, Subscribed
<1>10. ASSUME o = "created" PROVE Registration!Delivered(topic)'
  <2>1. new \in v1'
    BY <1>4, <1>6, <1>10
  <2>2. new.topic = topic /\ Registration!NormaliseCallbackUrl(new.url) = "ours"
    BY <1>3 DEF Registration!NormaliseCallbackUrl
  <2> QED BY <2>1, <2>2 DEF Registration!Delivered
<1>11. o \in Outcomes
  BY <1>6 DEF Outcomes
<1> QED BY <1>1, <1>4, <1>5, <1>6, <1>7, <1>9, <1>10, <1>11, OutcomeKeeps

LEMMA UpdateKeeps ==
    ASSUME RegistrationInv, NEW r \in Slots, Registration!Update(r) PROVE RegistrationInv'
<1>1. PICK topic : topic = Registration!Topic(r)
  OBVIOUS
<1>2. Registration!At(r, "update")
  BY DEF Registration!Update
<1>3. PICK id : id = Registration!Entry(r).id
  OBVIOUS
<1>4. PICK answer \in Registration!Answers :
         /\ Registration!Outcome(r, Registration!Reported("updated", answer))
         /\ v2' = v2
         /\ \/ v1' = {IF e.id = id THEN [e EXCEPT !.url = "ours"] ELSE e : e \in v1}
            \/ v1' = v1 /\ answer # "done"
  BY <1>3 DEF Registration!Update, Registration!Call
<1>5. PICK o : o = Registration!Reported("updated", answer)
  OBVIOUS
<1>6. o \in {"updated", "failed"} /\ (o = "updated" => answer = "done")
  BY <1>5 DEF Registration!Reported
<1>7. topic \in {"create", "update"} /\ v3[r].pc = "acting" /\ Len(v3[r].outcomes) < 2
  BY <1>1, <1>2, PlannedEntry
<1>8. \A e \in v1 :
         /\ [e EXCEPT !.url = "ours"] \in Subscription
         /\ [e EXCEPT !.url = "ours"].id = e.id /\ [e EXCEPT !.url = "ours"].topic = e.topic
         /\ [e EXCEPT !.url = "ours"].url = "ours"
  BY DEF RegistrationInv, Subscription, Registration!Urls
<1>9. \A e \in v1 : \E d \in v1' :
         d.id = e.id /\ d.topic = e.topic /\ d.url = IF v1' # v1 /\ e.id = id THEN "ours" ELSE e.url
  <2>1. CASE v1' = v1
    BY <2>1
  <2>2. CASE v1' = {IF e.id = id THEN [e EXCEPT !.url = "ours"] ELSE e : e \in v1} /\ v1' # v1
    BY <1>8, <2>2
  <2> QED BY <1>4, <2>1, <2>2
<1>10. v1' \subseteq Subscription /\ v2' \in Nat /\ Subscribed
  <2>1. v1' \subseteq Subscription
    BY <1>4, <1>8 DEF RegistrationInv
  <2> QED BY <1>4, <1>9, <2>1 DEF RegistrationInv, Subscribed
<1>11. ASSUME o = "updated", ~v3[r].disturbed, ~v3[r].dryRun
       PROVE  Registration!Delivered(topic)'
  <2>1. PICK e \in v3[r].existing : e.topic = topic /\ e.id = id
    BY <1>1, <1>2, <1>3, PlannedEntry
  <2>2. Seen(e)
    BY <1>11 DEF RegistrationInv, RunOK, Truthful
  <2>3. PICK d \in v1 : d.id = id /\ d.topic = topic
    BY <1>7, <2>1, <2>2, Planned DEF Seen
  <2>4. v1' = {IF c.id = id THEN [c EXCEPT !.url = "ours"] ELSE c : c \in v1}
    BY <1>4, <1>6, <1>11
  <2>5. PICK c \in v1' : c.topic = topic /\ c.url = "ours"
    BY <1>8, <2>3, <2>4
  <2> QED BY <2>5 DEF Registration!Delivered, Registration!NormaliseCallbackUrl
<1>12. o \in Outcomes
  BY <1>6 DEF Outcomes
<1> QED BY <1>1, <1>4, <1>5, <1>6, <1>7, <1>10, <1>11, <1>12, OutcomeKeeps

LEMMA StartKeeps ==
    ASSUME RegistrationInv, NEW r \in Slots,
           \/ \E dryRun \in BOOLEAN : Registration!Start(r, dryRun)
           \/ Registration!StartFails(r) \/ Registration!Finish(r)
    PROVE  RegistrationInv'
<1>1. v1' = v1 /\ v2' = v2
  <2>1. ASSUME NEW dryRun \in BOOLEAN, Registration!Start(r, dryRun) PROVE v1' = v1 /\ v2' = v2
    BY Zenon, <2>1 DEF Registration!Start
  <2>2. Registration!StartFails(r) => v1' = v1 /\ v2' = v2
    BY DEF Registration!StartFails
  <2>3. Registration!Finish(r) => v1' = v1 /\ v2' = v2
    BY DEF Registration!Finish
  <2> QED BY <2>1, <2>2, <2>3
<1>2. v1' \subseteq Subscription /\ v2' \in Nat /\ Subscribed
  BY <1>1, SubscribedStays DEF RegistrationInv
<1>3. RunOK(v3[r])
  BY DEF RegistrationInv
<1>4. ASSUME NEW dryRun \in BOOLEAN, Registration!Start(r, dryRun) PROVE RegistrationInv'
  <2>1. PICK x : x = [Registration!Idle EXCEPT !.pc = "acting", !.dryRun = dryRun,
                         !.existing = v1, !.orphaned = Registration!Orphaned(v1)]
    OBVIOUS
  <2>2. v3' = [v3 EXCEPT ![r] = x]
    BY Zenon, <1>4, <2>1 DEF Registration!Start
  <2>3. RunShape(x) /\ x.pc = "acting" /\ x.existing = v1 /\ x.outcomes = <<>>
    BY <2>1 DEF RunShape, Registration!Idle
  <2>4. \A e \in x.existing : Seen(e)'
    BY <1>1, <2>3 DEF Seen
  <2>5. RunOK(x)'
    BY <1>1, <1>2, <2>3, <2>4 DEF RunOK, RunShape, Truthful, Subscription
  <2> QED BY <1>2, <2>2, <2>5, RunMoves
<1>5. ASSUME Registration!StartFails(r) PROVE RegistrationInv'
  <2>1. PICK x : x = [v3[r] EXCEPT !.pc = "threw"]
    OBVIOUS
  <2>2. v3' = [v3 EXCEPT ![r] = x] /\ v3[r].pc = "idle"
    BY <1>5, <2>1 DEF Registration!StartFails
  <2>3. RunShape(x) /\ x.existing = {} /\ x.outcomes = <<>>
    BY <1>3, <2>1, <2>2 DEF RunOK, RunShape
  <2>4. RunOK(x)'
    BY <2>3 DEF RunOK, RunShape, Truthful, Subscription
  <2> QED BY <1>2, <2>2, <2>4, RunMoves
<1>6. ASSUME Registration!Finish(r) PROVE RegistrationInv'
  <2>1. PICK x : x = [v3[r] EXCEPT !.pc = "done", !.existing = {}]
    OBVIOUS
  <2>2. v3' = [v3 EXCEPT ![r] = x]
    BY <1>6, <2>1 DEF Registration!Finish
  <2>3. /\ RunShape(x) /\ x.pc = "done" /\ x.existing = {} /\ x.outcomes = v3[r].outcomes
        /\ x.dryRun = v3[r].dryRun /\ x.disturbed = v3[r].disturbed
    BY <1>3, <2>1 DEF RunOK, RunShape
  <2>4. RunOK(x)
    BY <1>3, <2>3 DEF RunOK, Truthful
  <2>5. RunOK(x)'
    BY <1>2, <2>4, RunStays
  <2> QED BY <1>2, <2>2, <2>5, RunMoves
<1> QED BY <1>4, <1>5, <1>6

\* Somebody else changes a subscription: either no wanted one goes, or every run
\* that has begun is disturbed.
LEMMA StrangerKeeps ==
    ASSUME RegistrationInv, v1' \subseteq Subscription, v2' \in Nat,
           NEW topics, Registration!Disturb(topics) \/ (v3' = v3 /\ Subscribed),
           Subscribed \/ topics \cap Registration!Desired # {}
    PROVE  RegistrationInv'
<1>1. v3' = [u \in Slots |-> v3'[u]]
  BY DEF RegistrationInv, Registration!Disturb
<1>2. ASSUME NEW u \in Slots PROVE RunOK(v3[u])'
  <2>1. PICK x : x = v3[u]
    OBVIOUS
  <2>2. RunOK(x)
    BY <2>1 DEF RegistrationInv
  <2>3. PICK y : y = [x EXCEPT !.disturbed = TRUE]
    OBVIOUS
  <2>4. /\ RunShape(y) /\ y.pc = x.pc /\ y.existing = x.existing /\ y.outcomes = x.outcomes
        /\ y.disturbed
    BY <2>2, <2>3 DEF RunOK, RunShape
  <2>5. RunOK(y)'
    BY <2>2, <2>4 DEF RunOK, RunShape, Subscription
  <2>6. Subscribed => RunOK(x)'
    BY <2>2, RunStays
  <2>7. x.pc = "idle" => RunOK(x)'
    BY <2>2 DEF RunOK, RunShape, Truthful, Subscription
  <2>8. \/ v3'[u] = x /\ Subscribed
        \/ v3'[u] = x /\ x.pc = "idle"
        \/ v3'[u] = y
    BY <2>1, <2>3 DEF Registration!Disturb
  <2> QED BY <2>5, <2>6, <2>7, <2>8 DEF RunOK, RunShape, Truthful
<1> QED BY <1>1, <1>2 DEF RegistrationInv, Subscription

LEMMA StrangersKeep ==
    ASSUME RegistrationInv,
           \/ \E e \in v1 : Registration!DeleteWebhookSubscription(e)
           \/ \E e \in v1 : Registration!StrangerRepoints(e)
           \/ Registration!StrangerCreates \/ Registration!AppIsUninstalled
    PROVE  RegistrationInv'
<1>1. ASSUME NEW e \in v1, Registration!DeleteWebhookSubscription(e) PROVE RegistrationInv'
  <2>1. v1' = v1 \ {e} /\ v2' = v2 /\ Registration!Disturb({e.topic})
    BY <1>1 DEF Registration!DeleteWebhookSubscription
  <2>2. v1' \subseteq Subscription /\ v2' \in Nat
    BY <2>1 DEF RegistrationInv
  <2>3. Subscribed \/ {e.topic} \cap Registration!Desired # {}
    BY <2>1 DEF Subscribed
  <2> QED BY <2>1, <2>2, <2>3, StrangerKeeps
<1>2. ASSUME NEW e \in v1, Registration!StrangerRepoints(e) PROVE RegistrationInv'
  <2>1. PICK url \in Registration!Urls : v1' = (v1 \ {e}) \cup {[e EXCEPT !.url = url]}
    BY <1>2 DEF Registration!StrangerRepoints
  <2>2. v2' = v2 /\ Registration!Disturb({e.topic})
    BY <1>2 DEF Registration!StrangerRepoints
  <2>3. [e EXCEPT !.url = url] \in Subscription
    BY DEF RegistrationInv, Subscription
  <2>4. v1' \subseteq Subscription /\ v2' \in Nat
    BY <2>1, <2>2, <2>3 DEF RegistrationInv
  <2>5. Subscribed \/ {e.topic} \cap Registration!Desired # {}
    BY <2>1 DEF Subscribed
  <2> QED BY <2>2, <2>4, <2>5, StrangerKeeps
<1>3. ASSUME Registration!StrangerCreates PROVE RegistrationInv'
  <2>1. PICK t \in Registration!Topics, url \in Registration!Urls :
            v1' = v1 \cup {[id |-> v2 + 1, topic |-> t, url |-> url]}
    BY <1>3 DEF Registration!StrangerCreates
  <2>2. v2' = v2 + 1 /\ v3' = v3
    BY <1>3 DEF Registration!StrangerCreates
  <2>3. v1' \subseteq Subscription /\ v2' \in Nat /\ Subscribed
    BY <2>1, <2>2 DEF RegistrationInv, Subscription, Subscribed
  <2> QED BY <2>2, <2>3, StrangerKeeps
<1>4. ASSUME Registration!AppIsUninstalled PROVE RegistrationInv'
  <2>1. /\ v1' = {} /\ v2' = v2 /\ Registration!Disturb(Registration!Desired)
        /\ Registration!Desired \cap Registration!Desired # {}
    BY <1>4, Planned DEF Registration!AppIsUninstalled
  <2>2. v1' \subseteq Subscription /\ v2' \in Nat
    BY <2>1 DEF RegistrationInv
  <2> QED BY <2>1, <2>2, StrangerKeeps
<1> QED BY <1>1, <1>2, <1>3, <1>4

LEMMA NextRegistrationInv ==
    RegistrationInv /\ [Registration!RegistrationNext]_(Registration!registrationVars)
        => RegistrationInv'
<1> SUFFICES ASSUME RegistrationInv,
                    [Registration!RegistrationNext]_(Registration!registrationVars)
             PROVE  RegistrationInv'
  OBVIOUS
<1>1. ASSUME NEW r \in Slots, \E dryRun \in BOOLEAN : Registration!Start(r, dryRun)
      PROVE  RegistrationInv'
  BY <1>1, StartKeeps
<1>2. ASSUME NEW r \in Slots, Registration!StartFails(r) \/ Registration!Finish(r)
      PROVE  RegistrationInv'
  BY <1>2, StartKeeps
<1>3. ASSUME NEW r \in Slots, Registration!Keep(r) PROVE RegistrationInv'
  BY <1>3, KeepKeeps
<1>4. ASSUME NEW r \in Slots, Registration!Skip(r) \/ Registration!DryRun(r)
      PROVE  RegistrationInv'
  BY <1>4, SkipKeeps
<1>5. ASSUME NEW r \in Slots, Registration!Create(r) PROVE RegistrationInv'
  BY <1>5, CreateKeeps
<1>6. ASSUME NEW r \in Slots, Registration!Update(r) PROVE RegistrationInv'
  BY <1>6, UpdateKeeps
<1>7. CASE \/ \E e \in v1 : Registration!DeleteWebhookSubscription(e)
           \/ \E e \in v1 : Registration!StrangerRepoints(e)
           \/ Registration!StrangerCreates \/ Registration!AppIsUninstalled
  BY <1>7, StrangersKeep
<1>8. CASE UNCHANGED Registration!registrationVars
  <2>1. v1' = v1 /\ v2' = v2 /\ v3' = v3
    BY <1>8 DEF Registration!registrationVars
  <2>2. v1' \subseteq Subscription /\ v2' \in Nat /\ Subscribed
    BY <2>1, SubscribedStays DEF RegistrationInv
  <2> QED BY <2>1, <2>2, StrangerKeeps
<1> QED BY <1>1, <1>2, <1>3, <1>4, <1>5, <1>6, <1>7, <1>8 DEF Registration!RegistrationNext

\* What a registration run reports as created, updated or kept is delivered here,
\* however many runs overlap and whichever calls are refused or lose their answer,
\* unless somebody else took the subscription away (webhook.registration.ts).
THEOREM ReportedTopicsAreDelivered == Spec => []RegistrationDelivers
<1>1. Init => (service = "registration" => RegistrationInv)
  BY InitRegistrationInv DEF Init
<1>2. (service = "registration" => RegistrationInv) /\ [Next]_<<service, pool>>
          => (service = "registration" => RegistrationInv)'
  <2>1. service = "registration" /\ [Next]_<<service, pool>>
            => [Registration!RegistrationNext]_(Registration!registrationVars)
    BY DEF Next, pool, Registration!registrationVars
  <2>2. [Next]_<<service, pool>> => service' = service
    BY DEF Next
  <2> QED BY <2>1, <2>2, NextRegistrationInv
<1>3. (service = "registration" => RegistrationInv) => RegistrationDelivers
  BY DeliveredFollows DEF RegistrationDelivers
<1> QED BY <1>1, <1>2, <1>3, PTL DEF Spec

-----------------------------------------------------------------------------
(* Product, publication and stock writes: v1 are the listings, v2 the      *)
(* writers, v3 those whose product nobody else wrote to, v5 the mishaps.   *)

\* The calls of a request are made in a fixed order.
Turn(c) ==
    IF c \in {"create", "read", "check"} THEN 1
    ELSE IF c \in {"variants", "stock", "status"} THEN 2
    ELSE IF c \in {"publish", "unpublish", "addTags"} THEN 3
    ELSE IF c \in {"verify", "removeTags"} THEN 4 ELSE 5

CallNames == {"create", "variants", "publish", "unpublish", "verify", "activate", "read", "stock",
              "check", "status", "addTags", "removeTags", "price"}

Pending(todo) == {todo[i] : i \in 1..Len(todo)}

InTurn(todo) ==
    /\ todo \in Seq(CallNames)
    /\ \A i, j \in 1..Len(todo) : i < j => Turn(todo[i]) < Turn(todo[j])

LEMMA TurnsAreNumbers == \A c : Turn(c) \in 1..5
BY DEF Turn

LEMMA TurnOfEach ==
    /\ Turn("create") = 1 /\ Turn("read") = 1 /\ Turn("check") = 1
    /\ Turn("variants") = 2 /\ Turn("stock") = 2 /\ Turn("status") = 2
    /\ Turn("publish") = 3 /\ Turn("unpublish") = 3 /\ Turn("addTags") = 3
    /\ Turn("verify") = 4 /\ Turn("removeTags") = 4
    /\ Turn("activate") = 5 /\ Turn("price") = 5
BY DEF Turn

LEMMA NothingToDo == InTurn(<<>>) /\ Pending(<<>>) = {}
BY DEF InTurn, Pending

LEMMA OneToDo == ASSUME NEW c \in CallNames PROVE InTurn(<<c>>) /\ Pending(<<c>>) = {c}
<1>1. <<c>> \in Seq(CallNames) /\ Len(<<c>>) = 1 /\ <<c>>[1] = c
  OBVIOUS
<1>2. \A i \in 1..1 : i = 1
  OBVIOUS
<1> QED BY <1>1, <1>2 DEF InTurn, Pending

LEMMA MoreToDo ==
    ASSUME NEW s, NEW t, InTurn(s), InTurn(t),
           \A c \in Pending(s), d \in Pending(t) : Turn(c) < Turn(d)
    PROVE  InTurn(s \o t) /\ Pending(s \o t) = Pending(s) \cup Pending(t)
<1>1. s \in Seq(CallNames) /\ t \in Seq(CallNames)
  BY DEF InTurn
<1>2. PICK m, n : m = Len(s) /\ n = Len(t)
  OBVIOUS
<1>3. m \in Nat /\ n \in Nat
  BY <1>1, <1>2
<1>4. PICK u : u = s \o t
  OBVIOUS
<1>5. /\ u \in Seq(CallNames) /\ Len(u) = m + n
      /\ \A i \in 1..m : u[i] = s[i]
      /\ \A i \in 1..n : u[m + i] = t[i]
  BY <1>1, <1>2, <1>3, <1>4
<1>6. ASSUME NEW i \in 1..Len(u)
      PROVE  \/ i \in 1..m /\ u[i] = s[i] /\ s[i] \in Pending(s)
             \/ i - m \in 1..n /\ u[i] = t[i - m] /\ t[i - m] \in Pending(t)
  <2>1. CASE i <= m
    BY <1>2, <1>3, <1>5, <2>1 DEF Pending
  <2>2. CASE ~(i <= m)
    <3>1. i - m \in 1..n /\ m + (i - m) = i
      BY <1>3, <1>5, <2>2
    <3> QED BY <1>2, <1>5, <3>1 DEF Pending
  <2> QED BY <2>1, <2>2
<1>7. ASSUME NEW i \in 1..Len(u), NEW j \in 1..Len(u), i < j PROVE Turn(u[i]) < Turn(u[j])
  <2>1. CASE i \in 1..m /\ j \in 1..m
    BY <1>2, <1>5, <1>7, <2>1 DEF InTurn
  <2>2. CASE i \in 1..m /\ j \notin 1..m
    <3>1. u[i] = s[i] /\ s[i] \in Pending(s)
      BY <1>2, <1>5, <2>2 DEF Pending
    <3>2. u[j] = t[j - m] /\ t[j - m] \in Pending(t)
      BY <1>6, <2>2
    <3> QED BY <3>1, <3>2
  <2>3. CASE i \notin 1..m
    <3>1. i - m \in 1..n /\ u[i] = t[i - m]
      BY <1>6, <2>3
    <3>2. j - m \in 1..n /\ u[j] = t[j - m] /\ i - m < j - m
      BY <1>3, <1>5, <1>6, <1>7, <2>3
    <3> QED BY <1>2, <3>1, <3>2 DEF InTurn
  <2> QED BY <2>1, <2>2, <2>3
<1>8. Pending(u) \subseteq Pending(s) \cup Pending(t)
  BY <1>6 DEF Pending
<1>9. Pending(s) \subseteq Pending(u)
  <2>1. \A i \in 1..m : i \in 1..Len(u)
    BY <1>3, <1>5
  <2> QED BY <1>2, <1>5, <2>1 DEF Pending
<1>10. Pending(t) \subseteq Pending(u)
  <2>1. \A i \in 1..n : m + i \in 1..Len(u)
    BY <1>3, <1>5
  <2> QED BY <1>2, <1>5, <2>1 DEF Pending
<1> QED BY <1>4, <1>5, <1>7, <1>8, <1>9, <1>10 DEF InTurn

\* The next call comes before all others, and they are left.
LEMMA NextToDo ==
    ASSUME NEW todo, InTurn(todo), todo # <<>>, NEW c, c = Head(todo)
    PROVE  /\ c \in CallNames /\ c \in Pending(todo)
           /\ InTurn(Tail(todo)) /\ Pending(Tail(todo)) = Pending(todo) \ {c}
           /\ \A d \in Pending(todo) : d # c => Turn(c) < Turn(d)
<1>1. todo \in Seq(CallNames)
  BY DEF InTurn
<1>2. PICK n : n = Len(todo)
  OBVIOUS
<1>3. n \in Nat \ {0} /\ c = todo[1]
  BY <1>1, <1>2
<1>4. PICK rest : rest = Tail(todo)
  OBVIOUS
<1>5. rest \in Seq(CallNames) /\ Len(rest) = n - 1 /\ \A i \in 1..n - 1 : rest[i] = todo[i + 1]
  BY <1>1, <1>2, <1>3, <1>4
<1>6. \A i \in 1..n - 1 : i + 1 \in 1..n /\ 1 < i + 1
  BY <1>3
<1>7. \A i \in 1..n : i = 1 \/ (i - 1 \in 1..n - 1 /\ (i - 1) + 1 = i)
  BY <1>3
<1>8. 1 \in 1..n
  BY <1>3
<1>9. \A i, j \in 1..n : i < j => Turn(todo[i]) < Turn(todo[j])
  BY <1>2 DEF InTurn
<1>10. \A i \in 1..n - 1 : Turn(c) < Turn(rest[i])
  BY <1>3, <1>5, <1>6, <1>8, <1>9
<1>11. c \notin Pending(rest)
  BY <1>5, <1>10, TurnsAreNumbers DEF Pending
<1>12. Pending(todo) = {c} \cup Pending(rest)
  <2>1. ASSUME NEW d \in Pending(todo) PROVE d = c \/ d \in Pending(rest)
    <3>1. PICK i \in 1..n : d = todo[i]
      BY <1>2, <2>1 DEF Pending
    <3>2. CASE i = 1
      BY <1>3, <3>1, <3>2
    <3>3. CASE i - 1 \in 1..n - 1 /\ (i - 1) + 1 = i
      <4>1. d = rest[i - 1]
        BY <1>5, <3>1, <3>3
      <4>2. Len(rest) = n - 1
        BY <1>5
      <4> QED BY <3>3, <4>1, <4>2 DEF Pending
    <3> QED BY <1>7, <3>2, <3>3
  <2>2. \A d \in Pending(rest) : d \in Pending(todo)
    BY <1>2, <1>5, <1>6 DEF Pending
  <2>3. c \in Pending(todo)
    BY <1>2, <1>3, <1>8 DEF Pending
  <2> QED BY <2>1, <2>2, <2>3
<1>13. InTurn(rest)
  <2>1. \A i, j \in 1..n - 1 : i < j => i + 1 < j + 1
    BY <1>3
  <2> QED BY <1>5, <1>6, <1>9, <2>1 DEF InTurn
<1>14. \A d \in Pending(rest) : Turn(c) < Turn(d)
  BY <1>5, <1>10 DEF Pending
<1>15. c \in CallNames
  BY <1>1, <1>2, <1>3, <1>8
<1> QED BY <1>4, <1>11, <1>12, <1>13, <1>14, <1>15

LEMMA NothingPending == ASSUME NEW todo, InTurn(todo) PROVE todo = <<>> <=> Pending(todo) = {}
<1>1. todo # <<>> => Pending(todo) # {}
  BY NextToDo
<1> QED BY <1>1, NothingToDo

\* What calls a request of a kind may make
Calls(kind) ==
    IF kind = "create" THEN {"create", "variants", "publish", "verify", "activate"}
    ELSE IF kind = "edit" THEN {"check", "status", "addTags", "removeTags", "price"}
    ELSE IF kind = "stock" THEN {"read", "stock"}
    ELSE {kind, "verify"}

\* The calls that are left are those its operator asked for.
Asked(x) ==
    LET P == Pending(x.todo)
        edit == x.body.edit
    IN  /\ x.p \in Listings
        /\ x.body.kind \in {"create", "publish", "unpublish", "edit", "stock"}
        /\ P \subseteq Calls(x.body.kind)
        /\ P # {} => x.report = "none" /\ x.visible = FALSE
        /\ x.body.kind = "create" =>
              /\ Writes!ValidateNewVariants(x.body.form) /\ x.body.targets = {"online"}
              /\ "create" \in P =>
                    "variants" \in P /\ (P \cap {"verify", "activate"} # {} => "publish" \in P)
        /\ x.body.kind \in {"publish", "unpublish"} /\ P # {} => "verify" \in P
        /\ x.body.kind = "stock" /\ P # {} => "stock" \in P
        /\ x.body.kind = "edit" =>
              /\ "check" \in P =>
                    /\ edit.status # "any" => "status" \in P
                    /\ edit.add # {} => "addTags" \in P
                    /\ edit.remove # {} => "removeTags" \in P
                    /\ edit.price # -1 => "price" \in P
              /\ "addTags" \in P /\ edit.remove # {} => "removeTags" \in P

Request(x) ==
    /\ x = [p |-> x.p, todo |-> x.todo, body |-> x.body, report |-> x.report,
            visible |-> x.visible, unheard |-> x.unheard]
    /\ InTurn(x.todo)
    /\ x.p = -1 => x.todo = <<>>
    /\ x.p # -1 => Asked(x)

\* What holds of the product y of a request that is the only one to write to it,
\* after m mishaps: the calls that were made took effect.
Holds(x, y, m) ==
    LET P == Pending(x.todo)
        body == x.body
        edit == x.body.edit
        going == P # {} \/ x.report = "success"
    IN  /\ x.visible = TRUE => y.status = "ACTIVE" /\ "online" \in y.channels
        /\ body.kind = "create" =>
              /\ x.report \in {"none", "success"} \/ m # 0 \/ body.form.options = {}
              /\ going /\ "variants" \notin P => y.price = body.price
              /\ y.status = "ACTIVE" => y.price = body.price
              /\ P # {} => y.status # "ACTIVE"
              /\ x.report = "partial" /\ y.status = "ACTIVE" => x.unheard = "activate"
              /\ P \cap {"verify", "activate"} # {} /\ "publish" \notin P => "online" \in y.channels
        /\ body.kind = "publish" /\ x.report = "success" => body.targets \subseteq y.channels
        /\ body.kind = "unpublish" /\ x.report = "success" => body.targets \cap y.channels = {}
        /\ body.kind = "stock" =>
              /\ P # {} /\ "read" \notin P =>
                    /\ body.expected \in {-1, y.stock}
                    /\ body.confirm \/ body.to - y.stock \in -Limit..Limit
              /\ x.report = "success" => y.stock = body.to
        /\ body.kind = "edit" /\ going =>
              /\ "status" \notin P => edit.status \in {"any", y.status}
              /\ "price" \notin P => edit.price \in {-1, y.price}
              /\ "addTags" \notin P => edit.add \ edit.remove \subseteq y.tags
              /\ "removeTags" \notin P => edit.remove \cap y.tags = {}
              /\ P # {} /\ edit.expectedPrice # -1 /\ "check" \notin P
                    => y.price = edit.expectedPrice
              /\ P # {} /\ edit.expectedStatus # "any" /\ "check" \notin P
                    => y.status = edit.expectedStatus
                       \/ ("status" \notin P /\ y.status = edit.status)

Product(y) ==
    y = [status |-> y.status, price |-> y.price, channels |-> y.channels, tags |-> y.tags,
         stock |-> y.stock]

WritesInv ==
    /\ v1 = [p \in Listings |-> v1[p]] /\ \A p \in Listings : Product(v1[p])
    /\ v2 = [w \in Slots |-> v2[w]] /\ \A w \in Slots : Request(v2[w])
    /\ v3 \subseteq Slots /\ v5 \in Nat
    /\ \A w \in v3 : v2[w].p # -1 /\ Holds(v2[w], v1[v2[w].p], v5)

-----------------------------------------------------------------------------
\* The request after the answer to its next call, which ends it unless it is "ok"
Goes(x, outcome, z) ==
    /\ z = [p |-> x.p, todo |-> z.todo, body |-> x.body, report |-> z.report,
            visible |-> z.visible, unheard |-> z.unheard]
    /\ InTurn(z.todo)
    /\ outcome = "lost" => z.unheard = Head(x.todo)
    /\ outcome = "ok" =>
          /\ Pending(z.todo) = Pending(x.todo) \ {Head(x.todo)}
          /\ z.report = (IF Pending(z.todo) = {} THEN "success" ELSE "none")
          /\ z.visible = (IF Head(x.todo) = "activate" THEN TRUE ELSE FALSE)
    /\ outcome # "ok" =>
          /\ Pending(z.todo) = {} /\ z.report \in {"partial", "error"}
          /\ z.visible = FALSE

\* The call c of the request x is answered.
Answered(x, c, outcome, z) ==
    Request(x) /\ x.todo # <<>> /\ c = Head(x.todo) /\ Goes(x, outcome, z)

LEMMA CallsInTurn ==
    ASSUME NEW x, Request(x), x.todo # <<>>, NEW c, c = Head(x.todo)
    PROVE  LET P == Pending(x.todo) IN
           /\ c \in P /\ Asked(x) /\ x.p \in Listings
           /\ c = "variants" => "create" \notin P
           /\ c = "publish" => P \cap {"create", "variants"} = {}
           /\ c = "verify" => P \cap {"create", "variants", "publish", "unpublish"} = {}
           /\ c = "activate" => P \cap {"create", "variants", "publish", "verify"} = {}
           /\ c = "stock" => "read" \notin P
           /\ c = "status" => "check" \notin P
           /\ c = "addTags" => P \cap {"check", "status"} = {}
           /\ c = "removeTags" => P \cap {"check", "status", "addTags"} = {}
           /\ c = "price" => P \cap {"check", "status", "addTags", "removeTags"} = {}
<1>1. InTurn(x.todo) /\ Asked(x)
  BY DEF Request
<1>2. c \in Pending(x.todo) /\ \A d \in Pending(x.todo) : d # c => Turn(c) < Turn(d)
  BY <1>1, NextToDo
<1>3. x.p \in Listings
  BY <1>1 DEF Asked
<1> QED BY <1>1, <1>2, <1>3, TurnOfEach

LEMMA AnsweredIsAsked ==
    ASSUME NEW x, NEW c, NEW outcome, NEW z, Answered(x, c, outcome, z)
    PROVE  Request(z) /\ z.p = x.p /\ z.body = x.body
<1>1. PICK P : P = Pending(x.todo)
  OBVIOUS
<1>2. PICK Q : Q = Pending(z.todo)
  OBVIOUS
<1>3. Q \subseteq P /\ (Q # {} => outcome = "ok" /\ Q = P \ {c})
  BY <1>1, <1>2 DEF Answered, Goes
<1>4. c \in P /\ Asked(x) /\ x.p \in Listings
  BY <1>1, CallsInTurn DEF Answered
<1>5. z.p = x.p /\ z.body = x.body /\ InTurn(z.todo)
  BY DEF Answered, Goes
<1>6. Q # {} => z.report = "none" /\ z.visible = FALSE
  <2>1. ASSUME Q # {} PROVE c # "activate"
    <3>1. CASE c = "activate"
      <4>1. P \cap {"create", "variants", "publish", "verify"} = {}
        BY <1>1, <3>1, CallsInTurn DEF Answered
      <4>2. x.body.kind = "create"
        BY <1>1, <1>4, <3>1 DEF Asked, Calls
      <4>3. P \subseteq {"create", "variants", "publish", "verify", "activate"}
        BY <1>1, <1>4, <4>2 DEF Asked, Calls
      <4> QED BY <1>3, <2>1, <3>1, <4>1, <4>3
    <3> QED BY <3>1
  <2>2. ASSUME Q # {} PROVE z.report = "none"
            /\ z.visible = (IF c = "activate" THEN TRUE ELSE FALSE)
    BY <1>2, <1>3, <2>2 DEF Answered, Goes
  <2> QED BY <2>1, <2>2
<1>7. Asked(z)
  <2>1. x.body.kind = "create" /\ "create" \in Q =>
            "variants" \in Q /\ (Q \cap {"verify", "activate"} # {} => "publish" \in Q)
    <3>1. c = "variants" => "create" \notin P
      BY <1>1, CallsInTurn DEF Answered
    <3>2. c = "publish" => P \cap {"create", "variants"} = {}
      BY <1>1, CallsInTurn DEF Answered
    <3> QED BY <1>1, <1>3, <1>4, <3>1, <3>2 DEF Asked
  <2>2. x.body.kind \in {"publish", "unpublish"} /\ Q # {} => "verify" \in Q
    <3>1. c = "verify" => P \cap {"create", "variants", "publish", "unpublish"} = {}
      BY <1>1, CallsInTurn DEF Answered
    <3>2. x.body.kind \in {"publish", "unpublish"} => P \subseteq {"publish", "unpublish", "verify"}
      BY <1>1, <1>4 DEF Asked, Calls
    <3> QED BY <1>1, <1>3, <1>4, <3>1, <3>2 DEF Asked
  <2>3. x.body.kind = "stock" /\ Q # {} => "stock" \in Q
    <3>1. c = "stock" => "read" \notin P
      BY <1>1, CallsInTurn DEF Answered
    <3> QED BY <1>1, <1>3, <1>4, <3>1 DEF Asked, Calls
  <2>4. x.body.kind = "edit" =>
           "check" \notin Q /\ ("addTags" \in Q /\ x.body.edit.remove # {} => "removeTags" \in Q)
    <3>1. ASSUME x.body.kind = "edit"
          PROVE  c \in {"check", "status", "addTags", "removeTags", "price"}
      BY <1>1, <1>4, <3>1 DEF Asked, Calls
    <3>2. /\ c = "status" => "check" \notin P
          /\ c = "addTags" => P \cap {"check", "status"} = {}
          /\ c = "removeTags" => P \cap {"check", "status", "addTags"} = {}
          /\ c = "price" => P \cap {"check", "status", "addTags", "removeTags"} = {}
      BY <1>1, CallsInTurn DEF Answered
    <3> QED BY <1>1, <1>3, <1>4, <3>1, <3>2 DEF Asked
  <2>5. x.p = z.p /\ Q \subseteq Calls(x.body.kind)
    BY <1>1, <1>3, <1>4, <1>5 DEF Asked
  <2>6. /\ x.body.kind \in {"create", "publish", "unpublish", "edit", "stock"}
        /\ x.body.kind = "create" =>
              Writes!ValidateNewVariants(x.body.form) /\ x.body.targets = {"online"}
    BY <1>4 DEF Asked
  <2> QED BY <1>2, <1>4, <1>5, <1>6, <2>1, <2>2, <2>3, <2>4, <2>5, <2>6 DEF Asked
<1> QED BY <1>4, <1>5, <1>7, NoneAssumption DEF Request, Answered, Goes

-----------------------------------------------------------------------------
(* What an answer says holds afterwards.                                   *)

LEMMA HoldsLater ==
    ASSUME NEW x, NEW y, NEW m, NEW n, Holds(x, y, m), m # 0 => n # 0
    PROVE  Holds(x, y, n)
BY DEF Holds

LEMMA Success ==
    ASSUME NEW x, NEW c, NEW outcome, NEW z, Answered(x, c, outcome, z), outcome = "ok",
           NEW P, P = Pending(x.todo), NEW Q, Q = Pending(z.todo)
    PROVE  /\ Q = P \ {c} /\ z.body = x.body
           /\ (Q = {} => z.report = "success") /\ (Q # {} => z.report = "none")
<1>1. c = Head(x.todo) /\ Goes(x, outcome, z)
  BY DEF Answered
<1>2. z.body = x.body
  BY <1>1 DEF Goes
<1>3. Q = P \ {c} /\ z.report = (IF Q = {} THEN "success" ELSE "none")
  BY <1>1 DEF Goes
<1> QED BY <1>2, <1>3

\* Only the answer to an activation makes a create report its product visible.
LEMMA NotYetVisible ==
    ASSUME NEW x, NEW c, NEW outcome, NEW z, Answered(x, c, outcome, z), c # "activate"
    PROVE  z.visible # TRUE
<1>1. c = Head(x.todo) /\ Goes(x, outcome, z)
  BY DEF Answered
<1>2. outcome = "ok" => z.visible = (IF c = "activate" THEN TRUE ELSE FALSE)
  BY Zenon, <1>1 DEF Goes
<1>3. outcome # "ok" => z.visible = FALSE
  BY <1>1 DEF Goes
<1> QED BY <1>2, <1>3

\* A call that was not made, or of which nothing is known: the request ends.
LEMMA RefusalHolds ==
    ASSUME NEW x, NEW c, NEW outcome, NEW z, Answered(x, c, outcome, z), outcome # "ok",
           NEW y, NEW n, x.body.kind = "create" => n # 0 \/ x.body.form.options = {},
           x.body.kind = "create" /\ y.status = "ACTIVE" =>
               y.price = x.body.price /\ c = "activate" /\ outcome = "lost"
    PROVE  Holds(z, y, n)
<1>1. z.body = x.body /\ Pending(z.todo) = {} /\ z.report \in {"partial", "error"}
          /\ z.visible = FALSE /\ (outcome = "lost" => z.unheard = c)
  BY DEF Answered, Goes
<1> QED BY <1>1 DEF Holds

\* The product a create makes is a draft at no price and in no channel.
LEMMA CreateHolds ==
    ASSUME NEW x, NEW outcome, NEW z, Answered(x, "create", outcome, z),
           NEW y, NEW m, NEW n, Holds(x, y, m), m # 0 \/ outcome # "ok" => n # 0,
           NEW t, t.status = "DRAFT"
    PROVE  Holds(z, t, n)
<1>1. PICK P : P = Pending(x.todo)
  OBVIOUS
<1>2. "create" \in P /\ Asked(x)
  BY <1>1, CallsInTurn DEF Answered
<1>3. x.body.kind = "create"
  BY <1>1, <1>2 DEF Asked, Calls
<1>4. CASE outcome = "ok"
  <2>1. PICK Q : Q = Pending(z.todo)
    OBVIOUS
  <2>2. Q = P \ {"create"} /\ (Q = {} => z.report = "success") /\ (Q # {} => z.report = "none")
        /\ z.body = x.body
    BY <1>1, <1>4, <2>1, Success
  <2>3. "variants" \in Q /\ (Q \cap {"verify", "activate"} # {} => "publish" \in Q)
    BY <1>1, <1>2, <1>3, <2>2 DEF Asked
  <2>4. z.report = "none"
    BY <2>2, <2>3
  <2> QED BY <1>3, <2>1, <2>2, <2>3, <2>4, NotYetVisible DEF Holds
<1>5. CASE outcome # "ok"
  BY <1>3, <1>5, RefusalHolds
<1> QED BY <1>4, <1>5

\* The variants give the product its price.
LEMMA VariantsHold ==
    ASSUME NEW x, NEW outcome, NEW z, Answered(x, "variants", outcome, z),
           NEW y, NEW m, NEW n, Holds(x, y, m), m # 0 \/ outcome # "ok" => n # 0,
           NEW t, t.price = x.body.price, t.status = y.status, t.channels = y.channels
    PROVE  Holds(z, t, n)
<1>1. PICK P : P = Pending(x.todo)
  OBVIOUS
<1>2. "variants" \in P /\ Asked(x)
  BY <1>1, CallsInTurn DEF Answered
<1>3. x.body.kind = "create" /\ y.status # "ACTIVE"
  BY <1>1, <1>2 DEF Asked, Calls, Holds
<1>4. CASE outcome = "ok"
  <2>1. PICK Q : Q = Pending(z.todo)
    OBVIOUS
  <2>2. Q = P \ {"variants"} /\ (Q = {} => z.report = "success") /\ (Q # {} => z.report = "none")
        /\ z.body = x.body
    BY <1>1, <1>4, <2>1, Success
  <2>4. Q \cap {"verify", "activate"} # {} /\ "publish" \notin Q => "online" \in y.channels
    BY <1>1, <1>3, <2>2 DEF Holds
  <2> QED BY <1>3, <2>1, <2>2, <2>4, NotYetVisible DEF Holds
<1>5. CASE outcome # "ok"
  BY <1>3, <1>5, RefusalHolds
<1> QED BY <1>4, <1>5

\* Only a product at its price and in the Online Store is activated.
LEMMA ActivationHolds ==
    ASSUME NEW x, NEW outcome \in {"ok", "lost"}, NEW z, Answered(x, "activate", outcome, z),
           NEW y, NEW m, NEW n, Holds(x, y, m), m # 0 \/ outcome # "ok" => n # 0,
           NEW t, t.price = y.price, t.status = "ACTIVE", t.channels = y.channels
    PROVE  Holds(z, t, n)
<1>1. PICK P : P = Pending(x.todo)
  OBVIOUS
<1>2. "activate" \in P /\ Asked(x) /\ P \cap {"create", "variants", "publish", "verify"} = {}
  BY <1>1, CallsInTurn DEF Answered
<1>3. x.body.kind = "create" /\ P \subseteq {"create", "variants", "publish", "verify", "activate"}
  BY <1>1, <1>2 DEF Asked, Calls
<1>4. y.price = x.body.price /\ "online" \in y.channels
  BY <1>1, <1>2, <1>3 DEF Holds
<1>5. CASE outcome = "ok"
  <2>1. Pending(z.todo) = {} /\ z.report = "success" /\ z.body = x.body
    <3>1. /\ Pending(z.todo) = P \ {"activate"} /\ z.body = x.body
          /\ Pending(z.todo) = {} => z.report = "success"
      BY <1>1, <1>5, Success
    <3>2. P = {"activate"}
      BY <1>2, <1>3
    <3> QED BY <3>1, <3>2
  <2> QED BY <1>3, <1>4, <2>1 DEF Holds
<1>6. CASE outcome # "ok"
  BY <1>3, <1>4, <1>6, RefusalHolds
<1> QED BY <1>5, <1>6

LEMMA PublicationHolds ==
    ASSUME NEW x, NEW outcome, NEW z, Answered(x, "publish", outcome, z),
           NEW y, NEW m, NEW n, Holds(x, y, m), m # 0 \/ outcome # "ok" => n # 0,
           NEW t, t.price = y.price, t.status = y.status,
           t.channels = y.channels \cup x.body.targets
    PROVE  Holds(z, t, n)
<1>1. PICK P : P = Pending(x.todo)
  OBVIOUS
<1>2. "publish" \in P /\ Asked(x) /\ P \cap {"create", "variants"} = {}
  BY <1>1, CallsInTurn DEF Answered
<1>3. x.body.kind \in {"create", "publish"}
  BY <1>1, <1>2 DEF Asked, Calls
<1>4. x.body.kind = "create" =>
         y.status # "ACTIVE" /\ y.price = x.body.price /\ "online" \in t.channels
  BY <1>1, <1>2 DEF Holds, Asked
<1>5. CASE outcome = "ok"
  <2>1. PICK Q : Q = Pending(z.todo)
    OBVIOUS
  <2>2. Q = P \ {"publish"} /\ (Q = {} => z.report = "success") /\ (Q # {} => z.report = "none")
        /\ z.body = x.body
    BY <1>1, <1>5, <2>1, Success
  <2>3. x.body.kind = "publish" => z.report = "none"
    BY <1>1, <1>2, <2>2 DEF Asked
  <2> QED BY <1>3, <1>4, <2>1, <2>2, <2>3, NotYetVisible DEF Holds
<1>6. CASE outcome # "ok"
  BY <1>4, <1>6, RefusalHolds
<1> QED BY <1>5, <1>6

LEMMA UnpublicationHolds ==
    ASSUME NEW x, NEW outcome, NEW z, Answered(x, "unpublish", outcome, z), NEW n, NEW t
    PROVE  Holds(z, t, n)
<1>1. PICK P : P = Pending(x.todo)
  OBVIOUS
<1>2. "unpublish" \in P /\ Asked(x)
  BY <1>1, CallsInTurn DEF Answered
<1>3. x.body.kind = "unpublish"
  BY <1>1, <1>2 DEF Asked, Calls
<1>4. CASE outcome = "ok"
  <2>1. PICK Q : Q = Pending(z.todo)
    OBVIOUS
  <2>2. Q = P \ {"unpublish"} /\ (Q # {} => z.report = "none")
        /\ z.body = x.body
    BY <1>1, <1>4, <2>1, Success
  <2>3. z.report = "none"
    BY <1>1, <1>2, <1>3, <2>2 DEF Asked
  <2> QED BY <1>3, <2>2, <2>3, NotYetVisible DEF Holds
<1>5. CASE outcome # "ok"
  BY <1>3, <1>5, RefusalHolds
<1> QED BY <1>4, <1>5

\* A publication is a success once the product was read in every channel asked for.
LEMMA VerificationHolds ==
    ASSUME NEW x, NEW z, Answered(x, "verify", "ok", z),
           NEW y, NEW m, NEW n, Holds(x, y, m), m # 0 => n # 0,
           x.body.kind = "unpublish" => x.body.targets \cap y.channels = {},
           x.body.kind # "unpublish" => x.body.targets \subseteq y.channels
    PROVE  Holds(z, y, n)
<1>1. PICK P : P = Pending(x.todo)
  OBVIOUS
<1>2. "verify" \in P /\ Asked(x) /\ P \cap {"create", "variants", "publish", "unpublish"} = {}
  BY <1>1, CallsInTurn DEF Answered
<1>3. x.body.kind \in {"create", "publish", "unpublish"}
  BY <1>1, <1>2 DEF Asked, Calls
<1>4. PICK Q : Q = Pending(z.todo)
  OBVIOUS
<1>5. Q = P \ {"verify"} /\ (Q = {} => z.report = "success") /\ (Q # {} => z.report = "none")
      /\ z.body = x.body
  BY <1>1, <1>4, Success
<1>6. CASE x.body.kind = "create"
  <2>1. y.status # "ACTIVE" /\ y.price = x.body.price /\ "online" \in y.channels
        /\ (x.report \in {"none", "success"} \/ m # 0 \/ x.body.form.options = {})
    BY <1>1, <1>2, <1>6 DEF Holds
  <2> QED BY <1>4, <1>5, <1>6, <2>1, NotYetVisible DEF Holds
<1>7. CASE x.body.kind \in {"publish", "unpublish"}
  BY <1>4, <1>5, <1>7, NotYetVisible DEF Holds
<1> QED BY <1>3, <1>6, <1>7

\* The product did not change under the operator's page.
LEMMA CheckHolds ==
    ASSUME NEW x, NEW z, Answered(x, "check", "ok", z), NEW y, NEW n,
           x.body.edit.expectedPrice \in {-1, y.price},
           x.body.edit.expectedStatus \in {"any", y.status}
    PROVE  Holds(z, y, n)
<1>1. PICK P : P = Pending(x.todo)
  OBVIOUS
<1>2. "check" \in P /\ Asked(x)
  BY <1>1, CallsInTurn DEF Answered
<1>3. x.body.kind = "edit"
  BY <1>1, <1>2 DEF Asked, Calls
<1>4. PICK Q : Q = Pending(z.todo)
  OBVIOUS
<1>5. Q = P \ {"check"} /\ z.body = x.body
  BY <1>1, <1>4, Success
<1>6. LET edit == x.body.edit
      IN  /\ "status" \notin Q => edit.status = "any"
          /\ "addTags" \notin Q => edit.add = {}
          /\ "removeTags" \notin Q => edit.remove = {}
          /\ "price" \notin Q => edit.price = -1
  BY <1>1, <1>2, <1>3, <1>5 DEF Asked
<1> QED BY <1>3, <1>4, <1>5, <1>6, NotYetVisible DEF Holds

LEMMA EditHolds ==
    ASSUME NEW x, NEW c, NEW outcome, NEW z, Answered(x, c, outcome, z),
           NEW y, NEW m, NEW n, Holds(x, y, m), NEW t,
           \/ /\ c = "status" /\ t.status = x.body.edit.status
              /\ t.price = y.price /\ t.tags = y.tags
           \/ /\ c = "addTags" /\ t.tags = y.tags \cup x.body.edit.add
              /\ t.price = y.price /\ t.status = y.status
           \/ /\ c = "removeTags" /\ t.tags = y.tags \ x.body.edit.remove
              /\ t.price = y.price /\ t.status = y.status
           \/ /\ c = "price" /\ t.price = x.body.edit.price
              /\ t.tags = y.tags /\ t.status = y.status
    PROVE  Holds(z, t, n)
<1>1. PICK P : P = Pending(x.todo)
  OBVIOUS
<1>2. /\ c \in P /\ Asked(x)
      /\ c = "addTags" => P \cap {"check", "status"} = {}
      /\ c = "removeTags" => P \cap {"check", "status", "addTags"} = {}
      /\ c = "price" => P \cap {"check", "status", "addTags", "removeTags"} = {}
  BY <1>1, CallsInTurn DEF Answered
<1>3. x.body.kind = "edit"
  BY <1>1, <1>2 DEF Asked, Calls
<1>4. CASE outcome = "ok"
  <2>1. PICK Q : Q = Pending(z.todo)
    OBVIOUS
  <2>2. Q = P \ {c} /\ z.body = x.body
    BY <1>1, <1>4, <2>1, Success
  <2>3. PICK edit : edit = x.body.edit
    OBVIOUS
  <2>4. /\ "status" \notin P => edit.status \in {"any", y.status}
        /\ "price" \notin P => edit.price \in {-1, y.price}
        /\ "addTags" \notin P => edit.add \ edit.remove \subseteq y.tags
        /\ "removeTags" \notin P => edit.remove \cap y.tags = {}
        /\ edit.expectedPrice # -1 /\ "check" \notin P => y.price = edit.expectedPrice
        /\ edit.expectedStatus # "any" /\ "check" \notin P
              => y.status = edit.expectedStatus \/ ("status" \notin P /\ y.status = edit.status)
        /\ "addTags" \in P /\ edit.remove # {} => "removeTags" \in P
        /\ "check" \in P => (edit.add # {} => "addTags" \in P)
             /\ (edit.remove # {} => "removeTags" \in P)
    BY <1>1, <1>2, <1>3, <2>3 DEF Holds, Asked
  <2>5. "status" \notin Q => edit.status \in {"any", t.status}
    BY <1>2, <2>2, <2>3, <2>4
  <2>6. "price" \notin Q => edit.price \in {-1, t.price}
    BY <1>2, <2>2, <2>3, <2>4
  <2>7. "addTags" \notin Q => edit.add \ edit.remove \subseteq t.tags
    BY <1>2, <2>2, <2>3, <2>4
  <2>8. "removeTags" \notin Q => edit.remove \cap t.tags = {}
    BY <1>2, <2>2, <2>3, <2>4
  <2>9. Q # {} /\ edit.expectedPrice # -1 /\ "check" \notin Q => t.price = edit.expectedPrice
    <3>1. P \subseteq {"check", "status", "addTags", "removeTags", "price"}
      BY <1>1, <1>2, <1>3 DEF Asked, Calls
    <3>2. CASE c = "price"
      BY <1>2, <2>2, <3>1, <3>2
    <3>3. CASE c # "price"
      BY <1>2, <2>2, <2>3, <2>4, <3>3
    <3> QED BY <3>2, <3>3
  <2>10. Q # {} /\ edit.expectedStatus # "any" /\ "check" \notin Q
            => t.status = edit.expectedStatus \/ ("status" \notin Q /\ t.status = edit.status)
    BY <1>2, <1>3, <2>2, <2>3, <2>4
  <2> QED BY <1>3, <2>1, <2>2, <2>3, <2>5, <2>6, <2>7, <2>8, <2>9, <2>10, NotYetVisible DEF Holds
<1>5. CASE outcome # "ok"
  BY <1>3, <1>5, RefusalHolds
<1> QED BY <1>4, <1>5

LEMMA ReadHolds ==
    ASSUME NEW x, NEW outcome, NEW z, Answered(x, "read", outcome, z), outcome = "ok", NEW y, NEW n,
           x.body.expected \in {-1, y.stock},
           x.body.confirm \/ x.body.to - y.stock \in -Limit..Limit
    PROVE  Holds(z, y, n)
<1>1. PICK P : P = Pending(x.todo)
  OBVIOUS
<1>2. "read" \in P /\ Asked(x)
  BY <1>1, CallsInTurn DEF Answered
<1>3. x.body.kind = "stock"
  BY <1>1, <1>2 DEF Asked, Calls
<1>4. z.body = x.body /\ z.report = "none"
  <2>1. PICK Q : Q = Pending(z.todo)
    OBVIOUS
  <2>2. Q = P \ {"read"} /\ z.body = x.body /\ (Q # {} => z.report = "none")
    BY <1>1, <2>1, Success
  <2>3. "stock" \in P
    BY <1>1, <1>2, <1>3 DEF Asked
  <2> QED BY <2>2, <2>3
<1> QED BY <1>3, <1>4, NotYetVisible DEF Holds

LEMMA StockHolds ==
    ASSUME NEW x, NEW outcome, NEW z, Answered(x, "stock", outcome, z), NEW n,
           NEW t, t.stock = x.body.to
    PROVE  Holds(z, t, n)
<1>1. PICK P : P = Pending(x.todo)
  OBVIOUS
<1>2. "stock" \in P /\ Asked(x) /\ "read" \notin P
  BY <1>1, CallsInTurn DEF Answered
<1>3. x.body.kind = "stock" /\ P \subseteq {"read", "stock"}
  BY <1>1, <1>2 DEF Asked, Calls
<1>4. P = {"stock"}
  BY <1>2, <1>3
<1>5. CASE outcome = "ok"
  <2>1. PICK Q : Q = Pending(z.todo)
    OBVIOUS
  <2>2. Q = P \ {"stock"} /\ z.body = x.body
    BY <1>1, <1>5, <2>1, Success
  <2> QED BY <1>3, <1>4, <2>1, <2>2, NotYetVisible DEF Holds
<1>6. CASE outcome # "ok"
  BY <1>3, <1>6, RefusalHolds
<1> QED BY <1>5, <1>6

-----------------------------------------------------------------------------
(* A request moves.                                                        *)

\* A request that writes to a product makes all others on it unsure.
LEMMA RequestMoves ==
    ASSUME WritesInv, NEW w \in Slots, NEW p \in Listings,
           NEW z, Request(z), z.p = p, v2' = [v2 EXCEPT ![w] = z],
           NEW t, Product(t), v1' = [v1 EXCEPT ![p] = t],
           v5' \in Nat, v5 # 0 => v5' # 0,
           v3' \subseteq v3 \cup {w}, \A u \in v3' : u # w => t = v1[p] \/ v2[u].p # p,
           w \in v3' => Holds(z, t, v5')
    PROVE  WritesInv'
<1>1. /\ v1 = [q \in Listings |-> v1[q]] /\ v2 = [u \in Slots |-> v2[u]]
      /\ v3 \subseteq Slots /\ p # -1
  BY NoneAssumption DEF WritesInv
<1>2. /\ v1' = [q \in Listings |-> v1'[q]] /\ v1'[p] = t
      /\ \A q \in Listings : q # p => v1'[q] = v1[q]
  BY <1>1
<1>3. /\ v2' = [u \in Slots |-> v2'[u]] /\ v2'[w] = z
      /\ \A u \in Slots : u # w => v2'[u] = v2[u]
  BY <1>1
<1>4. \A q \in Listings : Product(v1'[q])
  BY <1>2 DEF WritesInv
<1>5. \A u \in Slots : Request(v2'[u])
  BY <1>3 DEF WritesInv
<1>6. ASSUME NEW u \in v3' PROVE v2'[u].p # -1 /\ Holds(v2'[u], v1'[v2'[u].p], v5')
  <2>1. CASE u = w
    BY <1>1, <1>2, <1>3, <1>6, <2>1
  <2>2. CASE u # w
    <3>1. u \in v3 /\ u \in Slots /\ v2'[u] = v2[u]
      BY <1>1, <1>3, <1>6, <2>2
    <3>2. PICK x, q : x = v2[u] /\ q = x.p
      OBVIOUS
    <3>3. x.p # -1 /\ Holds(x, v1[q], v5) /\ Request(x)
      BY <3>1, <3>2 DEF WritesInv
    <3>4. q \in Listings
      BY <3>2, <3>3 DEF Request, Asked
    <3>5. v1'[q] = v1[q]
      BY <1>2, <1>6, <2>2, <3>2, <3>4
    <3>6. Holds(x, v1[q], v5')
      BY <3>3, HoldsLater
    <3> QED BY <3>1, <3>2, <3>3, <3>5, <3>6
  <2> QED BY <2>1, <2>2
<1>7. v3' \subseteq Slots
  BY <1>1
<1> QED BY <1>2, <1>3, <1>4, <1>5, <1>6, <1>7 DEF WritesInv

LEMMA OfRequests ==
    ASSUME WritesInv, NEW w \in Slots
    PROVE  /\ v5 \in Nat /\ v1 = [q \in Listings |-> v1[q]] /\ Request(v2[w])
           /\ w \in v3 => v2[w].p # -1 /\ Holds(v2[w], v1[v2[w].p], v5)
BY Zenon DEF WritesInv

LEMMA OfProducts == ASSUME WritesInv, NEW p \in Listings PROVE Product(v1[p])
BY Zenon DEF WritesInv

LEMMA AnswerIs ==
    ASSUME WritesInv, NEW w \in Slots, NEW outcome, Writes!After(w, outcome),
           NEW x, x = v2[w], x.todo # <<>>, NEW c, c = Head(x.todo), NEW z, z = v2'[w]
    PROVE  Answered(x, c, outcome, z) /\ v2' = [v2 EXCEPT ![w] = z]
<1>1. Request(x) /\ v2 = [u \in Slots |-> v2[u]]
  BY DEF WritesInv
<1>2. PICK todo : todo = Writes!Left(x.todo, outcome)
  OBVIOUS
<1>3. PICK report : report = Writes!Report(w, outcome)
  OBVIOUS
<1>4. PICK visible : visible = (Writes!Step(w) = "activate" /\ outcome = "ok")
  OBVIOUS
<1>5. PICK unheard : unheard = IF outcome = "lost" THEN Writes!Step(w) ELSE "none"
  OBVIOUS
<1>6. v2' = [v2 EXCEPT ![w] = [x EXCEPT !.todo = todo, !.report = report, !.visible = visible,
                                        !.unheard = unheard]]
  BY Zenon, <1>2, <1>3, <1>4, <1>5 DEF Writes!After
<1>7. z = [x EXCEPT !.todo = todo, !.report = report, !.visible = visible, !.unheard = unheard]
      /\ v2' = [v2 EXCEPT ![w] = z]
  BY <1>1, <1>6
<1>8. z = [p |-> x.p, todo |-> todo, body |-> x.body, report |-> report, visible |-> visible,
           unheard |-> unheard]
  BY <1>1, <1>7 DEF Request
<1>9. z.todo = todo /\ z.report = report /\ z.visible = visible /\ z.unheard = unheard
  BY <1>8
<1>10. InTurn(x.todo)
  BY <1>1 DEF Request
<1>11. InTurn(todo) /\ Pending(todo) = IF outcome = "ok" THEN Pending(x.todo) \ {c} ELSE {}
  <2>1. CASE outcome = "ok"
    BY <1>2, <1>10, <2>1, NextToDo DEF Writes!Left
  <2>2. CASE outcome # "ok"
    BY <1>2, <2>2, NothingToDo DEF Writes!Left
  <2> QED BY <2>1, <2>2
<1>12. Pending(todo) = {} <=> todo = <<>>
  BY <1>11, NothingPending
<1>13. /\ outcome = "ok" => report = (IF Pending(todo) = {} THEN "success" ELSE "none")
       /\ outcome # "ok" => report \in {"partial", "error"}
  <2>1. CASE outcome = "ok"
    BY <1>2, <1>3, <1>12, <2>1 DEF Writes!Report
  <2>2. CASE outcome # "ok"
    <3>1. Writes!Left(v2[w].todo, outcome) = <<>>
      BY <2>2 DEF Writes!Left
    <3> QED BY <1>3, <2>2, <3>1 DEF Writes!Report
  <2> QED BY <2>1, <2>2
<1>14. /\ outcome = "ok" => visible = (IF c = "activate" THEN TRUE ELSE FALSE)
       /\ outcome # "ok" => visible = FALSE
  <2>1. Writes!Step(w) = c
    BY DEF Writes!Step
  <2> QED BY Zenon, <1>4, <2>1
<1>15. outcome = "lost" => unheard = c
  BY <1>5 DEF Writes!Step
<1>16. Goes(x, outcome, z)
  BY <1>8, <1>9, <1>11, <1>13, <1>14, <1>15 DEF Goes
<1> QED BY <1>1, <1>7, <1>16 DEF Answered

\* If a mutation takes effect, heard of or not: what the request knows holds of the new
\* product t.
Sound(x, c, y, m, t) ==
    \A outcome, z, n :
        outcome \in {"ok", "lost"} /\ Answered(x, c, outcome, z)
        /\ Holds(x, y, m) /\ (m # 0 \/ outcome # "ok" => n # 0)
            => Holds(z, t, n)

LEMMA MutationKeeps ==
    ASSUME WritesInv, NEW w \in Slots, NEW t, Writes!Mutate(w, t), Product(t),
           NEW x, x = v2[w], x.todo # <<>>, NEW c, c = Head(x.todo),
           Sound(x, c, v1[x.p], v5, t)
    PROVE  WritesInv'
<1>1. PICK outcome \in {"ok", "refused", "failed", "lost"} :
         /\ IF outcome = "ok" THEN v5' = v5 ELSE Writes!Mishap
         /\ IF outcome \in {"ok", "lost"} THEN Writes!Change(v2[w].p, t, {w})
                                          ELSE v1' = v1 /\ v3' = v3
         /\ Writes!After(w, outcome)
  BY Zenon DEF Writes!Mutate
<1>2. v5 \in Nat /\ v1 = [q \in Listings |-> v1[q]] /\ Request(x)
  BY Zenon, OfRequests
<1>3. PICK p : p = x.p
  OBVIOUS
<1>4. p \in Listings
  BY <1>2, <1>3, CallsInTurn
<1>5. PICK y : y = v1[p]
  OBVIOUS
<1>6. v5' \in Nat /\ (v5 # 0 \/ outcome # "ok" => v5' # 0)
  BY <1>1, <1>2 DEF Writes!Mishap
<1>7. PICK z : z = v2'[w]
  OBVIOUS
<1>8. Answered(x, c, outcome, z) /\ v2' = [v2 EXCEPT ![w] = z]
  BY <1>1, <1>7, AnswerIs
<1>9. Request(z) /\ z.p = p
  BY <1>3, <1>8, AnsweredIsAsked
<1>10. w \in v3 => Holds(x, y, v5)
  BY Zenon, <1>3, <1>5, OfRequests
<1>11. CASE outcome \in {"ok", "lost"}
  <2>1. /\ v1' = [v1 EXCEPT ![p] = t]
        /\ v3' = IF t = y THEN v3 ELSE {u \in v3 : v2[u].p # p \/ u \in {w}}
    BY <1>1, <1>3, <1>5, <1>11 DEF Writes!Change
  <2>2. w \in v3' => Holds(z, t, v5')
    BY <1>3, <1>5, <1>6, <1>8, <1>10, <1>11, <2>1 DEF Sound
  <2>3. v3' \subseteq v3 \cup {w} /\ \A u \in v3' : u # w => t = v1[p] \/ v2[u].p # p
    BY <1>5, <2>1
  <2>4. /\ v1' = [v1 EXCEPT ![p] = t] /\ v5' \in Nat /\ (v5 # 0 => v5' # 0)
    BY <1>6, <2>1
  <2> QED BY Zenon, <1>4, <1>8, <1>9, <2>2, <2>3, <2>4, RequestMoves
<1>12. CASE outcome \notin {"ok", "lost"}
  <2>1. v1' = v1 /\ v3' = v3 /\ outcome # "ok"
    BY <1>1, <1>12
  <2>2. v1' = [v1 EXCEPT ![p] = y] /\ Product(y)
    BY <1>2, <1>4, <1>5, <2>1 DEF WritesInv
  <2>3. w \in v3' => Holds(z, y, v5')
    <3>1. SUFFICES ASSUME w \in v3 PROVE Holds(z, y, v5')
      BY <2>1
    <3>2. x.body.kind = "create" => y.status # "ACTIVE"
      BY <1>2, <1>10, <3>1, NothingPending DEF Holds, Request
    <3>3. v5' # 0
      BY <1>6, <2>1
    <3> QED BY <1>8, <2>1, <3>2, <3>3, RefusalHolds
  <2>4. v3' \subseteq v3 \cup {w} /\ \A u \in v3' : u # w => y = v1[p] \/ v2[u].p # p
    BY <1>5, <2>1
  <2> QED BY <1>4, <1>6, <1>8, <1>9, <2>2, <2>3, <2>4, RequestMoves
<1> QED BY <1>11, <1>12

\* A call that writes nothing
LEMMA ReadKeeps ==
    ASSUME WritesInv, NEW w \in Slots, NEW outcome, Writes!Check(w, outcome),
           v5' \in Nat, v5 # 0 => v5' # 0, v3' \subseteq v3 \cup {w},
           NEW x, x = v2[w], x.todo # <<>>, NEW c, c = Head(x.todo),
           \A z : Answered(x, c, outcome, z) /\ w \in v3' => Holds(z, v1[x.p], v5')
    PROVE  WritesInv'
<1>1. Writes!After(w, outcome) /\ v1' = v1
  BY DEF Writes!Check
<1>2. v1 = [q \in Listings |-> v1[q]] /\ Request(x)
  BY DEF WritesInv
<1>3. PICK p : p = x.p
  OBVIOUS
<1>4. p \in Listings
  BY <1>2, <1>3, CallsInTurn
<1>5. PICK y : y = v1[p]
  OBVIOUS
<1>6. PICK z : z = v2'[w]
  OBVIOUS
<1>7. Answered(x, c, outcome, z) /\ v2' = [v2 EXCEPT ![w] = z]
  BY <1>1, <1>6, AnswerIs
<1>8. Request(z) /\ z.p = p
  BY <1>3, <1>7, AnsweredIsAsked
<1>9. v1' = [v1 EXCEPT ![p] = y] /\ Product(y)
  BY <1>1, <1>2, <1>4, <1>5 DEF WritesInv
<1>10. w \in v3' => Holds(z, y, v5')
  BY <1>3, <1>5, <1>7
<1>11. \A u \in v3' : u # w => y = v1[p] \/ v2[u].p # p
  BY <1>5
<1> QED BY <1>4, <1>7, <1>8, <1>9, <1>10, <1>11, RequestMoves

-----------------------------------------------------------------------------
(* The calls keep the invariant.                                           *)

LEMMA StepIs ==
    ASSUME NEW w, NEW c, Writes!Step(w) = c, c # "none"
    PROVE  v2[w].todo # <<>> /\ c = Head(v2[w].todo)
BY DEF Writes!Step

LEMMA FailureKeeps ==
    ASSUME WritesInv, NEW w \in Slots, NEW outcome, Writes!Check(w, outcome), outcome # "ok",
           v5' \in Nat, v5 # 0 => v5' # 0, v3' = v3,
           NEW x, x = v2[w], x.todo # <<>>,
           w \in v3 /\ x.body.kind = "create" => v5' # 0 \/ x.body.form.options = {}
    PROVE  WritesInv'
<1>1. PICK c : c = Head(x.todo)
  OBVIOUS
<1>2. PICK y : y = v1[x.p]
  OBVIOUS
<1>3. w \in v3 => Holds(x, y, v5)
  BY Zenon, <1>2, OfRequests
<1>4. ASSUME NEW z, Answered(x, c, outcome, z), w \in v3 PROVE Holds(z, y, v5')
  <2>1. InTurn(x.todo)
    BY Zenon, OfRequests DEF Request
  <2>2. x.body.kind = "create" => y.status # "ACTIVE"
    BY <1>3, <1>4, <2>1, NothingPending DEF Holds
  <2> QED BY <1>4, <2>2, RefusalHolds
<1>5. \A z : Answered(x, c, outcome, z) /\ w \in v3' => Holds(z, v1[x.p], v5')
  BY <1>2, <1>4
<1>6. v3' \subseteq v3 \cup {w}
  OBVIOUS
<1> QED BY <1>1, <1>5, <1>6, ReadKeeps

LEMMA MishapKeeps ==
    ASSUME WritesInv, NEW w \in Slots, Writes!Mishap, Writes!Check(w, "failed"), v3' = v3,
           v2[w].todo # <<>>
    PROVE  WritesInv'
<1>1. v5' \in Nat /\ v5' # 0
  BY OfRequests DEF Writes!Mishap
<1>2. PICK x : x = v2[w]
  OBVIOUS
<1>3. x.todo # <<>>
  BY <1>2
<1>4. "failed" # "ok"
  OBVIOUS
<1> QED BY Zenon, <1>1, <1>2, <1>3, <1>4, FailureKeeps

LEMMA ProductCreateKeeps ==
    ASSUME WritesInv, NEW w \in Slots, Writes!ProductCreate(w) PROVE WritesInv'
<1>1. PICK x : x = v2[w]
  OBVIOUS
<1>2. PICK t : t = [Writes!NoListing EXCEPT !.status = "DRAFT"]
  OBVIOUS
<1>3. Writes!Step(w) = "create" /\ Writes!Mutate(w, t)
  BY <1>2 DEF Writes!ProductCreate
<1>4. x.todo # <<>> /\ "create" = Head(x.todo)
  BY <1>1, <1>3, StepIs
<1>5. Product(t) /\ t.status = "DRAFT"
  BY <1>2 DEF Product, Writes!NoListing
<1>6. Sound(x, "create", v1[x.p], v5, t)
  BY <1>5, CreateHolds DEF Sound
<1> QED BY Zenon, <1>1, <1>3, <1>4, <1>5, <1>6, MutationKeeps

\* Variants that could not be told apart were refused before, when options are declared.
LEMMA OptionsTellVariantsApart ==
    ASSUME NEW form, Writes!ValidateNewVariants(form),
           ~Writes!IsInjective([i \in DOMAIN form.variants |-> form.variants[i].value])
    PROVE  form.options = {}
BY DEF Writes!ValidateNewVariants, Writes!IsInjective

LEMMA ProductVariantsKeep ==
    ASSUME WritesInv, NEW w \in Slots, Writes!ProductVariantsBulkCreate(w) PROVE WritesInv'
<1>1. PICK x : x = v2[w]
  OBVIOUS
<1>2. PICK y : y = v1[x.p]
  OBVIOUS
<1>3. Writes!Step(w) = "variants"
  BY DEF Writes!ProductVariantsBulkCreate
<1>4. x.todo # <<>> /\ "variants" = Head(x.todo)
  BY <1>1, <1>3, StepIs
<1>5. PICK t : t = [y EXCEPT !.price = x.body.price]
  OBVIOUS
<1>6. Request(x) /\ v5 \in Nat
  BY <1>1, OfRequests
<1>7. "variants" \in Pending(x.todo) /\ Asked(x) /\ x.p \in Listings
  BY <1>4, <1>6, CallsInTurn
<1>8. x.body.kind = "create"
  BY <1>7 DEF Asked, Calls
<1>9. CASE Writes!Mutate(w, t)
  <2>1. Product(y)
    BY Zenon, <1>2, <1>7, OfProducts
  <2>2. Product(t) /\ t.price = x.body.price /\ t.status = y.status /\ t.channels = y.channels
    BY <1>5, <2>1 DEF Product
  <2>3. Sound(x, "variants", v1[x.p], v5, t)
    BY <1>2, <2>2, VariantsHold DEF Sound
  <2> QED BY Zenon, <1>1, <1>4, <1>9, <2>2, <2>3, MutationKeeps
<1>10. CASE /\ ~Writes!IsInjective([i \in DOMAIN x.body.form.variants |->
                                        x.body.form.variants[i].value])
            /\ Writes!Check(w, "refused") /\ v3' = v3 /\ v5' = v5
  <2>1. x.body.form.options = {}
    BY <1>7, <1>8, <1>10, OptionsTellVariantsApart DEF Asked
  <2>2. "refused" # "ok" /\ v5' \in Nat /\ (v5 # 0 => v5' # 0)
    BY <1>6, <1>10
  <2> QED BY Zenon, <1>1, <1>4, <1>10, <2>1, <2>2, FailureKeeps
<1>11. \/ Writes!Mutate(w, t)
       \/ /\ ~Writes!IsInjective([i \in DOMAIN x.body.form.variants |->
                                      x.body.form.variants[i].value])
          /\ Writes!Check(w, "refused") /\ v3' = v3 /\ v5' = v5
  BY <1>1, <1>2, <1>5 DEF Writes!ProductVariantsBulkCreate, Writes!Now
<1> QED BY <1>9, <1>10, <1>11

LEMMA ActivateKeeps ==
    ASSUME WritesInv, NEW w \in Slots, Writes!ProductCreateActivate(w) PROVE WritesInv'
<1>1. PICK x : x = v2[w]
  OBVIOUS
<1>2. PICK y : y = v1[x.p]
  OBVIOUS
<1>3. PICK t : t = [y EXCEPT !.status = "ACTIVE"]
  OBVIOUS
<1>4. Writes!Step(w) = "activate" /\ Writes!Mutate(w, t)
  BY <1>1, <1>2, <1>3 DEF Writes!ProductCreateActivate, Writes!Now
<1>5. x.todo # <<>> /\ "activate" = Head(x.todo)
  BY <1>1, <1>4, StepIs
<1>6. x.p \in Listings
  BY <1>1, <1>5, OfRequests, CallsInTurn
<1>7. Product(y)
  BY Zenon, <1>2, <1>6, OfProducts
<1>8. Product(t) /\ t.price = y.price /\ t.status = "ACTIVE" /\ t.channels = y.channels
  BY <1>3, <1>7 DEF Product
<1>9. Sound(x, "activate", v1[x.p], v5, t)
  BY <1>2, <1>8, ActivationHolds DEF Sound
<1> QED BY Zenon, <1>1, <1>4, <1>5, <1>8, <1>9, MutationKeeps

LEMMA PublishKeeps ==
    ASSUME WritesInv, NEW w \in Slots, Writes!PublishProduct(w) PROVE WritesInv'
<1>1. PICK x : x = v2[w]
  OBVIOUS
<1>2. PICK y : y = v1[x.p]
  OBVIOUS
<1>3. PICK t : t = [y EXCEPT !.channels = y.channels \cup x.body.targets]
  OBVIOUS
<1>4. Writes!Step(w) = "publish"
  BY DEF Writes!PublishProduct
<1>5. x.todo # <<>> /\ "publish" = Head(x.todo)
  BY <1>1, <1>4, StepIs
<1>6. CASE Writes!Mutate(w, t)
  <2>1. x.p \in Listings
    BY <1>1, <1>5, OfRequests, CallsInTurn
  <2>2. Product(y)
    BY Zenon, <1>2, <2>1, OfProducts
  <2>3. Product(t) /\ t.price = y.price /\ t.status = y.status
        /\ t.channels = y.channels \cup x.body.targets
    BY <1>3, <2>2 DEF Product
  <2>4. Sound(x, "publish", v1[x.p], v5, t)
    BY <1>2, <2>3, PublicationHolds DEF Sound
  <2> QED BY Zenon, <1>1, <1>5, <1>6, <2>3, <2>4, MutationKeeps
<1>7. CASE Writes!Mishap /\ Writes!Check(w, "failed") /\ v3' = v3
  BY <1>1, <1>5, <1>7, MishapKeeps
<1> QED BY <1>1, <1>2, <1>3, <1>6, <1>7 DEF Writes!PublishProduct, Writes!Now

LEMMA UnpublishKeeps ==
    ASSUME WritesInv, NEW w \in Slots, Writes!UnpublishProduct(w) PROVE WritesInv'
<1>1. PICK x : x = v2[w]
  OBVIOUS
<1>2. PICK y : y = v1[x.p]
  OBVIOUS
<1>3. PICK t : t = [y EXCEPT !.channels = y.channels \ x.body.targets]
  OBVIOUS
<1>4. Writes!Step(w) = "unpublish"
  BY DEF Writes!UnpublishProduct
<1>5. x.todo # <<>> /\ "unpublish" = Head(x.todo)
  BY <1>1, <1>4, StepIs
<1>6. CASE Writes!Mutate(w, t)
  <2>1. x.p \in Listings
    BY <1>1, <1>5, OfRequests, CallsInTurn
  <2>2. Product(y)
    BY Zenon, <1>2, <2>1, OfProducts
  <2>3. Product(t)
    BY <1>3, <2>2 DEF Product
  <2>4. Sound(x, "unpublish", v1[x.p], v5, t)
    BY UnpublicationHolds DEF Sound
  <2> QED BY Zenon, <1>1, <1>5, <1>6, <2>3, <2>4, MutationKeeps
<1>7. CASE Writes!Mishap /\ Writes!Check(w, "failed") /\ v3' = v3
  BY <1>1, <1>5, <1>7, MishapKeeps
<1> QED BY <1>1, <1>2, <1>3, <1>6, <1>7 DEF Writes!UnpublishProduct, Writes!Now

LEMMA VerifyKeeps ==
    ASSUME WritesInv, NEW w \in Slots, Writes!VerifyPublicationState(w) PROVE WritesInv'
<1>1. PICK x : x = v2[w]
  OBVIOUS
<1>2. PICK y : y = v1[x.p]
  OBVIOUS
<1>3. Writes!Step(w) = "verify" /\ v3' = v3
  BY DEF Writes!VerifyPublicationState
<1>4. x.todo # <<>> /\ "verify" = Head(x.todo)
  BY <1>1, <1>3, StepIs
<1>5. Request(x) /\ v5 \in Nat /\ (w \in v3 => Holds(x, y, v5))
  BY Zenon, <1>1, <1>2, OfRequests
<1>6. "verify" \in Pending(x.todo) /\ Asked(x) /\ "publish" \notin Pending(x.todo)
  BY <1>4, <1>5, CallsInTurn
<1>7. PICK readable \in BOOLEAN, listed \in SUBSET Writes!Channels :
         /\ y.channels \subseteq listed
         /\ IF readable THEN v5' = v5 ELSE Writes!Mishap
         /\ Writes!Check(w, IF readable /\ (IF x.body.kind = "unpublish"
                                            THEN x.body.targets \subseteq listed \ y.channels
                                            ELSE x.body.targets \subseteq y.channels)
                            THEN "ok" ELSE "failed")
  BY <1>1, <1>2 DEF Writes!VerifyPublicationState, Writes!Now
<1>8. v5' \in Nat /\ (v5 # 0 => v5' # 0) /\ (~readable => v5' # 0)
  BY <1>5, <1>7 DEF Writes!Mishap
<1>9. CASE /\ Writes!Check(w, "ok")
           /\ x.body.kind = "unpublish" => x.body.targets \cap y.channels = {}
           /\ x.body.kind # "unpublish" => x.body.targets \subseteq y.channels
  <2>1. ASSUME NEW z, Answered(x, "verify", "ok", z), w \in v3 PROVE Holds(z, y, v5')
    BY <1>5, <1>8, <1>9, <2>1, VerificationHolds
  <2>2. \A z : Answered(x, "verify", "ok", z) /\ w \in v3' => Holds(z, v1[x.p], v5')
    BY <1>2, <1>3, <2>1
  <2>3. Writes!Check(w, "ok") /\ v3' \subseteq v3 \cup {w}
    BY <1>3, <1>9
  <2> QED BY Zenon, <1>1, <1>4, <1>8, <2>2, <2>3, ReadKeeps
<1>10. CASE /\ Writes!Check(w, "failed")
            /\ readable => x.body.kind = "unpublish" \/ ~(x.body.targets \subseteq y.channels)
  <2>1. ASSUME w \in v3, x.body.kind = "create" PROVE v5' # 0
    <3>1. "online" \in y.channels
      BY <1>5, <1>6, <2>1 DEF Holds
    <3>2. x.body.targets = {"online"}
      BY <1>6, <2>1 DEF Asked
    <3> QED BY <1>8, <1>10, <2>1, <3>1, <3>2
  <2>2. Writes!Check(w, "failed") /\ "failed" # "ok"
    BY <1>10
  <2>3. w \in v3 /\ x.body.kind = "create" => v5' # 0 \/ x.body.form.options = {}
    BY <2>1
  <2> QED BY Zenon, <1>1, <1>3, <1>4, <1>8, <2>2, <2>3, FailureKeeps
<1> QED BY <1>7, <1>9, <1>10

LEMMA AssertNotStaleKeeps ==
    ASSUME WritesInv, NEW w \in Slots, Writes!AssertNotStale(w) PROVE WritesInv'
<1>1. PICK x : x = v2[w]
  OBVIOUS
<1>2. PICK y : y = v1[x.p]
  OBVIOUS
<1>3. Writes!Step(w) = "check"
  BY DEF Writes!AssertNotStale
<1>4. x.todo # <<>> /\ "check" = Head(x.todo)
  BY <1>1, <1>3, StepIs
<1>5. Request(x) /\ v5 \in Nat
  BY <1>1, OfRequests
<1>6. "check" \in Pending(x.todo) /\ Asked(x)
  BY <1>4, <1>5, CallsInTurn
<1>7. x.body.kind = "edit"
  BY <1>6 DEF Asked, Calls
<1>8. CASE /\ Writes!Check(w, IF Writes!Conflicts(x.body.edit, y) THEN "refused" ELSE "ok")
           /\ v3' = v3 \cup {w} /\ v5' = v5
  <2>1. PICK outcome : outcome = IF Writes!Conflicts(x.body.edit, y) THEN "refused" ELSE "ok"
    OBVIOUS
  <2>2. outcome = "ok" => x.body.edit.expectedPrice \in {-1, y.price}
                          /\ x.body.edit.expectedStatus \in {"any", y.status}
    BY <2>1 DEF Writes!Conflicts, Writes!Unset
  <2>3. ASSUME NEW z, Answered(x, "check", outcome, z) PROVE Holds(z, y, v5')
    <3>1. CASE outcome = "ok"
      BY <2>2, <2>3, <3>1, CheckHolds
    <3>2. CASE outcome # "ok"
      BY <1>7, <2>3, <3>2, RefusalHolds
    <3> QED BY <3>1, <3>2
  <2>4. \A z : Answered(x, "check", outcome, z) /\ w \in v3' => Holds(z, v1[x.p], v5')
    BY <1>2, <2>3
  <2>5. Writes!Check(w, outcome) /\ v3' \subseteq v3 \cup {w} /\ v5' \in Nat /\ (v5 # 0 => v5' # 0)
    BY <1>5, <1>8, <2>1
  <2> QED BY Zenon, <1>1, <1>4, <2>4, <2>5, ReadKeeps
<1>9. CASE Writes!Mishap /\ Writes!Check(w, "failed") /\ v3' = v3
  BY <1>1, <1>4, <1>9, MishapKeeps
<1> QED BY <1>1, <1>2, <1>8, <1>9 DEF Writes!AssertNotStale, Writes!Now

LEMMA EditKeeps ==
    ASSUME WritesInv, NEW w \in Slots, Writes!EditProduct(w) PROVE WritesInv'
<1>1. PICK x : x = v2[w]
  OBVIOUS
<1>2. PICK y : y = v1[x.p]
  OBVIOUS
<1>3. PICK edit : edit = x.body.edit
  OBVIOUS
<1>4. PICK c, t :
         /\ c \in {"status", "addTags", "removeTags", "price"}
         /\ Writes!Step(w) = c /\ Writes!Mutate(w, t)
         /\ \/ c = "status" /\ t = [y EXCEPT !.status = edit.status]
            \/ c = "addTags" /\ t = [y EXCEPT !.tags = y.tags \cup edit.add]
            \/ c = "removeTags" /\ t = [y EXCEPT !.tags = y.tags \ edit.remove]
            \/ c = "price" /\ t = [y EXCEPT !.price = edit.price]
  BY <1>1, <1>2, <1>3 DEF Writes!EditProduct, Writes!Now
<1>5. x.todo # <<>> /\ c = Head(x.todo)
  BY <1>1, <1>4, StepIs
<1>6. x.p \in Listings
  BY <1>1, <1>5, OfRequests, CallsInTurn
<1>7. Product(y)
  BY Zenon, <1>2, <1>6, OfProducts
<1>8. Product(t)
  BY <1>4, <1>7 DEF Product
<1>9. \/ c = "status" /\ t.status = edit.status /\ t.price = y.price /\ t.tags = y.tags
      \/ c = "addTags" /\ t.tags = y.tags \cup edit.add /\ t.price = y.price /\ t.status = y.status
      \/ c = "removeTags" /\ t.tags = y.tags \ edit.remove /\ t.price = y.price
           /\ t.status = y.status
      \/ c = "price" /\ t.price = edit.price /\ t.tags = y.tags /\ t.status = y.status
  BY <1>4, <1>7 DEF Product
<1>10. ASSUME NEW outcome, NEW z, NEW n, Answered(x, c, outcome, z), Holds(x, y, v5)
       PROVE  Holds(z, t, n)
  BY <1>3, <1>9, <1>10, EditHolds
<1>11. Sound(x, c, v1[x.p], v5, t)
  BY <1>2, <1>10 DEF Sound
<1> QED BY Zenon, <1>1, <1>4, <1>5, <1>8, <1>11, MutationKeeps

LEMMA ReadLevelKeeps ==
    ASSUME WritesInv, NEW w \in Slots, Writes!GetCurrentInventoryLevel(w) PROVE WritesInv'
<1>1. PICK x : x = v2[w]
  OBVIOUS
<1>2. PICK y : y = v1[x.p]
  OBVIOUS
<1>3. Writes!Step(w) = "read"
  BY DEF Writes!GetCurrentInventoryLevel
<1>4. x.todo # <<>> /\ "read" = Head(x.todo)
  BY <1>1, <1>3, StepIs
<1>5. Request(x) /\ v5 \in Nat
  BY <1>1, OfRequests
<1>6. "read" \in Pending(x.todo) /\ Asked(x)
  BY <1>4, <1>5, CallsInTurn
<1>7. x.body.kind = "stock"
  BY <1>6 DEF Asked, Calls
<1>8. PICK known \in BOOLEAN, outcome \in {"ok", "refused"} :
         /\ IF known THEN v5' = v5 ELSE Writes!Mishap
         /\ v3' = IF known THEN v3 \cup {w} ELSE v3 \ {w}
         /\ Writes!Check(w, outcome)
         /\ outcome = "ok" =>
               /\ ~(known /\ x.body.expected \notin {-1, y.stock})
               /\ Writes!AssessInventoryChange(x.body, known, y.stock)
  BY <1>1, <1>2 DEF Writes!GetCurrentInventoryLevel, Writes!Now, Writes!Unset
<1>9. v5' \in Nat /\ (v5 # 0 => v5' # 0)
  BY <1>5, <1>8 DEF Writes!Mishap
<1>10. v3' \subseteq v3 \cup {w} /\ (w \in v3' => known)
  BY <1>8
<1>11. ASSUME NEW z, Answered(x, "read", outcome, z), w \in v3' PROVE Holds(z, y, v5')
  <2>1. CASE outcome = "ok"
    <3>1. /\ x.body.expected \in {-1, y.stock}
          /\ x.body.confirm \/ x.body.to - y.stock \in -Limit..Limit
      BY <1>8, <1>10, <1>11, <2>1 DEF Writes!AssessInventoryChange
    <3> QED BY <1>11, <2>1, <3>1, ReadHolds
  <2>2. CASE outcome # "ok"
    BY <1>7, <1>11, <2>2, RefusalHolds
  <2> QED BY <2>1, <2>2
<1>12. \A z : Answered(x, "read", outcome, z) /\ w \in v3' => Holds(z, v1[x.p], v5')
  BY <1>2, <1>11
<1> QED BY Zenon, <1>1, <1>4, <1>8, <1>9, <1>10, <1>12, ReadKeeps

LEMMA SetStockKeeps ==
    ASSUME WritesInv, NEW w \in Slots, Writes!SetInventoryQuantity(w) PROVE WritesInv'
<1>1. PICK x : x = v2[w]
  OBVIOUS
<1>2. PICK y : y = v1[x.p]
  OBVIOUS
<1>3. PICK t : t = [y EXCEPT !.stock = x.body.to]
  OBVIOUS
<1>4. Writes!Step(w) = "stock" /\ Writes!Mutate(w, t)
  BY <1>1, <1>2, <1>3 DEF Writes!SetInventoryQuantity, Writes!Now
<1>5. x.todo # <<>> /\ "stock" = Head(x.todo)
  BY <1>1, <1>4, StepIs
<1>6. x.p \in Listings
  BY <1>1, <1>5, OfRequests, CallsInTurn
<1>7. Product(y)
  BY Zenon, <1>2, <1>6, OfProducts
<1>8. Product(t) /\ t.stock = x.body.to
  BY <1>3, <1>7 DEF Product
<1>9. Sound(x, "stock", v1[x.p], v5, t)
  BY <1>8, StockHolds DEF Sound
<1> QED BY Zenon, <1>1, <1>4, <1>5, <1>8, <1>9, MutationKeeps

LEMMA MerchantKeeps ==
    ASSUME WritesInv, Writes!MerchantChanges PROVE WritesInv'
<1>1. v5 \in Nat /\ v1 = [q \in Listings |-> v1[q]] /\ v2' = v2
  BY DEF WritesInv, Writes!MerchantChanges
<1>2. PICK p, t :
         /\ p \in Listings /\ Writes!Mishap /\ Writes!Change(p, t, {})
         /\ \/ \E status : t = [v1[p] EXCEPT !.status = status]
            \/ \E price : t = [v1[p] EXCEPT !.price = price]
            \/ \E channels : t = [v1[p] EXCEPT !.channels = channels]
            \/ \E stock : t = [v1[p] EXCEPT !.stock = stock]
  BY DEF Writes!MerchantChanges, Writes!Made
<1>3. Product(t)
  <2>1. Product(v1[p])
    BY Zenon, <1>2, OfProducts
  <2> QED BY <1>2, <2>1 DEF Product
<1>4. v5' \in Nat /\ (v5 # 0 => v5' # 0)
  BY <1>1, <1>2 DEF Writes!Mishap
<1>5. /\ v1' = [v1 EXCEPT ![p] = t]
      /\ v3' = IF t = v1[p] THEN v3 ELSE {u \in v3 : v2[u].p # p \/ u \in {}}
  BY <1>2 DEF Writes!Change
<1>6. /\ v1' = [q \in Listings |-> v1'[q]] /\ \A q \in Listings : q # p => v1'[q] = v1[q]
      /\ \A q \in Listings : Product(v1'[q])
  BY <1>1, <1>3, <1>5 DEF WritesInv
<1>7. ASSUME NEW u \in v3' PROVE v2'[u].p # -1 /\ Holds(v2'[u], v1'[v2'[u].p], v5')
  <2>1. u \in v3 /\ (v2[u].p # p \/ t = v1[p])
    BY <1>5, <1>7
  <2>2. u \in Slots
    BY <2>1 DEF WritesInv
  <2>3. PICK x, q : x = v2[u] /\ q = x.p
    OBVIOUS
  <2>4. x.p # -1 /\ Holds(x, v1[q], v5) /\ Request(x)
    BY Zenon, <2>1, <2>2, <2>3, OfRequests
  <2>5. q \in Listings
    BY <2>3, <2>4 DEF Request, Asked
  <2>6. v1'[q] = v1[q]
    BY <1>1, <1>5, <1>6, <2>1, <2>3, <2>5
  <2>7. Holds(x, v1[q], v5')
    BY <1>4, <2>4, HoldsLater
  <2> QED BY <1>1, <2>3, <2>4, <2>6, <2>7
<1>8. v3' \subseteq Slots /\ v3 \subseteq Slots
  BY <1>5 DEF WritesInv
<1>9. v2' = [w \in Slots |-> v2'[w]] /\ \A w \in Slots : Request(v2'[w])
  BY <1>1 DEF WritesInv
<1> QED BY <1>4, <1>6, <1>7, <1>8, <1>9 DEF WritesInv

-----------------------------------------------------------------------------
(* What an operator asks for                                               *)

LEMMA BeginMoves ==
    ASSUME WritesInv, NEW w \in Slots, NEW p \in Listings, NEW z, Request(z), z.p = p,
           v2' = [v2 EXCEPT ![w] = z], v3' = v3 \cup {w}, v1' = v1, v5' = v5,
           Holds(z, v1[p], v5)
    PROVE  WritesInv'
<1>1. PICK y : y = v1[p]
  OBVIOUS
<1>2. v5 \in Nat /\ v1 = [q \in Listings |-> v1[q]] /\ Product(y)
  BY Zenon, <1>1, OfRequests, OfProducts
<1>3. v1' = [v1 EXCEPT ![p] = y]
  BY <1>1, <1>2
<1>4. v5' \in Nat /\ (v5 # 0 => v5' # 0) /\ v3' \subseteq v3 \cup {w}
  BY <1>2
<1>5. \A u \in v3' : u # w => y = v1[p] \/ v2[u].p # p
  BY <1>1
<1>6. w \in v3' => Holds(z, y, v5')
  BY <1>1
<1> QED BY <1>2, <1>3, <1>4, <1>5, <1>6, RequestMoves

LEMMA BeginKeeps ==
    ASSUME WritesInv, NEW w \in Slots, NEW p \in Listings, NEW todo, NEW body,
           Writes!Begin(w, p, todo, body), InTurn(todo),
           NEW z, z = [p |-> p, todo |-> todo, body |-> body, report |-> "none", visible |-> FALSE,
                       unheard |-> "none"],
           Asked(z), Holds(z, v1[p], v5)
    PROVE  WritesInv'
<1>1. PICK no : no = FALSE
  OBVIOUS
<1>2. PICK free : free = Writes!Free
  OBVIOUS
<1>3. /\ v2' = [v2 EXCEPT ![w] = [free EXCEPT !.p = p, !.todo = todo, !.body = body]]
      /\ v3' = v3 \cup {w} /\ v1' = v1 /\ v5' = v5
  BY <1>2 DEF Writes!Begin
<1>4. free = [p |-> -1, todo |-> <<>>, body |-> <<>>, report |-> "none", visible |-> no,
         unheard |-> "none"]
  BY Zenon, <1>1, <1>2 DEF Writes!Free, Writes!Unset
<1>5. PICK t : t = [[[free EXCEPT !.p = p] EXCEPT !.todo = todo] EXCEPT !.body = body]
  OBVIOUS
<1>6. t = z
  <2>1. PICK r : r = [free EXCEPT !.p = p]
    OBVIOUS
  <2>2. r = [p |-> p, todo |-> <<>>, body |-> <<>>, report |-> "none", visible |-> no,
         unheard |-> "none"]
    BY <1>4, <2>1
  <2>3. PICK s : s = [r EXCEPT !.todo = todo]
    OBVIOUS
  <2>4. s = [p |-> p, todo |-> todo, body |-> <<>>, report |-> "none", visible |-> no,
         unheard |-> "none"]
    BY <2>2, <2>3
  <2>5. t = [s EXCEPT !.body = body]
    BY Zenon, <1>5, <2>1, <2>3
  <2>6. t = [p |-> p, todo |-> todo, body |-> body, report |-> "none", visible |-> no,
         unheard |-> "none"]
    BY <2>4, <2>5
  <2> QED BY Zenon, <1>1, <2>6
<1>7. v2' = [v2 EXCEPT ![w] = z]
  BY Zenon, <1>3, <1>5, <1>6
<1>8. z.p = p /\ z.todo = todo /\ p # -1
  BY NoneAssumption
<1>9. Request(z)
  BY <1>8 DEF Request
<1> QED BY Zenon, <1>3, <1>7, <1>8, <1>9, BeginMoves

LEMMA TwoToDo ==
    ASSUME NEW c \in CallNames, NEW d \in CallNames, Turn(c) < Turn(d)
    PROVE  InTurn(<<c, d>>) /\ Pending(<<c, d>>) = {c, d}
<1>1. PICK u : u = <<c, d>>
  OBVIOUS
<1>2. u \in Seq(CallNames) /\ Len(u) = 2 /\ u[1] = c /\ u[2] = d
  BY <1>1
<1>3. \A i \in 1..2 : i = 1 \/ i = 2
  OBVIOUS
<1>4. 1 \in 1..2 /\ 2 \in 1..2
  OBVIOUS
<1>5. Pending(u) = {c, d}
  BY <1>2, <1>3, <1>4 DEF Pending
<1>6. InTurn(u)
  BY <1>2, <1>3 DEF InTurn
<1> QED BY <1>1, <1>5, <1>6

LEMMA ThreeToDo ==
    ASSUME NEW c \in CallNames, NEW d \in CallNames, NEW e \in CallNames,
           Turn(c) < Turn(d), Turn(d) < Turn(e)
    PROVE  InTurn(<<c, d, e>>) /\ Pending(<<c, d, e>>) = {c, d, e}
<1>1. PICK u : u = <<c, d, e>>
  OBVIOUS
<1>2. u \in Seq(CallNames) /\ Len(u) = 3 /\ u[1] = c /\ u[2] = d /\ u[3] = e
  BY <1>1
<1>3. \A i \in 1..3 : i = 1 \/ i = 2 \/ i = 3
  OBVIOUS
<1>4. 1 \in 1..3 /\ 2 \in 1..3 /\ 3 \in 1..3
  OBVIOUS
<1>5. Pending(u) = {c, d, e}
  BY <1>2, <1>3, <1>4 DEF Pending
<1>6. Turn(c) < Turn(e)
  BY TurnsAreNumbers
<1>7. InTurn(u)
  BY <1>2, <1>3, <1>6 DEF InTurn
<1> QED BY <1>1, <1>5, <1>7

LEMMA AskToCreateKeeps ==
    ASSUME WritesInv, NEW w \in Slots, Writes!AskToCreate(w) PROVE WritesInv'
<1>1. PICK p \in Listings \ Writes!Made, publish \in BOOLEAN, form \in Forms :
         /\ Writes!ValidateNewVariants(form)
         /\ Writes!Begin(w, p, <<"create", "variants">> \o
                (IF publish THEN <<"publish", "verify", "activate">> ELSE <<>>),
                [kind |-> "create", price |-> 1, targets |-> {"online"}, form |-> form])
  BY Zenon DEF Writes!AskToCreate
<1>2. PICK rest : rest = IF publish THEN <<"publish", "verify", "activate">> ELSE <<>>
  OBVIOUS
<1>3. PICK todo : todo = <<"create", "variants">> \o rest
  OBVIOUS
<1>4. PICK body :
         body = [kind |-> "create", price |-> 1, targets |-> {"online"}, form |-> form]
  OBVIOUS
<1>5. Writes!Begin(w, p, todo, body)
  BY <1>1, <1>2, <1>3, <1>4
<1>6. InTurn(<<"create", "variants">>)
      /\ Pending(<<"create", "variants">>) = {"create", "variants"}
  BY TwoToDo, TurnOfEach DEF CallNames
<1>7. InTurn(rest) /\ Pending(rest) \in {{}, {"publish", "verify", "activate"}}
  <2>1. InTurn(<<"publish", "verify", "activate">>)
        /\ Pending(<<"publish", "verify", "activate">>) = {"publish", "verify", "activate"}
    <3>1. /\ "publish" \in CallNames /\ "verify" \in CallNames /\ "activate" \in CallNames
          /\ Turn("publish") < Turn("verify") /\ Turn("verify") < Turn("activate")
      BY TurnOfEach DEF CallNames
    <3> QED BY Zenon, <3>1, ThreeToDo
  <2>2. CASE publish
    BY <1>2, <2>1, <2>2
  <2>3. CASE ~publish
    BY <1>2, <2>3, NothingToDo
  <2> QED BY <2>2, <2>3
<1>8. InTurn(todo) /\ Pending(todo) = {"create", "variants"} \cup Pending(rest)
  <2>1. \A c \in {"create", "variants"}, d \in Pending(rest) : Turn(c) < Turn(d)
    BY <1>7, TurnOfEach
  <2>2. PICK first : first = <<"create", "variants">>
    OBVIOUS
  <2> QED BY <1>3, <1>6, <1>7, <2>1, <2>2, MoreToDo
<1>9. PICK P : P = Pending(todo)
  OBVIOUS
<1>10. \/ P = {"create", "variants"}
       \/ P = {"create", "variants", "publish", "verify", "activate"}
  BY <1>7, <1>8, <1>9
<1>11. PICK z : z = [p |-> p, todo |-> todo, body |-> body, report |-> "none", visible |-> FALSE,
                  unheard |-> "none"]
  OBVIOUS
<1>12. /\ z.p = p /\ z.todo = todo /\ z.report = "none" /\ z.visible = FALSE
       /\ z.body = body
  BY <1>11
<1>13. body.kind = "create" /\ body.form = form /\ body.targets = {"online"}
  BY <1>4
<1>14. P \subseteq Calls("create")
  BY <1>10 DEF Calls
<1>15. "create" \in P /\ "variants" \in P /\ (P \cap {"verify", "activate"} # {} => "publish" \in P)
  BY <1>10
<1>16. Asked(z)
  BY <1>1, <1>9, <1>12, <1>13, <1>14, <1>15 DEF Asked
<1>17. PICK y : y = v1[p]
  OBVIOUS
<1>18. y.status = "none"
  BY <1>1, <1>17 DEF Writes!Made
<1>19. Holds(z, y, v5)
  BY <1>9, <1>12, <1>13, <1>15, <1>18 DEF Holds
<1> QED BY Zenon, <1>1, <1>5, <1>8, <1>11, <1>16, <1>17, <1>19, BeginKeeps

LEMMA AskToPublishKeeps ==
    ASSUME WritesInv, NEW w \in Slots, Writes!AskToPublish(w) PROVE WritesInv'
<1>1. PICK p \in Writes!Made, targets \in SUBSET Writes!Channels \ {{}},
           kind \in {"publish", "unpublish"} :
         Writes!Begin(w, p, <<kind, "verify">>, [kind |-> kind, targets |-> targets])
  BY Zenon DEF Writes!AskToPublish
<1>2. p \in Listings
  BY DEF Writes!Made
<1>3. PICK todo, body : todo = <<kind, "verify">> /\ body = [kind |-> kind, targets |-> targets]
  OBVIOUS
<1>4. InTurn(todo) /\ Pending(todo) = {kind, "verify"}
  <2>1. kind \in CallNames /\ "verify" \in CallNames /\ Turn(kind) < Turn("verify")
    BY TurnOfEach DEF CallNames
  <2> QED BY Zenon, <1>3, <2>1, TwoToDo
<1>5. PICK z : z = [p |-> p, todo |-> todo, body |-> body, report |-> "none", visible |-> FALSE,
                  unheard |-> "none"]
  OBVIOUS
<1>6. /\ z.p = p /\ z.todo = todo /\ z.report = "none" /\ z.visible = FALSE
      /\ z.body = body /\ body.kind = kind
  BY <1>3, <1>5
<1>7. Asked(z)
  BY <1>2, <1>4, <1>6 DEF Asked, Calls
<1>8. Holds(z, v1[p], v5)
  BY <1>6 DEF Holds
<1>9. Writes!Begin(w, p, todo, body)
  BY <1>1, <1>3
<1> QED BY Zenon, <1>2, <1>4, <1>5, <1>7, <1>8, <1>9, BeginKeeps

LEMMA AskForStockKeeps ==
    ASSUME WritesInv, NEW w \in Slots, Writes!AskForStock(w) PROVE WritesInv'
<1>1. PICK p \in Writes!Made, to \in Stocks, expected \in Stocks \cup {Writes!Unset},
           confirm \in BOOLEAN :
         Writes!Begin(w, p, <<"read", "stock">>,
             [kind |-> "stock", to |-> to, expected |-> expected, confirm |-> confirm])
  BY Zenon DEF Writes!AskForStock
<1>2. p \in Listings
  BY DEF Writes!Made
<1>3. PICK todo, body :
         /\ todo = <<"read", "stock">>
         /\ body = [kind |-> "stock", to |-> to, expected |-> expected, confirm |-> confirm]
  OBVIOUS
<1>4. InTurn(todo) /\ Pending(todo) = {"read", "stock"}
  BY <1>3, TwoToDo, TurnOfEach DEF CallNames
<1>5. PICK z : z = [p |-> p, todo |-> todo, body |-> body, report |-> "none", visible |-> FALSE,
                  unheard |-> "none"]
  OBVIOUS
<1>6. /\ z.p = p /\ z.todo = todo /\ z.report = "none" /\ z.visible = FALSE
      /\ z.body = body /\ body.kind = "stock"
  BY <1>3, <1>5
<1>7. Asked(z)
  BY <1>2, <1>4, <1>6 DEF Asked, Calls
<1>8. Holds(z, v1[p], v5)
  BY <1>4, <1>6 DEF Holds
<1>9. Writes!Begin(w, p, todo, body)
  BY <1>1, <1>3
<1> QED BY Zenon, <1>2, <1>4, <1>5, <1>7, <1>8, <1>9, BeginKeeps

LEMMA PartToDo ==
    ASSUME NEW c \in CallNames, NEW s, s = <<c>> \/ s = <<>>
    PROVE  InTurn(s) /\ Pending(s) \subseteq {c} /\ (s = <<c>> => Pending(s) = {c})
<1>1. CASE s = <<c>>
  BY <1>1, OneToDo
<1>2. CASE s = <<>>
  <2>1. <<c>> # <<>>
    OBVIOUS
  <2> QED BY <1>2, <2>1, NothingToDo
<1> QED BY <1>1, <1>2

\* The parts of an edit, in order
Part(s, c) == s = <<c>> \/ s = <<>>

LEMMA EditToDo ==
    ASSUME NEW s1, Part(s1, "check"), NEW s2, Part(s2, "status"), NEW s3, Part(s3, "addTags"),
           NEW s4, Part(s4, "removeTags"), NEW s5, Part(s5, "price"),
           NEW todo, todo = s1 \o s2 \o s3 \o s4 \o s5
    PROVE  /\ InTurn(todo)
           /\ Pending(todo) \subseteq {"check", "status", "addTags", "removeTags", "price"}
           /\ s1 = <<"check">> => "check" \in Pending(todo)
           /\ s2 = <<"status">> => "status" \in Pending(todo)
           /\ s3 = <<"addTags">> => "addTags" \in Pending(todo)
           /\ s4 = <<"removeTags">> => "removeTags" \in Pending(todo)
           /\ s5 = <<"price">> => "price" \in Pending(todo)
<1>1. InTurn(s1) /\ Pending(s1) \subseteq {"check"} /\ (s1 = <<"check">> => Pending(s1) = {"check"})
  BY PartToDo DEF CallNames, Part
<1>2. InTurn(s2) /\ Pending(s2) \subseteq {"status"}
          /\ (s2 = <<"status">> => Pending(s2) = {"status"})
  BY PartToDo DEF CallNames, Part
<1>3. InTurn(s3) /\ Pending(s3) \subseteq {"addTags"}
      /\ (s3 = <<"addTags">> => Pending(s3) = {"addTags"})
  BY PartToDo DEF CallNames, Part
<1>4. InTurn(s4) /\ Pending(s4) \subseteq {"removeTags"}
      /\ (s4 = <<"removeTags">> => Pending(s4) = {"removeTags"})
  BY PartToDo DEF CallNames, Part
<1>5. InTurn(s5) /\ Pending(s5) \subseteq {"price"} /\ (s5 = <<"price">> => Pending(s5) = {"price"})
  BY PartToDo DEF CallNames, Part
<1>6. PICK t2 : t2 = s1 \o s2
  OBVIOUS
<1>7. InTurn(t2) /\ Pending(t2) = Pending(s1) \cup Pending(s2)
  <2>1. \A c \in Pending(s1), d \in Pending(s2) : Turn(c) < Turn(d)
    BY <1>1, <1>2, TurnOfEach
  <2> QED BY <1>1, <1>2, <1>6, <2>1, MoreToDo
<1>8. PICK t3 : t3 = t2 \o s3
  OBVIOUS
<1>9. InTurn(t3) /\ Pending(t3) = Pending(t2) \cup Pending(s3)
  <2>1. \A c \in Pending(t2), d \in Pending(s3) : Turn(c) < Turn(d)
    BY <1>1, <1>2, <1>3, <1>7, TurnOfEach
  <2> QED BY <1>3, <1>7, <1>8, <2>1, MoreToDo
<1>10. PICK t4 : t4 = t3 \o s4
  OBVIOUS
<1>11. InTurn(t4) /\ Pending(t4) = Pending(t3) \cup Pending(s4)
  <2>1. \A c \in Pending(t3), d \in Pending(s4) : Turn(c) < Turn(d)
    BY <1>1, <1>2, <1>3, <1>4, <1>7, <1>9, TurnOfEach
  <2> QED BY <1>4, <1>9, <1>10, <2>1, MoreToDo
<1>12. InTurn(todo) /\ Pending(todo) = Pending(t4) \cup Pending(s5)
  <2>1. \A c \in Pending(t4), d \in Pending(s5) : Turn(c) < Turn(d)
    BY <1>1, <1>2, <1>3, <1>4, <1>5, <1>7, <1>9, <1>11, TurnOfEach
  <2>2. todo = t4 \o s5
    BY <1>6, <1>8, <1>10
  <2> QED BY <1>5, <1>11, <2>1, <2>2, MoreToDo
<1>13. Pending(todo) = Pending(s1) \cup Pending(s2) \cup Pending(s3) \cup Pending(s4) \cup Pending(s5)
  BY <1>7, <1>9, <1>11, <1>12
<1> QED BY <1>1, <1>2, <1>3, <1>4, <1>5, <1>12, <1>13

LEMMA AskToEditKeeps ==
    ASSUME WritesInv, NEW w \in Slots, Writes!AskToEdit(w) PROVE WritesInv'
<1>1. PICK p \in Writes!Made, edit \in ProductEdits :
         Writes!Begin(w, p,
             (IF Writes!RequiresConcurrencyCheck(edit) THEN <<"check">> ELSE <<>>)
                 \o (IF edit.status # "any" THEN <<"status">> ELSE <<>>)
                 \o (IF edit.add # {} THEN <<"addTags">> ELSE <<>>)
                 \o (IF edit.remove # {} THEN <<"removeTags">> ELSE <<>>)
                 \o (IF edit.price # Writes!Unset THEN <<"price">> ELSE <<>>),
             [kind |-> "edit", edit |-> edit])
  BY Zenon DEF Writes!AskToEdit
<1>2. p \in Listings
  BY DEF Writes!Made
<1>3. PICK s1 : s1 = IF Writes!RequiresConcurrencyCheck(edit) THEN <<"check">> ELSE <<>>
  OBVIOUS
<1>4. PICK s2 : s2 = IF edit.status # "any" THEN <<"status">> ELSE <<>>
  OBVIOUS
<1>5. PICK s3 : s3 = IF edit.add # {} THEN <<"addTags">> ELSE <<>>
  OBVIOUS
<1>6. PICK s4 : s4 = IF edit.remove # {} THEN <<"removeTags">> ELSE <<>>
  OBVIOUS
<1>7. PICK s5 : s5 = IF edit.price # Writes!Unset THEN <<"price">> ELSE <<>>
  OBVIOUS
<1>8. PICK todo : todo = s1 \o s2 \o s3 \o s4 \o s5
  OBVIOUS
<1>9. PICK body : body = [kind |-> "edit", edit |-> edit]
  OBVIOUS
<1>10. Writes!Begin(w, p, todo, body)
  BY Zenon, <1>1, <1>3, <1>4, <1>5, <1>6, <1>7, <1>8, <1>9
<1>11. /\ Part(s1, "check") /\ Part(s2, "status") /\ Part(s3, "addTags")
       /\ Part(s4, "removeTags") /\ Part(s5, "price")
  BY <1>3, <1>4, <1>5, <1>6, <1>7 DEF Part
<1>12. PICK P : P = Pending(todo)
  OBVIOUS
<1>13. /\ InTurn(todo) /\ P \subseteq {"check", "status", "addTags", "removeTags", "price"}
       /\ s1 = <<"check">> => "check" \in P
       /\ s2 = <<"status">> => "status" \in P
       /\ s3 = <<"addTags">> => "addTags" \in P
       /\ s4 = <<"removeTags">> => "removeTags" \in P
       /\ s5 = <<"price">> => "price" \in P
  BY <1>8, <1>11, <1>12, EditToDo
<1>14. /\ edit.status # "any" => "status" \in P
       /\ edit.add # {} => "addTags" \in P
       /\ edit.remove # {} => "removeTags" \in P
       /\ edit.price # -1 => "price" \in P
  BY <1>4, <1>5, <1>6, <1>7, <1>13 DEF Writes!Unset
<1>15. edit.expectedPrice # -1 \/ edit.expectedStatus # "any" => "check" \in P
  BY <1>3, <1>13 DEF Writes!RequiresConcurrencyCheck, Writes!Unset
<1>16. PICK z : z = [p |-> p, todo |-> todo, body |-> body, report |-> "none", visible |-> FALSE,
                  unheard |-> "none"]
  OBVIOUS
<1>17. /\ z.p = p /\ z.todo = todo /\ z.report = "none" /\ z.visible = FALSE
       /\ z.body = body /\ body.kind = "edit" /\ body.edit = edit
  BY <1>9, <1>16
<1>18. Asked(z)
  BY <1>2, <1>12, <1>13, <1>14, <1>17 DEF Asked, Calls
<1>19. PICK y : y = v1[p]
  OBVIOUS
<1>20. Holds(z, y, v5)
  BY <1>12, <1>14, <1>15, <1>17 DEF Holds
<1> QED BY Zenon, <1>2, <1>10, <1>13, <1>16, <1>18, <1>19, <1>20, BeginKeeps

-----------------------------------------------------------------------------
LEMMA InitWritesInv == Writes!WritesInit => WritesInv
<1> SUFFICES ASSUME Writes!WritesInit PROVE WritesInv
  OBVIOUS
<1>1. /\ v1 = [p \in Listings |-> Writes!NoListing] /\ v2 = [w \in Slots |-> Writes!Free]
      /\ v3 = {} /\ v5 = 0
  BY DEF Writes!WritesInit
<1>2. Product(Writes!NoListing)
  BY DEF Product, Writes!NoListing
<1>3. Request(Writes!Free)
  BY NothingToDo, NoneAssumption DEF Request, Writes!Free, Writes!Unset
<1>4. v1 = [p \in Listings |-> v1[p]] /\ \A p \in Listings : Product(v1[p])
  BY <1>1, <1>2
<1>5. v2 = [w \in Slots |-> v2[w]] /\ \A w \in Slots : Request(v2[w])
  BY <1>1, <1>3
<1> QED BY <1>1, <1>4, <1>5 DEF WritesInv

LEMMA NextWritesInv ==
    WritesInv /\ [Writes!WritesNext]_(Writes!writeVars) => WritesInv'
<1> SUFFICES ASSUME WritesInv, [Writes!WritesNext]_(Writes!writeVars) PROVE WritesInv'
  OBVIOUS
<1>1. ASSUME NEW w \in Slots, Writes!AskToCreate(w) \/ Writes!AskToPublish(w) PROVE WritesInv'
  BY <1>1, AskToCreateKeeps, AskToPublishKeeps
<1>2. ASSUME NEW w \in Slots, Writes!AskToEdit(w) \/ Writes!AskForStock(w) PROVE WritesInv'
  BY <1>2, AskToEditKeeps, AskForStockKeeps
<1>3. ASSUME NEW w \in Slots, Writes!ProductCreate(w) \/ Writes!ProductVariantsBulkCreate(w)
                              \/ Writes!ProductCreateActivate(w)
      PROVE  WritesInv'
  BY <1>3, ProductCreateKeeps, ProductVariantsKeep, ActivateKeeps
<1>4. ASSUME NEW w \in Slots, Writes!PublishProduct(w) \/ Writes!UnpublishProduct(w)
                              \/ Writes!VerifyPublicationState(w)
      PROVE  WritesInv'
  BY <1>4, PublishKeeps, UnpublishKeeps, VerifyKeeps
<1>5. ASSUME NEW w \in Slots, Writes!AssertNotStale(w) \/ Writes!EditProduct(w) PROVE WritesInv'
  BY <1>5, AssertNotStaleKeeps, EditKeeps
<1>6. ASSUME NEW w \in Slots,
             Writes!GetCurrentInventoryLevel(w) \/ Writes!SetInventoryQuantity(w)
      PROVE  WritesInv'
  BY <1>6, ReadLevelKeeps, SetStockKeeps
<1>7. CASE Writes!MerchantChanges
  BY <1>7, MerchantKeeps
<1>8. CASE UNCHANGED Writes!writeVars
  BY <1>8 DEF WritesInv, Writes!writeVars
<1> QED BY <1>1, <1>2, <1>3, <1>4, <1>5, <1>6, <1>7, <1>8 DEF Writes!WritesNext

LEMMA WritesSteps == [Next]_<<service, pool>> /\ service = "writes" =>
                         [Writes!WritesNext]_(Writes!writeVars)
BY DEF Next, pool, Writes!writeVars

\* A request on whose product nobody else wrote: its product, as it stands.
LEMMA SureRequests ==
    ASSUME WritesInv, NEW w \in v3, NEW x, x = v2[w], NEW y, y = v1[x.p]
    PROVE  Request(x) /\ Asked(x) /\ Holds(x, y, v5)
<1>1. w \in Slots
  BY Zenon DEF WritesInv
<1>2. x.p # -1 /\ Holds(x, y, v5) /\ Request(x)
  BY Zenon, <1>1, OfRequests
<1> QED BY <1>2 DEF Request

LEMMA ReportsFollow == WritesInv => Writes!ReportsAreTrue
<1> SUFFICES ASSUME WritesInv, NEW w \in v3
             PROVE  LET x == v2[w]
                        y == v1[v2[w].p]
                    IN  /\ x.report = "success" => Writes!Applied(x.body, y)
                        /\ x.visible => Writes!VisibleToCustomers(y)
                        /\ x.body.kind = "create" =>
                              /\ Writes!VisibleToCustomers(y) => y.price = x.body.price
                              /\ x.report = "partial" /\ Writes!VisibleToCustomers(y)
                                    => x.unheard = "activate"
                              /\ x.body.form.options # {} /\ v5 = 0
                                    => x.report \in {"none", "success"}
  BY DEF Writes!ReportsAreTrue, Writes!Now
<1>1. PICK x : x = v2[w]
  OBVIOUS
<1>2. PICK y : y = v1[x.p]
  OBVIOUS
<1>3. Asked(x) /\ Holds(x, y, v5)
  BY <1>1, <1>2, SureRequests
<1>4. ASSUME x.report = "success" PROVE Writes!Applied(x.body, y)
  <2>1. Pending(x.todo) = {}
    BY <1>3, <1>4 DEF Asked
  <2>2. CASE x.body.kind = "create"
    BY <1>3, <1>4, <2>1, <2>2 DEF Holds, Writes!Applied
  <2>3. CASE x.body.kind = "publish"
    BY <1>3, <1>4, <2>3 DEF Holds, Writes!Applied
  <2>4. CASE x.body.kind = "unpublish"
    BY <1>3, <1>4, <2>4 DEF Holds, Writes!Applied
  <2>5. CASE x.body.kind = "stock"
    BY <1>3, <1>4, <2>5 DEF Holds, Writes!Applied
  <2>6. CASE x.body.kind = "edit"
    BY <1>3, <1>4, <2>1, <2>6 DEF Holds, Writes!Applied, Writes!Unset
  <2> QED BY <1>3, <2>2, <2>3, <2>4, <2>5, <2>6 DEF Asked
<1>5. x.visible = TRUE => Writes!VisibleToCustomers(y)
  BY <1>3 DEF Holds, Writes!VisibleToCustomers
<1>6. x.visible => x.visible = TRUE
  OBVIOUS
<1>7. x.body.kind = "create" =>
         /\ Writes!VisibleToCustomers(y) => y.price = x.body.price
         /\ x.report = "partial" /\ Writes!VisibleToCustomers(y) => x.unheard = "activate"
         /\ x.body.form.options # {} /\ v5 = 0 => x.report \in {"none", "success"}
  BY <1>3 DEF Holds, Writes!VisibleToCustomers
<1> QED BY <1>1, <1>2, <1>4, <1>5, <1>6, <1>7

\* What a request is about to write, its product was seen to be ready for.
LEMMA ExpectationsFollow == WritesInv => Writes!WritesAsExpected
<1> SUFFICES ASSUME WritesInv, NEW w \in v3
             PROVE  LET x == v2[w]
                        y == v1[v2[w].p]
                    IN  /\ Writes!Step(w) \in {"status", "addTags", "removeTags", "price"}
                              => Writes!Believed(w)
                        /\ Writes!Step(w) = "stock" =>
                              /\ x.body.expected \in {-1, y.stock}
                              /\ x.body.confirm \/ x.body.to - y.stock \in -Limit..Limit
  BY DEF Writes!WritesAsExpected, Writes!Unset
<1>1. PICK x : x = v2[w]
  OBVIOUS
<1>2. PICK y : y = v1[x.p]
  OBVIOUS
<1>3. Request(x) /\ Asked(x) /\ Holds(x, y, v5)
  BY <1>1, <1>2, SureRequests
<1>4. PICK P : P = Pending(x.todo)
  OBVIOUS
<1>5. ASSUME NEW c \in {"status", "addTags", "removeTags", "price"}, Writes!Step(w) = c
      PROVE  Writes!Believed(w)
  <2>1. x.todo # <<>> /\ c = Head(x.todo)
    BY <1>1, <1>5, StepIs
  <2>2. c \in P /\ "check" \notin P
    BY <1>3, <1>4, <2>1, CallsInTurn
  <2>3. x.body.kind = "edit"
    BY <1>3, <1>4, <2>2 DEF Asked, Calls
  <2>4. PICK edit : edit = x.body.edit
    OBVIOUS
  <2>5. /\ edit.expectedPrice \in {-1, y.price}
        /\ edit.expectedStatus \in {"any", y.status} \/ ("status" \notin P /\ edit.status = y.status)
    BY <1>3, <1>4, <2>2, <2>3, <2>4 DEF Holds
  <2>6. c = "status" => "status" \in P
    BY <2>2
  <2> QED BY <1>1, <1>2, <1>5, <2>4, <2>5, <2>6 DEF Writes!Believed, Writes!Now, Writes!Unset
<1>6. ASSUME Writes!Step(w) = "stock"
      PROVE  /\ x.body.expected \in {-1, y.stock}
             /\ x.body.confirm \/ x.body.to - y.stock \in -Limit..Limit
  <2>1. x.todo # <<>> /\ "stock" = Head(x.todo)
    BY <1>1, <1>6, StepIs
  <2>2. "stock" \in P /\ "read" \notin P
    BY <1>3, <1>4, <2>1, CallsInTurn
  <2>3. x.body.kind = "stock"
    BY <1>3, <1>4, <2>2 DEF Asked, Calls
  <2> QED BY <1>3, <1>4, <2>2, <2>3 DEF Holds
<1> QED BY <1>1, <1>2, <1>5, <1>6

LEMMA WritesRun == Spec => [](service = "writes" => WritesInv)
<1>1. Init => (service = "writes" => WritesInv)
  BY InitWritesInv DEF Init
<1>2. (service = "writes" => WritesInv) /\ [Next]_<<service, pool>>
          => (service = "writes" => WritesInv)'
  <2>1. [Next]_<<service, pool>> => service' = service
    BY DEF Next
  <2> QED BY <2>1, WritesSteps, NextWritesInv
<1> QED BY <1>1, <1>2, PTL DEF Spec

\* Whatever interleaves, is refused, fails or loses its answer: while nobody else
\* wrote to its product, what a request reported as done is what Shopify has, a
\* product reported visible can be bought, and never at another price than the one
\* the operator entered; and one a create reports as left in draft cannot be bought,
\* unless its activation took effect and only the answer was lost
\* (products.create.service.ts, publications.service.ts).
THEOREM ReportsStayTrue == Spec => []ReportsAreTrue
<1>1. (service = "writes" => WritesInv) => ReportsAreTrue
  BY ReportsFollow DEF ReportsAreTrue
<1> QED BY <1>1, WritesRun, PTL

\* An edit whose caller said which status and price the product has changes none that
\* has others, a stock level overwrites none but the expected, and no change beyond
\* the limit goes unconfirmed, unless somebody wrote between the read and the write
\* (product.write.ts, inventory.write.ts).
THEOREM WritesMeetExpectations == Spec => ExpectationsHold
<1>1. (service = "writes" => WritesInv) =>
          [service = "writes" => Writes!WritesAsExpected]_pool
  BY ExpectationsFollow
<1> QED BY <1>1, WritesRun, PTL DEF ExpectationsHold

-----------------------------------------------------------------------------
(* The storefront: what the supplier's sheet, the mapping of variants and  *)
(* the request of a customer have in common in every state.                *)

\* What a row says of a variant is true of that variant.
TrueRow(r) ==
    r.v \in {"v1", "v2"} /\ r.option = r.v /\ r.id \in {r.v, "unset"} /\ r.sku \in {r.v, "unset"}

TrueSheet(sheet) ==
    /\ sheet.availability \in {"AVAILABLE", "UNAVAILABLE", "UNKNOWN"}
    /\ sheet.availability = "AVAILABLE" => sheet.checkedAt \in Nat
    /\ \A r \in sheet.rows : TrueRow(r)

\* A mapping carries the identity its variant of Shopify has at the supplier; one that
\* carries none is of the default variant.
TrueMapping(m) ==
    /\ m.shopify # "unset"
    /\ m.id \in {m.shopify, "unset"} /\ m.sku \in {m.shopify, "unset"}
    /\ m.option \in {m.shopify, "unset"}
    /\ m.option = "unset" => m.id = "unset" /\ m.sku = "unset"

TrueMappings(mappings) ==
    /\ \A m \in mappings : TrueMapping(m)
    /\ \A m, n \in mappings : m.public = n.public => m = n

TrueEvidence(e) == TrueSheet(e.sheet) /\ TrueMappings(e.mappings)

\* A cart quotes the price of every line, the same one, or of none.
TrueCart(cart) ==
    /\ \E n \in 1..2 : DOMAIN cart = 1..n
    /\ \E e : \A i \in DOMAIN cart :
          cart[i] = [public |-> cart[i].public, quantity |-> cart[i].quantity, expected |-> e]

Customer(x) ==
    x = [stage |-> x.stage, page |-> x.page, cart |-> x.cart, lines |-> x.lines, read |-> x.read,
         shop |-> x.shop, evidence |-> x.evidence, sold |-> x.sold, at |-> x.at]

Candidate(x) ==
    x = [linked |-> x.linked, sheet |-> x.sheet, created |-> x.created, mappings |-> x.mappings]

TrueCustomer(x) ==
    /\ Customer(x)
    /\ x.shop \in Displays \cup {Store!Hidden}
    /\ TrueEvidence(x.evidence)
    /\ x.stage = "shown" => \E p : \A o \in x.page : o.price = p
    /\ x.stage \in {"cart", "checkout"} => TrueCart(x.cart)
    /\ x.stage = "checkout" => x.lines = Store!ParseLines(x.cart)

StoreInv ==
    /\ v1 \in Nat
    /\ v2 \in Displays \cup {Store!Hidden}
    /\ Candidate(v3) /\ TrueEvidence(v3)
    /\ TrueCustomer(v5)
    /\ Store!SoldIsSourced /\ Store!CartsHold

\* The module counts sets as the library does.
LEMMA SameCardinality == ASSUME NEW S PROVE Store!Cardinality(S) = Cardinality(S)
BY DEF Store!Cardinality, Cardinality

LEMMA StoreStarts == Store!StorefrontInit => StoreInv
<1> SUFFICES ASSUME Store!StorefrontInit PROVE StoreInv
  OBVIOUS
<1>1. v1 = 0 /\ v2 = Store!Hidden /\ v5 = Store!Away
  BY DEF Store!StorefrontInit
<1>2. v3 = [linked |-> FALSE, sheet |-> Store!EmptySupplierInfo, created |-> {}, mappings |-> {}]
  BY DEF Store!StorefrontInit
<1>3. TrueSheet(Store!EmptySupplierInfo)
  BY DEF TrueSheet, Store!EmptySupplierInfo
<1>4. TrueEvidence(v3) /\ Candidate(v3)
  BY <1>2, <1>3 DEF TrueEvidence, TrueMappings, Candidate
<1>5. TrueEvidence(Store!NoEvidence)
  BY <1>3 DEF TrueEvidence, TrueMappings, Store!NoEvidence
<1>6. TrueCustomer(v5) /\ v5.stage = "away"
  BY <1>1, <1>5 DEF TrueCustomer, Customer, Store!Away
<1> QED BY <1>1, <1>4, <1>6 DEF StoreInv, Store!SoldIsSourced, Store!CartsHold

\* The variant sold is the one whose identity the customer's choice carries.
Chosen(mappings, s) ==
    \E m \in mappings :
        /\ m.public = s.public /\ m.shopify = s.shopify
        /\ {m.id, m.sku, m.option} \subseteq {s.shopify, "unset"}

\* What the two properties say of a customer that has bought.
Sourced(x) ==
    x.stage = "sold" => \A s \in x.sold :
        LET sheet == x.evidence.sheet IN
        /\ x.shop.status = "ACTIVE" /\ x.shop.channel = "PUBLISHED"
        /\ Chosen(x.evidence.mappings, s)
        /\ sheet.availability = "AVAILABLE"
        /\ x.at - sheet.checkedAt <= 2 * Store!ManualAvailabilityFreshHours
        /\ sheet.rows # {} =>
              \E r \in sheet.rows : r.v = s.shopify /\ r.availability = "AVAILABLE"

Held(x) ==
    x.stage = "sold" => \A i \in DOMAIN x.cart : \E s \in x.sold :
        /\ s.public = x.cart[i].public /\ s.quantity = Store!Asked(x.cart, x.cart[i].public)
        /\ x.cart[i].expected # 0 => s.price = x.cart[i].expected
        /\ \A t \in x.shop.moq : t <= 3 => Store!Asked(x.cart, x.cart[i].public) >= t
        /\ \/ x.shop.stock[s.shopify] = -1
           \/ Store!Asked(x.cart, x.cart[i].public) <= x.shop.stock[s.shopify]

LEMMA SourcedIs == Store!SoldIsSourced <=> Sourced(v5)
BY Zenon DEF Store!SoldIsSourced, Sourced, Chosen, Store!Unset

LEMMA HeldIs == Store!CartsHold <=> Held(v5)
BY Zenon DEF Store!CartsHold, Held, Store!Untracked
\* What is sold is judged only of a customer it is sold to.
LEMMA NotSold == ASSUME v5.stage # "sold" PROVE Store!SoldIsSourced /\ Store!CartsHold
BY DEF Store!SoldIsSourced, Store!CartsHold

\* A request that has not ended in a sale.
LEMMA CustomerMoves ==
    ASSUME StoreInv, v1' = v1, v2' = v2, v3' = v3, TrueCustomer(v5'), v5'.stage # "sold"
    PROVE  StoreInv'
<1>1. Store!SoldIsSourced' /\ Store!CartsHold'
  BY DEF Store!SoldIsSourced, Store!CartsHold
<1>2. Candidate(v3)' /\ TrueEvidence(v3)'
  BY DEF StoreInv
<1> QED BY <1>1, <1>2 DEF StoreInv

LEMMA OpenPageStays == ASSUME StoreInv, Store!OpenPage PROVE StoreInv'
<1>1. v5' = [Store!Away EXCEPT !.stage = "browse"] /\ v1' = v1 /\ v2' = v2 /\ v3' = v3
  BY DEF Store!OpenPage, Store!Become
<1>2. TrueEvidence(Store!NoEvidence)
  BY DEF TrueEvidence, TrueMappings, Store!NoEvidence, TrueSheet, Store!EmptySupplierInfo
<1>3. TrueCustomer(v5')
  BY <1>1, <1>2 DEF TrueCustomer, Customer, Store!Away
<1>4. v5'.stage # "sold"
  BY <1>1 DEF Store!Away
<1> QED BY <1>1, <1>3, <1>4, CustomerMoves

LEMMA ReadShopStays == ASSUME StoreInv, Store!ReadShop PROVE StoreInv'
<1>1. v5' = [v5 EXCEPT !.shop = v2, !.read = @ \cup {"shop"}] /\ v1' = v1 /\ v2' = v2 /\ v3' = v3
  BY DEF Store!ReadShop, Store!Become
<1>2. v5.stage \in {"browse", "checkout"}
  BY DEF Store!ReadShop
<1>3. PICK x : x = v5
  OBVIOUS
<1>4. TrueCustomer(x) /\ v2 \in Displays \cup {Store!Hidden}
  BY <1>3 DEF StoreInv
<1>5. v5' = [x EXCEPT !.shop = v2, !.read = @ \cup {"shop"}]
  BY <1>1, <1>3
<1>6. v5' = [stage |-> x.stage, page |-> x.page, cart |-> x.cart, lines |-> x.lines,
             read |-> x.read \cup {"shop"}, shop |-> v2, evidence |-> x.evidence,
             sold |-> x.sold, at |-> x.at]
  BY <1>4, <1>5 DEF TrueCustomer, Customer
<1>7. TrueCustomer(v5')
  BY <1>4, <1>6 DEF TrueCustomer, Customer
<1> QED BY <1>1, <1>2, <1>3, <1>6, <1>7, CustomerMoves

LEMMA ReadEvidenceStays == ASSUME StoreInv, Store!ReadEvidence PROVE StoreInv'
<1>1. PICK e : e = Store!Evidence
  OBVIOUS
<1>2. v5' = [v5 EXCEPT !.evidence = e, !.read = @ \cup {"evidence"}] /\ v1' = v1 /\ v2' = v2
          /\ v3' = v3
  BY <1>1 DEF Store!ReadEvidence, Store!Become
<1>3. v5.stage \in {"browse", "checkout"}
  BY DEF Store!ReadEvidence
<1>4. PICK x : x = v5
  OBVIOUS
<1>5. TrueCustomer(x) /\ TrueEvidence(v3)
  BY <1>4 DEF StoreInv
<1>6. TrueEvidence(e)
  <2>1. TrueEvidence(Store!NoEvidence)
    BY DEF TrueEvidence, TrueMappings, Store!NoEvidence, TrueSheet, Store!EmptySupplierInfo
  <2>2. e = [sheet |-> v3.sheet, mappings |-> v3.mappings] \/ e = Store!NoEvidence
    BY <1>1 DEF Store!Evidence
  <2> QED BY <1>5, <2>1, <2>2 DEF TrueEvidence
<1>7. v5' = [stage |-> x.stage, page |-> x.page, cart |-> x.cart, lines |-> x.lines,
             read |-> x.read \cup {"evidence"}, shop |-> x.shop, evidence |-> e,
             sold |-> x.sold, at |-> x.at]
  BY <1>2, <1>4, <1>5 DEF TrueCustomer, Customer
<1>8. TrueCustomer(v5')
  BY <1>5, <1>6, <1>7 DEF TrueCustomer, Customer
<1> QED BY <1>2, <1>3, <1>4, <1>7, <1>8, CustomerMoves

\* A page shows one price.
LEMMA ShowPageStays == ASSUME StoreInv, Store!ShowPage PROVE StoreInv'
<1>1. PICK page : page = Store!Project(v5.shop, v5.evidence, v1)
  OBVIOUS
<1>2. v5' = [Store!Away EXCEPT !.stage = "shown", !.page = page] /\ v1' = v1 /\ v2' = v2 /\ v3' = v3
  BY <1>1 DEF Store!ShowPage, Store!Become
<1>3. \A o \in page : o.price = v5.shop.price
  BY <1>1 DEF Store!Project
<1>4. TrueEvidence(Store!NoEvidence)
  BY DEF TrueEvidence, TrueMappings, Store!NoEvidence, TrueSheet, Store!EmptySupplierInfo
<1>5. v5' = [stage |-> "shown", page |-> page, cart |-> <<>>, lines |-> {}, read |-> {},
             shop |-> Store!Hidden, evidence |-> Store!NoEvidence, sold |-> {}, at |-> 0]
  BY <1>2 DEF Store!Away
<1>6. TrueCustomer(v5')
  BY <1>3, <1>4, <1>5 DEF TrueCustomer, Customer
<1> QED BY <1>2, <1>5, <1>6, CustomerMoves

\* A cart holds lines of the page, all of them with its price or none.
LEMMA AddToCartStays == ASSUME StoreInv, Store!AddToCart PROVE StoreInv'
<1>1. v5.stage = "shown" /\ v1' = v1 /\ v2' = v2 /\ v3' = v3
  BY DEF Store!AddToCart, Store!Become
<1>11. PICK offers \in UNION {[1..n -> v5.page] : n \in 1..2}, quoted \in BOOLEAN :
           /\ \A i \in DOMAIN offers : offers[i].availability = "SELLABLE"
           /\ \E quantities \in [DOMAIN offers -> {1, 2}] :
                Store!Become([v5 EXCEPT !.stage = "cart", !.cart =
                   [i \in DOMAIN offers |->
                       [public |-> offers[i].public, quantity |-> quantities[i],
                        expected |-> IF quoted THEN offers[i].price ELSE 0]]])
    BY Zenon DEF Store!AddToCart
<1>2. PICK quantities \in [DOMAIN offers -> {1, 2}] :
           v5' = [v5 EXCEPT !.stage = "cart", !.cart =
                   [i \in DOMAIN offers |->
                       [public |-> offers[i].public, quantity |-> quantities[i],
                        expected |-> IF quoted THEN offers[i].price ELSE 0]]]
  BY <1>11, Zenon DEF Store!Become
<1>21. PICK n \in 1..2 : offers \in [1..n -> v5.page]
  OBVIOUS
<1>3. PICK cart : cart = [i \in DOMAIN offers |->
                       [public |-> offers[i].public, quantity |-> quantities[i],
                        expected |-> IF quoted THEN offers[i].price ELSE 0]]
  OBVIOUS
<1>4. PICK x : x = v5
  OBVIOUS
<1>5. TrueCustomer(x)
  BY <1>4 DEF StoreInv
<1>6. TrueCart(cart)
  <2>1. DOMAIN cart = 1..n
    BY <1>21, <1>3
  <2>2. PICK p : \A o \in v5.page : o.price = p
    BY <1>1, <1>4, <1>5 DEF TrueCustomer
  <2>3. \A i \in DOMAIN cart : cart[i] =
           [public |-> cart[i].public, quantity |-> cart[i].quantity,
            expected |-> IF quoted THEN p ELSE 0]
    BY <1>21, <1>3, <2>2
  <2> QED BY <2>1, <2>3 DEF TrueCart
<1>7. v5' = [x EXCEPT !.stage = "cart", !.cart = cart]
  BY <1>2, <1>3, <1>4, Zenon
<1>8. v5' = [stage |-> "cart", page |-> x.page, cart |-> cart, lines |-> x.lines,
             read |-> x.read, shop |-> x.shop, evidence |-> x.evidence,
             sold |-> x.sold, at |-> x.at]
  BY <1>5, <1>7 DEF TrueCustomer, Customer
<1>9. TrueCustomer(v5')
  BY <1>5, <1>6, <1>8 DEF TrueCustomer, Customer
<1> QED BY <1>1, <1>8, <1>9, CustomerMoves

LEMMA CheckOutStays == ASSUME StoreInv, Store!CheckOut PROVE StoreInv'
<1>1. v5.stage = "cart" /\ v1' = v1 /\ v2' = v2 /\ v3' = v3
  BY DEF Store!CheckOut, Store!Become
<1>2. PICK lines : lines = Store!ParseLines(v5.cart)
  OBVIOUS
<1>3. \/ v5' = [v5 EXCEPT !.stage = "checkout", !.lines = lines]
      \/ v5' = [Store!Away EXCEPT !.stage = "refused"]
  BY <1>2, Zenon DEF Store!CheckOut, Store!Become
<1>4. PICK x : x = v5
  OBVIOUS
<1>5. TrueCustomer(x) /\ TrueCart(x.cart)
  BY <1>1, <1>4 DEF StoreInv, TrueCustomer
<1>6. CASE v5' = [v5 EXCEPT !.stage = "checkout", !.lines = lines]
  <2>1. v5' = [stage |-> "checkout", page |-> x.page, cart |-> x.cart, lines |-> lines,
               read |-> x.read, shop |-> x.shop, evidence |-> x.evidence,
               sold |-> x.sold, at |-> x.at]
    BY <1>4, <1>5, <1>6 DEF TrueCustomer, Customer
  <2>2. TrueCustomer(v5')
    BY <1>2, <1>4, <1>5, <2>1 DEF TrueCustomer, Customer
  <2> QED BY <1>1, <2>1, <2>2, CustomerMoves
<1>7. CASE v5' = [Store!Away EXCEPT !.stage = "refused"]
  <2>1. TrueEvidence(Store!NoEvidence)
    BY DEF TrueEvidence, TrueMappings, Store!NoEvidence, TrueSheet, Store!EmptySupplierInfo
  <2>2. TrueCustomer(v5') /\ v5'.stage = "refused"
    BY <1>7, <2>1 DEF TrueCustomer, Customer, Store!Away
  <2> QED BY <1>1, <2>2, CustomerMoves
<1> QED BY <1>3, <1>6, <1>7

\* The world moves while a customer holds what it holds.
LEMMA WorldMoves ==
    ASSUME StoreInv, v5' = v5, v1' \in Nat, v2' \in Displays \cup {Store!Hidden},
           Candidate(v3'), TrueEvidence(v3')
    PROVE  StoreInv'
<1>1. Sourced(v5) /\ Held(v5)
  BY SourcedIs, HeldIs DEF StoreInv
<1>2. Sourced(v5') /\ Held(v5')
  BY <1>1, Zenon
<1>3. Store!SoldIsSourced'
  BY <1>2, Zenon DEF Store!SoldIsSourced, Sourced, Chosen, Store!Unset
<1>4. Store!CartsHold'
  BY <1>2, Zenon DEF Store!CartsHold, Held, Store!Untracked
<1>5. TrueCustomer(v5')
  BY Zenon DEF StoreInv
<1> QED BY <1>3, <1>4, <1>5, Zenon DEF StoreInv

LEMMA MerchantStays == ASSUME StoreInv, Store!MerchantEdits PROVE StoreInv'
<1>1. v1' = v1 /\ v3' = v3 /\ v5' = v5 /\ v2' \in Displays
  BY DEF Store!MerchantEdits
<1>2. v1 \in Nat /\ Candidate(v3) /\ TrueEvidence(v3)
  BY DEF StoreInv
<1> QED BY <1>1, <1>2, WorldMoves

LEMMA TwinStays == ASSUME StoreInv, Store!TwinAppears PROVE StoreInv'
<1>1. v1' = v1 /\ v3' = v3 /\ v5' = v5 /\ v2' = v2
  BY DEF Store!TwinAppears
<1>2. v1 \in Nat /\ Candidate(v3) /\ TrueEvidence(v3) /\ v2 \in Displays \cup {Store!Hidden}
  BY DEF StoreInv
<1> QED BY <1>1, <1>2, WorldMoves

LEMMA TimeStays == ASSUME StoreInv, Store!TimePasses PROVE StoreInv'
<1>1. v1' = v1 + 72 /\ v3' = v3 /\ v5' = v5 /\ v2' = v2
  BY DEF Store!TimePasses
<1>2. v1 \in Nat /\ Candidate(v3) /\ TrueEvidence(v3) /\ v2 \in Displays \cup {Store!Hidden}
  BY DEF StoreInv
<1>3. v1' \in Nat
  BY <1>1, <1>2
<1> QED BY <1>1, <1>2, <1>3, WorldMoves

\* Every row an operator records is about one variant.
LEMMA RowsAreTrue ==
    ASSUME NEW s \in Verifications
    PROVE  /\ s.availability \in {"AVAILABLE", "UNAVAILABLE"}
           /\ \A r \in s.rows : TrueRow(r)
<1>1. \A v \in {"v1", "v2"}, named \in BOOLEAN, coded \in BOOLEAN : \A a :
         TrueRow(Row(v, named, coded, a))
  BY DEF TrueRow, Row
<1>2. \A r \in {Row("v1", TRUE, TRUE, "AVAILABLE"), Row("v2", FALSE, TRUE, "AVAILABLE"),
               Row("v1", TRUE, FALSE, "AVAILABLE"), Row("v2", FALSE, FALSE, "UNAVAILABLE"),
               Row("v1", FALSE, FALSE, "UNKNOWN")} : TrueRow(r)
  BY <1>1
<1>3. \/ s = [availability |-> "UNAVAILABLE", rows |-> {}]
      \/ \E rows \in {{Row("v1", TRUE, TRUE, "AVAILABLE"), Row("v2", FALSE, TRUE, "AVAILABLE")},
                 {Row("v1", TRUE, FALSE, "AVAILABLE"), Row("v2", FALSE, FALSE, "UNAVAILABLE")},
                 {Row("v1", FALSE, FALSE, "UNKNOWN"), Row("v2", FALSE, TRUE, "AVAILABLE")},
                 {}} : s = [availability |-> "AVAILABLE", rows |-> rows]
  BY DEF Verifications
<1>4. s.availability \in {"AVAILABLE", "UNAVAILABLE"}
  <2>1. \/ s = [availability |-> "UNAVAILABLE", rows |-> {}]
        \/ \E rows : s = [availability |-> "AVAILABLE", rows |-> rows]
    BY <1>3, Zenon
  <2> QED BY <2>1
<1>5. \A r \in s.rows : TrueRow(r)
  <2>1. CASE s = [availability |-> "UNAVAILABLE", rows |-> {}]
    BY <2>1
  <2>2. ASSUME NEW rows, s = [availability |-> "AVAILABLE", rows |-> rows],
               rows \in {{Row("v1", TRUE, TRUE, "AVAILABLE"), Row("v2", FALSE, TRUE, "AVAILABLE")},
                 {Row("v1", TRUE, FALSE, "AVAILABLE"), Row("v2", FALSE, FALSE, "UNAVAILABLE")},
                 {Row("v1", FALSE, FALSE, "UNKNOWN"), Row("v2", FALSE, TRUE, "AVAILABLE")},
                 {}}
        PROVE  \A r \in s.rows : TrueRow(r)
    <3>1. s.rows = rows
      BY <2>2
    <3> QED BY <1>2, <2>2, <3>1
  <2> QED BY <1>3, <2>1, <2>2
<1> QED BY <1>4, <1>5

LEMMA VerificationStays == ASSUME StoreInv, Store!RecordSupplierVerification PROVE StoreInv'
<1>1. v1' = v1 /\ v5' = v5 /\ v2' = v2
  BY DEF Store!RecordSupplierVerification
<1>2. PICK s \in Verifications : v3' = [v3 EXCEPT !.sheet =
            [availability |-> s.availability, checkedAt |-> v1, manual |-> TRUE, rows |-> s.rows]]
  BY DEF Store!RecordSupplierVerification
<1>3. v1 \in Nat /\ Candidate(v3) /\ TrueEvidence(v3) /\ v2 \in Displays \cup {Store!Hidden}
  BY DEF StoreInv
<1>4. PICK sheet : sheet =
            [availability |-> s.availability, checkedAt |-> v1, manual |-> TRUE, rows |-> s.rows]
  OBVIOUS
<1>5. TrueSheet(sheet)
  BY <1>3, <1>4, RowsAreTrue DEF TrueSheet
<1>6. v3' = [linked |-> v3.linked, sheet |-> sheet, created |-> v3.created,
          mappings |-> v3.mappings]
  BY <1>2, <1>3, <1>4 DEF Candidate
<1>7. Candidate(v3') /\ TrueEvidence(v3')
  BY <1>3, <1>5, <1>6 DEF Candidate, TrueEvidence
<1> QED BY <1>1, <1>3, <1>7, WorldMoves

\* The mapping of variants: a source is paired with the one variant made from it, and
\* no two sources share an identity.
LEMMA MappingIsTrue ==
    ASSUME NEW plan, NEW created, Store!PlanIsStable(plan),
           \/ \A r \in plan : TrueRow(r)
           \/ plan = {Store!Default},
           \A c \in created : TrueRow(c) \/ c = Store!Default
    PROVE  TrueMappings(Store!MapCreatedVariants(plan, created))
<1> DEFINE mapping(p, c) == [public |-> Store!PublicId(p), shopify |-> c.v, id |-> p.id,
        sku |-> p.sku,
                             option |-> p.option]
<1>1. \A m \in Store!MapCreatedVariants(plan, created) : \E p \in plan, c \in created :
         Store!Matches(p, plan, created) = {c} /\ m = mapping(p, c)
  BY DEF Store!MapCreatedVariants
<1>2. Store!Default.v = "default" /\ Store!Default.id = "unset" /\ Store!Default.sku = "unset"
      /\ Store!Default.option = "unset"
  BY DEF Store!Default, Store!Unset
<1>3. ASSUME NEW p \in plan, NEW c \in created, Store!Matches(p, plan, created) = {c}
      PROVE  /\ TrueMapping(mapping(p, c))
             /\ TrueRow(p) => c.v = p.v
  <2>1. c \in Store!Matches(p, plan, created)
    BY <1>3
  <2>2. p.sku # "unset" => c.sku = p.sku
    BY <2>1 DEF Store!Matches, Store!Unset
  <2>3. p.sku = "unset" /\ p.option # "unset" => c.option = p.option
    BY <2>1 DEF Store!Matches, Store!Unset
  <2>4. CASE TrueRow(p)
    <3>1. c # Store!Default
      BY <1>2, <2>2, <2>3, <2>4 DEF TrueRow
    <3>2. TrueRow(c)
      BY <3>1
    <3>3. c.v = p.v
      BY <2>2, <2>3, <2>4, <3>2 DEF TrueRow
    <3> QED BY <2>4, <3>3 DEF TrueRow, TrueMapping
  <2>5. CASE p = Store!Default
    <3>1. c.v # "unset"
      BY <1>2 DEF TrueRow
    <3>2. ~TrueRow(p)
      BY <1>2, <2>5 DEF TrueRow
    <3> QED BY <1>2, <2>5, <3>1, <3>2 DEF TrueMapping
  <2> QED BY <2>4, <2>5
<1>4. ASSUME NEW p \in plan, NEW q \in plan, Store!PublicId(p) = Store!PublicId(q) PROVE p = q
  <2>1. p.id = "unset" /\ q.id = "unset" /\ p.sku = "unset" /\ q.sku = "unset"
            => p.option = q.option
    BY <1>4 DEF Store!PublicId, Store!Unset
  <2>2. p.id # "unset" \/ q.id # "unset" => p.id = q.id
    BY <1>4 DEF Store!PublicId, Store!Unset
  <2>3. p.id = "unset" /\ q.id = "unset" /\ (p.sku # "unset" \/ q.sku # "unset") => p.sku = q.sku
    BY <1>4 DEF Store!PublicId, Store!Unset
  <2> QED BY <2>1, <2>2, <2>3 DEF Store!PlanIsStable, Store!Unset
<1>5. ASSUME NEW m \in Store!MapCreatedVariants(plan, created),
             NEW n \in Store!MapCreatedVariants(plan, created), m.public = n.public
      PROVE  m = n
  <2>1. PICK p \in plan, c \in created : Store!Matches(p, plan, created) = {c} /\ m = mapping(p, c)
    BY <1>1
  <2>2. PICK q \in plan, d \in created : Store!Matches(q, plan, created) = {d} /\ n = mapping(q, d)
    BY <1>1
  <2>3. p = q
    BY <1>4, <1>5, <2>1, <2>2
  <2> QED BY <2>1, <2>2, <2>3
<1>6. \A m \in Store!MapCreatedVariants(plan, created) : TrueMapping(m)
  BY <1>1, <1>3
<1> QED BY <1>5, <1>6 DEF TrueMappings

LEMMA PushStays == ASSUME StoreInv, Store!PushSucceeds PROVE StoreInv'
<1>1. v1' = v1 /\ v5' = v5 /\ v2' = v2
  BY DEF Store!PushSucceeds
<1>2. PICK plan : plan = Store!Planned(v3.sheet.rows)
  OBVIOUS
<1>3. Store!PlanIsStable(plan)
  BY <1>2 DEF Store!PushSucceeds
<1>4. PICK made \in SUBSET plan, extra \in SUBSET {Store!Default} :
         v3' = [v3 EXCEPT !.linked = TRUE, !.created = made \cup extra,
                          !.mappings = Store!MapCreatedVariants(plan, made \cup extra)]
  BY <1>2 DEF Store!PushSucceeds
<1>5. v1 \in Nat /\ Candidate(v3) /\ TrueEvidence(v3) /\ v2 \in Displays \cup {Store!Hidden}
  BY DEF StoreInv
<1>6. PICK created : created = made \cup extra
  OBVIOUS
<1>7. (\A r \in plan : TrueRow(r)) \/ plan = {Store!Default}
  BY <1>2, <1>5 DEF Store!Planned, TrueEvidence, TrueSheet
<1>8. \A c \in created : TrueRow(c) \/ c = Store!Default
  BY <1>6, <1>7
<1>9. PICK mappings : mappings = Store!MapCreatedVariants(plan, created)
  OBVIOUS
<1>10. TrueMappings(mappings)
  BY <1>3, <1>7, <1>8, <1>9, MappingIsTrue
<1>11. v3' = [linked |-> TRUE, sheet |-> v3.sheet, created |-> created, mappings |-> mappings]
  <2>1. v3' = [v3 EXCEPT !.linked = TRUE, !.created = created, !.mappings = mappings]
    BY <1>4, <1>6, <1>9, Zenon
  <2> QED BY <1>5, <2>1 DEF Candidate
<1>12. Candidate(v3') /\ TrueEvidence(v3')
  BY <1>5, <1>10, <1>11 DEF Candidate, TrueEvidence
<1> QED BY <1>1, <1>5, <1>12, WorldMoves

\* An offer of a page is a mapping, at the price of the product.
LEMMA OffersAreMapped ==
    ASSUME NEW shop, NEW evidence, NEW time, NEW o \in Store!Project(shop, evidence, time)
    PROVE  \E m \in evidence.mappings :
              o = [public |-> m.public, shopify |-> m.shopify, price |-> shop.price,
                   availability |-> Store!Sellability(m, shop, evidence.sheet, time)]
BY DEF Store!Project

LEMMA OffersDiffer ==
    ASSUME NEW shop, NEW evidence, NEW time, TrueEvidence(evidence),
           NEW o \in Store!Project(shop, evidence, time),
           NEW p \in Store!Project(shop, evidence, time), o.public = p.public
    PROVE  o = p
<1>1. PICK m \in evidence.mappings :
              o = [public |-> m.public, shopify |-> m.shopify, price |-> shop.price,
                   availability |-> Store!Sellability(m, shop, evidence.sheet, time)]
  BY OffersAreMapped
<1>2. PICK n \in evidence.mappings :
              p = [public |-> n.public, shopify |-> n.shopify, price |-> shop.price,
                   availability |-> Store!Sellability(n, shop, evidence.sheet, time)]
  BY OffersAreMapped
<1>3. m = n
  <2>1. m.public = n.public
    BY <1>1, <1>2
  <2> QED BY <2>1 DEF TrueEvidence, TrueMappings
<1> QED BY <1>1, <1>2, <1>3

\* What can be sold, the supplier has, as a recent sheet says of that very variant.
LEMMA SellableIsSourced ==
    ASSUME NEW m, NEW shop, NEW sheet, NEW time \in Nat, TrueSheet(sheet), TrueMapping(m),
           Store!Sellability(m, shop, sheet, time) = "SELLABLE"
    PROVE  /\ shop.status = "ACTIVE" /\ shop.channel = "PUBLISHED"
           /\ sheet.availability = "AVAILABLE"
           /\ time - sheet.checkedAt <= 2 * Store!ManualAvailabilityFreshHours
           /\ sheet.rows # {} =>
                 \E r \in sheet.rows : r.v = m.shopify /\ r.availability = "AVAILABLE"
<1>1. /\ shop.status = "ACTIVE" /\ shop.channel = "PUBLISHED"
      /\ Store!PushEligible(sheet, time) /\ Store!SupplierHasIt(m, sheet, time)
  BY DEF Store!Sellability
<1>2. sheet.availability = "AVAILABLE" /\ Store!CheckFreshness(sheet.checkedAt, time) # "STALE"
  <2>1. Store!CurrentSourceability(sheet, time) \in {"SOURCEABLE", "PARTIALLY_SOURCEABLE"}
    BY <1>1 DEF Store!PushEligible
  <2> QED BY <2>1 DEF Store!CurrentSourceability, TrueSheet
<1>3. sheet.checkedAt \in Nat
  BY <1>2 DEF TrueSheet
<1>4. time - sheet.checkedAt <= 2 * Store!ManualAvailabilityFreshHours
  BY <1>2, <1>3 DEF Store!CheckFreshness, Store!ResolveFreshness, Store!Never,
                    Store!ManualAvailabilityFreshHours
<1>5. ASSUME sheet.rows # {}
      PROVE  \E r \in sheet.rows : r.v = m.shopify /\ r.availability = "AVAILABLE"
  <2>1. PICK r \in sheet.rows :
           Store!CurrentSupplierRows(m, sheet.rows) = {r} /\ r.availability = "AVAILABLE"
    BY <1>1, <1>5 DEF Store!SupplierHasIt
  <2>2. r \in Store!CurrentSupplierRows(m, sheet.rows)
    BY <2>1
  <2>3. TrueRow(r)
    BY DEF TrueSheet
  <2>4. r.v = m.shopify
    BY <2>2, <2>3 DEF Store!CurrentSupplierRows, Store!Unset, TrueRow, TrueMapping
  <2> QED BY <2>1, <2>4
<1> QED BY <1>1, <1>2, <1>4, <1>5

\* Where pairs give as many results as there are things, and each thing is in one pair
\* at most, everything is in a pair.
Paired(L, P, g, S) ==
    /\ \A p \in P : p[1] \in L /\ g[p] \in S
    /\ \A p, q \in P : p[1] = q[1] => p = q
    /\ \A s \in S : \E p \in P : s = g[p]
    /\ Cardinality(S) = Cardinality(L)

LEMMA EverythingIsPaired ==
    ASSUME NEW L, NEW P, NEW g, NEW S, IsFiniteSet(L), Paired(L, P, g, S)
    PROVE  \A x \in L : \E p \in P : p[1] = x
<1>0. /\ \A p \in P : p[1] \in L /\ g[p] \in S
      /\ \A p, q \in P : p[1] = q[1] => p = q
      /\ \A s \in S : \E p \in P : s = g[p]
      /\ Cardinality(S) = Cardinality(L)
  BY DEF Paired
<1> DEFINE T == {p[1] : p \in P}
           f == [x \in T |-> g[CHOOSE p \in P : p[1] = x]]
<1>1. T \in SUBSET L
  BY <1>0
<1>2. IsFiniteSet(T) /\ Cardinality(T) <= Cardinality(L)
          /\ (Cardinality(L) = Cardinality(T) => L = T)
  BY <1>1, FS_Subset, Zenon
<1>3. \A p \in P : f[p[1]] = g[p]
  <2> SUFFICES ASSUME NEW p \in P PROVE f[p[1]] = g[p]
    OBVIOUS
  <2>1. (CHOOSE q \in P : q[1] = p[1]) = p
    BY <1>0
  <2> QED BY <2>1
<1>4. f \in Surjection(T, S)
  <2>1. \A x \in T : f[x] \in S
    BY <1>0, <1>3
  <2>3. f \in [T -> S]
    BY <2>1
  <2>2. \A s \in S : \E x \in T : f[x] = s
    <3> SUFFICES ASSUME NEW s \in S PROVE \E x \in T : f[x] = s
      OBVIOUS
    <3>1. PICK p \in P : s = g[p]
      BY <1>0
    <3>2. p[1] \in T /\ f[p[1]] = s
      BY <1>3, <3>1
    <3> QED BY <3>2, Zenon
  <2> HIDE DEF f, T
  <2> QED BY <2>3, <2>2 DEF Surjection
<1>5. Cardinality(S) <= Cardinality(T)
  <2> HIDE DEF f, T
  <2> QED BY <1>2, <1>4, FS_Surjection
<1>6. Cardinality(T) \in Nat /\ Cardinality(L) \in Nat
  BY <1>2, FS_CardinalityType
<1>7. L = T
  <2> HIDE DEF f, T
  <2> QED BY <1>0, <1>2, <1>5, <1>6
<1> QED BY <1>7

\* The line a cart's lines of one variant become.
LEMMA LinesAreKept ==
    ASSUME NEW cart, TrueCart(cart), NEW i \in DOMAIN cart
    PROVE  \E x \in Store!ParseLines(cart) :
              x = [public |-> cart[i].public, quantity |-> Store!Asked(cart, cart[i].public),
                   expected |-> cart[i].expected]
<1>1. PICK n \in 1..2 : DOMAIN cart = 1..n
  BY DEF TrueCart
<1>2. PICK e : \A j \in DOMAIN cart :
          cart[j] = [public |-> cart[j].public, quantity |-> cart[j].quantity, expected |-> e]
  BY DEF TrueCart
<1> DEFINE same == {j \in DOMAIN cart : cart[j].public = cart[i].public}
<1>3. PICK j \in same : \A k \in same : j <= k
  <2>1. same \subseteq Nat /\ same # {}
    BY <1>1
  <2> HIDE DEF same
  <2> QED BY <2>1, Least
<1>4. j \in DOMAIN cart /\ cart[j].public = cart[i].public
  OBVIOUS
<1>5. \A k \in 1..(j - 1) : cart[k].public # cart[j].public
  BY <1>1, <1>3, <1>4
<1> DEFINE x == [cart[j] EXCEPT !.quantity = Store!Asked(cart, cart[j].public)]
<1>6. x \in Store!ParseLines(cart)
  BY <1>4, <1>5 DEF Store!ParseLines
<1>7. PICK q : q = Store!Asked(cart, cart[j].public)
  OBVIOUS
<1>8. x = [public |-> cart[j].public, quantity |-> q, expected |-> e]
  BY <1>2, <1>4, <1>7
<1>9. cart[i].expected = e
  BY <1>2
<1> QED BY <1>4, <1>6, <1>7, <1>8, <1>9

LEMMA LinesAreFinite == ASSUME NEW cart, TrueCart(cart) PROVE IsFiniteSet(Store!ParseLines(cart))
<1>1. PICK n \in 1..2 : DOMAIN cart = 1..n
  BY DEF TrueCart
<1> DEFINE D == {j \in DOMAIN cart : \A k \in 1..(j - 1) : cart[k].public # cart[j].public}
           L == Store!ParseLines(cart)
           f == [i \in D |-> [cart[i] EXCEPT !.quantity = Store!Asked(cart, cart[i].public)]]
<1>2. IsFiniteSet(D)
  <2>1. D \in SUBSET (1..n) /\ IsFiniteSet(1..n)
    BY <1>1, FS_Interval
  <2> HIDE DEF D
  <2> QED BY <2>1, FS_Subset
<1>3. L = {f[i] : i \in D}
  BY DEF Store!ParseLines
<1>4. f \in Surjection(D, L)
  <2>1. f \in [D -> L] /\ \A s \in L : \E i \in D : f[i] = s
    BY <1>3
  <2> HIDE DEF f, L, D
  <2> QED BY <2>1 DEF Surjection
<1> HIDE DEF f, L, D
<1>5. IsFiniteSet(L)
  BY <1>2, <1>4, FS_Surjection
<1> QED BY <1>5 DEF L

\* Of the tags of a product, those a checkout can satisfy bound what it sells.
LEMMA MinimumBounds ==
    ASSUME NEW shop \in Displays \cup {Store!Hidden}, NEW asked,
           asked >= Store!MinimumOrderQuantity(shop.moq), NEW t \in shop.moq, t <= 3
    PROVE  asked >= t
<1>1. shop.moq \in {{}, {2, 9}}
  BY DEF Displays, Shelf, Store!Hidden
<1>2. shop.moq = {2, 9} /\ t = 2
  BY <1>1
<1>3. {x \in {2, 9} : x >= 1 /\ x <= 3} = {2}
  OBVIOUS
<1>4. Store!Max({2}) = 2
  BY DEF Store!Max
<1>5. Store!MinimumOrderQuantity({2, 9}) = 2
  BY <1>3, <1>4 DEF Store!MinimumOrderQuantity
<1> QED BY <1>2, <1>5

\* What a checkout sells: as many sales as lines, and each of them a line and an offer
\* that approved it.
Sale(p) == [shopify |-> p[2].shopify, public |-> p[1].public, quantity |-> p[1].quantity,
    price |-> p[2].price]

Sales(lines, offers, shop) ==
    {pair \in lines \X offers :
        pair[2] \in Store!Approved(pair[1], offers) /\ Store!Satisfies(pair[1], pair[2], shop)}

LEMMA DecideIs ==
    ASSUME Store!Decide, NEW offers, offers = Store!Project(v5.shop, v5.evidence, v1),
           NEW pairs, pairs = Sales(v5.lines, offers, v5.shop),
           NEW sold, sold = {Sale(p) : p \in pairs}
    PROVE  \/ /\ v5' = [v5 EXCEPT !.stage = "sold", !.sold = sold, !.at = v1]
              /\ Store!Cardinality(sold) = Store!Cardinality(v5.lines)
           \/ v5' = [Store!Away EXCEPT !.stage = "refused"]
BY Zenon DEF Store!Decide, Store!Become, Sales, Sale

LEMMA SalesAreSourced ==
    ASSUME StoreInv, NEW offers, offers = Store!Project(v5.shop, v5.evidence, v1),
           NEW p \in Sales(v5.lines, offers, v5.shop)
    PROVE  LET sheet == v5.evidence.sheet IN
           /\ v5.shop.status = "ACTIVE" /\ v5.shop.channel = "PUBLISHED"
           /\ Chosen(v5.evidence.mappings, Sale(p))
           /\ sheet.availability = "AVAILABLE"
           /\ v1 - sheet.checkedAt <= 2 * Store!ManualAvailabilityFreshHours
           /\ sheet.rows # {} =>
                 \E r \in sheet.rows : r.v = Sale(p).shopify /\ r.availability = "AVAILABLE"
<1>1. p[2] \in offers /\ p[2].availability = "SELLABLE"
  BY DEF Sales, Store!Satisfies
<1>2. PICK m \in v5.evidence.mappings :
              p[2] = [public |-> m.public, shopify |-> m.shopify, price |-> v5.shop.price,
                      availability |-> Store!Sellability(m, v5.shop, v5.evidence.sheet, v1)]
  BY <1>1, OffersAreMapped
<1>3. TrueSheet(v5.evidence.sheet) /\ TrueMapping(m) /\ v1 \in Nat
  BY DEF StoreInv, TrueCustomer, TrueEvidence, TrueMappings
<1>4. Store!Sellability(m, v5.shop, v5.evidence.sheet, v1) = "SELLABLE"
          /\ Sale(p).shopify = m.shopify
  BY <1>1, <1>2 DEF Sale
<1>5. Chosen(v5.evidence.mappings, Sale(p))
  <2>1. p[1].public = p[2].public
    BY DEF Sales, Store!Approved
  <2>2. m.public = Sale(p).public
    BY <1>2, <2>1 DEF Sale
  <2>3. {m.id, m.sku, m.option} \subseteq {m.shopify, "unset"}
    BY <1>3 DEF TrueMapping
  <2> QED BY <1>4, <2>2, <2>3 DEF Chosen
<1> QED BY <1>3, <1>4, <1>5, SellableIsSourced

LEMMA SalesHold ==
    ASSUME StoreInv, v5.stage = "checkout",
           NEW offers, offers = Store!Project(v5.shop, v5.evidence, v1),
           NEW pairs, pairs = Sales(v5.lines, offers, v5.shop),
           NEW sold, sold = {Sale(p) : p \in pairs},
           Cardinality(sold) = Cardinality(v5.lines), NEW i \in DOMAIN v5.cart
    PROVE  LET line == v5.cart[i]
               asked == Store!Asked(v5.cart, v5.cart[i].public)
           IN  \E s \in sold :
                 /\ s.public = line.public /\ s.quantity = asked
                 /\ line.expected # 0 => s.price = line.expected
                 /\ \A t \in v5.shop.moq : t <= 3 => asked >= t
                 /\ v5.shop.stock[s.shopify] = -1 \/ asked <= v5.shop.stock[s.shopify]
<1>1. /\ TrueCart(v5.cart) /\ v5.lines = Store!ParseLines(v5.cart)
      /\ TrueEvidence(v5.evidence) /\ v5.shop \in Displays \cup {Store!Hidden}
  BY DEF StoreInv, TrueCustomer
<1>2. IsFiniteSet(v5.lines)
  BY <1>1, LinesAreFinite
<1>3. \A p \in pairs : /\ p[1] \in v5.lines /\ p[2] \in offers /\ p = <<p[1], p[2]>>
                       /\ p[2].public = p[1].public /\ p[1].expected \in {0, p[2].price}
                       /\ Store!Satisfies(p[1], p[2], v5.shop)
  BY DEF Sales, Store!Approved
<1>4. \A p, q \in pairs : p[1] = q[1] => p = q
  <2> SUFFICES ASSUME NEW p \in pairs, NEW q \in pairs, p[1] = q[1] PROVE p = q
    OBVIOUS
  <2>1. p[2] = q[2]
    BY <1>1, <1>3, OffersDiffer
  <2> QED BY <1>3, <2>1
<1> DEFINE g == [p \in pairs |-> Sale(p)]
<1>5. sold = {g[p] : p \in pairs}
  OBVIOUS
<1>6. PICK x \in v5.lines :
              x = [public |-> v5.cart[i].public,
                  quantity |-> Store!Asked(v5.cart, v5.cart[i].public),
                   expected |-> v5.cart[i].expected]
  BY <1>1, LinesAreKept
<1>7. PICK p \in pairs : p[1] = x
  <2>1. \A q \in pairs : q[1] \in v5.lines
    BY <1>3
  <2> HIDE DEF g
  <2>3. PICK lines : lines = v5.lines
    OBVIOUS
  <2>4. Paired(lines, pairs, g, sold)
    BY <1>4, <1>5, <2>1, <2>3 DEF Paired
  <2>5. \A y \in lines : \E q \in pairs : q[1] = y
    BY <1>2, <2>3, <2>4, EverythingIsPaired
  <2>2. \A y \in v5.lines : \E q \in pairs : q[1] = y
    BY <2>3, <2>5, Zenon
  <2> QED BY <1>6, <2>2, Zenon
<1>8. PICK asked : asked = Store!Asked(v5.cart, v5.cart[i].public)
  OBVIOUS
<1>9. /\ x.public = v5.cart[i].public /\ x.quantity = asked /\ x.expected = v5.cart[i].expected
      /\ x.expected \in {0, p[2].price} /\ Store!Satisfies(x, p[2], v5.shop)
  BY <1>3, <1>6, <1>7, <1>8
<1>10. \A t \in v5.shop.moq : t <= 3 => asked >= t
  <2>1. asked >= Store!MinimumOrderQuantity(v5.shop.moq)
    BY <1>9 DEF Store!Satisfies
  <2> QED BY <1>1, <2>1, MinimumBounds
<1>11. v5.shop.stock[p[2].shopify] = -1 \/ asked <= v5.shop.stock[p[2].shopify]
  BY <1>9 DEF Store!Satisfies, Store!Untracked
<1>12. PICK s \in sold : s = [shopify |-> p[2].shopify, public |-> x.public,
           quantity |-> x.quantity,
                              price |-> p[2].price]
  BY <1>7 DEF Sale
<1>13. /\ s.public = v5.cart[i].public /\ s.quantity = asked /\ s.shopify = p[2].shopify
       /\ v5.cart[i].expected # 0 => s.price = v5.cart[i].expected
  BY <1>9, <1>12
<1> QED BY <1>8, <1>10, <1>11, <1>13

LEMMA DecideStays == ASSUME StoreInv, Store!Decide PROVE StoreInv'
<1>1. v1' = v1 /\ v2' = v2 /\ v3' = v3 /\ v5.stage = "checkout"
  BY DEF Store!Decide, Store!Become
<1>2. PICK offers : offers = Store!Project(v5.shop, v5.evidence, v1)
  OBVIOUS
<1>3. PICK pairs : pairs = Sales(v5.lines, offers, v5.shop)
  OBVIOUS
<1>4. PICK sold : sold = {Sale(p) : p \in pairs}
  OBVIOUS
<1>5. \/ /\ v5' = [v5 EXCEPT !.stage = "sold", !.sold = sold, !.at = v1]
         /\ Store!Cardinality(sold) = Store!Cardinality(v5.lines)
      \/ v5' = [Store!Away EXCEPT !.stage = "refused"]
  BY <1>2, <1>3, <1>4, DecideIs
<1>6. CASE /\ v5' = [v5 EXCEPT !.stage = "sold", !.sold = sold, !.at = v1]
           /\ Store!Cardinality(sold) = Store!Cardinality(v5.lines)
  <2>1. PICK x : x = v5
    OBVIOUS
  <2>2. TrueCustomer(x)
    BY <2>1 DEF StoreInv
  <2>3. v5' = [stage |-> "sold", page |-> x.page, cart |-> x.cart, lines |-> x.lines,
               read |-> x.read, shop |-> x.shop, evidence |-> x.evidence,
               sold |-> sold, at |-> v1]
    BY <1>6, <2>1, <2>2 DEF TrueCustomer, Customer
  <2>4. TrueCustomer(v5')
    BY <2>2, <2>3 DEF TrueCustomer, Customer
  <2>5. Cardinality(sold) = Cardinality(x.lines)
    BY <1>6, <2>1, SameCardinality
  <2>6. Sourced(v5')
    <3>1. \A p \in pairs :
           LET sheet == x.evidence.sheet IN
           /\ x.shop.status = "ACTIVE" /\ x.shop.channel = "PUBLISHED"
           /\ Chosen(x.evidence.mappings, Sale(p))
           /\ sheet.availability = "AVAILABLE"
           /\ v1 - sheet.checkedAt <= 2 * Store!ManualAvailabilityFreshHours
           /\ sheet.rows # {} =>
                 \E r \in sheet.rows : r.v = Sale(p).shopify /\ r.availability = "AVAILABLE"
      BY <1>2, <1>3, <2>1, SalesAreSourced
    <3> QED BY <1>4, <2>3, <3>1 DEF Sourced
  <2>7. Held(v5')
    <3>1. \A i \in DOMAIN x.cart : \E s \in sold :
             /\ s.public = x.cart[i].public /\ s.quantity = Store!Asked(x.cart, x.cart[i].public)
             /\ x.cart[i].expected # 0 => s.price = x.cart[i].expected
             /\ \A t \in x.shop.moq : t <= 3 => Store!Asked(x.cart, x.cart[i].public) >= t
             /\ \/ x.shop.stock[s.shopify] = -1
                \/ Store!Asked(x.cart, x.cart[i].public) <= x.shop.stock[s.shopify]
      BY <1>1, <1>2, <1>3, <1>4, <2>1, <2>5, SalesHold
    <3>2. v5'.cart = x.cart /\ v5'.sold = sold /\ v5'.shop = x.shop
      BY <2>3
    <3> QED BY <3>1, <3>2 DEF Held
  <2>8. Store!SoldIsSourced'
    BY <2>6, Zenon DEF Store!SoldIsSourced, Sourced, Chosen, Store!Unset
  <2>9. Store!CartsHold'
    BY <2>7, Zenon DEF Store!CartsHold, Held, Store!Untracked
  <2>10. v1 \in Nat /\ v2 \in Displays \cup {Store!Hidden} /\ Candidate(v3) /\ TrueEvidence(v3)
    BY DEF StoreInv
  <2> QED BY <1>1, <2>4, <2>8, <2>9, <2>10, Zenon DEF StoreInv
<1>7. CASE v5' = [Store!Away EXCEPT !.stage = "refused"]
  <2>1. TrueEvidence(Store!NoEvidence)
    BY DEF TrueEvidence, TrueMappings, Store!NoEvidence, TrueSheet, Store!EmptySupplierInfo
  <2>2. TrueCustomer(v5') /\ v5'.stage = "refused"
    BY <1>7, <2>1 DEF TrueCustomer, Customer, Store!Away
  <2> QED BY <1>1, <2>2, CustomerMoves
<1> QED BY <1>5, <1>6, <1>7

LEMMA StoreStays == ASSUME StoreInv, Store!StorefrontNext PROVE StoreInv'
BY MerchantStays, VerificationStays, PushStays, TwinStays, TimeStays, OpenPageStays, ReadShopStays,
   ReadEvidenceStays, ShowPageStays, AddToCartStays, CheckOutStays, DecideStays
   DEF Store!StorefrontNext

LEMMA PurchasesInit == Init => (service = "storefront" => StoreInv)
BY StoreStarts DEF Init

LEMMA PurchasesNext ==
    (service = "storefront" => StoreInv) /\ [Next]_<<service, pool>>
        => (service = "storefront" => StoreInv)'
<1> SUFFICES ASSUME service = "storefront" => StoreInv, [Next]_<<service, pool>>,
                    service' = "storefront"
             PROVE  StoreInv'
  OBVIOUS
<1>1. service' = service
  BY DEF Next
<1>2. CASE Next
  <2>1. Store!StorefrontNext
    BY <1>1, <1>2 DEF Next
  <2> QED BY <1>1, <2>1, StoreStays
<1>3. CASE UNCHANGED <<service, pool>>
  <2>1. v1' = v1 /\ v2' = v2 /\ v3' = v3 /\ v5' = v5
    BY <1>3 DEF pool
  <2>2. v1 \in Nat /\ v2 \in Displays \cup {Store!Hidden} /\ Candidate(v3) /\ TrueEvidence(v3)
            /\ StoreInv
    BY <1>1 DEF StoreInv
  <2> QED BY <2>1, <2>2, WorldMoves
<1> QED BY <1>2, <1>3

\* What a customer buys is the variant chosen, of a product a check that still counts found
\* the supplier to have, in that very variant if the check named variants at all; and the
\* customer gets what the cart says.  So it stays although the merchant, the operators and
\* the clock move between the page, the two reads of the checkout and the sale
\* (sellability.ts, variant.mapping.ts, checkout.validation.ts, checkout.snapshot.ts).
THEOREM PurchasesAlwaysHold == Spec => []PurchasesHold
<1>1. (service = "storefront" => StoreInv) => PurchasesHold
  BY DEF StoreInv, PurchasesHold
<1> QED BY <1>1, PurchasesInit, PurchasesNext, PTL DEF Spec

=============================================================================
