--------------------------- MODULE PaidOrderProofs ---------------------------
(***************************************************************************)
(* Theorems about PaidOrder for every value of its constants: its types,   *)
(* one order per payment, no order without a captured payment, payments    *)
(* that are not forgotten, and the refinement of OrderPromise.             *)
(***************************************************************************)
EXTENDS PaidOrderProperties, FiniteSetTheorems, TLAPS

IInv == TypeOK /\ WellFormedCalls

-----------------------------------------------------------------------------
(* The repository's operations keep a document a document.                 *)

LEMMA SessionOps ==
    ASSUME NEW s \in Session
    PROVE  /\ Inserted(s) \in Session
           /\ \A o \in RzpOrders : RazorpayOrderAttached(s, o) \in Session
           /\ \A p \in Payments : MarkedPaid(s, p) \in Session
           /\ MarkedRefunded(s) \in Session
           /\ OrderClaimed(s) \in Session
           /\ \A n \in ShopOrders : OrderMarkedCreated(s, n) \in Session
           /\ OrderReleased(s) \in Session
           /\ [s EXCEPT !.next = "due"] \in Session
           /\ [s EXCEPT !.lease = "expired"] \in Session
           /\ s.payment \in Payments \cup {None}
<1>1. Inserted(s) \in Session
  BY DEF Session, Statuses, Inserted, NoSession
<1>2. \A o \in RzpOrders : RazorpayOrderAttached(s, o) \in Session
  BY DEF Session, Statuses, RazorpayOrderAttached
<1>3. \A p \in Payments : MarkedPaid(s, p) \in Session
  BY DEF Session, Statuses, MarkedPaid
<1>4. MarkedRefunded(s) \in Session
  BY DEF Session, Statuses, MarkedRefunded
<1>5. OrderClaimed(s) \in Session
  BY DEF Session, Statuses, OrderClaimed
<1>6. \A n \in ShopOrders : OrderMarkedCreated(s, n) \in Session
  BY DEF Session, Statuses, OrderMarkedCreated
<1>7. OrderReleased(s) \in Session
  BY DEF Session, Statuses, OrderReleased
<1>8. /\ [s EXCEPT !.next = "due"] \in Session
      /\ [s EXCEPT !.lease = "expired"] \in Session
      /\ s.payment \in Payments \cup {None}
  BY DEF Session, Statuses
<1> QED BY <1>1, <1>2, <1>3, <1>4, <1>5, <1>6, <1>7, <1>8

\* A step that gives one call a good record keeps all calls good.
LEMMA BecomeOK ==
    ASSUME IInv, NEW k \in Calls, NEW x \in CallState, WellFormed(x),
           Become(k, x)
    PROVE  call' \in [Calls -> CallState] /\ WellFormedCalls'
BY DEF IInv, TypeOK, WellFormedCalls, Become, WellFormed

LEMMA GotoOK ==
    ASSUME IInv, NEW k \in Calls, NEW pc \in PCs, Goto(k, pc),
           pc \notin {"fetch", "observeRead", "observeWrite", "attach", "created", "link"},
           pc # "idle" => call[k].pc # "idle",
           pc \in {"markPaid", "markRefunded"} => call[k].pay \in Payments
    PROVE  call' \in [Calls -> CallState] /\ WellFormedCalls'
<1> DEFINE x == [call[k] EXCEPT !.pc = pc]
<1>1. call[k] \in CallState /\ WellFormed(call[k])
  BY DEF IInv, TypeOK, WellFormedCalls
<1>2. x \in CallState
  BY <1>1 DEF CallState
<1>3. WellFormed(x)
  BY <1>1 DEF CallState, WellFormed
<1> QED BY <1>2, <1>3, BecomeOK DEF Goto

LEMMA FinishOK ==
    ASSUME IInv, NEW k \in Calls, Finish(k)
    PROVE  call' \in [Calls -> CallState] /\ WellFormedCalls'
<1>1. Idle \in CallState /\ WellFormed(Idle)
  BY DEF CallState, Idle, PCs, WellFormed
<1> QED BY <1>1, BecomeOK DEF Finish

LEMMA GiveRzpOrderOK ==
    ASSUME IInv, NEW k \in Calls, NEW o \in RzpOrders, call[k].pc # "idle",
           Become(k, [call[k] EXCEPT !.pc = "attach", !.rzp = o])
    PROVE  call' \in [Calls -> CallState] /\ WellFormedCalls'
<1> DEFINE x == [call[k] EXCEPT !.pc = "attach", !.rzp = o]
<1>1. call[k] \in CallState /\ WellFormed(call[k])
  BY DEF IInv, TypeOK, WellFormedCalls
<1>2. x \in CallState
  BY <1>1 DEF CallState, PCs
<1>3. WellFormed(x)
  BY <1>1 DEF CallState, WellFormed
<1> QED BY <1>2, <1>3, BecomeOK

LEMMA GiveShopOrderOK ==
    ASSUME IInv, NEW k \in Calls, NEW n \in ShopOrders \cup {None},
           NEW pc \in OrderSteps, call[k].pc # "idle",
           pc \in {"created", "link"} => n \in ShopOrders,
           Become(k, [call[k] EXCEPT !.pc = pc, !.order = n])
    PROVE  call' \in [Calls -> CallState] /\ WellFormedCalls'
<1> DEFINE x == [call[k] EXCEPT !.pc = pc, !.order = n]
<1>1. call[k] \in CallState /\ WellFormed(call[k])
  BY DEF IInv, TypeOK, WellFormedCalls
<1>2. x \in CallState
  BY <1>1 DEF CallState, PCs
<1>3. WellFormed(x)
  BY <1>1 DEF CallState, WellFormed, OrderSteps
<1> QED BY <1>2, <1>3, BecomeOK

LEMMA ClaimOK ==
    ASSUME IInv, NEW k \in Calls, NEW c \in Checkouts, Claim(k, c)
    PROVE  /\ call' \in [Calls -> CallState] /\ WellFormedCalls'
           /\ session' \in [Checkouts -> Session]
<1> DEFINE x == [Idle EXCEPT !.pc = "find", !.co = c, !.pay = session[c].payment]
<1>1. session[c] \in Session /\ session \in [Checkouts -> Session]
  BY DEF IInv, TypeOK
<1>2. session[c].payment \in Payments \cup {None}
  BY <1>1, SessionOps
<1>3. x \in CallState
  BY <1>2 DEF CallState, PCs, OrderSteps, Idle
<1>4. WellFormed(x)
  BY DEF WellFormed, Idle
<1>5. session' \in [Checkouts -> Session]
  BY <1>1, SessionOps DEF Claim
<1> QED BY <1>3, <1>4, <1>5, BecomeOK DEF Claim

LEMMA AfterObserveOK ==
    ASSUME IInv, NEW k \in Calls, AfterObserve(k),
           call[k].pc \in {"observeRead", "observeWrite"}
    PROVE  call' \in [Calls -> CallState] /\ WellFormedCalls'
<1>1. call[k].pay \in Payments
  BY DEF IInv, WellFormedCalls, WellFormed
<1> QED BY <1>1, GotoOK, FinishOK DEF AfterObserve, PCs

-----------------------------------------------------------------------------
(* One step per action.                                                    *)

\* Every step of a call under way keeps the types and the calls well formed.
LEMMA StepKeepsTypes == ASSUME IInv, NEW k \in Calls, Step(k) PROVE IInv'
<1> DEFINE CallsOK == call' \in [Calls -> CallState] /\ WellFormedCalls'
           c == call[k].co
<1>0. /\ call[k] \in CallState /\ WellFormed(call[k])
      /\ session \in [Checkouts -> Session]
      /\ call[k].pc # "idle" => c \in Checkouts /\ session[c] \in Session
  BY DEF IInv, TypeOK, WellFormedCalls, WellFormed
<1>1. CASE InsertSession(k)
  <2>1. CallsOK
    BY <1>1, GotoOK, FinishOK DEF InsertSession, PCs
  <2>2. session' \in [Checkouts -> Session]
    BY <1>0, <1>1, SessionOps DEF InsertSession
  <2> QED BY <1>1, <2>1, <2>2
          DEF IInv, TypeOK, InsertSession, razorpay, shopify
<1>2. CASE PostRazorpayOrder(k)
  <2>1. CallsOK
    BY <1>2, GotoOK, GiveRzpOrderOK DEF PostRazorpayOrder, PCs
  <2>2. receipt' \in [RzpOrders -> Checkouts \cup {None}]
    BY <1>0, <1>2 DEF IInv, TypeOK, PostRazorpayOrder
  <2> QED BY <1>2, <2>1, <2>2
          DEF IInv, TypeOK, PostRazorpayOrder, db, shopify
<1>3. CASE RecoverByReceipt(k)
  <2>1. CallsOK
    BY <1>3, FinishOK, GiveRzpOrderOK DEF RecoverByReceipt, ReceiptOrders
  <2> QED BY <1>3, <2>1
          DEF IInv, TypeOK, RecoverByReceipt, db, razorpay, shopify
<1>4. CASE AttachRazorpayOrder(k)
  <2>1. CallsOK
    BY <1>4, FinishOK DEF AttachRazorpayOrder
  <2>2. session' \in [Checkouts -> Session]
    <3>1. call[k].rzp \in RzpOrders
      BY <1>0, <1>4 DEF AttachRazorpayOrder, WellFormed
    <3> QED BY <1>0, <1>4, <3>1, SessionOps DEF AttachRazorpayOrder
  <2> QED BY <1>4, <2>1, <2>2
          DEF IInv, TypeOK, AttachRazorpayOrder, razorpay, shopify
<1>5. CASE FetchPayment(k)
  <2> DEFINE x == [call[k] EXCEPT !.pc = "observeRead",
                                  !.kind = pay[call[k].pay].status]
  <2>1. CallsOK
    <3>1. CASE Finish(k)
      BY <3>1, FinishOK
    <3>2. CASE Become(k, x)
      <4>1. pay[call[k].pay].status \in PaymentKinds \cup {"none"}
        BY <1>0, <1>5 DEF IInv, TypeOK, FetchPayment, WellFormed
      <4>2. x \in CallState
        BY <1>0, <4>1 DEF CallState, PCs
      <4>3. WellFormed(x)
        BY <1>0, <1>5, <4>1 DEF CallState, WellFormed, FetchPayment
      <4> QED BY <3>2, <4>2, <4>3, BecomeOK
    <3> QED BY <1>5, <3>1, <3>2 DEF FetchPayment
  <2> QED BY <1>5, <2>1
          DEF IInv, TypeOK, FetchPayment, db, razorpay, shopify
<1>6. CASE ObserveRead(k)
  <2>1. CallsOK
    <3>1. CASE AfterObserve(k)
      BY <1>6, <3>1, AfterObserveOK DEF ObserveRead
    <3>2. CASE Goto(k, "observeWrite")
      <4> DEFINE x == [call[k] EXCEPT !.pc = "observeWrite"]
      <4>1. x \in CallState /\ WellFormed(x)
        BY <1>0, <1>6 DEF CallState, PCs, WellFormed, ObserveRead
      <4> QED BY <3>2, <4>1, BecomeOK DEF Goto
    <3> QED BY <1>6, <3>1, <3>2 DEF ObserveRead
  <2> QED BY <1>6, <2>1
          DEF IInv, TypeOK, ObserveRead, db, razorpay, shopify
<1>7. CASE ObserveWrite(k)
  <2>1. CallsOK
    BY <1>7, AfterObserveOK DEF ObserveWrite
  <2>2. attempt' \in [Payments -> PaymentKinds \cup {"none"}]
    BY <1>0, <1>7 DEF IInv, TypeOK, ObserveWrite, CallState
  <2> QED BY <1>7, <2>1, <2>2
          DEF IInv, TypeOK, ObserveWrite, razorpay, shopify
<1>8. CASE MarkPaid(k)
  <2>1. CallsOK
    BY <1>8, GotoOK, FinishOK DEF MarkPaid, PCs
  <2>2. session' \in [Checkouts -> Session]
    <3>1. call[k].pay \in Payments
      BY <1>0, <1>8 DEF MarkPaid, WellFormed
    <3> QED BY <1>0, <1>8, <3>1, SessionOps DEF MarkPaid
  <2> QED BY <1>8, <2>1, <2>2
          DEF IInv, TypeOK, MarkPaid, razorpay, shopify
<1>9. CASE MarkRefunded(k)
  <2>1. CallsOK
    BY <1>9, FinishOK DEF MarkRefunded
  <2>2. session' \in [Checkouts -> Session]
    BY <1>0, <1>9, SessionOps DEF MarkRefunded
  <2> QED BY <1>9, <2>1, <2>2
          DEF IInv, TypeOK, MarkRefunded, razorpay, shopify
<1>10. CASE ClaimOne(k)
  <2>1. CallsOK /\ session' \in [Checkouts -> Session]
    BY <1>0, <1>10, ClaimOK, FinishOK DEF ClaimOne
  <2> QED BY <1>10, <2>1
          DEF IInv, TypeOK, ClaimOne, razorpay, shopify
<1>11. CASE FindExisting(k)
  <2>1. CallsOK
    BY <1>11, GotoOK, GiveShopOrderOK
       DEF FindExisting, Visible, ShopOrdersOf, PCs, OrderSteps
  <2> QED BY <1>11, <2>1
          DEF IInv, TypeOK, FindExisting, db, razorpay, shopify
<1>12. CASE SendOrderCreate(k)
  <2>1. CallsOK
    BY <1>12, GotoOK DEF SendOrderCreate, PCs, OrderSteps
  <2> QED BY <1>12, <2>1
          DEF IInv, TypeOK, SendOrderCreate, db, razorpay, shopify
<1>13. CASE ShopifyCommits(k)
  <2>1. CallsOK
    BY <1>13, GiveShopOrderOK DEF ShopifyCommits, OrderSteps
  <2>2. shop' \in [ShopOrders -> [co: Checkouts \cup {None},
                                  pay: Payments \cup {None}, indexed: BOOLEAN]]
    <3>1. call[k].pay \in Payments \cup {None}
      BY <1>0 DEF CallState
    <3> QED BY <1>0, <1>13, <3>1 DEF IInv, TypeOK, ShopifyCommits, NewShopOrder
  <2> QED BY <1>13, <2>1, <2>2
          DEF IInv, TypeOK, ShopifyCommits, db, razorpay
<1>14. CASE OrderCreateAnswered(k)
  <2> DEFINE x == [call[k] EXCEPT !.pc = "link"]
  <2>1. x \in CallState /\ WellFormed(x)
    BY <1>0, <1>14
       DEF CallState, PCs, OrderSteps, WellFormed, OrderCreateAnswered
  <2>2. CallsOK
    BY <1>14, <2>1, BecomeOK DEF OrderCreateAnswered, Goto
  <2> QED BY <1>14, <2>2
          DEF IInv, TypeOK, OrderCreateAnswered, db, razorpay, shopify
<1>15. CASE OrderCreateFails(k)
  <2>1. CallsOK
    BY <1>15, GiveShopOrderOK DEF OrderCreateFails, OrderSteps
  <2> QED BY <1>15, <2>1
          DEF IInv, TypeOK, OrderCreateFails, db, razorpay, shopify
<1>16. CASE OrderCreateTimesOut(k)
  <2>1. CallsOK
    BY <1>16, GiveShopOrderOK DEF OrderCreateTimesOut, OrderSteps
  <2>2. abandoned' \in [Checkouts -> 0..MaxAbandoned]
    BY <1>0, <1>16, BoundsAssumption DEF IInv, TypeOK, OrderCreateTimesOut
  <2> QED BY <1>16, <2>1, <2>2
          DEF IInv, TypeOK, OrderCreateTimesOut, db, razorpay
<1>17. CASE RecoverOrder(k)
  <2>1. CallsOK
    BY <1>17, GotoOK, GiveShopOrderOK
       DEF RecoverOrder, Visible, ShopOrdersOf, PCs, OrderSteps
  <2> QED BY <1>17, <2>1
          DEF IInv, TypeOK, RecoverOrder, db, razorpay, shopify
<1>18. CASE MarkOrderCreated(k)
  <2>1. CallsOK
    BY <1>18, GotoOK, FinishOK DEF MarkOrderCreated, PCs, OrderSteps
  <2>2. session' \in [Checkouts -> Session]
    <3>1. call[k].order \in ShopOrders
      BY <1>0, <1>18 DEF MarkOrderCreated, WellFormed
    <3> QED BY <1>0, <1>18, <3>1, SessionOps DEF MarkOrderCreated
  <2> QED BY <1>18, <2>1, <2>2
          DEF IInv, TypeOK, MarkOrderCreated, razorpay, shopify
<1>19. CASE ReleaseOrderForRetry(k)
  <2>1. CallsOK
    BY <1>19, FinishOK DEF ReleaseOrderForRetry
  <2>2. session' \in [Checkouts -> Session]
    BY <1>0, <1>19, SessionOps DEF ReleaseOrderForRetry
  <2> QED BY <1>19, <2>1, <2>2
          DEF IInv, TypeOK, ReleaseOrderForRetry, razorpay, shopify
<1>20. CASE CallFails(k)
  <2>1. CallsOK
    BY <1>20, GiveShopOrderOK, FinishOK DEF CallFails, OrderSteps
  <2> QED BY <1>20, <2>1
          DEF IInv, TypeOK, CallFails, db, razorpay, shopify
<1> QED
  BY <1>1, <1>2, <1>3, <1>4, <1>5, <1>6, <1>7, <1>8, <1>9, <1>10, <1>11,
     <1>12, <1>13, <1>14, <1>15, <1>16, <1>17, <1>18, <1>19, <1>20 DEF Step

\* A request that starts a call does too.
LEMMA RequestKeepsTypes == ASSUME IInv, Request PROVE IInv'
<1>0. session \in [Checkouts -> Session] /\ "idle" \in PCs
  BY DEF IInv, TypeOK, PCs
<1>1. ASSUME NEW k \in Creators, NEW c \in Checkouts, CreateCheckout(k, c)
      PROVE  IInv'
  <2> DEFINE x == [Idle EXCEPT !.co = c,
                     !.pc = IF session[c].status = "ABSENT"
                            THEN "insert" ELSE "rzpPost"]
  <2>1. x \in CallState /\ WellFormed(x)
    BY DEF CallState, PCs, OrderSteps, Idle, WellFormed
  <2>2. call' \in [Calls -> CallState] /\ WellFormedCalls'
    BY <1>1, <2>1, BecomeOK DEF CreateCheckout, Calls
  <2> QED BY <1>1, <2>2
          DEF IInv, TypeOK, CreateCheckout, db, razorpay, shopify
<1>2. ASSUME NEW k \in Browsers, NEW c \in Checkouts, NEW p \in Payments,
             Verify(k, c, p)
      PROVE  IInv'
  <2> DEFINE x == [Idle EXCEPT !.pc = "fetch", !.co = c, !.pay = p]
  <2>1. x \in CallState /\ WellFormed(x)
    BY DEF CallState, PCs, OrderSteps, Idle, WellFormed
  <2>2. call' \in [Calls -> CallState] /\ WellFormedCalls'
    BY <1>2, <2>1, BecomeOK DEF Verify, Calls
  <2> QED BY <1>2, <2>2 DEF IInv, TypeOK, Verify, db, razorpay, shopify
<1>3. ASSUME NEW kind \in PaymentKinds, NEW p \in Payments,
             NEW c \in Checkouts, ProcessWebhook(kind, p, c)
      PROVE  IInv'
  <2> DEFINE x == [Idle EXCEPT !.pc = "observeRead", !.co = c, !.pay = p,
                               !.kind = kind, !.same = (session[c].payment = p)]
  <2>1. x \in CallState /\ WellFormed(x)
    BY DEF CallState, PCs, OrderSteps, Idle, WellFormed
  <2>2. call' \in [Calls -> CallState] /\ WellFormedCalls'
    BY <1>3, <2>1, BecomeOK DEF ProcessWebhook, Calls
  <2> QED BY <1>3, <2>2
          DEF IInv, TypeOK, ProcessWebhook, db, razorpay, shopify
<1>4. ASSUME NEW c \in Checkouts, ClaimNext(c) PROVE IInv'
  <2>1. /\ call' \in [Calls -> CallState] /\ WellFormedCalls'
        /\ session' \in [Checkouts -> Session]
    BY <1>4, ClaimOK DEF ClaimNext, Calls
  <2> QED BY <1>4, <2>1 DEF IInv, TypeOK, ClaimNext, razorpay, shopify
<1> QED BY <1>1, <1>2, <1>3, <1>4 DEF Request

\* The callers are finitely many, so counting requests in flight makes sense.
LEMMA CallsFinite == IsFiniteSet(Calls)
<1>1. IsFiniteSet({"webhook"}) /\ IsFiniteSet({"worker"})
  BY FS_Singleton
<1>2. IsFiniteSet({"webhook"} \cup {"worker"})
  BY <1>1, FS_Union
<1>3. IsFiniteSet(Creators \cup Browsers)
  BY FiniteAssumption, FS_Union
<1>4. Calls = (Creators \cup Browsers) \cup ({"webhook"} \cup {"worker"})
  BY DEF Calls
<1> QED BY <1>2, <1>3, <1>4, FS_Union

LEMMA CrashKeepsTypes == ASSUME IInv, Crash PROVE IInv'
<1>1. call' \in [Calls -> CallState] /\ WellFormedCalls'
  BY DEF Crash, CallState, Idle, PCs, WellFormedCalls, WellFormed
<1>2. ASSUME NEW S \in SUBSET Calls PROVE Cardinality(S) \in Nat
  BY CallsFinite, FS_Subset, FS_CardinalityType
<1>3. ASSUME NEW n \in Nat PROVE Capped(n) \in 0..MaxAbandoned
  BY BoundsAssumption DEF Capped
<1>4. abandoned' \in [Checkouts -> 0..MaxAbandoned]
  <2> DEFINE Sending(c) == {k \in Calls : call[k].pc = "creating"
                                          /\ call[k].co = c}
  <2>1. ASSUME NEW c \in Checkouts
        PROVE  Capped(abandoned[c] + Cardinality(Sending(c)))
                  \in 0..MaxAbandoned
    <3>1. Cardinality(Sending(c)) \in Nat
      BY <1>2
    <3>2. abandoned[c] \in Nat
      BY BoundsAssumption DEF IInv, TypeOK
    <3> HIDE DEF Sending
    <3> QED BY <1>3, <3>1, <3>2
  <2>2. abandoned' = [c \in Checkouts |->
                        Capped(abandoned[c] + Cardinality(Sending(c)))]
    BY DEF Crash
  <2> QED BY <2>1, <2>2
<1>5. crashes' \in 0..MaxCrashes
  BY BoundsAssumption DEF IInv, TypeOK, Crash
<1> QED BY <1>1, <1>4, <1>5 DEF IInv, TypeOK, Crash, db, razorpay

\* The provider, the network and the clock touch no call.
LEMMA EnvironmentKeepsTypes ==
    ASSUME IInv, Razorpay \/ Shopify \/ Time PROVE IInv'
<1>0. /\ session \in [Checkouts -> Session]
      /\ \A c \in Checkouts : /\ session[c].payment \in Payments \cup {None}
                              /\ session[c].rzpOrder \in RzpOrders \cup {None}
  BY DEF IInv, TypeOK, Session
<1>1. ASSUME NEW p \in Payments, NEW kind \in PaymentKinds,
             PaymentMoves(p, kind)
      PROVE  IInv'
  BY <1>1 DEF IInv, TypeOK, WellFormedCalls, PaymentMoves, db, shopify
<1>2. ASSUME NEW p \in Payments, NEW c \in Checkouts, NEW exact \in BOOLEAN,
             NEW kind \in PaymentKinds, StartPayment(p, c, exact, kind)
      PROVE  IInv'
  BY <1>0, <1>2 DEF IInv, TypeOK, WellFormedCalls, StartPayment, db, shopify
<1>3. ASSUME NEW c \in Checkouts, AbandonedCommits(c) PROVE IInv'
  <2>1. abandoned' \in [Checkouts -> 0..MaxAbandoned]
    BY <1>3, BoundsAssumption DEF IInv, TypeOK, AbandonedCommits
  <2>2. shop' \in [ShopOrders -> [co: Checkouts \cup {None},
                                  pay: Payments \cup {None}, indexed: BOOLEAN]]
    <3>1. CASE UNCHANGED shop
      BY <3>1 DEF IInv, TypeOK
    <3>2. ASSUME NEW n \in ShopOrders, NewShopOrder(n, c, session[c].payment)
          PROVE  shop' \in [ShopOrders -> [co: Checkouts \cup {None},
                                           pay: Payments \cup {None},
                                           indexed: BOOLEAN]]
      <4> DEFINE x == [co |-> c, pay |-> session[c].payment, indexed |-> FALSE]
      <4>1. x \in [co: Checkouts \cup {None}, pay: Payments \cup {None},
                   indexed: BOOLEAN]
        BY <1>0
      <4>2. shop' = [shop EXCEPT ![n] = x]
        BY <3>2 DEF NewShopOrder
      <4> HIDE DEF x
      <4> QED BY <4>1, <4>2 DEF IInv, TypeOK
    <3> QED BY <1>3, <3>1, <3>2 DEF AbandonedCommits
  <2> QED BY <1>3, <2>1, <2>2
          DEF IInv, TypeOK, WellFormedCalls, AbandonedCommits, db, razorpay
<1>4. ASSUME NEW n \in ShopOrders, IndexOrder(n) PROVE IInv'
  BY <1>4 DEF IInv, TypeOK, WellFormedCalls, IndexOrder, db, razorpay
<1>5. ASSUME NEW c \in Checkouts, RetryComesDue(c) \/ LeaseExpires(c)
      PROVE  IInv'
  <2>1. session' \in [Checkouts -> Session]
    <3> DEFINE s == session[c]
    <3>1. /\ [s EXCEPT !.next = "due"] \in Session
          /\ [s EXCEPT !.lease = "expired"] \in Session
      BY <1>0, SessionOps
    <3>2. \/ session' = [session EXCEPT ![c] = [s EXCEPT !.next = "due"]]
          \/ session' = [session EXCEPT ![c] = [s EXCEPT !.lease = "expired"]]
      BY <1>5 DEF RetryComesDue, LeaseExpires
    <3> QED BY <1>0, <3>1, <3>2
  <2> QED BY <1>5, <2>1 DEF IInv, TypeOK, WellFormedCalls, RetryComesDue,
                            LeaseExpires, razorpay, shopify
<1> QED
  BY <1>1, <1>2, <1>3, <1>4, <1>5
     DEF Razorpay, AuthorizeLate, CapturePayment, RefundPayment, Shopify,
         Time, PaymentKinds

LEMMA InitTypes == Init => IInv
<1> SUFFICES ASSUME Init PROVE IInv
  OBVIOUS
<1>1. NoSession \in Session
  BY DEF NoSession, Session, Statuses
<1>2. Idle \in CallState /\ WellFormed(Idle)
  BY DEF Idle, CallState, PCs, WellFormed
<1>3. NoPayment \in [status: PaymentKinds \cup {"none"},
                     order: RzpOrders \cup {None}, exact: BOOLEAN]
  BY DEF NoPayment
<1>4. NoShopOrder \in [co: Checkouts \cup {None},
                       pay: Payments \cup {None}, indexed: BOOLEAN]
  BY DEF NoShopOrder
<1> QED BY <1>1, <1>2, <1>3, <1>4, BoundsAssumption
        DEF Init, IInv, TypeOK, WellFormedCalls

\* The invariant is inductive.
LEMMA NextKeepsTypes == IInv /\ [Next]_vars => IInv'
<1> SUFFICES ASSUME IInv, [Next]_vars PROVE IInv'
  OBVIOUS
<1>1. CASE UNCHANGED vars
  BY <1>1 DEF IInv, TypeOK, WellFormedCalls, vars, db, razorpay, shopify
<1> QED BY <1>1, StepKeepsTypes, RequestKeepsTypes, EnvironmentKeepsTypes,
           CrashKeepsTypes DEF Next

\* In every reachable state the variables have their types and every call
\* under way holds the identifiers its next step works on, whatever the number
\* of checkouts, requests, orders and crashes.
THEOREM TypesAndCalls == Spec => [](TypeOK /\ WellFormedCalls)
<1>1. Spec => []IInv
  BY InitTypes, NextKeepsTypes, PTL DEF Spec
<1> QED BY <1>1, PTL DEF IInv

-----------------------------------------------------------------------------
(* One order for one payment, while the code's delays outlast Shopify's    *)
(* processing and confirmations do not meet an open attempt.               *)

Prompt == PromptShopify = TRUE /\ SpacedConfirmations = TRUE

\* Call k is between claiming c and giving it back.
Works(k, c) == call[k].co = c /\ call[k].pc \in OrderSteps

\* A checkout that may be claimed has nothing of an earlier attempt in flight;
\* from the claim on, one call at most works on it, and what it may still have
\* created is created already, waits in the network, or is about to be sent.
OneAttempt(c) ==
    /\ \A j, k \in Calls : Works(j, c) /\ Works(k, c) => j = k
    /\ CanClaimOrder(session[c]) => Quiet(c)
    /\ \A n, m \in ShopOrdersOf(c) : n = m
    /\ abandoned[c] # 0 => abandoned[c] = 1 /\ ShopOrdersOf(c) = {}
    /\ \A k \in Calls : Works(k, c) =>
          /\ call[k].pc = "find" => abandoned[c] = 0 /\ Visible(c) = ShopOrdersOf(c)
          /\ call[k].pc \in {"create", "creating"} =>
                abandoned[c] = 0 /\ ShopOrdersOf(c) = {}

AttemptInv == IInv /\ \A c \in Checkouts : OneAttempt(c)

\* Which operations of the repository can open a checkout for a claim: only
\* those that set a time, none of these.
LEMMA ClaimableAfter ==
    ASSUME NEW s \in Session
    PROVE  /\ CanClaimOrder(Inserted(s)) => CanClaimOrder(s)
           /\ \A o : ~CanClaimOrder(RazorpayOrderAttached(s, o))
           /\ ~CanClaimOrder(MarkedRefunded(s))
           /\ ~CanClaimOrder(OrderClaimed(s))
           /\ \A n : ~CanClaimOrder(OrderMarkedCreated(s, n))
           /\ CanClaimOrder(OrderReleased(s)) => CanClaimOrder(s)
BY DEF CanClaimOrder, Session, Statuses, Inserted, NoSession,
       RazorpayOrderAttached, MarkedRefunded, OrderClaimed, OrderMarkedCreated,
       OrderReleased

\* How a call that works on c may go on with it.
Proceeds(k, c) ==
    Works(k, c)' =>
        /\ Works(k, c)
        /\ \/ call'[k].pc = call[k].pc
           \/ call'[k].pc \notin {"find", "create", "creating"}
           \/ call[k].pc = "find" /\ call'[k].pc = "create" /\ Visible(c) = {}
           \/ call[k].pc = "create" /\ call'[k].pc = "creating"

\* Attempts that go on, and an index that catches up, keep a checkout at one
\* order.
LEMMA AttemptProceeds ==
    ASSUME AttemptInv, NEW c \in Checkouts,
           \A k \in Calls : Proceeds(k, c),
           abandoned'[c] = abandoned[c], ShopOrdersOf(c)' = ShopOrdersOf(c),
           Visible(c) \subseteq Visible(c)',
           CanClaimOrder(session'[c]) => CanClaimOrder(session[c]) \/ Quiet(c)
    PROVE  OneAttempt(c)'
<1>0. OneAttempt(c)
  BY DEF AttemptInv
<1>1. \A k \in Calls : Works(k, c)' => Works(k, c)
  BY DEF Proceeds
<1>2. \A j, k \in Calls : Works(j, c)' /\ Works(k, c)' => j = k
  BY <1>0, <1>1 DEF OneAttempt
<1>3. Visible(c)' \subseteq ShopOrdersOf(c)'
  BY DEF Visible
<1>4. Quiet(c) => Quiet(c)'
  BY <1>1, <1>3 DEF Quiet, Works, Visible
<1>5. CanClaimOrder(session'[c]) => Quiet(c)'
  BY <1>0, <1>4 DEF OneAttempt
<1>6. ASSUME NEW k \in Calls, Works(k, c)'
      PROVE  /\ call'[k].pc = "find" =>
                   abandoned'[c] = 0 /\ Visible(c)' = ShopOrdersOf(c)'
             /\ call'[k].pc \in {"create", "creating"} =>
                   abandoned'[c] = 0 /\ ShopOrdersOf(c)' = {}
  BY <1>0, <1>3, <1>6 DEF OneAttempt, Proceeds
<1>7. /\ \A n, m \in ShopOrdersOf(c)' : n = m
      /\ abandoned'[c] # 0 => abandoned'[c] = 1 /\ ShopOrdersOf(c)' = {}
  BY <1>0 DEF OneAttempt
<1> QED BY <1>2, <1>5, <1>6, <1>7 DEF OneAttempt

\* A step of one call that leaves Shopify alone.
LEMMA CallProceeds ==
    ASSUME AttemptInv, NEW k \in Calls, NEW x, Become(k, x),
           UNCHANGED <<shop, abandoned>>,
           x.pc \in OrderSteps =>
               /\ call[k].pc \in OrderSteps
               /\ x.co = call[k].co
               /\ \/ x.pc \notin {"find", "create", "creating"}
                  \/ /\ call[k].pc = "find" /\ x.pc = "create"
                     /\ Visible(call[k].co) = {}
                  \/ call[k].pc = "create" /\ x.pc = "creating",
           \A c \in Checkouts : CanClaimOrder(session'[c]) =>
                                    CanClaimOrder(session[c]) \/ Quiet(c)
    PROVE  \A c \in Checkouts : OneAttempt(c)'
<1> SUFFICES ASSUME NEW c \in Checkouts PROVE OneAttempt(c)'
  OBVIOUS
<1>1. call'[k] = x /\ \A j \in Calls : j # k => call'[j] = call[j]
  BY DEF AttemptInv, IInv, TypeOK, Become
<1>2. ASSUME NEW j \in Calls PROVE Proceeds(j, c)
  <2>1. CASE j = k
    BY <1>1, <2>1 DEF Proceeds, Works
  <2>2. CASE j # k
    BY <1>1, <2>2 DEF Proceeds, Works
  <2> QED BY <2>1, <2>2
<1>3. ShopOrdersOf(c)' = ShopOrdersOf(c) /\ Visible(c)' = Visible(c)
  BY DEF ShopOrdersOf, Visible
<1> QED BY <1>2, <1>3, AttemptProceeds

LEMMA FinishProceeds ==
    ASSUME AttemptInv, NEW k \in Calls, Finish(k), UNCHANGED <<shop, abandoned>>,
           \A c \in Checkouts : CanClaimOrder(session'[c]) =>
                                    CanClaimOrder(session[c]) \/ Quiet(c)
    PROVE  \A c \in Checkouts : OneAttempt(c)'
<1>1. Idle.pc \notin OrderSteps
  BY DEF Idle, OrderSteps
<1> QED BY <1>1, CallProceeds DEF Finish

LEMMA GotoProceeds ==
    ASSUME AttemptInv, NEW k \in Calls, NEW pc, Goto(k, pc),
           UNCHANGED <<shop, abandoned>>,
           pc \in OrderSteps =>
               /\ call[k].pc \in OrderSteps
               /\ \/ pc \notin {"find", "create", "creating"}
                  \/ /\ call[k].pc = "find" /\ pc = "create"
                     /\ Visible(call[k].co) = {}
                  \/ call[k].pc = "create" /\ pc = "creating",
           \A c \in Checkouts : CanClaimOrder(session'[c]) =>
                                    CanClaimOrder(session[c]) \/ Quiet(c)
    PROVE  \A c \in Checkouts : OneAttempt(c)'
<1> DEFINE x == [call[k] EXCEPT !.pc = pc]
<1>1. x.pc = pc /\ x.co = call[k].co
  BY DEF AttemptInv, IInv, TypeOK, CallState
<1>2. Become(k, x)
  BY DEF Goto
<1> HIDE DEF x
<1> QED BY <1>1, <1>2, CallProceeds

\* A call is given the order it is to link, or none.
LEMMA OrderProceeds ==
    ASSUME AttemptInv, NEW k \in Calls, NEW n, NEW pc \in {"link", "release", "recover"},
           call[k].pc \in OrderSteps,
           Become(k, [call[k] EXCEPT !.pc = pc, !.order = n]),
           UNCHANGED <<session, shop, abandoned>>
    PROVE  \A c \in Checkouts : OneAttempt(c)'
<1> DEFINE x == [call[k] EXCEPT !.pc = pc, !.order = n]
<1>1. x.pc = pc /\ x.co = call[k].co
  BY DEF AttemptInv, IInv, TypeOK, CallState
<1>2. Become(k, x)
  OBVIOUS
<1> HIDE DEF x
<1> QED BY <1>1, <1>2, CallProceeds

-----------------------------------------------------------------------------
(* One lemma per action that bears on an attempt.                          *)

\* The steps before an attempt and those that only end a call.
LEMMA PreludeProceeds ==
    ASSUME AttemptInv, NEW k \in Calls,
           \/ InsertSession(k) \/ PostRazorpayOrder(k) \/ RecoverByReceipt(k)
           \/ AttachRazorpayOrder(k) \/ FetchPayment(k)
           \/ ObserveRead(k) \/ ObserveWrite(k) \/ MarkRefunded(k)
    PROVE  \A c \in Checkouts : OneAttempt(c)'
<1> DEFINE Steady == \A c \in Checkouts : CanClaimOrder(session'[c]) =>
                         CanClaimOrder(session[c]) \/ Quiet(c)
           Moves == \E x : /\ Become(k, x)
                           /\ x.pc \notin OrderSteps
<1>0. /\ session \in [Checkouts -> Session]
      /\ call[k] \in CallState
      /\ call[k].pc # "idle" => call[k].co \in Checkouts
  BY DEF AttemptInv, IInv, TypeOK, WellFormedCalls, WellFormed
<1>1. ASSUME NEW pc, pc \notin OrderSteps, Goto(k, pc) PROVE Moves
  <2>1. [call[k] EXCEPT !.pc = pc].pc = pc
    BY <1>0 DEF CallState
  <2> QED BY <1>1, <2>1 DEF Goto
<1>2. Finish(k) => Moves
  <2>1. Idle.pc \notin OrderSteps
    BY DEF Idle, OrderSteps
  <2> QED BY <2>1 DEF Finish
<1>3. ASSUME NEW o, Become(k, [call[k] EXCEPT !.pc = "attach", !.rzp = o])
      PROVE  Moves
  <2>1. [call[k] EXCEPT !.pc = "attach", !.rzp = o].pc = "attach"
    BY <1>0 DEF CallState
  <2> QED BY <1>3, <2>1 DEF OrderSteps
<1>4. AfterObserve(k) => Moves
  BY <1>1, <1>2 DEF AfterObserve, OrderSteps
<1>5. UNCHANGED session => Steady
  OBVIOUS
<1>6. ASSUME Steady, Moves, UNCHANGED <<shop, abandoned>>
      PROVE  \A c \in Checkouts : OneAttempt(c)'
  BY <1>6, CallProceeds
<1> HIDE DEF Moves
<1>7. CASE InsertSession(k)
  <2>1. Steady
    BY <1>0, <1>7, ClaimableAfter DEF InsertSession
  <2>2. Moves
    BY <1>1, <1>2, <1>7 DEF InsertSession, OrderSteps
  <2> QED BY <1>6, <1>7, <2>1, <2>2 DEF InsertSession, shopify
<1>8. CASE PostRazorpayOrder(k)
  <2>1. Moves
    BY <1>1, <1>3, <1>8, Zenon DEF PostRazorpayOrder, OrderSteps
  <2> QED BY <1>5, <1>6, <1>8, <2>1, Zenon DEF PostRazorpayOrder, shopify, db
<1>9. CASE RecoverByReceipt(k)
  <2>1. Moves
    BY <1>2, <1>3, <1>9, Zenon DEF RecoverByReceipt
  <2> QED BY <1>5, <1>6, <1>9, <2>1, Zenon DEF RecoverByReceipt, shopify, db
<1>10. CASE AttachRazorpayOrder(k)
  <2>1. Steady
    BY <1>0, <1>10, ClaimableAfter DEF AttachRazorpayOrder
  <2> QED BY <1>2, <1>6, <1>10, <2>1 DEF AttachRazorpayOrder, shopify
<1>11. CASE FetchPayment(k)
  <2> DEFINE x == [call[k] EXCEPT !.pc = "observeRead",
                                  !.kind = pay[call[k].pay].status]
  <2>1. x.pc = "observeRead"
    BY <1>0 DEF CallState
  <2> HIDE DEF x
  <2>2. Become(k, x) => Moves
    BY <2>1 DEF OrderSteps, Moves
  <2>3. Moves
    BY <1>2, <1>11, <2>2 DEF FetchPayment, x
  <2> QED BY <1>5, <1>6, <1>11, <2>3 DEF FetchPayment, shopify, db
<1>12. CASE ObserveRead(k)
  <2>1. Moves
    BY <1>1, <1>4, <1>12 DEF ObserveRead, OrderSteps
  <2> QED BY <1>5, <1>6, <1>12, <2>1 DEF ObserveRead, shopify, db
<1>13. CASE ObserveWrite(k)
  BY <1>4, <1>5, <1>6, <1>13 DEF ObserveWrite, shopify
<1>14. CASE MarkRefunded(k)
  <2>1. Steady
    BY <1>0, <1>14, ClaimableAfter DEF MarkRefunded
  <2> QED BY <1>2, <1>6, <1>14, <2>1 DEF MarkRefunded, shopify
<1> QED BY <1>7, <1>8, <1>9, <1>10, <1>11, <1>12, <1>13, <1>14

\* A confirmation opens a checkout only while nothing is open on it.
LEMMA MarkPaidProceeds ==
    ASSUME Prompt, AttemptInv, NEW k \in Calls, MarkPaid(k)
    PROVE  \A c \in Checkouts : OneAttempt(c)'
<1>1. Quiet(call[k].co)
  BY DEF MarkPaid, Prompt
<1>2. \A c \in Checkouts : CanClaimOrder(session'[c]) =>
          CanClaimOrder(session[c]) \/ Quiet(c)
  BY <1>1 DEF MarkPaid, AttemptInv, IInv, TypeOK
<1>3. Goto(k, "claim") \/ Finish(k)
  BY DEF MarkPaid
<1> QED BY <1>2, <1>3, GotoProceeds, FinishProceeds
        DEF MarkPaid, OrderSteps, shopify

\* The claim finds the checkout quiet and closes it behind itself.
LEMMA ClaimProceeds ==
    ASSUME AttemptInv, NEW k \in Calls, NEW d \in Checkouts, Claim(k, d),
           call[k].pc \notin OrderSteps, CanClaimOrder(session[d]),
           UNCHANGED <<shop, abandoned>>
    PROVE  \A c \in Checkouts : OneAttempt(c)'
<1> SUFFICES ASSUME NEW c \in Checkouts PROVE OneAttempt(c)'
  OBVIOUS
<1> DEFINE x == [Idle EXCEPT !.pc = "find", !.co = d, !.pay = session[d].payment]
<1>0. x.pc = "find" /\ x.co = d
  BY DEF Idle
<1>1. call'[k] = x /\ \A j \in Calls : j # k => call'[j] = call[j]
  BY DEF AttemptInv, IInv, TypeOK, Claim, Become
<1> HIDE DEF x
<1>2. ShopOrdersOf(c)' = ShopOrdersOf(c) /\ Visible(c)' = Visible(c)
  BY DEF ShopOrdersOf, Visible
<1>3. session \in [Checkouts -> Session]
  BY DEF AttemptInv, IInv, TypeOK
<1>4. CASE c # d
  <2>1. session'[c] = session[c]
    BY <1>3, <1>4 DEF Claim
  <2>2. ASSUME NEW j \in Calls PROVE Proceeds(j, c)
    BY <1>0, <1>1, <1>4 DEF Proceeds, Works
  <2> QED BY <1>2, <2>1, <2>2, AttemptProceeds
<1>5. CASE c = d
  <2>1. Quiet(c)
    BY <1>5 DEF AttemptInv, OneAttempt
  <2>2. session'[c] = OrderClaimed(session[c])
    BY <1>3, <1>5 DEF Claim
  <2>3. ~CanClaimOrder(session'[c])
    BY <1>3, <2>2, ClaimableAfter
  <2>4. \A j \in Calls : Works(j, c)' => j = k
    BY <1>1, <2>1 DEF Works, Quiet
  <2>5. \A n, m \in ShopOrdersOf(c) : n = m
    BY DEF AttemptInv, OneAttempt
  <2> QED BY <1>0, <1>1, <1>2, <2>1, <2>3, <2>4, <2>5
          DEF OneAttempt, Quiet
<1> QED BY <1>4, <1>5

\* The two searches: what they find decides whether an order is created.
LEMMA SearchProceeds ==
    ASSUME AttemptInv, NEW k \in Calls, FindExisting(k) \/ RecoverOrder(k)
    PROVE  \A c \in Checkouts : OneAttempt(c)'
<1>1. \A c \in Checkouts : CanClaimOrder(session'[c]) =>
          CanClaimOrder(session[c]) \/ Quiet(c)
  BY Zenon DEF FindExisting, RecoverOrder, db
<1>2. UNCHANGED <<session, shop, abandoned>>
  BY Zenon DEF FindExisting, RecoverOrder, db, shopify
<1>3. call[k].pc \in OrderSteps
  BY Zenon DEF FindExisting, RecoverOrder, OrderSteps
<1>4. \/ Goto(k, "release")
      \/ /\ Goto(k, "create") /\ call[k].pc = "find"
         /\ Visible(call[k].co) = {}
      \/ \E n : Become(k, [call[k] EXCEPT !.pc = "link", !.order = n])
  BY Zenon DEF FindExisting, RecoverOrder
<1>5. CASE Goto(k, "release")
  BY <1>1, <1>2, <1>3, <1>5, GotoProceeds
<1>6. CASE /\ Goto(k, "create") /\ call[k].pc = "find"
           /\ Visible(call[k].co) = {}
  BY <1>1, <1>2, <1>3, <1>6, GotoProceeds
<1>7. CASE \E n : Become(k, [call[k] EXCEPT !.pc = "link", !.order = n])
  BY <1>2, <1>3, <1>7, OrderProceeds, Zenon
<1> QED BY <1>4, <1>5, <1>6, <1>7, Zenon

\* The rest of an attempt, Shopify's part of it excepted.
LEMMA OrderStepProceeds ==
    ASSUME AttemptInv, NEW k \in Calls,
           \/ SendOrderCreate(k) \/ OrderCreateAnswered(k)
           \/ OrderCreateFails(k) \/ MarkOrderCreated(k)
           \/ ReleaseOrderForRetry(k) \/ CallFails(k)
    PROVE  \A c \in Checkouts : OneAttempt(c)'
<1> DEFINE Steady == \A c \in Checkouts : CanClaimOrder(session'[c]) =>
                         CanClaimOrder(session[c]) \/ Quiet(c)
<1>0. /\ session \in [Checkouts -> Session]
      /\ call[k].pc # "idle" => call[k].co \in Checkouts
  BY DEF AttemptInv, IInv, TypeOK, WellFormedCalls, WellFormed
<1>1. UNCHANGED session => Steady
  OBVIOUS
<1>2. UNCHANGED <<shop, abandoned>>
  BY DEF SendOrderCreate, OrderCreateAnswered, OrderCreateFails,
         MarkOrderCreated, ReleaseOrderForRetry, CallFails, shopify
<1>3. CASE SendOrderCreate(k)
  <2>1. /\ call[k].pc = "create" /\ UNCHANGED session
        /\ Goto(k, "release") \/ Goto(k, "creating")
    BY <1>3 DEF SendOrderCreate, db
  <2>2. call[k].pc \in OrderSteps
    BY <2>1 DEF OrderSteps
  <2> QED BY <1>1, <1>2, <2>1, <2>2, GotoProceeds
<1>4. CASE OrderCreateAnswered(k)
  BY <1>1, <1>2, <1>4, GotoProceeds DEF OrderCreateAnswered, OrderSteps, db
<1>5. CASE OrderCreateFails(k)
  BY <1>2, <1>5, OrderProceeds, Zenon DEF OrderCreateFails, OrderSteps, db
<1>6. CASE MarkOrderCreated(k)
  <2>1. Steady
    BY <1>0, <1>6, ClaimableAfter DEF MarkOrderCreated
  <2> QED BY <1>2, <1>6, <2>1, GotoProceeds, FinishProceeds
          DEF MarkOrderCreated, OrderSteps
<1>7. CASE ReleaseOrderForRetry(k)
  <2>1. Steady
    BY <1>0, <1>7, ClaimableAfter DEF ReleaseOrderForRetry
  <2> QED BY <1>2, <1>7, <2>1, FinishProceeds DEF ReleaseOrderForRetry
<1>8. CASE CallFails(k)
  BY <1>1, <1>2, <1>8, OrderProceeds, FinishProceeds
     DEF CallFails, OrderSteps, db
<1> QED BY <1>3, <1>4, <1>5, <1>6, <1>7, <1>8

-----------------------------------------------------------------------------
(* Shopify's part, the crash and the clock.                                *)

\* A new order of d is nobody else's.
LEMMA NewOrderIsOf ==
    ASSUME AttemptInv, NEW n \in ShopOrders, NEW d \in Checkouts, NEW p,
           NewShopOrder(n, d, p)
    PROVE  /\ ShopOrdersOf(d)' = ShopOrdersOf(d) \cup {n}
           /\ \A c \in Checkouts \ {d} : /\ ShopOrdersOf(c)' = ShopOrdersOf(c)
                                         /\ Visible(c)' = Visible(c)
<1> DEFINE x == [co |-> d, pay |-> p, indexed |-> FALSE]
<1>1. /\ shop[n].co = None
      /\ shop'[n] = x
      /\ \A m \in ShopOrders : m # n => shop'[m] = shop[m]
  BY DEF NewShopOrder, AttemptInv, IInv, TypeOK
<1>2. x.co = d
  OBVIOUS
<1> HIDE DEF x
<1>3. None \notin Checkouts
  BY NullAssumption
<1>4. ShopOrdersOf(d)' = ShopOrdersOf(d) \cup {n}
  BY <1>1, <1>2 DEF ShopOrdersOf
<1>5. ASSUME NEW c \in Checkouts \ {d}
      PROVE  ShopOrdersOf(c)' = ShopOrdersOf(c) /\ Visible(c)' = Visible(c)
  <2>1. n \notin ShopOrdersOf(c) /\ n \notin ShopOrdersOf(c)'
    BY <1>1, <1>2, <1>3 DEF ShopOrdersOf
  <2>2. ShopOrdersOf(c)' = ShopOrdersOf(c)
    BY <1>1, <2>1 DEF ShopOrdersOf
  <2>3. \A m \in ShopOrdersOf(c) : shop'[m] = shop[m]
    BY <1>1, <2>1 DEF ShopOrdersOf
  <2> QED BY <2>2, <2>3 DEF Visible
<1> QED BY <1>4, <1>5

\* Shopify carries out the request of a call that waits for it.
LEMMA CommitProceeds ==
    ASSUME AttemptInv, NEW k \in Calls, ShopifyCommits(k)
    PROVE  \A c \in Checkouts : OneAttempt(c)'
<1> SUFFICES ASSUME NEW c \in Checkouts PROVE OneAttempt(c)'
  OBVIOUS
<1>0. PICK d \in Checkouts : d = call[k].co /\ call[k].pc = "creating"
  BY DEF AttemptInv, IInv, WellFormedCalls, WellFormed, ShopifyCommits
<1>1. PICK n \in ShopOrders :
          /\ NewShopOrder(n, d, call[k].pay)
          /\ Become(k, [call[k] EXCEPT !.pc = "created", !.order = n])
  BY <1>0, Zenon DEF ShopifyCommits
<1> DEFINE x == [call[k] EXCEPT !.pc = "created", !.order = n]
<1>2. x.pc = "created" /\ x.co = d
  BY <1>0 DEF AttemptInv, IInv, TypeOK, CallState
<1>3. call'[k] = x /\ \A j \in Calls : j # k => call'[j] = call[j]
  BY <1>1 DEF AttemptInv, IInv, TypeOK, Become
<1> HIDE DEF x
<1>4. UNCHANGED <<session, abandoned>>
  BY DEF ShopifyCommits, db
<1>5. /\ ShopOrdersOf(d)' = ShopOrdersOf(d) \cup {n}
      /\ \A e \in Checkouts \ {d} : /\ ShopOrdersOf(e)' = ShopOrdersOf(e)
                                    /\ Visible(e)' = Visible(e)
  BY <1>0, <1>1, NewOrderIsOf
<1>6. CASE c # d
  <2>1. ASSUME NEW j \in Calls PROVE Proceeds(j, c)
    BY <1>2, <1>3, <1>6 DEF Proceeds, Works
  <2> QED BY <1>4, <1>5, <1>6, <2>1, AttemptProceeds
<1>7. CASE c = d
  <2>1. Works(k, c)
    BY <1>0, <1>7 DEF Works, OrderSteps
  <2>2. OneAttempt(c)
    BY DEF AttemptInv
  <2>3. abandoned[c] = 0 /\ ShopOrdersOf(c) = {}
    BY <1>0, <2>1, <2>2 DEF OneAttempt
  <2>4. \A j \in Calls : Works(j, c)' => j = k
    BY <1>3, <2>1, <2>2 DEF OneAttempt, Works
  <2>5. ~CanClaimOrder(session[c])
    BY <2>1, <2>2 DEF OneAttempt, Quiet, Works
  <2>6. \A m, l \in ShopOrdersOf(c)' : m = l
    BY <1>5, <1>7, <2>3
  <2> QED BY <1>2, <1>3, <1>4, <2>3, <2>4, <2>5, <2>6 DEF OneAttempt
<1> QED BY <1>6, <1>7

\* Shopify carries out, or drops, a request nobody waits for.
LEMMA AbandonedProceeds ==
    ASSUME AttemptInv, NEW d \in Checkouts, AbandonedCommits(d)
    PROVE  \A c \in Checkouts : OneAttempt(c)'
<1> SUFFICES ASSUME NEW c \in Checkouts PROVE OneAttempt(c)'
  OBVIOUS
<1>0. abandoned \in [Checkouts -> 0..MaxAbandoned]
  BY DEF AttemptInv, IInv, TypeOK
<1>1. UNCHANGED <<session, call>>
  BY DEF AbandonedCommits, db
<1>2. /\ abandoned[d] # 0 /\ abandoned'[d] = abandoned[d] - 1
      /\ \A e \in Checkouts : e # d => abandoned'[e] = abandoned[e]
  BY <1>0 DEF AbandonedCommits
<1>3. \/ UNCHANGED shop
      \/ \E n \in ShopOrders : NewShopOrder(n, d, session[d].payment)
  BY DEF AbandonedCommits
<1>4. UNCHANGED shop => \A e \in Checkouts : /\ ShopOrdersOf(e)' = ShopOrdersOf(e)
                                             /\ Visible(e)' = Visible(e)
  BY DEF ShopOrdersOf, Visible
<1>5. CASE c # d
  <2>1. ShopOrdersOf(c)' = ShopOrdersOf(c) /\ Visible(c)' = Visible(c)
    BY <1>3, <1>4, <1>5, NewOrderIsOf
  <2>2. ASSUME NEW j \in Calls PROVE Proceeds(j, c)
    BY <1>1 DEF Proceeds, Works
  <2> QED BY <1>1, <1>2, <1>5, <2>1, <2>2, AttemptProceeds
<1>6. CASE c = d
  <2>1. OneAttempt(c)
    BY DEF AttemptInv
  <2>2. abandoned[c] = 1 /\ ShopOrdersOf(c) = {}
    BY <1>2, <1>6, <2>1 DEF OneAttempt
  <2>3. abandoned'[c] = 0
    BY <1>2, <1>6, <2>2
  <2>4. \A m, l \in ShopOrdersOf(c)' : m = l
    BY <1>3, <1>4, <1>6, <2>2, NewOrderIsOf
  <2>5. ~CanClaimOrder(session[c])
    BY <2>1, <2>2 DEF OneAttempt, Quiet
  <2>6. ASSUME NEW j \in Calls, Works(j, c)
        PROVE  call[j].pc \notin {"find", "create", "creating"}
    BY <2>1, <2>2, <2>6 DEF OneAttempt
  <2>7. \A j \in Calls : Works(j, c)' <=> Works(j, c)
    BY <1>1 DEF Works
  <2> QED BY <1>1, <2>1, <2>3, <2>4, <2>5, <2>6, <2>7 DEF OneAttempt
<1> QED BY <1>5, <1>6

\* Shopify's index catches up.
LEMMA IndexProceeds ==
    ASSUME AttemptInv, NEW n \in ShopOrders, IndexOrder(n)
    PROVE  \A c \in Checkouts : OneAttempt(c)'
<1> SUFFICES ASSUME NEW c \in Checkouts PROVE OneAttempt(c)'
  OBVIOUS
<1>1. UNCHANGED <<session, call, abandoned>>
  BY DEF IndexOrder, db
<1>2. /\ shop' = [shop EXCEPT ![n].indexed = TRUE]
      /\ shop \in [ShopOrders -> [co: Checkouts \cup {None},
                                  pay: Payments \cup {None}, indexed: BOOLEAN]]
  BY DEF IndexOrder, AttemptInv, IInv, TypeOK
<1>3. \A m \in ShopOrders : /\ shop'[m].co = shop[m].co
                            /\ shop[m].indexed => shop'[m].indexed
  BY <1>2
<1>4. ShopOrdersOf(c)' = ShopOrdersOf(c) /\ Visible(c) \subseteq Visible(c)'
  BY <1>3 DEF ShopOrdersOf, Visible
<1>5. ASSUME NEW j \in Calls PROVE Proceeds(j, c)
  BY <1>1 DEF Proceeds, Works
<1> QED BY <1>1, <1>4, <1>5, AttemptProceeds

\* The answer is given up on; the request may stay in the network.
LEMMA TimeoutProceeds ==
    ASSUME AttemptInv, NEW k \in Calls, OrderCreateTimesOut(k)
    PROVE  \A c \in Checkouts : OneAttempt(c)'
<1> SUFFICES ASSUME NEW c \in Checkouts PROVE OneAttempt(c)'
  OBVIOUS
<1> DEFINE d == call[k].co
           x == [call[k] EXCEPT !.pc = "recover", !.order = None]
<1>0. /\ d \in Checkouts /\ call[k].pc \in OrderSteps
      /\ abandoned \in [Checkouts -> 0..MaxAbandoned]
  BY DEF AttemptInv, IInv, TypeOK, WellFormedCalls, WellFormed,
         OrderCreateTimesOut, OrderSteps
<1>1. UNCHANGED <<session, shop>> /\ Become(k, x)
  BY Zenon DEF OrderCreateTimesOut, db
<1>2. x.pc = "recover" /\ x.co = d
  BY DEF AttemptInv, IInv, TypeOK, CallState
<1>3. call'[k] = x /\ \A j \in Calls : j # k => call'[j] = call[j]
  BY <1>1 DEF AttemptInv, IInv, TypeOK, Become
<1>4. \/ UNCHANGED abandoned
      \/ /\ call[k].pc = "creating"
         /\ abandoned' = [abandoned EXCEPT ![d] = @ + 1]
  BY Zenon DEF OrderCreateTimesOut
<1> HIDE DEF x
<1>5. CASE UNCHANGED abandoned
  BY <1>0, <1>1, <1>2, <1>5, CallProceeds
<1>6. CASE /\ call[k].pc = "creating"
           /\ abandoned' = [abandoned EXCEPT ![d] = @ + 1]
  <2>1. /\ abandoned'[d] = abandoned[d] + 1
        /\ \A e \in Checkouts : e # d => abandoned'[e] = abandoned[e]
    BY <1>0, <1>6
  <2>2. ShopOrdersOf(c)' = ShopOrdersOf(c) /\ Visible(c)' = Visible(c)
    BY <1>1 DEF ShopOrdersOf, Visible
  <2>3. CASE c # d
    <3>1. ASSUME NEW j \in Calls PROVE Proceeds(j, c)
      BY <1>2, <1>3, <2>3 DEF Proceeds, Works
    <3> QED BY <1>1, <2>1, <2>2, <2>3, <3>1, AttemptProceeds
  <2>4. CASE c = d
    <3>1. Works(k, c) /\ OneAttempt(c)
      BY <1>0, <2>4 DEF Works, AttemptInv
    <3>2. abandoned[c] = 0 /\ ShopOrdersOf(c) = {}
      BY <1>6, <3>1 DEF OneAttempt
    <3>3. abandoned'[c] = 1
      BY <2>1, <2>4, <3>2
    <3>4. \A j \in Calls : Works(j, c)' => j = k
      BY <1>3, <3>1 DEF OneAttempt, Works
    <3>5. ~CanClaimOrder(session[c])
      BY <3>1 DEF OneAttempt, Quiet, Works
    <3> QED BY <1>1, <1>2, <1>3, <2>2, <3>2, <3>3, <3>4, <3>5 DEF OneAttempt
  <2> QED BY <2>3, <2>4
<1> QED BY <1>4, <1>5, <1>6

\* A crash leaves at most the one request that was under way in the network.
LEMMA CrashProceeds ==
    ASSUME AttemptInv, Crash PROVE \A c \in Checkouts : OneAttempt(c)'
<1> SUFFICES ASSUME NEW c \in Checkouts PROVE OneAttempt(c)'
  OBVIOUS
<1> DEFINE Sending == {k \in Calls : call[k].pc = "creating" /\ call[k].co = c}
<1>1. UNCHANGED <<session, shop>>
  BY DEF Crash, db
<1>2. \A j \in Calls : ~Works(j, c)'
  <2>1. Idle.pc \notin OrderSteps
    BY DEF Idle, OrderSteps
  <2> QED BY <2>1 DEF Crash, Works
<1>3. abandoned'[c] = Capped(abandoned[c] + Cardinality(Sending))
  BY DEF Crash
<1>4. ShopOrdersOf(c)' = ShopOrdersOf(c) /\ Visible(c)' = Visible(c)
  BY <1>1 DEF ShopOrdersOf, Visible
<1>5. OneAttempt(c)
  BY DEF AttemptInv
<1>6. abandoned[c] \in 0..MaxAbandoned
  BY DEF AttemptInv, IInv, TypeOK
<1>7. CASE Sending = {}
  <2>1. Cardinality(Sending) = 0
    BY <1>7, FS_EmptySet
  <2> HIDE DEF Sending
  <2>2. abandoned'[c] = abandoned[c]
    BY <1>3, <1>6, <2>1, BoundsAssumption DEF Capped
  <2>3. ASSUME NEW j \in Calls PROVE Proceeds(j, c)
    BY <1>2 DEF Proceeds
  <2> QED BY <1>1, <1>4, <2>2, <2>3, AttemptProceeds
<1>8. CASE Sending # {}
  <2>1. PICK k \in Calls : call[k].pc = "creating" /\ call[k].co = c
    BY <1>8
  <2>2. Works(k, c)
    BY <2>1 DEF Works, OrderSteps
  <2>3. abandoned[c] = 0 /\ ShopOrdersOf(c) = {}
    BY <1>5, <2>1, <2>2 DEF OneAttempt
  <2>4. Sending = {k}
    <3>1. \A j \in Sending : Works(j, c)
      BY DEF Works, OrderSteps
    <3> QED BY <1>5, <2>1, <2>2, <3>1 DEF OneAttempt
  <2>5. Cardinality(Sending) = 1
    BY <2>4, FS_Singleton
  <2> HIDE DEF Sending
  <2>6. abandoned'[c] \in {0, 1}
    BY <1>3, <2>3, <2>5, BoundsAssumption DEF Capped
  <2>7. ~CanClaimOrder(session[c])
    BY <1>5, <2>2 DEF OneAttempt, Quiet, Works
  <2> QED BY <1>1, <1>2, <1>4, <2>3, <2>6, <2>7 DEF OneAttempt
<1> QED BY <1>7, <1>8

\* The code's delays end only once nothing of the attempt is in flight.
LEMMA TimeProceeds ==
    ASSUME Prompt, AttemptInv, NEW d \in Checkouts,
           RetryComesDue(d) \/ LeaseExpires(d)
    PROVE  \A c \in Checkouts : OneAttempt(c)'
<1> SUFFICES ASSUME NEW c \in Checkouts PROVE OneAttempt(c)'
  OBVIOUS
<1>1. UNCHANGED <<call, shop, abandoned>>
  BY DEF RetryComesDue, LeaseExpires, shopify
<1>2. Quiet(d)
  BY DEF RetryComesDue, LeaseExpires, Prompt
<1>3. \A e \in Checkouts : e # d => session'[e] = session[e]
  BY DEF RetryComesDue, LeaseExpires, AttemptInv, IInv, TypeOK
<1>4. ShopOrdersOf(c)' = ShopOrdersOf(c) /\ Visible(c)' = Visible(c)
  BY <1>1 DEF ShopOrdersOf, Visible
<1>5. ASSUME NEW j \in Calls PROVE Proceeds(j, c)
  BY <1>1 DEF Proceeds, Works
<1> QED BY <1>1, <1>2, <1>3, <1>4, <1>5, AttemptProceeds

\* Razorpay moves, and steps that change nothing, leave the attempts alone.
LEMMA QuietProceeds ==
    ASSUME AttemptInv, UNCHANGED <<session, call, shop, abandoned>>
    PROVE  \A c \in Checkouts : OneAttempt(c)'
<1> SUFFICES ASSUME NEW c \in Checkouts PROVE OneAttempt(c)'
  OBVIOUS
<1>1. ShopOrdersOf(c)' = ShopOrdersOf(c) /\ Visible(c)' = Visible(c)
  BY DEF ShopOrdersOf, Visible
<1>2. ASSUME NEW j \in Calls PROVE Proceeds(j, c)
  BY DEF Proceeds, Works
<1> QED BY <1>1, <1>2, AttemptProceeds

\* A request arrives, or the drain turns to the next claimable checkout.
LEMMA RequestProceeds ==
    ASSUME AttemptInv, Request
    PROVE  \A c \in Checkouts : OneAttempt(c)'
<1>1. ASSUME NEW k \in Calls, NEW x, Become(k, x), x.pc \notin OrderSteps,
             UNCHANGED <<session, shop, abandoned>>
      PROVE  \A c \in Checkouts : OneAttempt(c)'
  BY <1>1, CallProceeds
<1>2. ASSUME NEW k \in Creators, NEW c \in Checkouts, CreateCheckout(k, c)
      PROVE  \A e \in Checkouts : OneAttempt(e)'
  <2> DEFINE x == [Idle EXCEPT !.co = c,
                               !.pc = IF session[c].status = "ABSENT"
                                      THEN "insert" ELSE "rzpPost"]
  <2>1. x.pc \notin OrderSteps
    BY DEF Idle, OrderSteps
  <2>2. Become(k, x) /\ UNCHANGED <<session, shop, abandoned>> /\ k \in Calls
    BY <1>2, Zenon DEF CreateCheckout, db, shopify, Calls
  <2> HIDE DEF x
  <2> QED BY <1>1, <2>1, <2>2
<1>3. ASSUME NEW k \in Browsers, NEW c \in Checkouts, NEW p \in Payments,
             Verify(k, c, p)
      PROVE  \A e \in Checkouts : OneAttempt(e)'
  <2> DEFINE x == [Idle EXCEPT !.pc = "fetch", !.co = c, !.pay = p]
  <2>1. x.pc \notin OrderSteps
    BY DEF Idle, OrderSteps
  <2>2. Become(k, x) /\ UNCHANGED <<session, shop, abandoned>> /\ k \in Calls
    BY <1>3, Zenon DEF Verify, db, shopify, Calls
  <2> HIDE DEF x
  <2> QED BY <1>1, <2>1, <2>2
<1>4. ASSUME NEW kind \in PaymentKinds, NEW p \in Payments,
             NEW c \in Checkouts, ProcessWebhook(kind, p, c)
      PROVE  \A e \in Checkouts : OneAttempt(e)'
  <2> DEFINE x == [Idle EXCEPT !.pc = "observeRead", !.co = c, !.pay = p,
                               !.kind = kind,
                               !.same = (session[c].payment = p)]
  <2>1. x.pc \notin OrderSteps
    BY DEF Idle, OrderSteps
  <2>2. Become("webhook", x) /\ UNCHANGED <<session, shop, abandoned>>
    BY <1>4, Zenon DEF ProcessWebhook, db, shopify
  <2>3. "webhook" \in Calls
    BY DEF Calls
  <2> HIDE DEF x
  <2> QED BY <1>1, <2>1, <2>2, <2>3
<1>5. ASSUME NEW c \in Checkouts, ClaimNext(c)
      PROVE  \A e \in Checkouts : OneAttempt(e)'
  <2>1. "worker" \in Calls /\ call["worker"].pc \notin OrderSteps
    BY <1>5 DEF Calls, ClaimNext, OrderSteps
  <2> QED BY <1>5, <2>1, ClaimProceeds DEF ClaimNext, shopify
<1> QED BY <1>2, <1>3, <1>4, <1>5 DEF Request

\* Every step of a call.
LEMMA StepProceeds ==
    ASSUME Prompt, AttemptInv, NEW k \in Calls, Step(k)
    PROVE  \A c \in Checkouts : OneAttempt(c)'
<1>1. CASE ClaimOne(k)
  <2>1. call[k].co \in Checkouts /\ call[k].pc \notin OrderSteps
    BY <1>1 DEF AttemptInv, IInv, WellFormedCalls, WellFormed, ClaimOne,
                OrderSteps
  <2>2. UNCHANGED <<shop, abandoned>>
    BY <1>1 DEF ClaimOne, shopify
  <2>3. CASE CanClaimOrder(session[call[k].co])
    BY <1>1, <2>1, <2>2, <2>3, ClaimProceeds DEF ClaimOne
  <2>4. CASE ~CanClaimOrder(session[call[k].co])
    <3>1. Finish(k) /\ UNCHANGED session
      BY <1>1, <2>4 DEF ClaimOne
    <3> QED BY <2>2, <3>1, FinishProceeds
  <2> QED BY <2>3, <2>4
<1> QED BY <1>1, PreludeProceeds, MarkPaidProceeds, SearchProceeds,
           OrderStepProceeds, CommitProceeds, TimeoutProceeds, Zenon DEF Step

LEMMA NextProceeds ==
    ASSUME Prompt, AttemptInv, [Next]_vars PROVE AttemptInv'
<1>1. IInv'
  BY NextKeepsTypes DEF AttemptInv
<1>2. CASE Razorpay
  <2>1. UNCHANGED <<session, call, shop, abandoned>>
    BY <1>2 DEF Razorpay, StartPayment, AuthorizeLate, CapturePayment,
                RefundPayment, PaymentMoves, db, shopify
  <2> QED BY <1>1, <2>1, QuietProceeds DEF AttemptInv
<1>3. CASE UNCHANGED vars
  <2>1. UNCHANGED <<session, call, shop, abandoned>>
    BY <1>3 DEF vars, db, shopify
  <2> QED BY <1>1, <2>1, QuietProceeds DEF AttemptInv
<1>4. CASE Shopify
  BY <1>1, <1>4, AbandonedProceeds, IndexProceeds DEF Shopify, AttemptInv
<1>5. CASE Time
  BY <1>1, <1>5, TimeProceeds DEF Time, AttemptInv
<1>6. CASE Crash
  BY <1>1, <1>6, CrashProceeds DEF AttemptInv
<1>7. CASE Request
  BY <1>1, <1>7, RequestProceeds DEF AttemptInv
<1>8. CASE \E k \in Calls : Step(k)
  BY <1>1, <1>8, StepProceeds DEF AttemptInv
<1> QED BY <1>2, <1>3, <1>4, <1>5, <1>6, <1>7, <1>8 DEF Next

LEMMA InitProceeds == Init => AttemptInv
<1> SUFFICES ASSUME Init PROVE AttemptInv
  OBVIOUS
<1>1. IInv
  BY InitTypes
<1>2. ASSUME NEW c \in Checkouts PROVE OneAttempt(c)
  <2>1. \A k \in Calls : ~Works(k, c)
    BY DEF Init, Works, Idle, OrderSteps
  <2>2. ShopOrdersOf(c) = {}
    BY NullAssumption DEF Init, ShopOrdersOf, NoShopOrder
  <2>3. ~CanClaimOrder(session[c])
    BY DEF Init, CanClaimOrder, NoSession
  <2>4. abandoned[c] = 0
    BY DEF Init
  <2> QED BY <2>1, <2>2, <2>3, <2>4 DEF OneAttempt
<1> QED BY <1>1, <1>2 DEF AttemptInv

LEMMA AlwaysAttemptInv == ASSUME Prompt PROVE Spec => []AttemptInv
<1>1. AttemptInv /\ [Next]_vars => AttemptInv'
  BY NextProceeds
<1> QED BY <1>1, InitProceeds, PTL DEF Spec

\* A set whose members are all equal has at most one.
LEMMA OneOrNone ==
    ASSUME NEW S, \A n, m \in S : n = m PROVE Cardinality(S) <= 1
<1>1. CASE S = {}
  BY <1>1, FS_EmptySet
<1>2. CASE S # {}
  <2>1. PICK n \in S : S = {n}
    BY <1>2
  <2>2. Cardinality({n}) = 1
    BY FS_Singleton
  <2> QED BY <2>1, <2>2
<1> QED BY <1>1, <1>2

\* While the delays of the code outlast Shopify's processing and no
\* confirmation lands in the middle of an attempt, one payment buys one
\* Shopify order: in whatever order attempts fail, answers get lost, the
\* process crashes and requests left in the network are carried out late.
THEOREM OnePaymentOneOrder == ASSUME Prompt PROVE Spec => []AtMostOneOrder
<1>1. AttemptInv => AtMostOneOrder
  BY OneOrNone DEF AttemptInv, OneAttempt, AtMostOneOrder
<1> QED BY <1>1, AlwaysAttemptInv, PTL

\* Under the same two conditions the lease excludes: of the verification
\* requests, the Razorpay drain and the paid-order drain at most one is ever
\* between claiming a checkout and giving it back.
THEOREM LeaseExcludes == ASSUME Prompt PROVE Spec => []AttemptsExclude
<1>1. ASSUME AttemptInv, NEW c \in Checkouts
      PROVE  Cardinality({k \in Calls : call[k].co = c
                                        /\ call[k].pc \in OrderSteps}) <= 1
  <2> DEFINE S == {k \in Calls : call[k].co = c /\ call[k].pc \in OrderSteps}
  <2>1. \A j, k \in S : j = k
    BY <1>1 DEF AttemptInv, OneAttempt, Works
  <2> HIDE DEF S
  <2>2. Cardinality(S) <= 1
    BY <2>1, OneOrNone
  <2> QED BY <2>2 DEF S
<1>2. AttemptInv => AttemptsExclude
  BY <1>1 DEF AttemptsExclude
<1> QED BY <1>2, AlwaysAttemptInv, PTL

-----------------------------------------------------------------------------
Inv == IInv /\ Provenance

-----------------------------------------------------------------------------
(* What a step may do to one document, one payment, one Shopify order.     *)

DocumentMoves(c) ==
    LET s == session[c]
        t == session'[c] IN
    \/ t = s
    \/ s.status = "ABSENT" /\ t = Inserted(s)
    \/ \E k \in Calls, o \in RzpOrders :
          /\ AttachRazorpayOrder(k) /\ call[k].co = c
          /\ CanAttachRazorpayOrder(s, o)
          /\ t = RazorpayOrderAttached(s, o)
    \/ \E k \in Calls, p \in Payments :
          /\ call[k].pc = "markPaid" /\ call[k].pay = p
          /\ PaidFor(p, c)
          /\ CanMarkPaid(s, pay[p].order, p)
          /\ t = MarkedPaid(s, p)
    \/ \E p \in Payments : CanMarkRefunded(s, p) /\ t = MarkedRefunded(s)
    \/ CanClaimOrder(s) /\ t = OrderClaimed(s)
    \/ \E n \in ShopOrders : /\ shop[n].co = c
                             /\ CanMarkOrderCreated(s, n)
                             /\ t = OrderMarkedCreated(s, n)
    \/ s.status = "ORDER_CREATING" /\ t = OrderReleased(s)
    \/ s.next = "later" /\ t = [s EXCEPT !.next = "due"]
    \/ s.status = "ORDER_CREATING" /\ t = [s EXCEPT !.lease = "expired"]

PaymentsMove ==
    \A p \in Payments :
        /\ WasCaptured(p) => WasCaptured(p)' /\ pay'[p].order = pay[p].order
        /\ pay[p].exact => pay'[p].order = pay[p].order

OrderMoves(n) ==
    \/ shop'[n].co = shop[n].co /\ shop'[n].pay = shop[n].pay
    \/ /\ shop[n].co = None
       /\ shop'[n].co \in Checkouts
       /\ shop'[n].pay # None
       /\ session[shop'[n].co].payment = shop'[n].pay

\* Whatever the step, each document moves by one operation whose filter it
\* satisfies, and a payment is recorded only if it was captured for it.
LEMMA DocumentsMove ==
    ASSUME Inv, [Next]_vars, NEW c \in Checkouts PROVE DocumentMoves(c)
<1> DEFINE Moves == DocumentMoves(c)
<1>0. session \in [Checkouts -> Session] /\ session[c] \in Session
  BY DEF Inv, IInv, TypeOK
<1>1. ASSUME UNCHANGED session PROVE Moves
  BY <1>1 DEF DocumentMoves
<1>2. ASSUME NEW k \in Calls, InsertSession(k) PROVE Moves
  BY <1>0, <1>2 DEF InsertSession, DocumentMoves, Inserted
<1>3. ASSUME NEW k \in Calls, AttachRazorpayOrder(k) PROVE Moves
  <2>1. call[k].rzp \in RzpOrders
    BY <1>3 DEF Inv, IInv, WellFormedCalls, WellFormed, AttachRazorpayOrder
  <2>2. \/ session'[c] = session[c]
        \/ /\ call[k].co = c
           /\ CanAttachRazorpayOrder(session[c], call[k].rzp)
           /\ session'[c] = RazorpayOrderAttached(session[c], call[k].rzp)
    BY <1>0, <1>3 DEF AttachRazorpayOrder
  <2> QED BY <1>3, <2>1, <2>2 DEF DocumentMoves
<1>4. ASSUME NEW k \in Calls, MarkPaid(k) PROVE Moves
  <2>1. /\ call[k].pc = "markPaid" /\ call[k].pay \in Payments
        /\ PaidFor(call[k].pay, call[k].co)
    BY <1>4 DEF Inv, IInv, WellFormedCalls, WellFormed, MarkPaid, Provenance,
                CallsCarryPayment, Carries
  <2>2. \/ session'[c] = session[c]
        \/ /\ call[k].co = c
           /\ CanMarkPaid(session[c], pay[call[k].pay].order, call[k].pay)
           /\ session'[c] = MarkedPaid(session[c], call[k].pay)
    BY <1>0, <1>4 DEF MarkPaid
  <2> QED BY <2>1, <2>2 DEF DocumentMoves
<1>5. ASSUME NEW k \in Calls, MarkRefunded(k) PROVE Moves
  <2>1. call[k].pay \in Payments
    BY <1>5 DEF Inv, IInv, WellFormedCalls, WellFormed, MarkRefunded
  <2> QED BY <1>0, <1>5, <2>1 DEF MarkRefunded, DocumentMoves
<1>6. ASSUME NEW k \in Calls, ClaimOne(k) PROVE Moves
  BY <1>0, <1>6 DEF ClaimOne, Claim, DocumentMoves
<1>7. ASSUME NEW d \in Checkouts, ClaimNext(d) PROVE Moves
  BY <1>0, <1>7 DEF ClaimNext, Claim, DocumentMoves
<1>8. ASSUME NEW k \in Calls, MarkOrderCreated(k) PROVE Moves
  <2>1. call[k].order \in ShopOrders /\ shop[call[k].order].co = call[k].co
    BY <1>8 DEF Inv, IInv, WellFormedCalls, WellFormed, MarkOrderCreated,
                Provenance, CallsCarryPayment, Carries
  <2> QED BY <1>0, <1>8, <2>1 DEF MarkOrderCreated, DocumentMoves
<1>9. ASSUME NEW k \in Calls, ReleaseOrderForRetry(k) PROVE Moves
  BY <1>0, <1>9 DEF ReleaseOrderForRetry, OrderReleased, DocumentMoves
<1>10. ASSUME NEW d \in Checkouts, RetryComesDue(d) PROVE Moves
  BY <1>0, <1>10 DEF RetryComesDue, DocumentMoves
<1>11. ASSUME NEW d \in Checkouts, LeaseExpires(d) PROVE Moves
  BY <1>0, <1>11 DEF LeaseExpires, DocumentMoves
<1>12. CASE Razorpay
  <2>1. UNCHANGED session
    BY <1>12 DEF Razorpay, StartPayment, AuthorizeLate, CapturePayment,
                 RefundPayment, PaymentMoves, db
  <2> QED BY <1>1, <2>1
<1>13. CASE Shopify \/ Crash
  <2>1. UNCHANGED session
    BY <1>13 DEF Shopify, AbandonedCommits, IndexOrder, Crash, db
  <2> QED BY <1>1, <2>1
<1>14. ASSUME NEW k \in Calls, Step(k) PROVE Moves
  <2>1. \/ UNCHANGED session
        \/ InsertSession(k) \/ AttachRazorpayOrder(k) \/ MarkPaid(k)
        \/ MarkRefunded(k) \/ ClaimOne(k) \/ MarkOrderCreated(k)
        \/ ReleaseOrderForRetry(k)
    BY <1>14 DEF Step, PostRazorpayOrder, RecoverByReceipt, FetchPayment,
         ObserveRead, ObserveWrite, FindExisting, SendOrderCreate,
         ShopifyCommits, OrderCreateAnswered, OrderCreateFails,
         OrderCreateTimesOut, RecoverOrder, CallFails, db
  <2> QED BY <1>1, <1>2, <1>3, <1>4, <1>5, <1>6, <1>8, <1>9, <2>1
<1>15. CASE Request
  <2>1. UNCHANGED session \/ \E d \in Checkouts : ClaimNext(d)
    BY <1>15 DEF Request, CreateCheckout, Verify, ProcessWebhook, db
  <2> QED BY <1>1, <1>7, <2>1
<1>16. CASE UNCHANGED vars
  BY <1>1, <1>16 DEF vars, db
<1> QED BY <1>10, <1>11, <1>12, <1>13, <1>14, <1>15, <1>16 DEF Next, Time

\* Razorpay never takes back a capture or the order a payment was made on.
LEMMA PaymentsMoveStep == ASSUME Inv, [Next]_vars PROVE PaymentsMove
<1>0. pay \in [Payments -> [status: PaymentKinds \cup {"none"},
                            order: RzpOrders \cup {None}, exact: BOOLEAN]]
  BY DEF Inv, IInv, TypeOK
<1>1. ASSUME UNCHANGED pay PROVE PaymentsMove
  BY <1>1 DEF PaymentsMove, WasCaptured
<1>2. ASSUME NEW p \in Payments, NEW kind \in PaymentKinds,
             PaymentMoves(p, kind),
             WasCaptured(p) => kind \in {"CAPTURED", "REFUNDED"}
      PROVE  PaymentsMove
  BY <1>0, <1>2 DEF PaymentsMove, WasCaptured, PaymentMoves
<1>3. ASSUME NEW p \in Payments, NEW c \in Checkouts, NEW exact \in BOOLEAN,
             NEW kind \in PaymentKinds, StartPayment(p, c, exact, kind)
      PROVE  PaymentsMove
  <2>1. pay[p].status = "none" /\ ~pay[p].exact
    BY <1>3 DEF StartPayment, Inv, Provenance, DeliveriesMeanPayments
  <2> QED BY <1>0, <1>3, <2>1 DEF PaymentsMove, WasCaptured, StartPayment
<1>4. CASE Razorpay
  <2>1. ASSUME NEW p \in Payments,
               AuthorizeLate(p) \/ CapturePayment(p) \/ RefundPayment(p)
        PROVE  PaymentsMove
    BY <1>2, <2>1 DEF AuthorizeLate, CapturePayment, RefundPayment,
                      WasCaptured, PaymentKinds
  <2> QED BY <1>3, <1>4, <2>1 DEF Razorpay, PaymentKinds
<1>5. ASSUME Next, ~Razorpay PROVE UNCHANGED pay
  <2>1. ASSUME NEW k \in Calls, Step(k) PROVE UNCHANGED pay
    BY <2>1 DEF Step, InsertSession, PostRazorpayOrder, RecoverByReceipt,
         AttachRazorpayOrder, FetchPayment, ObserveRead, ObserveWrite,
         MarkPaid, MarkRefunded, ClaimOne, FindExisting, SendOrderCreate,
         ShopifyCommits, OrderCreateAnswered, OrderCreateFails,
         OrderCreateTimesOut, RecoverOrder, MarkOrderCreated,
         ReleaseOrderForRetry, CallFails, razorpay
  <2>2. CASE Request
    BY <2>2 DEF Request, CreateCheckout, Verify, ProcessWebhook, ClaimNext,
                razorpay
  <2>3. CASE Shopify \/ Time \/ Crash
    BY <2>3 DEF Shopify, AbandonedCommits, IndexOrder, Time, RetryComesDue,
                LeaseExpires, Crash, razorpay
  <2> QED BY <1>5, <2>1, <2>2, <2>3 DEF Next
<1>6. CASE UNCHANGED vars
  BY <1>1, <1>6 DEF vars, razorpay
<1> QED BY <1>1, <1>4, <1>5, <1>6

\* Shopify keeps every order, and a new one is made for a recorded payment.
LEMMA OrdersMove ==
    ASSUME Inv, [Next]_vars, NEW n \in ShopOrders PROVE OrderMoves(n)
<1>0. shop \in [ShopOrders -> [co: Checkouts \cup {None},
                               pay: Payments \cup {None}, indexed: BOOLEAN]]
  BY DEF Inv, IInv, TypeOK
<1>1. ASSUME UNCHANGED shop PROVE OrderMoves(n)
  BY <1>1 DEF OrderMoves
<1>2. ASSUME NEW m \in ShopOrders, NEW c \in Checkouts, NEW p,
             NewShopOrder(m, c, p), p # None, session[c].payment = p
      PROVE  OrderMoves(n)
  BY <1>0, <1>2 DEF OrderMoves, NewShopOrder
<1>3. ASSUME NEW k \in Calls, ShopifyCommits(k) PROVE OrderMoves(n)
  <2>1. /\ call[k].co \in Checkouts /\ call[k].pay # None
        /\ session[call[k].co].payment = call[k].pay
    BY <1>3 DEF Inv, IInv, WellFormedCalls, WellFormed, Provenance,
                CallsCarryPayment, Carries, ShopifyCommits, OrderSteps
  <2> QED BY <1>2, <1>3, <2>1 DEF ShopifyCommits
<1>4. ASSUME NEW c \in Checkouts, AbandonedCommits(c) PROVE OrderMoves(n)
  BY <1>1, <1>2, <1>4
     DEF AbandonedCommits, Inv, Provenance, OrdersCarryPayment
<1>5. ASSUME NEW m \in ShopOrders, IndexOrder(m) PROVE OrderMoves(n)
  BY <1>0, <1>5 DEF IndexOrder, OrderMoves
<1>6. ASSUME NEW k \in Calls, Step(k) PROVE OrderMoves(n)
  <2>1. UNCHANGED shop \/ ShopifyCommits(k)
    BY <1>6 DEF Step, InsertSession, PostRazorpayOrder, RecoverByReceipt,
         AttachRazorpayOrder, FetchPayment, ObserveRead, ObserveWrite,
         MarkPaid, MarkRefunded, ClaimOne, FindExisting, SendOrderCreate,
         OrderCreateAnswered, OrderCreateFails, OrderCreateTimesOut,
         RecoverOrder, MarkOrderCreated, ReleaseOrderForRetry, CallFails,
         shopify
  <2> QED BY <1>1, <1>3, <2>1
<1>7. CASE Request \/ Razorpay \/ Time \/ Crash
  <2>1. UNCHANGED shop
    BY <1>7 DEF Request, CreateCheckout, Verify, ProcessWebhook, ClaimNext,
         Razorpay, StartPayment, AuthorizeLate, CapturePayment, RefundPayment,
         PaymentMoves, Time, RetryComesDue, LeaseExpires, Crash, shopify
  <2> QED BY <1>1, <2>1
<1>8. CASE UNCHANGED vars
  BY <1>1, <1>8 DEF vars, shopify
<1> QED BY <1>4, <1>5, <1>6, <1>7, <1>8 DEF Next, Shopify

-----------------------------------------------------------------------------
(* What follows for one document and for a payment made for a checkout.    *)

FieldsMove(c) ==
    LET s == session[c]
        t == session'[c] IN
    /\ t.rzpOrder = s.rzpOrder \/ s.rzpOrder = None
    /\ \/ t.payment = s.payment
       \/ s.payment = None /\ PaidFor(t.payment, c)
    /\ \/ t.shopOrder = s.shopOrder
       \/ /\ s.shopOrder = None
          /\ t.shopOrder \in ShopOrders
          /\ shop[t.shopOrder].co = c
    /\ t.status = "ORDER_CREATED" =>
          s.status = "ORDER_CREATED" \/ t.shopOrder \in ShopOrders
    /\ t.status = "ABSENT" => t = s

LEMMA FieldsMoveStep ==
    ASSUME Inv, [Next]_vars, NEW c \in Checkouts PROVE FieldsMove(c)
<1> DEFINE s == session[c]
           t == session'[c]
<1>0. DocumentMoves(c) /\ s \in Session
  BY DocumentsMove DEF Inv, IInv, TypeOK
<1>a. s.status = "ABSENT" => s = NoSession
  BY DEF Inv, Provenance, AbsentIsEmpty
<1>1. CASE t = s
  BY <1>1 DEF FieldsMove
<1>2. CASE s.status = "ABSENT" /\ t = Inserted(s)
  BY <1>0, <1>a, <1>2 DEF FieldsMove, Inserted, NoSession
<1>3. ASSUME NEW o \in RzpOrders, CanAttachRazorpayOrder(s, o),
             t = RazorpayOrderAttached(s, o)
      PROVE  FieldsMove(c)
  BY <1>0, <1>3 DEF FieldsMove, CanAttachRazorpayOrder,
                    RazorpayOrderAttached, Session
<1>4. ASSUME NEW p \in Payments, PaidFor(p, c),
             CanMarkPaid(s, pay[p].order, p), t = MarkedPaid(s, p)
      PROVE  FieldsMove(c)
  BY <1>0, <1>4 DEF FieldsMove, CanMarkPaid, MarkedPaid, Session
<1>5. ASSUME NEW p \in Payments, CanMarkRefunded(s, p), t = MarkedRefunded(s)
      PROVE  FieldsMove(c)
  BY <1>0, <1>5 DEF FieldsMove, MarkedRefunded, Session
<1>6. CASE CanClaimOrder(s) /\ t = OrderClaimed(s)
  BY <1>0, <1>6 DEF FieldsMove, OrderClaimed, Session
<1>7. ASSUME NEW n \in ShopOrders, shop[n].co = c,
             CanMarkOrderCreated(s, n), t = OrderMarkedCreated(s, n)
      PROVE  FieldsMove(c)
  BY <1>0, <1>7 DEF FieldsMove, CanMarkOrderCreated, OrderMarkedCreated,
                    Session
<1>8. CASE s.status = "ORDER_CREATING" /\ t = OrderReleased(s)
  BY <1>0, <1>8 DEF FieldsMove, OrderReleased, Session
<1>9. CASE s.next = "later" /\ t = [s EXCEPT !.next = "due"]
  <2>1. s.status # "ABSENT"
    BY <1>9, <1>a DEF NoSession
  <2> QED BY <1>0, <1>9, <2>1 DEF FieldsMove, Session
<1>10. CASE s.status = "ORDER_CREATING" /\ t = [s EXCEPT !.lease = "expired"]
  BY <1>0, <1>10 DEF FieldsMove, Session
<1> QED BY <1>0, <1>1, <1>2, <1>3, <1>4, <1>5, <1>6, <1>7, <1>8, <1>9, <1>10
        DEF DocumentMoves

LEMMA PaidForKept ==
    ASSUME Inv, [Next]_vars, NEW c \in Checkouts, NEW p, PaidFor(p, c)
    PROVE  PaidFor(p, c)'
BY FieldsMoveStep, PaymentsMoveStep DEF PaidFor, PaymentsMove, FieldsMove, WasCaptured

-----------------------------------------------------------------------------
(* The parts of Provenance.                                                *)

LEMMA AbsentStep == ASSUME Inv, [Next]_vars PROVE AbsentIsEmpty'
BY FieldsMoveStep DEF FieldsMove, AbsentIsEmpty, Inv, Provenance

LEMMA DeliveriesStep == ASSUME Inv, [Next]_vars PROVE DeliveriesMeanPayments'
<1>0. pay \in [Payments -> [status: PaymentKinds \cup {"none"},
                            order: RzpOrders \cup {None}, exact: BOOLEAN]]
  BY DEF Inv, IInv, TypeOK
<1>1. DeliveriesMeanPayments
  BY DEF Inv, Provenance
<1>2. CASE UNCHANGED <<pay, sent>>
  BY <1>1, <1>2 DEF DeliveriesMeanPayments
<1>3. ASSUME NEW p \in Payments,
             AuthorizeLate(p) \/ CapturePayment(p) \/ RefundPayment(p)
      PROVE  DeliveriesMeanPayments'
  <2>1. CASE AuthorizeLate(p)
    BY <1>0, <1>1, <2>1
       DEF DeliveriesMeanPayments, AuthorizeLate, PaymentMoves
  <2>2. CASE CapturePayment(p)
    BY <1>0, <1>1, <2>2
       DEF DeliveriesMeanPayments, CapturePayment, PaymentMoves
  <2>3. CASE RefundPayment(p)
    BY <1>0, <1>1, <2>3
       DEF DeliveriesMeanPayments, RefundPayment, PaymentMoves
  <2> QED BY <1>3, <2>1, <2>2, <2>3
<1>4. ASSUME NEW p \in Payments, NEW c \in Checkouts, NEW exact \in BOOLEAN,
             NEW kind \in {"FAILED", "AUTHORIZED"},
             StartPayment(p, c, exact, kind)
      PROVE  DeliveriesMeanPayments'
  BY <1>0, <1>1, <1>4 DEF DeliveriesMeanPayments, StartPayment
<1>5. ASSUME Next, ~Razorpay PROVE UNCHANGED <<pay, sent>>
  <2>1. ASSUME NEW k \in Calls, Step(k) PROVE UNCHANGED <<pay, sent>>
    BY <2>1 DEF Step, InsertSession, PostRazorpayOrder, RecoverByReceipt,
         AttachRazorpayOrder, FetchPayment, ObserveRead, ObserveWrite,
         MarkPaid, MarkRefunded, ClaimOne, FindExisting, SendOrderCreate,
         ShopifyCommits, OrderCreateAnswered, OrderCreateFails,
         OrderCreateTimesOut, RecoverOrder, MarkOrderCreated,
         ReleaseOrderForRetry, CallFails, razorpay
  <2>2. CASE Request
    BY <2>2 DEF Request, CreateCheckout, Verify, ProcessWebhook, ClaimNext,
                razorpay
  <2>3. CASE Shopify \/ Time \/ Crash
    BY <2>3 DEF Shopify, AbandonedCommits, IndexOrder, Time, RetryComesDue,
                LeaseExpires, Crash, razorpay
  <2> QED BY <1>5, <2>1, <2>2, <2>3 DEF Next
<1>6. CASE Razorpay
  BY <1>3, <1>4, <1>6 DEF Razorpay
<1>7. CASE UNCHANGED vars
  BY <1>2, <1>7 DEF vars, razorpay
<1> QED BY <1>2, <1>5, <1>6, <1>7

LEMMA RecordedStep == ASSUME Inv, [Next]_vars PROVE RecordedMeansPaid'
<1>1. ASSUME NEW c \in Checkouts, NEW p, p = session'[c].payment, p # None
      PROVE  PaidFor(p, c)'
  <2>1. PaidFor(p, c)
    BY <1>1, FieldsMoveStep
       DEF FieldsMove, Inv, Provenance, RecordedMeansPaid
  <2> QED BY <2>1, PaidForKept
<1> QED BY <1>1 DEF RecordedMeansPaid, PaidFor, WasCaptured

LEMMA LinkedStep == ASSUME Inv, [Next]_vars PROVE LinkedToOwnOrder'
<1>1. ASSUME NEW c \in Checkouts
      PROVE  /\ session'[c].status = "ORDER_CREATED" =>
                   session'[c].shopOrder # None
             /\ session'[c].shopOrder # None =>
                   shop'[session'[c].shopOrder].co = c
  <2>1. FieldsMove(c) /\ session[c] \in Session
    BY FieldsMoveStep DEF Inv, IInv, TypeOK
  <2>2. session[c].shopOrder \in ShopOrders \cup {None}
    BY <2>1 DEF Session
  <2>3. \A n \in ShopOrders : shop[n].co = c => shop'[n].co = c
    BY OrdersMove, NullAssumption DEF OrderMoves
  <2> QED BY <2>1, <2>2, <2>3, NoneAssumption
          DEF FieldsMove, Inv, Provenance, LinkedToOwnOrder
<1> QED BY <1>1 DEF LinkedToOwnOrder

LEMMA OrdersStep == ASSUME Inv, [Next]_vars PROVE OrdersCarryPayment'
<1>1. ASSUME NEW c \in Checkouts, abandoned'[c] > 0
      PROVE  session[c].payment # None
  <2>0. abandoned \in [Checkouts -> Nat]
    BY BoundsAssumption DEF Inv, IInv, TypeOK
  <2>1. ASSUME NEW k \in Calls, call[k].pc = "creating", call[k].co = c
        PROVE  session[c].payment # None
    BY <2>1 DEF Inv, Provenance, CallsCarryPayment, Carries, OrderSteps
  <2>2. CASE abandoned[c] > 0
    BY <2>2 DEF Inv, Provenance, OrdersCarryPayment
  <2>3. ASSUME NEW k \in Calls, OrderCreateTimesOut(k), ~(abandoned[c] > 0)
        PROVE  session[c].payment # None
    BY <1>1, <2>0, <2>1, <2>3 DEF OrderCreateTimesOut
  <2>4. CASE Crash /\ ~(abandoned[c] > 0)
    <3> DEFINE S == {k \in Calls : call[k].pc = "creating" /\ call[k].co = c}
    <3>1. abandoned'[c] = Capped(0 + Cardinality(S))
      BY <2>0, <2>4 DEF Crash
    <3>2. S # {}
      BY <1>1, <3>1, FS_EmptySet, BoundsAssumption DEF Capped
    <3> QED BY <2>1, <3>2
  <2>5. CASE \A k \in Calls : ~OrderCreateTimesOut(k)
    <3>1. ASSUME NEW k \in Calls, Step(k) PROVE abandoned' = abandoned
      BY <2>5, <3>1 DEF Step, InsertSession, PostRazorpayOrder,
           RecoverByReceipt, AttachRazorpayOrder, FetchPayment, ObserveRead,
           ObserveWrite, MarkPaid, MarkRefunded, ClaimOne, FindExisting,
           SendOrderCreate, ShopifyCommits, OrderCreateAnswered,
           OrderCreateFails, RecoverOrder, MarkOrderCreated,
           ReleaseOrderForRetry, CallFails, shopify
    <3>2. CASE Request \/ Razorpay \/ Time \/ UNCHANGED vars
      BY <1>1, <2>2, <3>2 DEF Request, CreateCheckout, Verify,
           ProcessWebhook, ClaimNext, Razorpay, StartPayment, AuthorizeLate,
           CapturePayment, RefundPayment, PaymentMoves, Time, RetryComesDue,
           LeaseExpires, shopify, vars
    <3>3. CASE Shopify
      BY <1>1, <2>0, <2>2, <3>3 DEF Shopify, AbandonedCommits, IndexOrder
    <3> QED BY <1>1, <2>2, <2>4, <3>1, <3>2, <3>3 DEF Next
  <2> QED BY <2>2, <2>3, <2>5
<1>2. ASSUME NEW c \in Checkouts, session[c].payment # None
      PROVE  session'[c].payment = session[c].payment
  BY <1>2, FieldsMoveStep DEF FieldsMove
<1>3. ASSUME NEW n \in ShopOrders, shop'[n].co # None
      PROVE  /\ shop'[n].pay # None
             /\ session'[shop'[n].co].payment = shop'[n].pay
  <2>1. OrderMoves(n) /\ shop[n].co \in Checkouts \cup {None}
    BY OrdersMove DEF Inv, IInv, TypeOK
  <2>2. /\ shop'[n].co \in Checkouts
        /\ shop'[n].pay # None
        /\ session[shop'[n].co].payment = shop'[n].pay
    BY <1>3, <2>1 DEF OrderMoves, Inv, Provenance, OrdersCarryPayment
  <2> QED BY <1>2, <2>2
<1> QED BY <1>1, <1>2, <1>3 DEF OrdersCarryPayment

-----------------------------------------------------------------------------
(* The calls.                                                              *)

\* What a call carries stays true while other calls and providers move.
LEMMA CarriesKept ==
    ASSUME Inv, [Next]_vars, NEW x \in CallState, WellFormed(x), Carries(x)
    PROVE  Carries(x)'
<1>1. x.pc # "idle" => x.co \in Checkouts
  BY DEF WellFormed
<1>2. ASSUME x.co \in Checkouts, PaidFor(x.pay, x.co)
      PROVE  PaidFor(x.pay, x.co)'
  BY <1>2, PaidForKept
<1>3. ASSUME x.co \in Checkouts, x.pay # None, session[x.co].payment = x.pay
      PROVE  session'[x.co].payment = x.pay
  BY <1>3, FieldsMoveStep DEF FieldsMove
<1>4. ASSUME x.pc \in {"created", "link"}, shop[x.order].co = x.co
      PROVE  shop'[x.order].co = x.co
  BY <1>1, <1>4, OrdersMove, NullAssumption DEF OrderMoves, WellFormed
<1>5. (x.pc \in {"observeRead", "observeWrite", "markPaid"}
         /\ x.kind = "CAPTURED" => PaidFor(x.pay, x.co))'
  BY <1>1, <1>2 DEF Carries
<1>6. (x.pc \in OrderSteps /\ x.pay # None => session[x.co].payment = x.pay)'
  BY <1>1, <1>3 DEF Carries, OrderSteps
<1>7. (x.pc \in {"created", "link"} => shop[x.order].co = x.co)'
  BY <1>4 DEF Carries
<1> QED BY <1>5, <1>6, <1>7 DEF Carries

\* When one call takes a new record, only that record has to be looked at.
LEMMA BecomeCarries ==
    ASSUME Inv, [Next]_vars, NEW k \in Calls, NEW y, Become(k, y), Carries(y)'
    PROVE  CallsCarryPayment'
<1>1. ASSUME NEW j \in Calls, NEW x, x = call'[j] PROVE Carries(x)'
  <2>1. call \in [Calls -> CallState]
    BY DEF Inv, IInv, TypeOK
  <2>2. CASE j = k
    BY <1>1, <2>1, <2>2 DEF Become
  <2>3. CASE j # k
    <3>1. x = call[j] /\ x \in CallState
      BY <1>1, <2>1, <2>3 DEF Become
    <3>2. WellFormed(x) /\ Carries(x)
      BY <3>1 DEF Inv, IInv, WellFormedCalls, Provenance, CallsCarryPayment
    <3> QED BY <3>1, <3>2, CarriesKept
  <2> QED BY <2>2, <2>3
<1> QED BY <1>1 DEF CallsCarryPayment, Carries, PaidFor, WasCaptured

LEMMA FinishCarries ==
    ASSUME Inv, [Next]_vars, NEW k \in Calls, Finish(k)
    PROVE  CallsCarryPayment'
<1>1. Carries(Idle)'
  BY DEF Carries, Idle, OrderSteps
<1> QED BY <1>1, BecomeCarries DEF Finish

\* Moving on inside an attempt, or to an await that carries no payment.
LEMMA GotoCarries ==
    ASSUME Inv, [Next]_vars, NEW k \in Calls, NEW pc \in PCs, Goto(k, pc),
           pc \in OrderSteps => call[k].pc \in OrderSteps,
           pc \in {"creating", "created"} => call[k].pay # None,
           pc \in {"created", "link"} => call[k].pc = "created",
           pc \in {"observeWrite", "markPaid"} =>
               call[k].pc \in {"observeRead", "observeWrite"},
           pc = "markPaid" => call[k].kind = "CAPTURED",
           pc # "observeRead"
    PROVE  CallsCarryPayment'
<1> DEFINE x == call[k]
<1>1. x \in CallState /\ WellFormed(x) /\ Carries(x)
  BY DEF Inv, IInv, TypeOK, WellFormedCalls, Provenance, CallsCarryPayment
<1> HIDE DEF x
<1>2. ASSUME NEW z \in CallState, WellFormed(z), Carries(z), z = x
      PROVE  Carries([z EXCEPT !.pc = pc])'
  <2>1. Carries(z)'
    BY <1>2, CarriesKept
  <2> QED BY <1>2, <2>1 DEF Carries, CallState, OrderSteps, x
<1>3. \E z : z = x /\ Carries([z EXCEPT !.pc = pc])' /\ Become(k, [z EXCEPT !.pc = pc])
  BY <1>1, <1>2 DEF Goto, x
<1> QED BY <1>3, BecomeCarries

LEMMA GiveShopOrderCarries ==
    ASSUME Inv, [Next]_vars, NEW k \in Calls, NEW n \in ShopOrders \cup {None},
           NEW pc \in OrderSteps \ {"creating"}, call[k].pc \in OrderSteps,
           pc = "created" => call[k].pay # None,
           pc \in {"created", "link"} => shop'[n].co = call[k].co,
           Become(k, [call[k] EXCEPT !.pc = pc, !.order = n])
    PROVE  CallsCarryPayment'
<1> DEFINE x == call[k]
<1>1. x \in CallState /\ WellFormed(x) /\ Carries(x)
  BY DEF Inv, IInv, TypeOK, WellFormedCalls, Provenance, CallsCarryPayment
<1> HIDE DEF x
<1>2. ASSUME NEW z \in CallState, WellFormed(z), Carries(z), z = x
      PROVE  Carries([z EXCEPT !.pc = pc, !.order = n])'
  <2>1. Carries(z)'
    BY <1>2, CarriesKept
  <2> QED BY <1>2, <2>1 DEF Carries, CallState, OrderSteps, x
<1>3. \E z : /\ Carries([z EXCEPT !.pc = pc, !.order = n])'
             /\ Become(k, [z EXCEPT !.pc = pc, !.order = n])
  BY <1>1, <1>2 DEF x
<1> QED BY <1>3, BecomeCarries

LEMMA GiveRzpOrderCarries ==
    ASSUME Inv, [Next]_vars, NEW k \in Calls, NEW o \in RzpOrders,
           Become(k, [call[k] EXCEPT !.pc = "attach", !.rzp = o])
    PROVE  CallsCarryPayment'
<1> DEFINE x == call[k]
<1>1. x \in CallState
  BY DEF Inv, IInv, TypeOK
<1> HIDE DEF x
<1>2. ASSUME NEW z \in CallState
      PROVE  Carries([z EXCEPT !.pc = "attach", !.rzp = o])'
  BY DEF Carries, CallState, OrderSteps
<1>3. \E z : /\ Carries([z EXCEPT !.pc = "attach", !.rzp = o])'
             /\ Become(k, [z EXCEPT !.pc = "attach", !.rzp = o])
  BY <1>1, <1>2 DEF x
<1> QED BY <1>3, BecomeCarries

LEMMA ClaimCarries ==
    ASSUME Inv, [Next]_vars, NEW k \in Calls, NEW c \in Checkouts, Claim(k, c)
    PROVE  CallsCarryPayment'
<1> DEFINE p == session[c].payment
           y == [Idle EXCEPT !.pc = "find", !.co = c, !.pay = p]
<1>1. p # None => session'[c].payment = p
  BY FieldsMoveStep DEF FieldsMove
<1>2. Become(k, y)
  BY DEF Claim
<1>3. ASSUME NEW q, q = p
      PROVE  Carries([Idle EXCEPT !.pc = "find", !.co = c, !.pay = q])'
  BY <1>1, <1>3 DEF Carries, Idle, OrderSteps
<1>4. \E q : /\ Carries([Idle EXCEPT !.pc = "find", !.co = c, !.pay = q])'
             /\ Become(k, [Idle EXCEPT !.pc = "find", !.co = c, !.pay = q])
  BY <1>2, <1>3
<1> QED BY <1>4, BecomeCarries

LEMMA AfterObserveCarries ==
    ASSUME Inv, [Next]_vars, NEW k \in Calls, AfterObserve(k),
           call[k].pc \in {"observeRead", "observeWrite"}
    PROVE  CallsCarryPayment'
BY GotoCarries, FinishCarries DEF AfterObserve, PCs, OrderSteps

\* Every step of a call hands on only what the call carried.
LEMMA StepCarries ==
    ASSUME Inv, [Next]_vars, NEW k \in Calls, Step(k) PROVE CallsCarryPayment'
<1>0. /\ call[k] \in CallState /\ WellFormed(call[k]) /\ Carries(call[k])
      /\ OrderSteps \subseteq PCs
  BY DEF Inv, IInv, TypeOK, WellFormedCalls, Provenance, CallsCarryPayment, PCs
<1>1. CASE InsertSession(k)
  BY <1>1, GotoCarries, FinishCarries DEF InsertSession, PCs, OrderSteps
<1>2. CASE PostRazorpayOrder(k)
  BY <1>2, GotoCarries, GiveRzpOrderCarries
     DEF PostRazorpayOrder, PCs, OrderSteps
<1>3. CASE RecoverByReceipt(k)
  BY <1>3, FinishCarries, GiveRzpOrderCarries
     DEF RecoverByReceipt, ReceiptOrders
<1>4. CASE AttachRazorpayOrder(k) \/ MarkRefunded(k) \/ ReleaseOrderForRetry(k)
  BY <1>4, FinishCarries
     DEF AttachRazorpayOrder, MarkRefunded, ReleaseOrderForRetry
<1>5. CASE FetchPayment(k)
  <2>1. CASE Finish(k)
    BY <2>1, FinishCarries
  <2>2. CASE ~Finish(k)
    <3> DEFINE x == call[k]
               status == pay[x.pay].status
    <3>1. /\ MatchesSnapshot(session[x.co], x.pay)
          /\ Become(k, [x EXCEPT !.pc = "observeRead", !.kind = status])
          /\ x.pay \in Payments /\ x.co \in Checkouts
      BY <1>0, <1>5, <2>2 DEF FetchPayment, WellFormed
    <3>2. status = "CAPTURED" => PaidFor(x.pay, x.co)
      BY <3>1 DEF PaidFor, WasCaptured, MatchesSnapshot, Inv, Provenance,
                  DeliveriesMeanPayments
    <3>3. ASSUME NEW z, NEW st, z = x, st = status
          PROVE  Carries([z EXCEPT !.pc = "observeRead", !.kind = st])'
      <4>1. st = "CAPTURED" => PaidFor(z.pay, z.co)'
        BY <3>1, <3>2, <3>3, PaidForKept
      <4>2. z \in CallState
        BY <1>0, <3>3
      <4> QED BY <4>1, <4>2 DEF Carries, CallState, OrderSteps
    <3>4. \E z, st :
             /\ Carries([z EXCEPT !.pc = "observeRead", !.kind = st])'
             /\ Become(k, [z EXCEPT !.pc = "observeRead", !.kind = st])
      BY <3>1, <3>3
    <3> QED BY <3>4, BecomeCarries
  <2> QED BY <2>1, <2>2
<1>6. CASE ObserveRead(k)
  BY <1>6, AfterObserveCarries, GotoCarries DEF ObserveRead, PCs, OrderSteps
<1>7. CASE ObserveWrite(k)
  BY <1>7, AfterObserveCarries DEF ObserveWrite
<1>8. CASE MarkPaid(k)
  BY <1>8, GotoCarries, FinishCarries DEF MarkPaid, PCs, OrderSteps
<1>9. CASE ClaimOne(k)
  BY <1>0, <1>9, ClaimCarries, FinishCarries DEF ClaimOne, WellFormed
<1>10. CASE FindExisting(k)
  <2>1. UNCHANGED shop
    BY <1>10 DEF FindExisting, shopify
  <2> QED BY <1>0, <1>10, <2>1, GotoCarries, GiveShopOrderCarries
          DEF FindExisting, Visible, ShopOrdersOf, OrderSteps
<1>11. CASE SendOrderCreate(k)
  BY <1>0, <1>11, GotoCarries DEF SendOrderCreate, OrderSteps
<1>12. CASE ShopifyCommits(k)
  <2>1. PICK n \in ShopOrders :
           /\ NewShopOrder(n, call[k].co, call[k].pay)
           /\ Become(k, [call[k] EXCEPT !.pc = "created", !.order = n])
    BY <1>12 DEF ShopifyCommits
  <2>2. shop'[n].co = call[k].co /\ call[k].pay # None
    BY <1>0, <1>12, <2>1
       DEF ShopifyCommits, NewShopOrder, Inv, IInv, TypeOK, Carries
  <2> QED BY <1>12, <2>1, <2>2, GiveShopOrderCarries
          DEF ShopifyCommits, OrderSteps
<1>13. CASE OrderCreateAnswered(k)
  BY <1>0, <1>13, GotoCarries DEF OrderCreateAnswered, OrderSteps
<1>14. CASE OrderCreateFails(k) \/ OrderCreateTimesOut(k)
  BY <1>14, GiveShopOrderCarries
     DEF OrderCreateFails, OrderCreateTimesOut, OrderSteps
<1>15. CASE RecoverOrder(k)
  <2>1. UNCHANGED shop
    BY <1>15 DEF RecoverOrder, shopify
  <2> QED BY <1>0, <1>15, <2>1, GotoCarries, GiveShopOrderCarries
          DEF RecoverOrder, Visible, ShopOrdersOf, OrderSteps
<1>16. CASE MarkOrderCreated(k)
  BY <1>0, <1>16, GotoCarries, FinishCarries DEF MarkOrderCreated, OrderSteps
<1>17. CASE CallFails(k)
  BY <1>17, GiveShopOrderCarries, FinishCarries DEF CallFails, OrderSteps
<1> QED
  BY <1>1, <1>2, <1>3, <1>4, <1>5, <1>6, <1>7, <1>8, <1>9, <1>10, <1>11,
     <1>12, <1>13, <1>14, <1>15, <1>16, <1>17 DEF Step

\* A request that starts a call gives it only what the documents and the
\* delivery vouch for.
LEMMA RequestCarries ==
    ASSUME Inv, [Next]_vars, Request PROVE CallsCarryPayment'
<1>1. ASSUME NEW k \in Creators, NEW c \in Checkouts, CreateCheckout(k, c)
      PROVE  CallsCarryPayment'
  <2> DEFINE x == [Idle EXCEPT !.co = c,
                     !.pc = IF session[c].status = "ABSENT"
                            THEN "insert" ELSE "rzpPost"]
  <2>1. x.pc \in {"insert", "rzpPost"} /\ k \in Calls /\ Become(k, x)
    BY <1>1 DEF CreateCheckout, Calls, Idle
  <2> HIDE DEF x
  <2>2. \E z : z.pc \in {"insert", "rzpPost"} /\ Become(k, z)
    BY <2>1
  <2>3. ASSUME NEW z, z.pc \in {"insert", "rzpPost"} PROVE Carries(z)'
    BY <2>3 DEF Carries, OrderSteps
  <2> QED BY <2>1, <2>2, <2>3, BecomeCarries
<1>2. ASSUME NEW k \in Browsers, NEW c \in Checkouts, NEW p \in Payments,
             Verify(k, c, p)
      PROVE  CallsCarryPayment'
  <2>1. Carries([Idle EXCEPT !.pc = "fetch", !.co = c, !.pay = p])'
    BY DEF Carries, Idle, OrderSteps
  <2> QED BY <1>2, <2>1, BecomeCarries DEF Verify, Calls
<1>3. ASSUME NEW kind \in PaymentKinds, NEW p \in Payments,
             NEW c \in Checkouts, ProcessWebhook(kind, p, c)
      PROVE  CallsCarryPayment'
  <2>1. kind = "CAPTURED" => PaidFor(p, c)
    BY <1>3 DEF ProcessWebhook, MatchesSnapshot, PaidFor, WasCaptured, Inv,
                Provenance, DeliveriesMeanPayments
  <2>2. ASSUME NEW b
        PROVE  Carries([Idle EXCEPT !.pc = "observeRead", !.co = c, !.pay = p,
                                    !.kind = kind, !.same = b])'
    BY <2>1, PaidForKept DEF Carries, Idle, OrderSteps
  <2>3. \E b : Become("webhook",
                 [Idle EXCEPT !.pc = "observeRead", !.co = c, !.pay = p,
                              !.kind = kind, !.same = b])
    BY <1>3 DEF ProcessWebhook
  <2> QED BY <2>2, <2>3, BecomeCarries DEF Calls
<1>4. ASSUME NEW c \in Checkouts, ClaimNext(c) PROVE CallsCarryPayment'
  BY <1>4, ClaimCarries DEF ClaimNext, Calls
<1> QED BY <1>1, <1>2, <1>3, <1>4 DEF Request

LEMMA CallsStep == ASSUME Inv, [Next]_vars PROVE CallsCarryPayment'
<1>1. CASE UNCHANGED call
  <2>1. ASSUME NEW j \in Calls, NEW x, x = call'[j] PROVE Carries(x)'
    <3>1. x = call[j] /\ x \in CallState /\ WellFormed(x) /\ Carries(x)
      BY <1>1, <2>1 DEF Inv, IInv, TypeOK, WellFormedCalls, Provenance,
                        CallsCarryPayment
    <3> QED BY <3>1, CarriesKept
  <2> QED BY <2>1 DEF CallsCarryPayment, Carries, PaidFor, WasCaptured
<1>2. CASE Crash
  <2>1. Carries(Idle)'
    BY DEF Carries, Idle, OrderSteps
  <2>2. ASSUME NEW j \in Calls, NEW x, x = call'[j] PROVE Carries(x)'
    BY <1>2, <2>1, <2>2 DEF Crash
  <2> QED BY <2>2 DEF CallsCarryPayment, Carries, PaidFor, WasCaptured
<1>3. CASE Razorpay \/ Shopify \/ Time \/ UNCHANGED vars
  <2>1. UNCHANGED call
    BY <1>3 DEF Razorpay, StartPayment, AuthorizeLate, CapturePayment,
         RefundPayment, PaymentMoves, Shopify, AbandonedCommits, IndexOrder,
         Time, RetryComesDue, LeaseExpires, vars
  <2> QED BY <1>1, <2>1
<1> QED BY <1>2, <1>3, StepCarries, RequestCarries DEF Next

-----------------------------------------------------------------------------
LEMMA InitInv == Init => Inv
<1> SUFFICES ASSUME Init PROVE Inv
  OBVIOUS
<1>1. IInv
  BY InitTypes
<1>2. AbsentIsEmpty /\ RecordedMeansPaid /\ LinkedToOwnOrder
  BY DEF Init, AbsentIsEmpty, RecordedMeansPaid, LinkedToOwnOrder, NoSession
<1>3. DeliveriesMeanPayments
  BY DEF Init, DeliveriesMeanPayments, NoPayment
<1>4. CallsCarryPayment
  BY DEF Init, CallsCarryPayment, Carries, Idle, OrderSteps
<1>5. OrdersCarryPayment
  BY DEF Init, OrdersCarryPayment, NoShopOrder
<1> QED BY <1>1, <1>2, <1>3, <1>4, <1>5 DEF Inv, Provenance

LEMMA NextInv == Inv /\ [Next]_vars => Inv'
<1> SUFFICES ASSUME Inv, [Next]_vars PROVE Inv'
  OBVIOUS
<1>1. IInv'
  BY NextKeepsTypes DEF Inv
<1> QED BY <1>1, AbsentStep, DeliveriesStep, RecordedStep, CallsStep,
           OrdersStep, LinkedStep DEF Inv, Provenance

LEMMA AlwaysInv == Spec => []Inv
BY InitInv, NextInv, PTL DEF Spec

\* In every reachable state, with any number of checkouts, requests, crashes
\* and lost answers and whatever the delays, each identifier that a call, a
\* request in the network, a document or a Shopify order carries belongs to
\* one payment captured in full for that very checkout.
THEOREM ProvenanceHolds == Spec => []Provenance
<1>1. Inv => Provenance
  BY DEF Inv
<1> QED BY <1>1, AlwaysInv, PTL

\* No Shopify order without a payment that Razorpay captured in full on the
\* checkout's own Razorpay order, for every value of the constants.
THEOREM NoOrderUnpaid == Spec => []OrderedMeansCaptured
<1>1. ASSUME Inv PROVE OrderedMeansCaptured
  <2>1. ASSUME NEW n \in ShopOrders, shop[n].co # None
        PROVE  /\ shop[n].co \in Checkouts
               /\ shop[n].pay # None
               /\ session[shop[n].co].payment = shop[n].pay
               /\ PaidFor(shop[n].pay, shop[n].co)
    BY <1>1, <2>1 DEF Inv, IInv, TypeOK, Provenance, OrdersCarryPayment,
                      RecordedMeansPaid
  <2> QED BY <2>1 DEF OrderedMeansCaptured, PaidFor, WasCaptured
<1> QED BY <1>1, AlwaysInv, PTL

\* A link to a Shopify order is always to an order created for that checkout,
\* and a completed checkout has one, for every value of the constants.
THEOREM LinksAreSound == Spec => []LinkedToOwnOrder
<1>1. Inv => LinkedToOwnOrder
  BY DEF Inv, Provenance
<1> QED BY <1>1, AlwaysInv, PTL

\* No step of any actor replaces or clears the Razorpay order, the payment or
\* the Shopify order of a checkout, for every value of the constants.
THEOREM IdentifiersStay == Spec => IdentifiersWrittenOnce
<1> DEFINE Once ==
      \A c \in Checkouts :
          /\ session[c].rzpOrder # None =>
                session'[c].rzpOrder = session[c].rzpOrder
          /\ session[c].payment # None =>
                session'[c].payment = session[c].payment
          /\ session[c].shopOrder # None =>
                session'[c].shopOrder = session[c].shopOrder
<1>1. Inv /\ [Next]_vars => [Once]_vars
  BY FieldsMoveStep DEF FieldsMove
<1>2. Spec => [][Once]_vars
  BY <1>1, AlwaysInv, PTL DEF Spec
<1> QED BY <1>2 DEF IdentifiersWrittenOnce

-----------------------------------------------------------------------------
(* What the customer's page rests on: paidAt, which nothing clears.        *)

PaidFlag ==
    \A c \in Checkouts :
        /\ session[c].payment # None => session[c].paid = TRUE
        /\ session[c].status \notin {"ABSENT", "CREATED", "PAYMENT_PENDING"} =>
              session[c].paid = TRUE

LEMMA PaidFlagStep ==
    ASSUME Inv, PaidFlag, [Next]_vars, NEW c \in Checkouts
    PROVE  LET t == session'[c] IN
           /\ session[c].paid = TRUE => t.paid = TRUE
           /\ t.payment # None => t.paid = TRUE
           /\ t.status \notin {"ABSENT", "CREATED", "PAYMENT_PENDING"} =>
                 t.paid = TRUE
<1> DEFINE s == session[c]
           t == session'[c]
           Goal == /\ s.paid = TRUE => t.paid = TRUE
                   /\ t.payment # None => t.paid = TRUE
                   /\ t.status \notin {"ABSENT", "CREATED", "PAYMENT_PENDING"}
                         => t.paid = TRUE
<1>0. /\ DocumentMoves(c) /\ s \in Session
      /\ s.payment # None => s.paid = TRUE
      /\ s.status \notin {"ABSENT", "CREATED", "PAYMENT_PENDING"} =>
            s.paid = TRUE
  BY DocumentsMove DEF Inv, IInv, TypeOK, PaidFlag
<1>a. s.status = "ABSENT" => s = NoSession
  BY DEF Inv, Provenance, AbsentIsEmpty
<1>b. ASSUME NEW p \in Payments, CanMarkRefunded(s, p) PROVE s.paid = TRUE
  BY <1>0, <1>b, NoneAssumption DEF CanMarkRefunded
<1> HIDE DEF s, t
<1>c. ASSUME t.paid = s.paid, t.payment = s.payment,
             \/ t.status = s.status
             \/ t.status \in {"CREATED", "PAYMENT_PENDING"}
             \/ s.paid = TRUE
      PROVE  Goal
  BY <1>0, <1>c
<1>1. ASSUME t = s PROVE Goal
  BY <1>1, <1>c
<1>2. ASSUME s.status = "ABSENT", t = Inserted(s) PROVE Goal
  <2>1. /\ t.paid = s.paid /\ t.payment = s.payment
        /\ t.status = "CREATED"
    BY <1>a, <1>2 DEF Inserted, NoSession
  <2> QED BY <2>1, <1>c
<1>3. ASSUME NEW o \in RzpOrders, t = RazorpayOrderAttached(s, o) PROVE Goal
  <2>1. /\ t.paid = s.paid /\ t.payment = s.payment
        /\ t.status = "PAYMENT_PENDING"
    BY <1>0, <1>3 DEF RazorpayOrderAttached, Session
  <2> QED BY <2>1, <1>c
<1>4. ASSUME NEW p \in Payments, t = MarkedPaid(s, p) PROVE Goal
  BY <1>0, <1>4 DEF MarkedPaid, Session
<1>5. ASSUME NEW p \in Payments, CanMarkRefunded(s, p), t = MarkedRefunded(s)
      PROVE  Goal
  <2>1. t.paid = s.paid /\ t.payment = s.payment
    BY <1>0, <1>5 DEF MarkedRefunded, Session
  <2> QED BY <2>1, <1>5, <1>b, <1>c
<1>6. ASSUME CanClaimOrder(s), t = OrderClaimed(s) PROVE Goal
  <2>1. t.paid = s.paid /\ t.payment = s.payment
    BY <1>0, <1>6 DEF OrderClaimed, Session
  <2>2. s.status \in {"PAYMENT_PAID", "ORDER_PENDING", "ORDER_CREATING"}
    BY <1>6 DEF CanClaimOrder
  <2> QED BY <2>1, <2>2, <1>0, <1>c
<1>7. ASSUME NEW n \in ShopOrders, CanMarkOrderCreated(s, n),
             t = OrderMarkedCreated(s, n)
      PROVE  Goal
  <2>1. t.paid = s.paid /\ t.payment = s.payment
    BY <1>0, <1>7 DEF OrderMarkedCreated, Session
  <2>2. s.status \in {"ORDER_CREATED", "ORDER_PENDING", "ORDER_CREATING"}
    BY <1>7 DEF CanMarkOrderCreated
  <2> QED BY <2>1, <2>2, <1>0, <1>c
<1>8. ASSUME s.status = "ORDER_CREATING", t = OrderReleased(s) PROVE Goal
  <2>1. t.paid = s.paid /\ t.payment = s.payment
    BY <1>0, <1>8 DEF OrderReleased, Session
  <2> QED BY <2>1, <1>0, <1>8, <1>c
<1>9. ASSUME \/ t = [s EXCEPT !.next = "due"]
             \/ t = [s EXCEPT !.lease = "expired"]
      PROVE  Goal
  <2>1. t.paid = s.paid /\ t.payment = s.payment /\ t.status = s.status
    BY <1>0, <1>9 DEF Session
  <2> QED BY <2>1, <1>c
<1>10. Goal
  BY <1>0, <1>1, <1>2, <1>3, <1>4, <1>5, <1>6, <1>7, <1>8, <1>9
     DEF DocumentMoves, s, t
<1> QED BY <1>10 DEF s, t

\* A customer who has been told that the payment arrived is never asked to pay
\* again, for every value of the constants: not by a retry, not by a late
\* request, not by a refund.
THEOREM NeverAskedTwice == Spec => PageNeverAsksTwice
<1> DEFINE Stays ==
      \A c \in Checkouts :
          PublicStatus(session[c]) # "PAYMENT_PENDING" =>
              PublicStatus(session'[c]) # "PAYMENT_PENDING"
<1>1. Init => PaidFlag
  BY DEF Init, PaidFlag, NoSession
<1>2. Inv /\ PaidFlag /\ [Next]_vars => PaidFlag'
  BY PaidFlagStep DEF PaidFlag
<1>3. Inv /\ PaidFlag /\ [Next]_vars => [Stays]_vars
  BY PaidFlagStep DEF PaidFlag, PublicStatus
<1>4. Spec => [][Stays]_vars
  BY <1>1, <1>2, <1>3, AlwaysInv, PTL DEF Spec
<1> QED BY <1>4 DEF PageNeverAsksTwice

-----------------------------------------------------------------------------
(* Why a paid checkout is not stranded: the payment order is attached once *)
(* and before the payment, unless two requests of one Idempotency-Key meet *)

EarlySteps == {"insert", "rzpPost", "rzpRecover", "attach"}
ObserveSteps == {"fetch", "observeRead", "observeWrite", "markPaid",
                 "markRefunded"}

\* The storefront does not send a checkout request while another one of the
\* same Idempotency-Key is under way.
OneRequestPerKey ==
    \A c \in Checkouts : \A j, k \in Creators :
        call[j].co = c /\ call[k].co = c => j = k

\* Requests that are to attach a Razorpay order find none there.
AttachedOnce ==
    \A k \in Calls : call[k].pc \in EarlySteps =>
        k \in Creators /\ session[call[k].co].rzpOrder = None

Observes(k) == FetchPayment(k) \/ ObserveRead(k) \/ ObserveWrite(k)

\* A step of a call leads to an early await only from another one, for the
\* same checkout, and on to an observation only from one.
LEMMA StepMoves ==
    ASSUME Inv, NEW k \in Calls, Step(k)
    PROVE  /\ \A j \in Calls : j # k => call'[j] = call[j]
           /\ call'[k].pc \in EarlySteps =>
                 call[k].pc \in EarlySteps /\ call'[k].co = call[k].co
           /\ call'[k].pc \in ObserveSteps => Observes(k)
<1> DEFINE Keeps(x) ==
               /\ x.pc \in EarlySteps =>
                     call[k].pc \in EarlySteps /\ x.co = call[k].co
               /\ x.pc \in ObserveSteps => Observes(k)
           Moves == \E x : Become(k, x) /\ Keeps(x)
<1>0. call \in [Calls -> CallState] /\ call[k] \in CallState
  BY DEF Inv, IInv, TypeOK
<1>1. ASSUME NEW pc, Goto(k, pc),
             pc \in EarlySteps => call[k].pc \in EarlySteps,
             pc \in ObserveSteps => Observes(k)
      PROVE  Moves
  <2> DEFINE x == [call[k] EXCEPT !.pc = pc]
  <2>1. x.pc = pc /\ x.co = call[k].co
    BY <1>0 DEF CallState
  <2>2. Become(k, x)
    BY <1>1 DEF Goto
  <2> HIDE DEF x
  <2> QED BY <1>1, <2>1, <2>2
<1>2. Finish(k) => Moves
  <2>1. Idle.pc \notin EarlySteps \cup ObserveSteps
    BY DEF Idle, EarlySteps, ObserveSteps
  <2> QED BY <2>1 DEF Finish
<1>3. ASSUME NEW o, call[k].pc \in EarlySteps,
             Become(k, [call[k] EXCEPT !.pc = "attach", !.rzp = o])
      PROVE  Moves
  <2> DEFINE x == [call[k] EXCEPT !.pc = "attach", !.rzp = o]
  <2>1. x.co = call[k].co /\ x.pc \notin ObserveSteps
    BY <1>0 DEF CallState, ObserveSteps
  <2>2. Become(k, x)
    BY <1>3
  <2> HIDE DEF x
  <2> QED BY <1>3, <2>1, <2>2
<1>4. ASSUME NEW n, NEW pc, pc \notin EarlySteps \cup ObserveSteps,
             Become(k, [call[k] EXCEPT !.pc = pc, !.order = n])
      PROVE  Moves
  <2> DEFINE x == [call[k] EXCEPT !.pc = pc, !.order = n]
  <2>1. x.pc = pc
    BY <1>0 DEF CallState
  <2>2. Become(k, x)
    BY <1>4
  <2> HIDE DEF x
  <2> QED BY <1>4, <2>1, <2>2
<1>5. AfterObserve(k) /\ Observes(k) => Moves
  BY <1>1, <1>2 DEF AfterObserve, EarlySteps
<1>6. ASSUME NEW c, Claim(k, c) PROVE Moves
  <2> DEFINE x == [Idle EXCEPT !.pc = "find", !.co = c, !.pay = session[c].payment]
  <2>1. x.pc = "find"
    BY DEF Idle
  <2>2. Become(k, x)
    BY <1>6 DEF Claim
  <2> HIDE DEF x
  <2> QED BY <2>1, <2>2 DEF EarlySteps, ObserveSteps
<1>7. ASSUME FetchPayment(k) PROVE Moves
  <2> DEFINE x == [call[k] EXCEPT !.pc = "observeRead",
                                  !.kind = pay[call[k].pay].status]
  <2>1. x.pc = "observeRead"
    BY <1>0 DEF CallState
  <2>2. Finish(k) \/ Become(k, x)
    BY <1>7, Zenon DEF FetchPayment
  <2> HIDE DEF x
  <2> QED BY <1>2, <1>7, <2>1, <2>2 DEF EarlySteps, Observes
<1> HIDE DEF Moves
<1>8. Moves
  <2>1. CASE InsertSession(k)
    BY <1>1, <1>2, <2>1 DEF InsertSession, EarlySteps, ObserveSteps
  <2>2. CASE PostRazorpayOrder(k)
    <3>1. call[k].pc \in EarlySteps
      BY <2>2, Zenon DEF PostRazorpayOrder, EarlySteps
    <3>2. "rzpRecover" \notin ObserveSteps
      BY DEF ObserveSteps
    <3> QED BY <1>1, <1>3, <2>2, <3>1, <3>2, Zenon DEF PostRazorpayOrder
  <2>3. CASE RecoverByReceipt(k)
    <3>1. call[k].pc \in EarlySteps
      BY <2>3, Zenon DEF RecoverByReceipt, EarlySteps
    <3> QED BY <1>2, <1>3, <2>3, <3>1, Zenon DEF RecoverByReceipt
  <2>4. CASE AttachRazorpayOrder(k) \/ MarkRefunded(k) \/ ReleaseOrderForRetry(k)
    BY <1>2, <2>4 DEF AttachRazorpayOrder, MarkRefunded, ReleaseOrderForRetry
  <2>5. CASE ObserveRead(k)
    BY <1>1, <1>5, <2>5 DEF ObserveRead, EarlySteps, Observes
  <2>6. CASE ObserveWrite(k)
    BY <1>5, <2>6 DEF ObserveWrite, Observes
  <2>7. CASE MarkPaid(k)
    BY <1>1, <1>2, <2>7 DEF MarkPaid, EarlySteps, ObserveSteps
  <2>8. CASE ClaimOne(k)
    BY <1>2, <1>6, <2>8 DEF ClaimOne
  <2>9. CASE FindExisting(k) \/ RecoverOrder(k)
    <3>1. \/ \E pc \in {"create", "release"} : Goto(k, pc)
          \/ \E n : Become(k, [call[k] EXCEPT !.pc = "link", !.order = n])
      BY <2>9, Zenon DEF FindExisting, RecoverOrder
    <3>2. \A pc \in {"create", "release", "link"} :
             pc \notin EarlySteps \cup ObserveSteps
      BY DEF EarlySteps, ObserveSteps
    <3>3. CASE \E pc \in {"create", "release"} : Goto(k, pc)
      BY <1>1, <3>2, <3>3
    <3>4. CASE \E n : Become(k, [call[k] EXCEPT !.pc = "link", !.order = n])
      BY <1>4, <3>2, <3>4
    <3> QED BY <3>1, <3>3, <3>4, Zenon
  <2>10. CASE SendOrderCreate(k) \/ OrderCreateAnswered(k)
    BY <1>1, <2>10 DEF SendOrderCreate, OrderCreateAnswered, EarlySteps,
                                ObserveSteps
  <2>11. CASE ShopifyCommits(k)
    <3>1. PICK n \in ShopOrders :
            Become(k, [call[k] EXCEPT !.pc = "created", !.order = n])
      BY <2>11, Zenon DEF ShopifyCommits
    <3>2. "created" \notin EarlySteps \cup ObserveSteps
      BY DEF EarlySteps, ObserveSteps
    <3> QED BY <1>4, <3>1, <3>2
  <2>12. CASE OrderCreateFails(k) \/ OrderCreateTimesOut(k)
    <3>1. \E pc \in {"release", "recover"} :
            Become(k, [call[k] EXCEPT !.pc = pc, !.order = None])
      BY <2>12, Zenon DEF OrderCreateFails, OrderCreateTimesOut
    <3>2. \A pc \in {"release", "recover"} :
             pc \notin EarlySteps \cup ObserveSteps
      BY DEF EarlySteps, ObserveSteps
    <3> QED BY <1>4, <3>1, <3>2
  <2>13. CASE MarkOrderCreated(k)
    BY <1>1, <1>2, <2>13 DEF MarkOrderCreated, EarlySteps,
                                ObserveSteps
  <2>14. CASE CallFails(k)
    <3>1. \/ Become(k, [call[k] EXCEPT !.pc = "release", !.order = None])
          \/ Finish(k)
      BY <2>14, Zenon DEF CallFails
    <3>2. "release" \notin EarlySteps \cup ObserveSteps
      BY DEF EarlySteps, ObserveSteps
    <3> QED BY <1>2, <1>4, <3>1, <3>2
  <2> QED BY <1>7, <2>1, <2>2, <2>3, <2>4, <2>5, <2>6, <2>7, <2>8, <2>9, <2>10,
             <2>11, <2>12, <2>13, <2>14 DEF Step
<1>9. PICK x : Become(k, x) /\ Keeps(x)
  BY <1>8 DEF Moves
<1>10. call'[k] = x /\ \A j \in Calls : j # k => call'[j] = call[j]
  BY <1>0, <1>9 DEF Become
<1> QED BY <1>9, <1>10

\* What a request that arrives makes of a call.
Arrives(j) ==
    \/ call'[j] = call[j]
    \/ /\ j \in Creators
       /\ call'[j].pc \in {"insert", "rzpPost"}
       /\ session[call'[j].co].rzpOrder = None
       /\ UNCHANGED session
    \/ j \in Browsers /\ call'[j].pc = "fetch"
    \/ j = "webhook" /\ call'[j].pc = "observeRead"
    \/ call'[j].pc = "find"

LEMMA RequestMoves ==
    ASSUME Inv, Request, NEW j \in Calls PROVE Arrives(j)
<1>0. call \in [Calls -> CallState]
  BY DEF Inv, IInv, TypeOK
<1>1. ASSUME NEW k \in Creators, NEW c \in Checkouts, CreateCheckout(k, c)
      PROVE  Arrives(j)
  <2> DEFINE x == [Idle EXCEPT !.co = c,
                               !.pc = IF session[c].status = "ABSENT"
                                      THEN "insert" ELSE "rzpPost"]
  <2>1. x.co = c /\ x.pc \in {"insert", "rzpPost"}
    BY DEF Idle
  <2>2. call' = [call EXCEPT ![k] = x] /\ UNCHANGED session
        /\ session[c].rzpOrder = None
    BY <1>1, Zenon DEF CreateCheckout, db, Become
  <2> HIDE DEF x
  <2> QED BY <1>0, <2>1, <2>2 DEF Arrives
<1>2. ASSUME NEW k \in Calls, NEW x, Become(k, x)
      PROVE  call'[j] = call[j] \/ (j = k /\ call'[j] = x)
  <2>1. call' = [call EXCEPT ![k] = x]
    BY <1>2 DEF Become
  <2> QED BY <1>0, <2>1
<1>3. ASSUME NEW k \in Browsers, NEW c \in Checkouts, NEW p \in Payments,
             Verify(k, c, p)
      PROVE  Arrives(j)
  <2> DEFINE x == [Idle EXCEPT !.pc = "fetch", !.co = c, !.pay = p]
  <2>1. x.pc = "fetch"
    BY DEF Idle
  <2>2. Become(k, x) /\ k \in Calls
    BY <1>3, Zenon DEF Verify, Calls
  <2> HIDE DEF x
  <2> QED BY <1>2, <2>1, <2>2 DEF Arrives
<1>4. ASSUME NEW kind \in PaymentKinds, NEW p \in Payments,
             NEW c \in Checkouts, ProcessWebhook(kind, p, c)
      PROVE  Arrives(j)
  <2> DEFINE x == [Idle EXCEPT !.pc = "observeRead", !.co = c, !.pay = p,
                               !.kind = kind,
                               !.same = (session[c].payment = p)]
  <2>1. x.pc = "observeRead"
    BY DEF Idle
  <2>2. Become("webhook", x)
    BY <1>4, Zenon DEF ProcessWebhook
  <2>3. "webhook" \in Calls
    BY DEF Calls
  <2> HIDE DEF x
  <2> QED BY <1>2, <2>1, <2>2, <2>3 DEF Arrives
<1>5. ASSUME NEW c \in Checkouts, ClaimNext(c) PROVE Arrives(j)
  <2> DEFINE x == [Idle EXCEPT !.pc = "find", !.co = c, !.pay = session[c].payment]
  <2>1. x.pc = "find"
    BY DEF Idle
  <2>2. Become("worker", x)
    BY <1>5 DEF ClaimNext, Claim
  <2>3. "worker" \in Calls
    BY DEF Calls
  <2> HIDE DEF x
  <2> QED BY <1>2, <2>1, <2>2, <2>3 DEF Arrives
<1> QED BY <1>1, <1>3, <1>4, <1>5 DEF Request

\* A document's Razorpay order changes by an attach only.
LEMMA RzpOrderMoves ==
    ASSUME Inv, [Next]_vars, NEW c \in Checkouts
    PROVE  \/ session'[c].rzpOrder = session[c].rzpOrder
           \/ \E k \in Calls : AttachRazorpayOrder(k) /\ call[k].co = c
<1> DEFINE s == session[c]
           t == session'[c]
<1>0. DocumentMoves(c) /\ s \in Session
  BY DocumentsMove DEF Inv, IInv, TypeOK
<1>1. s.status = "ABSENT" => s = NoSession
  BY DEF Inv, Provenance, AbsentIsEmpty
<1>2. \/ t = s
      \/ s.status = "ABSENT" /\ t = Inserted(s)
      \/ \E k \in Calls : AttachRazorpayOrder(k) /\ call[k].co = c
      \/ \E p \in Payments : t = MarkedPaid(s, p)
      \/ t = MarkedRefunded(s)
      \/ t = OrderClaimed(s)
      \/ \E n \in ShopOrders : t = OrderMarkedCreated(s, n)
      \/ t = OrderReleased(s)
      \/ t = [s EXCEPT !.next = "due"]
      \/ t = [s EXCEPT !.lease = "expired"]
  BY <1>0, Zenon DEF DocumentMoves
<1> HIDE DEF s, t
<1>3. \/ t.rzpOrder = s.rzpOrder
      \/ \E k \in Calls : AttachRazorpayOrder(k) /\ call[k].co = c
  <2>1. ASSUME s.status = "ABSENT", t = Inserted(s)
        PROVE  t.rzpOrder = s.rzpOrder
    BY <1>1, <2>1 DEF Inserted, NoSession
  <2>2. ASSUME \/ \E p \in Payments : t = MarkedPaid(s, p)
               \/ t = MarkedRefunded(s)
               \/ t = OrderClaimed(s)
               \/ \E n \in ShopOrders : t = OrderMarkedCreated(s, n)
               \/ t = OrderReleased(s)
               \/ t = [s EXCEPT !.next = "due"]
               \/ t = [s EXCEPT !.lease = "expired"]
        PROVE  t.rzpOrder = s.rzpOrder
    BY <1>0, <2>2 DEF Session, MarkedPaid, MarkedRefunded, OrderClaimed,
                      OrderMarkedCreated, OrderReleased
  <2> QED BY <1>2, <2>1, <2>2
<1> QED BY <1>3 DEF s, t

LEMMA AttachedOnceStep ==
    ASSUME Inv, AttachedOnce, OneRequestPerKey, [Next]_vars PROVE AttachedOnce'
<1> SUFFICES ASSUME NEW j \in Calls, call'[j].pc \in EarlySteps
             PROVE  j \in Creators /\ session'[call'[j].co].rzpOrder = None
  BY DEF AttachedOnce
<1>1. ASSUME call[j].pc \in EarlySteps, call'[j].co = call[j].co
      PROVE  j \in Creators /\ session'[call'[j].co].rzpOrder = None
  <2>1. PICK c \in Checkouts : c = call[j].co
    BY <1>1 DEF Inv, IInv, WellFormedCalls, WellFormed, EarlySteps
  <2>2. j \in Creators /\ session[c].rzpOrder = None
    BY <1>1, <2>1 DEF AttachedOnce
  <2>3. ASSUME NEW k \in Calls, AttachRazorpayOrder(k), call[k].co = c
        PROVE  FALSE
    <3>1. k \in Creators
      BY <2>3 DEF AttachedOnce, AttachRazorpayOrder, EarlySteps
    <3>2. k = j
      BY <2>1, <2>2, <2>3, <3>1 DEF OneRequestPerKey
    <3>3. call'[j] = Idle
      BY <2>3, <3>2 DEF AttachRazorpayOrder, Finish, Become, Inv, IInv, TypeOK
    <3> QED BY <3>3 DEF Idle, EarlySteps
  <2>4. session'[c].rzpOrder = session[c].rzpOrder
    BY <2>3, RzpOrderMoves
  <2> QED BY <1>1, <2>1, <2>2, <2>4
<1>2. ASSUME call'[j] = call[j]
      PROVE  j \in Creators /\ session'[call'[j].co].rzpOrder = None
  BY <1>1, <1>2
<1>3. CASE \E k \in Calls : Step(k)
  BY <1>1, <1>2, <1>3, StepMoves
<1>4. CASE Request
  <2>1. ASSUME j \in Creators, session[call'[j].co].rzpOrder = None,
               UNCHANGED session
        PROVE  j \in Creators /\ session'[call'[j].co].rzpOrder = None
    BY <2>1
  <2> QED BY <1>2, <1>4, <2>1, RequestMoves DEF Arrives, EarlySteps
<1>5. CASE Razorpay \/ Shopify \/ Time \/ UNCHANGED vars
  <2>1. UNCHANGED call
    BY <1>5 DEF Razorpay, StartPayment, AuthorizeLate, CapturePayment,
                RefundPayment, PaymentMoves, Shopify, AbandonedCommits,
                IndexOrder, Time, RetryComesDue, LeaseExpires, vars
  <2> QED BY <1>2, <2>1
<1>6. CASE Crash
  BY <1>6 DEF Crash, Idle, EarlySteps
<1> QED BY <1>3, <1>4, <1>5, <1>6 DEF Next

\* Which writes leave a document where the worker finds it.
LEMMA ReachOps ==
    ASSUME NEW s \in Session
    PROVE  /\ \A p \in Payments : InReach(MarkedPaid(s, p))
           /\ InReach(MarkedRefunded(s))
           /\ InReach(OrderClaimed(s))
           /\ \A n \in ShopOrders : InReach(OrderMarkedCreated(s, n))
           /\ s.status = "ORDER_CREATING" => InReach(OrderReleased(s))
           /\ InReach(s) => /\ InReach([s EXCEPT !.next = "due"])
                            /\ InReach([s EXCEPT !.lease = "expired"])
BY DEF Session, InReach, MarkedPaid, MarkedRefunded, OrderClaimed,
       OrderMarkedCreated, OrderReleased

LEMMA StrandedStep ==
    ASSUME Inv, AttachedOnce, NeverStranded, [Next]_vars PROVE NeverStranded'
<1> SUFFICES ASSUME NEW c \in Checkouts, session'[c].payment # None
             PROVE  InReach(session'[c])
  BY DEF NeverStranded, Stranded
<1> DEFINE s == session[c]
           t == session'[c]
<1>0. DocumentMoves(c) /\ s \in Session
  BY DocumentsMove DEF Inv, IInv, TypeOK
<1>1. s.payment # None => InReach(s)
  BY DEF NeverStranded, Stranded
<1>2. s.status = "ABSENT" => s = NoSession
  BY DEF Inv, Provenance, AbsentIsEmpty
<1>3. ASSUME NEW k \in Calls, NEW o \in RzpOrders, AttachRazorpayOrder(k),
             call[k].co = c, t = RazorpayOrderAttached(s, o)
      PROVE  FALSE
  <2>1. s.rzpOrder = None
    BY <1>3 DEF AttachedOnce, AttachRazorpayOrder, EarlySteps
  <2>2. s.payment = None
    BY <2>1 DEF Inv, Provenance, RecordedMeansPaid, PaidFor
  <2>3. t.payment = s.payment
    BY <1>0, <1>3 DEF Session, RazorpayOrderAttached
  <2> QED BY <2>2, <2>3
<1>4. ASSUME s.status = "ABSENT", t = Inserted(s) PROVE FALSE
  BY <1>2, <1>4 DEF Inserted, NoSession
<1>5. \/ t = s
      \/ \E p \in Payments : t = MarkedPaid(s, p)
      \/ t = MarkedRefunded(s)
      \/ t = OrderClaimed(s)
      \/ \E n \in ShopOrders : t = OrderMarkedCreated(s, n)
      \/ s.status = "ORDER_CREATING" /\ t = OrderReleased(s)
      \/ t = [s EXCEPT !.next = "due"]
      \/ t = [s EXCEPT !.lease = "expired"]
  BY <1>0, <1>3, <1>4, Zenon DEF DocumentMoves
<1>6. t.payment # None
  OBVIOUS
<1> HIDE DEF s, t
<1>7. ASSUME t = [s EXCEPT !.next = "due"] \/ t = [s EXCEPT !.lease = "expired"]
      PROVE  s.payment # None
  BY <1>0, <1>6, <1>7 DEF Session
<1>8. InReach(t)
  BY <1>0, <1>1, <1>5, <1>6, <1>7, ReachOps
<1> QED BY <1>8 DEF t

\* A recorded payment is never forgotten: as long as no two requests of one
\* Idempotency-Key meet, every paid checkout is finished, refunded, or has a
\* retry time or a lease that brings the worker back, across every race of
\* confirmations, attempts, crashes and refunds.
THEOREM PaidIsRemembered == Spec /\ []OneRequestPerKey => []NeverStranded
<1>1. Init => AttachedOnce /\ NeverStranded
  BY DEF Init, AttachedOnce, NeverStranded, Stranded, Idle, EarlySteps, NoSession
<1>2. Inv /\ AttachedOnce /\ NeverStranded /\ OneRequestPerKey /\ [Next]_vars
        => AttachedOnce' /\ NeverStranded'
  BY AttachedOnceStep, StrandedStep
<1> QED BY <1>1, <1>2, AlwaysInv, PTL DEF Spec

\* A document out of the worker's reach waits for its payment again.
StrandedPending ==
    \A c \in Checkouts : Stranded(session[c]) =>
                            session[c].status = "PAYMENT_PENDING"

LEMMA LateRequestStep ==
    ASSUME Inv, StrandedPending, [Next]_vars, NEW c \in Checkouts,
           Stranded(session'[c])
    PROVE  /\ session'[c].status = "PAYMENT_PENDING"
           /\ \/ Stranded(session[c])
              \/ \E k \in Calls : AttachRazorpayOrder(k) /\ call[k].co = c
<1> DEFINE s == session[c]
           t == session'[c]
           Attached == \E k \in Calls : AttachRazorpayOrder(k) /\ call[k].co = c
<1>0. DocumentMoves(c) /\ s \in Session
  BY DocumentsMove DEF Inv, IInv, TypeOK
<1>1. t.payment # None /\ ~InReach(t)
  BY DEF Stranded
<1>2. s.status = "ABSENT" => s = NoSession
  BY DEF Inv, Provenance, AbsentIsEmpty
<1>3. ASSUME NEW k \in Calls, NEW o \in RzpOrders, AttachRazorpayOrder(k),
             call[k].co = c, t = RazorpayOrderAttached(s, o)
      PROVE  t.status = "PAYMENT_PENDING" /\ Attached
  <2>1. t.status = "PAYMENT_PENDING"
    BY <1>0, <1>3 DEF Session, RazorpayOrderAttached
  <2> QED BY <1>3, <2>1
<1>4. ASSUME s.status = "ABSENT", t = Inserted(s) PROVE FALSE
  BY <1>1, <1>2, <1>4 DEF Inserted, NoSession
<1>5. ASSUME \/ t = s
             \/ t = [s EXCEPT !.next = "due"]
             \/ t = [s EXCEPT !.lease = "expired"]
      PROVE  t.status = "PAYMENT_PENDING" /\ Stranded(s)
  <2>1. t.payment = s.payment /\ t.status = s.status
    BY <1>0, <1>5 DEF Session
  <2>2. ~InReach(s)
    BY <1>0, <1>1, <1>5, ReachOps
  <2>3. Stranded(s)
    BY <1>1, <2>1, <2>2 DEF Stranded
  <2> QED BY <2>1, <2>3 DEF StrandedPending
<1>6. ~(\/ \E p \in Payments : t = MarkedPaid(s, p)
        \/ t = MarkedRefunded(s)
        \/ t = OrderClaimed(s)
        \/ \E n \in ShopOrders : t = OrderMarkedCreated(s, n)
        \/ s.status = "ORDER_CREATING" /\ t = OrderReleased(s))
  BY <1>0, <1>1, ReachOps, Zenon
<1>7. \/ \E k \in Calls, o \in RzpOrders :
            AttachRazorpayOrder(k) /\ call[k].co = c /\ t = RazorpayOrderAttached(s, o)
      \/ \/ t = s
         \/ t = [s EXCEPT !.next = "due"]
         \/ t = [s EXCEPT !.lease = "expired"]
  BY <1>0, <1>4, <1>6, Zenon DEF DocumentMoves
<1>8. t.status = "PAYMENT_PENDING" /\ (Stranded(s) \/ Attached)
  BY <1>3, <1>5, <1>7
<1> QED BY <1>8

\* With any number of overlapping requests of one key, nothing but a checkout
\* request that attaches its payment order late takes a paid checkout out of the
\* worker's reach, and there a repeated confirmation of the payment finds it.
THEOREM OnlyLateRequestsStrand == Spec => StrandedByLateRequestsOnly
<1>1. Init => StrandedPending
  BY DEF Init, StrandedPending, Stranded, NoSession
<1>2. Inv /\ StrandedPending /\ [Next]_vars => StrandedPending'
  <2> SUFFICES ASSUME Inv, StrandedPending, [Next]_vars, NEW c \in Checkouts,
                      Stranded(session'[c])
               PROVE  session'[c].status = "PAYMENT_PENDING"
    BY DEF StrandedPending, Stranded
  <2> QED BY LateRequestStep
<1> DEFINE A == \A c \in Checkouts : Stranded(session'[c]) =>
          /\ CanMarkPaid(session'[c], session'[c].rzpOrder, session'[c].payment)
          /\ \/ Stranded(session[c])
             \/ \E k \in Calls : AttachRazorpayOrder(k) /\ call[k].co = c
<1>3. Inv /\ StrandedPending /\ [Next]_vars => [A]_vars
  BY LateRequestStep DEF CanMarkPaid
<1> HIDE DEF A
<1>4. Spec => [][A]_vars
  BY <1>1, <1>2, <1>3, AlwaysInv, PTL DEF Spec
<1> QED BY <1>4 DEF A, StrandedByLateRequestsOnly

-----------------------------------------------------------------------------
(* The lifecycle implements OrderPromise, with the Razorpay drain as the   *)
(* only observer of payments.                                              *)

\* A document's stage says what it holds.
StagesMatch ==
    \A c \in Checkouts :
        /\ session[c].status \notin {"ABSENT", "CREATED", "PAYMENT_PENDING"} =>
              session[c].payment # None
        /\ session[c].shopOrder # None =>
              session[c].status \in {"ORDER_CREATED", "REFUNDED"}

\* What the one observer is about to write is news, and what it goes on to
\* pay for is on record as captured.
OneObserver ==
    \A k \in Calls :
        /\ call[k].pc \in ObserveSteps => k = "webhook"
        /\ call[k].pc = "observeWrite" =>
              Rank[attempt[call[k].pay]] <= Rank[call[k].kind]
        /\ call[k].pc = "markPaid" => Rank[attempt[call[k].pay]] >= 3

LEMMA Ranks ==
    /\ Rank["none"] = 0 /\ Rank["CAPTURED"] = 3
    /\ \A kind \in PaymentKinds \cup {"none"} : Rank[kind] \in 0..4
    /\ \A kind \in PaymentKinds \cup {"none"} : Rank[kind] > 3 => kind = "REFUNDED"
BY DEF Rank, PaymentKinds

LEMMA StagesMatchStep ==
    ASSUME Inv, AttachedOnce, StagesMatch, [Next]_vars PROVE StagesMatch'
<1> SUFFICES ASSUME NEW c \in Checkouts
             PROVE  /\ session'[c].status \notin
                          {"ABSENT", "CREATED", "PAYMENT_PENDING"} =>
                       session'[c].payment # None
                    /\ session'[c].shopOrder # None =>
                          session'[c].status \in {"ORDER_CREATED", "REFUNDED"}
  BY DEF StagesMatch
<1> DEFINE s == session[c]
           t == session'[c]
           Goal == /\ t.status \notin {"ABSENT", "CREATED", "PAYMENT_PENDING"} =>
                         t.payment # None
                   /\ t.shopOrder # None =>
                         t.status \in {"ORDER_CREATED", "REFUNDED"}
<1>0. /\ DocumentMoves(c) /\ s \in Session
      /\ s.status \notin {"ABSENT", "CREATED", "PAYMENT_PENDING"} =>
            s.payment # None
      /\ s.shopOrder # None => s.status \in {"ORDER_CREATED", "REFUNDED"}
  BY DocumentsMove DEF Inv, IInv, TypeOK, StagesMatch
<1>a. s.status = "ABSENT" => s = NoSession
  BY DEF Inv, Provenance, AbsentIsEmpty
<1>b. s.rzpOrder = None => s.payment = None
  BY DEF Inv, Provenance, RecordedMeansPaid, PaidFor
<1>c. ASSUME NEW k \in Calls, AttachRazorpayOrder(k), call[k].co = c
      PROVE  s.rzpOrder = None
  BY <1>c DEF AttachedOnce, AttachRazorpayOrder, EarlySteps
<1>d. \A p \in Payments : p # None
  BY NoneAssumption
<1> HIDE DEF s, t
<1>1. ASSUME t = s PROVE Goal
  BY <1>0, <1>1
<1>2. ASSUME s.status = "ABSENT", t = Inserted(s) PROVE Goal
  BY <1>a, <1>2 DEF Inserted, NoSession
<1>3. ASSUME NEW k \in Calls, NEW o \in RzpOrders, AttachRazorpayOrder(k),
             call[k].co = c, t = RazorpayOrderAttached(s, o)
      PROVE  Goal
  <2>1. s.shopOrder = None
    BY <1>0, <1>3, <1>b, <1>c
  <2> QED BY <1>0, <1>3, <2>1 DEF RazorpayOrderAttached, Session
<1>4. ASSUME NEW p \in Payments, CanMarkPaid(s, pay[p].order, p),
             t = MarkedPaid(s, p)
      PROVE  Goal
  BY <1>0, <1>4, <1>d DEF CanMarkPaid, MarkedPaid, Session
<1>5. ASSUME NEW p \in Payments, CanMarkRefunded(s, p), t = MarkedRefunded(s)
      PROVE  Goal
  BY <1>0, <1>5, <1>d DEF CanMarkRefunded, MarkedRefunded, Session
<1>6. ASSUME CanClaimOrder(s), t = OrderClaimed(s) PROVE Goal
  BY <1>0, <1>6 DEF CanClaimOrder, OrderClaimed, Session
<1>7. ASSUME NEW n \in ShopOrders, CanMarkOrderCreated(s, n),
             t = OrderMarkedCreated(s, n)
      PROVE  Goal
  BY <1>0, <1>7 DEF CanMarkOrderCreated, OrderMarkedCreated, Session
<1>8. ASSUME s.status = "ORDER_CREATING", t = OrderReleased(s) PROVE Goal
  BY <1>0, <1>8 DEF OrderReleased, Session
<1>9. ASSUME \/ t = [s EXCEPT !.next = "due"]
             \/ t = [s EXCEPT !.lease = "expired"]
      PROVE  Goal
  BY <1>0, <1>9 DEF Session
<1>10. Goal
  BY <1>0, <1>1, <1>2, <1>3, <1>4, <1>5, <1>6, <1>7, <1>8, <1>9
     DEF DocumentMoves, s, t
<1> QED BY <1>10 DEF s, t

\* Which step writes a payment attempt, and that one document is written at a
\* time.
LEMMA StepWrites ==
    ASSUME Inv, [Next]_vars
    PROVE  \/ UNCHANGED <<session, attempt>>
           \/ \E k \in Calls : ObserveWrite(k)
           \/ /\ UNCHANGED attempt
              /\ \E c \in Checkouts :
                    \A d \in Checkouts : d # c => session'[d] = session[d]
<1>0. session \in [Checkouts -> Session]
  BY DEF Inv, IInv, TypeOK
<1>1. ASSUME NEW k \in Calls, Step(k)
      PROVE  \/ UNCHANGED <<session, attempt>>
             \/ ObserveWrite(k)
             \/ /\ UNCHANGED attempt
                /\ call[k].co \in Checkouts
                /\ \A d \in Checkouts : d # call[k].co => session'[d] = session[d]
  <2>1. \/ UNCHANGED <<session, attempt>>
        \/ ObserveWrite(k)
        \/ InsertSession(k) \/ AttachRazorpayOrder(k) \/ MarkPaid(k)
        \/ MarkRefunded(k) \/ ClaimOne(k) \/ MarkOrderCreated(k)
        \/ ReleaseOrderForRetry(k)
    BY <1>1 DEF Step, PostRazorpayOrder, RecoverByReceipt, FetchPayment,
         ObserveRead, FindExisting, SendOrderCreate,
         ShopifyCommits, OrderCreateAnswered, OrderCreateFails,
         OrderCreateTimesOut, RecoverOrder, CallFails, db
  <2>2. CASE \/ InsertSession(k) \/ AttachRazorpayOrder(k) \/ MarkPaid(k)
             \/ MarkRefunded(k) \/ ClaimOne(k) \/ MarkOrderCreated(k)
             \/ ReleaseOrderForRetry(k)
    <3>1. call[k].co \in Checkouts
      BY <2>2 DEF Inv, IInv, WellFormedCalls, WellFormed, InsertSession,
           AttachRazorpayOrder, MarkPaid, MarkRefunded, ClaimOne,
           MarkOrderCreated, ReleaseOrderForRetry
    <3>2. UNCHANGED attempt
      BY <2>2 DEF InsertSession, AttachRazorpayOrder, MarkPaid, MarkRefunded,
           ClaimOne, MarkOrderCreated, ReleaseOrderForRetry
    <3>3. \A d \in Checkouts : d # call[k].co => session'[d] = session[d]
      BY <1>0, <2>2 DEF InsertSession, AttachRazorpayOrder, MarkPaid,
           MarkRefunded, ClaimOne, Claim, MarkOrderCreated,
           ReleaseOrderForRetry
    <3> QED BY <3>1, <3>2, <3>3
  <2> QED BY <2>1, <2>2
<1>2. ASSUME NEW c \in Checkouts, RetryComesDue(c) \/ LeaseExpires(c) \/ ClaimNext(c)
      PROVE  /\ UNCHANGED attempt
             /\ \A d \in Checkouts : d # c => session'[d] = session[d]
  BY <1>0, <1>2 DEF RetryComesDue, LeaseExpires, ClaimNext, Claim
<1>3. CASE Request
  <2>1. UNCHANGED <<session, attempt>> \/ \E d \in Checkouts : ClaimNext(d)
    BY <1>3 DEF Request, CreateCheckout, Verify, ProcessWebhook, db
  <2> QED BY <1>2, <2>1
<1>4. CASE Razorpay \/ Shopify \/ Crash \/ UNCHANGED vars
  BY <1>4 DEF Razorpay, StartPayment, AuthorizeLate, CapturePayment,
       RefundPayment, PaymentMoves, Shopify, AbandonedCommits, IndexOrder,
       Crash, vars, db
<1>5. CASE Time
  BY <1>2, <1>5 DEF Time
<1>6. CASE \E k \in Calls : Step(k)
  BY <1>1, <1>6
<1> QED BY <1>3, <1>4, <1>5, <1>6 DEF Next

\* How the one observer moves: a read compares, a write records.
LEMMA ObserverMoves ==
    ASSUME Inv, OneObserver, NEW k \in Calls, Step(k),
           call'[k].pc \in ObserveSteps
    PROVE  /\ k = "webhook"
           /\ call'[k].pc = "observeWrite" =>
                 Rank[attempt'[call'[k].pay]] <= Rank[call'[k].kind]
           /\ call'[k].pc = "markPaid" => Rank[attempt'[call'[k].pay]] >= 3
<1> DEFINE p == call[k].pay
<1>0. /\ call \in [Calls -> CallState] /\ call[k] \in CallState
      /\ attempt \in [Payments -> PaymentKinds \cup {"none"}]
  BY DEF Inv, IInv, TypeOK
<1>1. Observes(k)
  BY StepMoves
<1>2. k = "webhook"
  BY <1>1 DEF Observes, FetchPayment, ObserveRead, ObserveWrite, OneObserver,
              ObserveSteps
<1>3. ASSUME NEW pc, Goto(k, pc)
      PROVE  call'[k].pc = pc /\ call'[k].pay = p /\ call'[k].kind = call[k].kind
  <2> DEFINE x == [call[k] EXCEPT !.pc = pc]
  <2>1. x.pc = pc /\ x.pay = p /\ x.kind = call[k].kind
    BY <1>0 DEF CallState
  <2>2. call' = [call EXCEPT ![k] = x]
    BY <1>3 DEF Goto, Become
  <2> HIDE DEF x
  <2> QED BY <1>0, <2>1, <2>2
<1>4. ~Finish(k)
  <2>1. Finish(k) => call'[k] = Idle
    BY <1>0 DEF Finish, Become
  <2> QED BY <2>1 DEF Idle, ObserveSteps
<1>5. CASE FetchPayment(k)
  <2> DEFINE x == [call[k] EXCEPT !.pc = "observeRead",
                                  !.kind = pay[call[k].pay].status]
  <2>1. x.pc = "observeRead"
    BY <1>0 DEF CallState
  <2>2. Become(k, x)
    BY <1>4, <1>5, Zenon DEF FetchPayment
  <2> HIDE DEF x
  <2>3. call'[k].pc = "observeRead"
    BY <1>0, <2>1, <2>2 DEF Become
  <2> QED BY <1>2, <2>3
<1>6. ASSUME ObserveRead(k) \/ ObserveWrite(k)
      PROVE  /\ p \in Payments /\ call[k].kind \in PaymentKinds \cup {"none"}
             /\ attempt[p] \in PaymentKinds \cup {"none"}
  BY <1>0, <1>6 DEF Inv, IInv, WellFormedCalls, WellFormed, ObserveRead,
                    ObserveWrite, CallState
<1>7. ASSUME AfterObserve(k), call'[k].pc = "markPaid"
      PROVE  call[k].kind = "CAPTURED" /\ call'[k].pay = p
  BY <1>3, <1>4, <1>7 DEF AfterObserve
<1>8. ASSUME AfterObserve(k) PROVE call'[k].pc # "observeWrite"
  BY <1>3, <1>4, <1>8 DEF AfterObserve
<1>9. CASE ObserveRead(k)
  <2>1. UNCHANGED attempt
    BY <1>9 DEF ObserveRead, db
  <2>2. CASE Rank[attempt[p]] > Rank[call[k].kind]
    <3>1. AfterObserve(k)
      BY <1>9, <2>2 DEF ObserveRead
    <3>2. ASSUME call'[k].pc = "markPaid" PROVE Rank[attempt'[call'[k].pay]] >= 3
      <4>1. call[k].kind = "CAPTURED" /\ call'[k].pay = p
        BY <1>7, <3>1, <3>2
      <4>2. Rank[attempt[p]] > 3 /\ Rank[attempt[p]] \in 0..4
        BY <1>6, <1>9, <2>2, <4>1, Ranks
      <4> QED BY <2>1, <4>1, <4>2
    <3> QED BY <1>2, <1>8, <3>1, <3>2
  <2>3. CASE ~(Rank[attempt[p]] > Rank[call[k].kind])
    <3>1. Goto(k, "observeWrite")
      BY <1>9, <2>3 DEF ObserveRead
    <3>2. /\ call'[k].pc = "observeWrite" /\ call'[k].pay = p
          /\ call'[k].kind = call[k].kind
      BY <1>3, <3>1
    <3>3. Rank[attempt[p]] \in 0..4 /\ Rank[call[k].kind] \in 0..4
      BY <1>6, <1>9, Ranks
    <3>4. Rank[attempt[p]] <= Rank[call[k].kind]
      BY <2>3, <3>3
    <3> QED BY <1>2, <2>1, <3>2, <3>4
  <2> QED BY <2>2, <2>3
<1>10. CASE ObserveWrite(k)
  <2>1. AfterObserve(k) /\ attempt'[p] = call[k].kind
    BY <1>0, <1>6, <1>10 DEF ObserveWrite
  <2>2. ASSUME call'[k].pc = "markPaid" PROVE Rank[attempt'[call'[k].pay]] >= 3
    <3>1. attempt'[call'[k].pay] = "CAPTURED"
      BY <1>7, <2>1, <2>2
    <3> QED BY <3>1, Ranks
  <2> QED BY <1>2, <1>8, <2>1, <2>2
<1> QED BY <1>1, <1>5, <1>9, <1>10 DEF Observes

LEMMA OneObserverStep ==
    ASSUME Inv, OneObserver, Browsers = {}, [Next]_vars PROVE OneObserver'
<1> DEFINE Good(j) ==
      /\ call'[j].pc \in ObserveSteps => j = "webhook"
      /\ call'[j].pc = "observeWrite" =>
            Rank[attempt'[call'[j].pay]] <= Rank[call'[j].kind]
      /\ call'[j].pc = "markPaid" => Rank[attempt'[call'[j].pay]] >= 3
<1> SUFFICES ASSUME NEW j \in Calls PROVE Good(j)
  BY DEF OneObserver
<1>0. {"observeWrite", "markPaid"} \subseteq ObserveSteps
  BY DEF ObserveSteps
<1>1. ASSUME call'[j].pc \notin ObserveSteps PROVE Good(j)
  BY <1>0, <1>1
<1>2. ASSUME call'[j] = call[j], UNCHANGED attempt PROVE Good(j)
  BY <1>2 DEF OneObserver
<1>3. ASSUME NEW k \in Calls, Step(k) PROVE Good(j)
  <2>1. CASE j = k
    BY <1>1, <1>3, <2>1, ObserverMoves
  <2>2. CASE j # k
    <3>1. call'[j] = call[j]
      BY <1>3, <2>2, StepMoves
    <3>2. CASE ObserveWrite(k)
      <4>1. call'[j].pc \notin ObserveSteps
        BY <2>2, <3>1, <3>2 DEF OneObserver, ObserveWrite, ObserveSteps
      <4> QED BY <1>1, <4>1
    <3>3. CASE ~ObserveWrite(k)
      <4>1. UNCHANGED attempt
        BY <1>3, <3>3 DEF Step, InsertSession, PostRazorpayOrder,
             RecoverByReceipt, AttachRazorpayOrder, FetchPayment, ObserveRead,
             MarkPaid, MarkRefunded, ClaimOne, FindExisting, SendOrderCreate,
             ShopifyCommits, OrderCreateAnswered, OrderCreateFails,
             OrderCreateTimesOut, RecoverOrder, MarkOrderCreated,
             ReleaseOrderForRetry, CallFails, db
      <4> QED BY <1>2, <3>1, <4>1
    <3> QED BY <3>2, <3>3
  <2> QED BY <2>1, <2>2
<1>4. CASE Request
  <2>1. UNCHANGED attempt
    BY <1>4 DEF Request, CreateCheckout, Verify, ProcessWebhook, ClaimNext, db
  <2>2. Arrives(j)
    BY <1>4, RequestMoves
  <2>3. CASE call'[j].pc \in {"insert", "rzpPost", "find"}
    BY <1>1, <2>3 DEF ObserveSteps
  <2>4. CASE j = "webhook" /\ call'[j].pc = "observeRead"
    BY <2>4
  <2> QED BY <1>2, <2>1, <2>2, <2>3, <2>4 DEF Arrives
<1>5. CASE Razorpay \/ Shopify \/ Time \/ UNCHANGED vars
  <2>1. UNCHANGED <<call, attempt>>
    BY <1>5 DEF Razorpay, StartPayment, AuthorizeLate, CapturePayment,
                RefundPayment, PaymentMoves, Shopify, AbandonedCommits,
                IndexOrder, Time, RetryComesDue, LeaseExpires, vars, db
  <2> QED BY <1>2, <2>1
<1>6. CASE Crash
  <2>1. call'[j] = Idle
    BY <1>6 DEF Crash
  <2> QED BY <1>1, <2>1 DEF Idle, ObserveSteps
<1> QED BY <1>3, <1>4, <1>5, <1>6 DEF Next

PromiseInv == Inv /\ AttachedOnce /\ StagesMatch /\ OneObserver

\* One document's stage and order move as that document does.
LEMMA StagesMove ==
    ASSUME NEW c \in Checkouts,
           \A d \in Checkouts : d # c => session'[d] = session[d]
    PROVE  /\ [d \in Checkouts |-> Stage(session[d])]'
                = [[d \in Checkouts |-> Stage(session[d])]
                      EXCEPT ![c] = Stage(session'[c])]
           /\ [d \in Checkouts |-> session[d].shopOrder]'
                = [[d \in Checkouts |-> session[d].shopOrder]
                      EXCEPT ![c] = session'[c].shopOrder]
<1>1. \A d \in Checkouts : d # c => Stage(session'[d]) = Stage(session[d])
  OBVIOUS
<1>2. [d \in Checkouts |-> Stage(session[d])]'
         = [d \in Checkouts |-> Stage(session'[d])]
  BY DEF Stage
<1>3. [d \in Checkouts |-> Stage(session'[d])]
         = [[d \in Checkouts |-> Stage(session[d])]
               EXCEPT ![c] = Stage(session'[c])]
  BY <1>1
<1> QED BY <1>2, <1>3

\* The stages of a paid document.
LEMMA StageOps ==
    ASSUME NEW s \in Session,
           s.status \notin {"ABSENT", "CREATED", "PAYMENT_PENDING"} =>
               s.payment # None
    PROVE  /\ Stage(s) = "open" <=> s.payment = None
           /\ Stage(s) = "fulfilled" <=> s.status = "ORDER_CREATED"
           /\ Stage(s) = "refunded" <=> s.status = "REFUNDED"
           /\ Stage(s) \in {"open", "paid", "fulfilled", "refunded"}
<1>1. CASE s.status = "REFUNDED"
  BY <1>1 DEF Stage
<1>2. CASE s.status = "ORDER_CREATED"
  BY <1>2 DEF Stage
<1>3. CASE s.status \notin {"REFUNDED", "ORDER_CREATED"} /\ s.payment # None
  BY <1>3 DEF Stage
<1>4. CASE s.status \notin {"REFUNDED", "ORDER_CREATED"} /\ s.payment = None
  BY <1>4 DEF Stage
<1> QED BY <1>1, <1>2, <1>3, <1>4

LEMMA DocumentPromised ==
    ASSUME PromiseInv, [Next]_vars, UNCHANGED attempt, NEW c \in Checkouts,
           \A d \in Checkouts : d # c => session'[d] = session[d]
    PROVE  [Promise!Next]_(Promise!vars)
<1> DEFINE s == session[c]
           t == session'[c]
           stages == [d \in Checkouts |-> Stage(session[d])]
           orders == [d \in Checkouts |-> session[d].shopOrder]
           records == [p \in Payments |-> Rank[attempt[p]]]
<1>0. /\ DocumentMoves(c) /\ s \in Session /\ t \in Session
      /\ s.status \notin {"ABSENT", "CREATED", "PAYMENT_PENDING"} =>
            s.payment # None
      /\ t.status \notin {"ABSENT", "CREATED", "PAYMENT_PENDING"} =>
            t.payment # None
      /\ s.shopOrder # None => s.status \in {"ORDER_CREATED", "REFUNDED"}
  <2>1. Inv' /\ StagesMatch'
    BY NextInv, StagesMatchStep DEF PromiseInv
  <2> QED BY <2>1, DocumentsMove DEF PromiseInv, Inv, IInv, TypeOK, StagesMatch
<1>a. s.status = "ABSENT" => s = NoSession
  BY DEF PromiseInv, Inv, Provenance, AbsentIsEmpty
<1>b. s.rzpOrder = None => s.payment = None
  BY DEF PromiseInv, Inv, Provenance, RecordedMeansPaid, PaidFor
<1>c. ASSUME NEW k \in Calls, AttachRazorpayOrder(k), call[k].co = c
      PROVE  s.rzpOrder = None
  BY <1>c DEF PromiseInv, AttachedOnce, AttachRazorpayOrder, EarlySteps
<1>d. /\ \A p \in Payments : p # None
      /\ \A n \in ShopOrders : n # None
  BY NoneAssumption
<1>e. stages' = [stages EXCEPT ![c] = Stage(t)]
      /\ orders' = [orders EXCEPT ![c] = t.shopOrder]
  BY StagesMove
<1>f. stages[c] = Stage(s) /\ orders[c] = s.shopOrder
  OBVIOUS
<1>g. records' = records
  OBVIOUS
<1>h. s.status = "ORDER_CREATED" => s.shopOrder # None
  BY DEF PromiseInv, Inv, Provenance, LinkedToOwnOrder
<1>i. ASSUME NEW n \in ShopOrders, shop[n].co = c, s.shopOrder = None
      PROVE  \A d \in Checkouts : orders[d] # n
  BY <1>d, <1>i DEF PromiseInv, Inv, Provenance, LinkedToOwnOrder
<1>j. ASSUME NEW k \in Calls, call[k].pc = "markPaid", NEW p \in Payments,
             call[k].pay = p
      PROVE  records[p] >= 3
  BY <1>j DEF PromiseInv, OneObserver
<1>s. /\ Stage(s) = "open" <=> s.payment = None
      /\ Stage(s) = "fulfilled" <=> s.status = "ORDER_CREATED"
      /\ Stage(s) = "refunded" <=> s.status = "REFUNDED"
      /\ Stage(s) \in {"open", "paid", "fulfilled", "refunded"}
  BY <1>0, StageOps
<1>t. /\ Stage(t) = "open" <=> t.payment = None
      /\ Stage(t) = "fulfilled" <=> t.status = "ORDER_CREATED"
      /\ Stage(t) = "refunded" <=> t.status = "REFUNDED"
      /\ Stage(t) \in {"open", "paid", "fulfilled", "refunded"}
  BY <1>0, StageOps
<1>m. DocumentMoves(c) => 
      \/ t = s
      \/ s.status = "ABSENT" /\ t = Inserted(s)
      \/ \E k \in Calls, o \in RzpOrders :
            /\ AttachRazorpayOrder(k) /\ call[k].co = c
            /\ t = RazorpayOrderAttached(s, o)
      \/ \E k \in Calls, p \in Payments :
            /\ call[k].pc = "markPaid" /\ call[k].pay = p
            /\ CanMarkPaid(s, pay[p].order, p)
            /\ t = MarkedPaid(s, p)
      \/ \E p \in Payments : CanMarkRefunded(s, p) /\ t = MarkedRefunded(s)
      \/ CanClaimOrder(s) /\ t = OrderClaimed(s)
      \/ \E n \in ShopOrders : /\ shop[n].co = c
                               /\ CanMarkOrderCreated(s, n)
                               /\ t = OrderMarkedCreated(s, n)
      \/ s.status = "ORDER_CREATING" /\ t = OrderReleased(s)
      \/ t = [s EXCEPT !.next = "due"]
      \/ t = [s EXCEPT !.lease = "expired"]
  BY Zenon DEF DocumentMoves
<1> HIDE DEF s, t, stages, orders, records
<1>1. ASSUME Stage(t) = Stage(s), t.shopOrder = s.shopOrder
      PROVE  UNCHANGED Promise!vars
  <2>1. stages' = stages
    BY <1>1, <1>e, <1>f DEF stages
  <2>2. orders' = orders
    BY <1>1, <1>e, <1>f DEF orders
  <2> QED BY <1>g, <2>1, <2>2 DEF Promise!vars, stages, orders, records
<1>2. ASSUME s.status = "ABSENT", t = Inserted(s)
      PROVE  UNCHANGED Promise!vars
  <2>1. t.payment = s.payment /\ t.shopOrder = s.shopOrder /\ s.payment = None
    BY <1>a, <1>2 DEF Inserted, NoSession
  <2> QED BY <1>1, <1>s, <1>t, <2>1
<1>3. ASSUME NEW k \in Calls, NEW o \in RzpOrders, AttachRazorpayOrder(k),
             call[k].co = c, t = RazorpayOrderAttached(s, o)
      PROVE  UNCHANGED Promise!vars
  <2>1. s.payment = None
    BY <1>3, <1>b, <1>c
  <2>2. t.payment = s.payment /\ t.shopOrder = s.shopOrder
    BY <1>0, <1>3 DEF RazorpayOrderAttached, Session
  <2> QED BY <1>1, <1>s, <1>t, <2>1, <2>2
<1>4. ASSUME NEW k \in Calls, NEW p \in Payments, call[k].pc = "markPaid",
             call[k].pay = p, CanMarkPaid(s, pay[p].order, p),
             t = MarkedPaid(s, p)
      PROVE  UNCHANGED Promise!vars \/ Promise!Pay(c)
  <2>1. /\ t.payment = p /\ t.status = "ORDER_PENDING"
        /\ t.shopOrder = s.shopOrder
        /\ s.status \notin {"ORDER_CREATED", "REFUNDED"}
    BY <1>0, <1>4 DEF CanMarkPaid, MarkedPaid, Session
  <2>2. Stage(t) = "paid"
    BY <1>d, <1>t, <2>1
  <2>3. CASE s.payment # None
    BY <1>1, <1>s, <2>1, <2>2, <2>3
  <2>4. CASE s.payment = None
    <3>1. stages[c] = "open"
      BY <1>f, <1>s, <2>4
    <3>2. records[p] >= 3
      BY <1>4, <1>j
    <3>3. orders' = orders
      BY <1>e, <1>f, <2>1 DEF orders
    <3> QED BY <1>e, <1>g, <2>2, <3>1, <3>2, <3>3
            DEF Promise!Pay, Promise!Captured, stages, orders, records
  <2> QED BY <2>3, <2>4
<1>5. ASSUME NEW p \in Payments, CanMarkRefunded(s, p), t = MarkedRefunded(s)
      PROVE  UNCHANGED Promise!vars \/ Promise!Refund(c)
  <2>1. /\ s.payment # None /\ t.status = "REFUNDED"
        /\ t.shopOrder = s.shopOrder
    BY <1>0, <1>5, <1>d DEF CanMarkRefunded, MarkedRefunded, Session
  <2>2. Stage(t) = "refunded" /\ Stage(s) # "open"
    BY <1>s, <1>t, <2>1
  <2>3. CASE Stage(s) = "refunded"
    BY <1>1, <2>1, <2>2, <2>3
  <2>4. CASE Stage(s) # "refunded"
    <3>1. stages[c] \in {"paid", "fulfilled"}
      BY <1>f, <1>s, <2>2, <2>4
    <3>2. orders' = orders
      BY <1>e, <1>f, <2>1 DEF orders
    <3> QED BY <1>e, <1>g, <2>2, <3>1, <3>2
            DEF Promise!Refund, stages, orders, records
  <2> QED BY <2>3, <2>4
<1>6. ASSUME CanClaimOrder(s), t = OrderClaimed(s)
      PROVE  UNCHANGED Promise!vars
  <2>1. /\ s.status \notin {"ORDER_CREATED", "REFUNDED"}
        /\ t.status \notin {"ORDER_CREATED", "REFUNDED"}
        /\ t.payment = s.payment /\ t.shopOrder = s.shopOrder
    BY <1>0, <1>6 DEF CanClaimOrder, OrderClaimed, Session
  <2> QED BY <1>1, <1>s, <1>t, <2>1
<1>7. ASSUME NEW n \in ShopOrders, shop[n].co = c, CanMarkOrderCreated(s, n),
             t = OrderMarkedCreated(s, n)
      PROVE  UNCHANGED Promise!vars \/ Promise!Fulfil(c, n)
  <2>1. /\ t.status = "ORDER_CREATED" /\ t.shopOrder = n
        /\ s.shopOrder \in {None, n} /\ s.status # "REFUNDED"
        /\ s.status \notin {"ABSENT", "CREATED", "PAYMENT_PENDING"}
    BY <1>0, <1>7 DEF CanMarkOrderCreated, OrderMarkedCreated, Session
  <2>2. Stage(t) = "fulfilled" /\ Stage(s) \in {"paid", "fulfilled"}
    BY <1>0, <1>s, <1>t, <2>1
  <2>3. CASE Stage(s) = "fulfilled"
    <3>1. s.shopOrder = n
      BY <1>h, <1>s, <2>1, <2>3
    <3> QED BY <1>1, <2>1, <2>2, <2>3, <3>1
  <2>4. CASE Stage(s) = "paid"
    <3>1. s.shopOrder = None
      BY <1>0, <1>s, <2>1, <2>4
    <3>2. \A d \in Checkouts : orders[d] # n
      BY <1>7, <1>i, <3>1
    <3> QED BY <1>e, <1>f, <1>g, <2>1, <2>2, <2>4, <3>2
            DEF Promise!Fulfil, stages, orders, records
  <2> QED BY <2>2, <2>3, <2>4
<1>8. ASSUME s.status = "ORDER_CREATING", t = OrderReleased(s)
      PROVE  UNCHANGED Promise!vars
  <2>1. /\ t.status \notin {"ORDER_CREATED", "REFUNDED"}
        /\ t.payment = s.payment /\ t.shopOrder = s.shopOrder
    BY <1>0, <1>8 DEF OrderReleased, Session
  <2> QED BY <1>1, <1>8, <1>s, <1>t, <2>1
<1>9. ASSUME \/ t = [s EXCEPT !.next = "due"]
             \/ t = [s EXCEPT !.lease = "expired"]
      PROVE  UNCHANGED Promise!vars
  <2>1. /\ t.status = s.status
        /\ t.payment = s.payment /\ t.shopOrder = s.shopOrder
    BY <1>0, <1>9 DEF Session
  <2>2. Stage(t) = Stage(s)
    BY <2>1 DEF Stage
  <2> QED BY <1>1, <2>1, <2>2
<1>10. ASSUME t = s PROVE UNCHANGED Promise!vars
  BY <1>1, <1>10
<1>11. \/ UNCHANGED Promise!vars
       \/ Promise!Pay(c) \/ Promise!Refund(c)
       \/ \E n \in ShopOrders : Promise!Fulfil(c, n)
  <2>1. DocumentMoves(c)
    BY <1>0
  <2> HIDE DEF DocumentMoves
  <2> QED BY <1>m, <1>2, <1>3, <1>4, <1>5, <1>6, <1>7, <1>8, <1>9, <1>10, <2>1, Zenon
<1> QED BY <1>11, Zenon DEF Promise!Next

\* An observation is the promise's record, or repeats what is on record.
LEMMA ObservationPromised ==
    ASSUME PromiseInv, NEW k \in Calls, ObserveWrite(k)
    PROVE  [Promise!Next]_(Promise!vars)
<1>0. PICK p \in Payments : p = call[k].pay
  BY DEF PromiseInv, Inv, IInv, WellFormedCalls, WellFormed, ObserveWrite
<1> DEFINE records == [q \in Payments |-> Rank[attempt[q]]]
           n == Rank[call[k].kind]
<1>1. /\ call[k].kind \in PaymentKinds \cup {"none"}
      /\ attempt \in [Payments -> PaymentKinds \cup {"none"}]
      /\ records[p] <= n
  BY <1>0 DEF PromiseInv, Inv, IInv, TypeOK, WellFormedCalls, WellFormed, CallState,
         ObserveWrite, OneObserver
<1>2. UNCHANGED session /\ attempt' = [attempt EXCEPT ![p] = call[k].kind]
  BY <1>0 DEF ObserveWrite
<1>3. n \in 0..4 /\ records[p] \in 0..4
  BY <1>1, Ranks
<1>4. records' = [records EXCEPT ![p] = n]
  BY <1>1, <1>2
<1>5. /\ [d \in Checkouts |-> Stage(session[d])]'
            = [d \in Checkouts |-> Stage(session[d])]
      /\ [d \in Checkouts |-> session[d].shopOrder]'
            = [d \in Checkouts |-> session[d].shopOrder]
  BY <1>2
<1>6. CASE records[p] = n
  <2>1. records' = records
    BY <1>4, <1>6
  <2> QED BY <1>5, <2>1 DEF Promise!vars
<1>7. CASE records[p] # n
  <2>1. n > records[p]
    BY <1>1, <1>3, <1>7
  <2> HIDE DEF n
  <2>2. Promise!Record(p)
    BY <1>3, <1>4, <1>5, <2>1 DEF Promise!Record, Promise!Progress
  <2> QED BY <2>2, Zenon DEF Promise!Next
<1> QED BY <1>6, <1>7

\* The initial states and every step are those of the promise: across every
\* race, crash and lost answer, a checkout is paid once and after a capture is
\* on record, fulfilled by an order of its own, a refund is final, and no
\* record of a payment goes back.
THEOREM ImplementsPromise ==
    ASSUME Browsers = {}
    PROVE  Spec /\ []OneRequestPerKey => KeepsPromise
<1>1. Init => AttachedOnce /\ StagesMatch /\ OneObserver /\ Promise!Init
  <2> SUFFICES ASSUME Init
               PROVE  AttachedOnce /\ StagesMatch /\ OneObserver /\ Promise!Init
    OBVIOUS
  <2>1. AttachedOnce /\ StagesMatch /\ OneObserver
    BY DEF Init, AttachedOnce, StagesMatch, OneObserver, Idle, EarlySteps,
           ObserveSteps, NoSession
  <2>2. Stage(NoSession) = "open" /\ NoSession.shopOrder = None
    BY DEF Stage, NoSession
  <2> QED BY <2>1, <2>2, Ranks DEF Init, Promise!Init
<1>2. PromiseInv /\ OneRequestPerKey /\ [Next]_vars =>
          /\ AttachedOnce' /\ StagesMatch' /\ OneObserver'
          /\ [Promise!Next]_(Promise!vars)
  <2> SUFFICES ASSUME PromiseInv, OneRequestPerKey, [Next]_vars
               PROVE  /\ AttachedOnce' /\ StagesMatch' /\ OneObserver'
                      /\ [Promise!Next]_(Promise!vars)
    OBVIOUS
  <2>1. AttachedOnce' /\ StagesMatch' /\ OneObserver'
    BY AttachedOnceStep, StagesMatchStep, OneObserverStep DEF PromiseInv
  <2>2. CASE UNCHANGED <<session, attempt>>
    BY <2>1, <2>2 DEF Promise!vars
  <2>3. CASE \E k \in Calls : ObserveWrite(k)
    BY <2>1, <2>3, ObservationPromised
  <2>4. CASE /\ UNCHANGED attempt
             /\ \E c \in Checkouts :
                   \A d \in Checkouts : d # c => session'[d] = session[d]
    BY <2>1, <2>4, DocumentPromised
  <2> QED BY <2>2, <2>3, <2>4, StepWrites DEF PromiseInv
<1> QED BY <1>1, <1>2, AlwaysInv, PTL DEF Spec, PromiseInv, KeepsPromise, Promise!Spec

=============================================================================
