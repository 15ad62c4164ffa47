------------------------------ MODULE MCPayments ------------------------------
(***************************************************************************)
(* The two halves of a payment under fairness: the queue that takes in     *)
(* Razorpay's webhooks, and the lifecycle that turns what they say into an *)
(* order.  What the lifecycle is told is left open there (any delivery at  *)
(* any time, repeatedly), so the halves share no state; a behaviour is one *)
(* of one of them, and the other rests.                                    *)
(***************************************************************************)
EXTENDS MCPaidOrder, MCRazorpayQueue

VARIABLE service

queueVars == <<row, holding, acked, delivery, worker, done, faults>>

PaymentsInit == service \in {"lifecycle", "queue"} /\ Init /\ Queue!Init

PaymentsNext ==
    /\ UNCHANGED service
    /\ \/ service = "lifecycle" /\ Next /\ UNCHANGED queueVars
       \/ service = "queue" /\ Queue!Next /\ UNCHANGED vars

\* Only the part that runs is scheduled.
PaymentsSpec ==
    /\ PaymentsInit /\ [][PaymentsNext]_<<service, vars, queueVars>>
    /\ \/ service = "lifecycle" /\ Fairness
       \/ service = "queue" /\ Queue!Fairness

\* Where the queue runs, every payment event is dealt with or given up in the
\* end, and stays so (payment-webhook.queue.ts, the drain and its retries).
EventsSettle == service = "queue" => DeliveriesSettle
=============================================================================
