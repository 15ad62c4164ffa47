---------------------------- MODULE MCRazorpayQueue ----------------------------
(***************************************************************************)
(* The queue of Razorpay's webhooks with variables of its own, for the run *)
(* under fairness and for the theorems of DurableProofs.                   *)
(***************************************************************************)

CONSTANTS Events, Receivers, Delays, FaultKinds, MaxFaults,
          NoEvent       \* the slot of a delivery or a worker that is free

VARIABLES row, holding, acked, delivery, worker, done, faults

Queue == INSTANCE RazorpayQueue WITH request <- delivery, None <- NoEvent

ASSUME QueueBounds == Queue!Bounds

QueueSpec == Queue!FairSpec

\* Each repetition of an event's effect and each attempt beyond RETRY_MINUTES
\* is paid for by a crash or a failing write (payment-webhook.queue.ts).
RepetitionBudget == Queue!RepetitionBudget

\* Every payment event is dealt with or given up in the end, and stays so
\* (payment-webhook.queue.ts, the drain and its retries).
DeliveriesSettle == Queue!DeliveriesSettle
=============================================================================
