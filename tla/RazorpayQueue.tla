---------------------------- MODULE RazorpayQueue ----------------------------
(***************************************************************************)
(* The Razorpay webhook intake (checkout.controller.ts) and its queue      *)
(* (payment-webhook.queue.ts).  Unlike the Shopify queue it has a single   *)
(* worker: the `draining' flag covers the timer and the nudges alike.      *)
(* What processing an event does to a checkout is PaidOrder's business;    *)
(* here it is actionable (PROCESSED), not (IGNORED), or it fails.          *)
(***************************************************************************)
EXTENDS Naturals, FiniteSets

CONSTANTS
    Events,         \* deliveries, by X-Razorpay-Event-Id
    Receivers,      \* slots for concurrent delivery requests
    Delays,         \* length of RETRY_MINUTES
    FaultKinds,     \* the faults that may happen ...
    MaxFaults,      \* ... and how many of them
    None

\* What a queue is asked to work with (MCRazorpayQueue assumes it).
Bounds ==
    /\ None \notin Events
    /\ Delays \in Nat
    /\ MaxFaults \in Nat
    /\ FaultKinds \subseteq {"crash", "database", "slow"}

VARIABLES
    row,        \* razorpay_webhook_events
    holding,    \* Razorpay: deliveries it still has to make
    acked,      \* deliveries answered with a 2xx
    request,    \* the event each delivery request is storing
    worker,     \* the drain in progress
    done,       \* how often an event was acted upon
    faults

vars == <<row, holding, acked, request, worker, done, faults>>

-----------------------------------------------------------------------------
AttemptsBound == Delays + 1 + MaxFaults

Row == [status: {"ABSENT", "RECEIVED", "PROCESSING", "PROCESSED", "FAILED",
                 "IGNORED"},
        attempts: 0..AttemptsBound,
        next: {"none", "due", "later"}, lease: {"none", "live", "expired"}]

NoRow == [status |-> "ABSENT", attempts |-> 0, next |-> "none", lease |-> "none"]

Outcomes == {"PROCESSED", "IGNORED", "failed"}

Worker == [pc: {"idle", "process", "settle"}, event: Events \cup {None},
           attempts: 0..AttemptsBound, outcome: Outcomes \cup {"none"}]

NoWorker == [pc |-> "idle", event |-> None, attempts |-> 0, outcome |-> "none"]

TypeOK ==
    /\ row \in [Events -> Row]
    /\ holding \subseteq Events
    /\ acked \subseteq Events
    /\ request \in [Receivers -> Events \cup {None}]
    /\ worker \in Worker
    /\ done \in [Events -> 0..AttemptsBound]
    /\ faults \in 0..MaxFaults

Init ==
    /\ row = [e \in Events |-> NoRow]
    /\ holding = Events
    /\ acked = {}
    /\ request = [r \in Receivers |-> None]
    /\ worker = NoWorker
    /\ done = [e \in Events |-> 0]
    /\ faults = 0

Fault(kind) ==
    /\ kind \in FaultKinds
    /\ faults < MaxFaults
    /\ faults' = faults + 1

-----------------------------------------------------------------------------
Deliver(r, e) ==
    /\ request[r] = None
    /\ e \in holding
    /\ request' = [request EXCEPT ![r] = e]
    /\ UNCHANGED <<row, holding, acked, worker, done, faults>>

\* The row after enqueueRazorpayWebhook: the unique index keeps the first.
Stored(s) ==
    IF s.status = "ABSENT"
    THEN [NoRow EXCEPT !.status = "RECEIVED", !.next = "due"] ELSE s

\* Stored or already there: answered 202 or 200, an answer that may be lost.
EnqueueRazorpayWebhook(r) ==
    LET e == request[r] IN
    /\ e # None
    /\ row' = [row EXCEPT ![e] = Stored(@)]
    /\ acked' = acked \cup {e}
    /\ holding' \in {holding, holding \ {e}}
    /\ request' = [request EXCEPT ![r] = None]
    /\ UNCHANGED <<worker, done, faults>>

\* Mutant: the answer is sent before the insert.
EnqueueFailsAnswered(r) ==
    LET e == request[r] IN
    /\ e # None
    /\ request' = [request EXCEPT ![r] = None]
    /\ acked' = acked \cup {e}
    /\ holding' = holding \ {e}
    /\ UNCHANGED <<row, worker, done, faults>>

\* The insert fails, carried out or not; Razorpay gets an error.
EnqueueFails(r) ==
    LET e == request[r] IN
    /\ e # None
    /\ row' \in {row, [row EXCEPT ![e] = Stored(@)]}
    /\ request' = [request EXCEPT ![r] = None]
    /\ UNCHANGED <<holding, acked, worker, done, faults>>

\* Mutant: an ignored event is claimed again and again.
ClaimableTwice(e) ==
    \/ row[e].status \in {"RECEIVED", "IGNORED"} /\ row[e].next # "later"
    \/ row[e].status = "PROCESSING" /\ row[e].lease = "expired"

\* The filter of claim.
Claimable(e) ==
    \/ row[e].status = "RECEIVED" /\ row[e].next = "due"
    \/ row[e].status = "PROCESSING" /\ row[e].lease = "expired"

Claim ==
    /\ worker.pc = "idle"
    /\ \E e \in Events :
          /\ Claimable(e)
          /\ row' = [row EXCEPT ![e].status = "PROCESSING", ![e].lease = "live",
                                ![e].attempts = @ + 1]
          /\ worker' = [NoWorker EXCEPT !.pc = "process", !.event = e,
                                        !.attempts = row[e].attempts + 1]
    /\ UNCHANGED <<holding, acked, request, done, faults>>

ProcessWebhook ==
    /\ worker.pc = "process"
    /\ \E outcome \in Outcomes :
          /\ worker' = [worker EXCEPT !.pc = "settle", !.outcome = outcome]
          /\ done' = IF outcome = "PROCESSED"
                     THEN [done EXCEPT ![worker.event] = @ + 1] ELSE done
    /\ UNCHANGED <<row, holding, acked, request, faults>>

\* The two updateOne of the drain, on the identifier alone.
Settled(s, outcome, attempts) ==
    CASE outcome # "failed" ->
            [s EXCEPT !.status = outcome, !.next = "none", !.lease = "none"]
      [] outcome = "failed" /\ attempts <= Delays ->
            [s EXCEPT !.status = "RECEIVED", !.next = "later", !.lease = "none"]
      [] OTHER ->
            [s EXCEPT !.status = "FAILED", !.next = "none", !.lease = "none"]

Settle ==
    /\ worker.pc = "settle"
    /\ row' = [row EXCEPT ![worker.event] =
                  Settled(@, worker.outcome, worker.attempts)]
    /\ worker' = NoWorker
    /\ UNCHANGED <<holding, acked, request, done, faults>>

\* The first updateOne stands inside the try: its failure, carried out or not,
\* is handled as a failure of the event.  That of the second ends the drain.
SettleFails ==
    /\ worker.pc = "settle"
    /\ Fault("database")
    /\ row' \in {row, [row EXCEPT ![worker.event] =
                          Settled(@, worker.outcome, worker.attempts)]}
    /\ worker' = IF worker.outcome = "failed" THEN NoWorker
                 ELSE [worker EXCEPT !.outcome = "failed"]
    /\ UNCHANGED <<holding, acked, request, done>>

-----------------------------------------------------------------------------
RetryComesDue(e) ==
    /\ row[e].next = "later"
    /\ row' = [row EXCEPT ![e].next = "due"]
    /\ UNCHANGED <<holding, acked, request, worker, done, faults>>

\* Three minutes have passed, also while the worker is still at it.
LeaseExpires(e) ==
    /\ row[e].status = "PROCESSING"
    /\ row[e].lease = "live"
    /\ worker.event = e => "slow" \in FaultKinds
    /\ row' = [row EXCEPT ![e].lease = "expired"]
    /\ UNCHANGED <<holding, acked, request, worker, done, faults>>

Crash ==
    /\ Fault("crash")
    /\ worker' = NoWorker
    /\ request' = [r \in Receivers |-> None]
    /\ UNCHANGED <<row, holding, acked, done>>

Drain == Claim \/ ProcessWebhook \/ Settle \/ SettleFails

Next ==
    \/ \E r \in Receivers, e \in Events : Deliver(r, e)
    \/ \E r \in Receivers : EnqueueRazorpayWebhook(r) \/ EnqueueFails(r)
    \/ Drain
    \/ \E e \in Events : RetryComesDue(e) \/ LeaseExpires(e)
    \/ Crash

Spec == Init /\ [][Next]_vars

\* The timer drains every 15 s, clocks advance, Razorpay delivers again until
\* it is answered and not every delivery finds the database failing.
Fairness ==
    /\ WF_vars(Drain)
    /\ \A e \in Events :
          /\ WF_vars(RetryComesDue(e))
          /\ WF_vars(LeaseExpires(e))
          /\ SF_vars(\E r \in Receivers : Deliver(r, e))
          /\ SF_vars(\E r \in Receivers :
                        request[r] = e /\ EnqueueRazorpayWebhook(r))
    /\ \A r \in Receivers : WF_vars(EnqueueRazorpayWebhook(r) \/ EnqueueFails(r))

FairSpec == Spec /\ Fairness

-----------------------------------------------------------------------------
\* Each repetition of an event's effect and each attempt beyond the retry
\* schedule is paid for by a crash or a failing write.
RepetitionBudget ==
    \A e \in Events :
        /\ done[e] <= 1 + faults
        /\ row[e].attempts <= Delays + 1 + faults

\* Every payment event is processed, ignored or given up in the end, and stays
\* so: a redelivery or a late write starts nothing anew for ever.
DeliveriesSettle ==
    \A e \in Events :
        row[e].status \notin {"PROCESSED", "IGNORED", "FAILED"} ~>
            [](row[e].status \in {"PROCESSED", "IGNORED", "FAILED"})
=============================================================================
