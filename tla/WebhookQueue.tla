----------------------------- MODULE WebhookQueue -----------------------------
(***************************************************************************)
(* The intake of Shopify webhooks (webhooks.controller.ts receive, with    *)
(* decideWebhookAck) and the MongoDB work queue behind it                  *)
(* (webhook.queue.ts).                                                     *)
(*                                                                         *)
(* A call is a delivery request or the poller; its pc is the await it is   *)
(* suspended at.  A request that stored its event goes on as a worker for  *)
(* one event (the `drainQueue(1)' nudge, which the poller's `running' flag *)
(* does not cover).  What an event does when it is processed is left open: *)
(* it is processed, ignored, or fails.  Which due event is the oldest is   *)
(* left open too.  Shopify, and the operator, are external.                *)
(*                                                                         *)
(* Retry times and leases are abstracted to what the claim tells apart,    *)
(* as in CheckoutSessions.                                                 *)
(***************************************************************************)
EXTENDS Naturals, FiniteSets

CONSTANTS
    Events,         \* deliveries, by X-Shopify-Webhook-Id
    Inline,         \* those of topic app/uninstalled
    Receivers,      \* slots for concurrent delivery requests
    MaxAttempts,    \* WEBHOOK_MAX_ATTEMPTS
    FaultKinds,     \* the faults that may happen ...
    MaxFaults,      \* ... and how many of them
    MaxRetries,     \* bound on the operator's manual retries
    None

ASSUME EventsAssumption == Inline \subseteq Events /\ None \notin Events
ASSUME CallsAssumption == "poller" \notin Receivers /\ IsFiniteSet(Receivers)
ASSUME AttemptsAssumption == MaxAttempts \in Nat \ {0}
ASSUME FaultsAssumption ==
    /\ FaultKinds \subseteq {"crash", "database", "overrun", "outage"}
    /\ MaxFaults \in Nat
    /\ MaxRetries \in Nat

VARIABLES
    row,        \* webhook_events
    holding,    \* Shopify: deliveries it still has to make
    acked,      \* deliveries answered with a 2xx
    call,       \* delivery requests and workers in progress
    done,       \* how often an event's work was carried out, up to EffectCap
    faults,     \* faults so far
    retries     \* manual retries so far

vars == <<row, holding, acked, call, done, faults, retries>>

-----------------------------------------------------------------------------
Calls == Receivers \cup {"poller"}

\* "ABSENT" stands for an event not stored.
States == {"ABSENT", "RECEIVED", "PROCESSING", "PROCESSED", "FAILED", "IGNORED"}

\* Every claim follows a failure that spent an attempt, or a fault.
AttemptsBound == MaxAttempts + 2 * MaxFaults

\* Effects are counted as far as the properties compare them.
EffectCap == MaxFaults + 2

Row == [status: States, attempts: 0..AttemptsBound,
        next: {"none", "due", "later"}, lease: {"none", "live", "expired"}]

NoRow == [status |-> "ABSENT", attempts |-> 0, next |-> "none", lease |-> "none"]

Outcomes == {"processed", "ignored", "failed"}

CallState ==
    [pc: {"idle", "enqueue", "inline", "claim", "process", "settle"},
     event: Events \cup {None},             \* the event it works on
     attempts: 0..AttemptsBound,            \* attempts of the row it claimed
     outcome: Outcomes \cup {"none"}]       \* what the processor returned

Idle == [pc |-> "idle", event |-> None, attempts |-> 0, outcome |-> "none"]

TypeOK ==
    /\ row \in [Events -> Row]
    /\ holding \subseteq Events
    /\ acked \subseteq Events
    /\ call \in [Calls -> CallState]
    /\ done \in [Events -> 0..EffectCap]
    /\ faults \in 0..MaxFaults
    /\ retries \in 0..MaxRetries

Init ==
    /\ row = [e \in Events |-> NoRow]
    /\ holding = Events
    /\ acked = {}
    /\ call = [k \in Calls |-> Idle]
    /\ done = [e \in Events |-> 0]
    /\ faults = 0
    /\ retries = 0

-----------------------------------------------------------------------------
Become(k, x) == call' = [call EXCEPT ![k] = x]
Finish(k) == Become(k, Idle)

Fault(kind) ==
    /\ kind \in FaultKinds
    /\ faults < MaxFaults
    /\ faults' = faults + 1

WorkersOn(e) ==
    {k \in Calls : call[k].event = e /\ call[k].pc \in {"process", "settle"}}

\* A 2xx: Shopify stops delivering, unless the answer is lost.
Acknowledge(e) ==
    /\ acked' = acked \cup {e}
    /\ holding' \in {holding, holding \ {e}}

\* The work of e is carried out.
TakeEffect(e) ==
    done' = [done EXCEPT ![e] = IF @ < EffectCap THEN @ + 1 ELSE @]

-----------------------------------------------------------------------------
(* The delivery request                                                    *)

\* A delivery that passed verification; the same one may arrive repeatedly
\* and in several requests at once.
Deliver(k, e) ==
    /\ call[k].pc = "idle"
    /\ e \in holding
    /\ Become(k, [Idle EXCEPT !.pc = "enqueue", !.event = e])
    /\ UNCHANGED <<row, holding, acked, done, faults, retries>>

\* Mutant: a new event is not eligible until its first retry.
EnqueueEventUnscheduled(k) ==
    LET e == call[k].event IN
    /\ call[k].pc = "enqueue"
    /\ IF row[e].status = "ABSENT"
       THEN /\ row' = [row EXCEPT ![e].status = "RECEIVED"]
            /\ Become(k, [Idle EXCEPT !.pc = "claim"])
       ELSE Finish(k) /\ UNCHANGED row
    /\ Acknowledge(e)
    /\ UNCHANGED <<done, faults, retries>>

\* enqueueEvent: the unique index lets one insert through, and the others
\* answer as duplicates.  Either is acknowledged; a new event's request goes
\* on as a worker.
EnqueueEvent(k) ==
    LET e == call[k].event IN
    /\ call[k].pc = "enqueue"
    /\ IF row[e].status = "ABSENT"
       THEN /\ row' = [row EXCEPT ![e].status = "RECEIVED", ![e].next = "due"]
            /\ Become(k, [Idle EXCEPT !.pc = "claim"])
       ELSE Finish(k) /\ UNCHANGED row
    /\ Acknowledge(e)
    /\ UNCHANGED <<done, faults, retries>>

\* No database, or the insert fails: app/uninstalled is handled inline, and
\* anything else is answered 503.
EnqueueFails(k) ==
    /\ call[k].pc = "enqueue"
    /\ IF call[k].event \in Inline
       THEN Become(k, [call[k] EXCEPT !.pc = "inline"])
       ELSE Finish(k)
    /\ UNCHANGED <<row, holding, acked, done, faults, retries>>

\* The insert was carried out and its answer lost.
EnqueueUncertain(k) ==
    LET e == call[k].event IN
    /\ call[k].pc = "enqueue"
    /\ row[e].status = "ABSENT"
    /\ Fault("database")
    /\ row' = [row EXCEPT ![e].status = "RECEIVED", ![e].next = "due"]
    /\ IF e \in Inline
       THEN Become(k, [call[k] EXCEPT !.pc = "inline"])
       ELSE Finish(k)
    /\ UNCHANGED <<holding, acked, done, retries>>

\* The inline fallback: clearOfflineToken, acknowledged unless it throws.
\* Without a database it returns at once, and nothing is cleared.
HandleInline(k) ==
    LET e == call[k].event IN
    /\ call[k].pc = "inline"
    /\ Finish(k)
    /\ \/ TakeEffect(e) /\ Acknowledge(e) /\ UNCHANGED faults
       \/ Fault("outage") /\ Acknowledge(e) /\ UNCHANGED done
       \/ UNCHANGED <<done, holding, acked, faults>>
    /\ UNCHANGED <<row, retries>>

-----------------------------------------------------------------------------
(* The worker                                                              *)

\* The filter of claimNextEvent.
Claimable(e) ==
    \/ row[e].status = "RECEIVED" /\ row[e].next = "due"
    \/ row[e].status = "PROCESSING" /\ row[e].lease = "expired"

\* claimNextEvent, by the poller's tick or by a nudge.
ClaimNextEvent(k) ==
    /\ \/ k = "poller" /\ call[k].pc = "idle"
       \/ call[k].pc = "claim"
    /\ \E e \in Events :
          /\ Claimable(e)
          /\ row' = [row EXCEPT ![e].status = "PROCESSING", ![e].lease = "live",
                                ![e].attempts = @ + 1]
          /\ Become(k, [Idle EXCEPT !.pc = "process", !.event = e,
                                    !.attempts = row[e].attempts + 1])
    /\ UNCHANGED <<holding, acked, done, faults, retries>>

\* A nudge that finds nothing due, or whose claim fails, ends.
ClaimNothing(k) ==
    /\ call[k].pc = "claim"
    /\ Finish(k)
    /\ UNCHANGED <<row, holding, acked, done, faults, retries>>

\* The processor: app/uninstalled is never ignored.
Process(k) ==
    LET e == call[k].event IN
    /\ call[k].pc = "process"
    /\ \E outcome \in Outcomes :
          /\ e \in Inline => outcome # "ignored"
          /\ Become(k, [call[k] EXCEPT !.pc = "settle", !.outcome = outcome])
          /\ IF outcome = "processed" THEN TakeEffect(e) ELSE UNCHANGED done
    /\ UNCHANGED <<row, holding, acked, faults, retries>>

\* markFailure: a retry while the schedule lasts, then FAILED.
FailedRow(r, attempts) ==
    IF attempts >= MaxAttempts
    THEN [r EXCEPT !.status = "FAILED", !.next = "none", !.lease = "none"]
    ELSE [r EXCEPT !.status = "RECEIVED", !.next = "later", !.lease = "none"]

\* Mutant: an event that was processed is left to its lease.
SettledRowOpen(r, outcome, attempts) ==
    IF outcome = "failed" THEN FailedRow(r, attempts) ELSE r

\* markProcessed, markIgnored and markFailure filter on the identifier alone.
SettledRow(r, outcome, attempts) ==
    IF outcome = "failed" THEN FailedRow(r, attempts)
    ELSE [r EXCEPT !.status = IF outcome = "processed" THEN "PROCESSED"
                                                       ELSE "IGNORED",
                   !.next = "none", !.lease = "none"]

Settle(k) ==
    LET e == call[k].event IN
    /\ call[k].pc = "settle"
    /\ row' = [row EXCEPT ![e] =
                  SettledRow(@, call[k].outcome, call[k].attempts)]
    /\ Finish(k)
    /\ UNCHANGED <<holding, acked, done, faults, retries>>

\* The write fails, carried out or not.  markProcessed and markIgnored stand
\* inside the try, so their failure goes on to markFailure; a failure of
\* markFailure ends the drain.
SettleFails(k) ==
    LET e == call[k].event IN
    /\ call[k].pc = "settle"
    /\ Fault("database")
    /\ row' \in {row, [row EXCEPT ![e] =
                          SettledRow(@, call[k].outcome, call[k].attempts)]}
    /\ IF call[k].outcome = "failed"
       THEN Finish(k)
       ELSE Become(k, [call[k] EXCEPT !.outcome = "failed"])
    /\ UNCHANGED <<holding, acked, done, retries>>

-----------------------------------------------------------------------------
\* Mutant: any event that is not under way may be retried.
RetryAnyEvent(e) ==
    /\ row[e].status \notin {"ABSENT", "PROCESSING"}
    /\ retries < MaxRetries
    /\ retries' = retries + 1
    /\ row' = [row EXCEPT ![e] = [status |-> "RECEIVED", attempts |-> 0,
                                  next |-> "due", lease |-> "none"]]
    /\ UNCHANGED <<holding, acked, call, done, faults>>

\* retryFailedEvent: only a FAILED event, with the whole schedule again.
RetryFailedEvent(e) ==
    /\ row[e].status = "FAILED"
    /\ retries < MaxRetries
    /\ retries' = retries + 1
    /\ row' = [row EXCEPT ![e] = [status |-> "RECEIVED", attempts |-> 0,
                                  next |-> "due", lease |-> "none"]]
    /\ UNCHANGED <<holding, acked, call, done, faults>>

RetryComesDue(e) ==
    /\ row[e].next = "later"
    /\ row' = [row EXCEPT ![e].next = "due"]
    /\ UNCHANGED <<holding, acked, call, done, faults, retries>>

\* Five minutes have passed: the worker died, or overran its lease.
LeaseExpires(e) ==
    /\ row[e].status = "PROCESSING"
    /\ row[e].lease = "live"
    /\ IF WorkersOn(e) = {} THEN UNCHANGED faults ELSE Fault("overrun")
    /\ row' = [row EXCEPT ![e].lease = "expired"]
    /\ UNCHANGED <<holding, acked, call, done, retries>>

Crash ==
    /\ Fault("crash")
    /\ call' = [k \in Calls |-> Idle]
    /\ UNCHANGED <<row, holding, acked, done, retries>>

-----------------------------------------------------------------------------
Step(k) ==
    \/ EnqueueEvent(k) \/ EnqueueFails(k) \/ EnqueueUncertain(k)
    \/ HandleInline(k)
    \/ ClaimNextEvent(k) \/ ClaimNothing(k) \/ Process(k)
    \/ Settle(k) \/ SettleFails(k)

Next ==
    \/ \E k \in Calls : Step(k)
    \/ \E k \in Receivers, e \in Events : Deliver(k, e)
    \/ \E e \in Events : RetryFailedEvent(e) \/ RetryComesDue(e) \/ LeaseExpires(e)
    \/ Crash

Spec == Init /\ [][Next]_vars

\* The event loop resumes every call, the poller ticks every 15 s, clocks
\* advance.  Shopify delivers again until it is answered, and not every
\* delivery finds the database or the token store failing.
Fairness ==
    /\ \A k \in Calls : WF_vars(Step(k))
    /\ WF_vars(ClaimNextEvent("poller"))
    /\ \A e \in Events :
          /\ WF_vars(RetryComesDue(e))
          /\ WF_vars(LeaseExpires(e))
          /\ SF_vars(\E k \in Receivers : Deliver(k, e))
          /\ SF_vars(\E k \in Receivers : call[k].event = e /\ EnqueueEvent(k))

FairSpec == Spec /\ Fairness
=============================================================================
