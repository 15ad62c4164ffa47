------------------------ MODULE WebhookQueueProperties ------------------------
(***************************************************************************)
(* What the Shopify webhook intake and its queue have to guarantee.        *)
(***************************************************************************)
EXTENDS WebhookQueue

\* A 2xx is a promise: whatever fails or crashes, an acknowledged delivery is
\* stored, or it is an uninstall whose token was cleared on the spot.  False of an
\* uninstall that arrives while the database is down: clearOfflineToken returns
\* without clearing, and the delivery is answered 200 (README, section 11).
AcknowledgedIsSafe ==
    \A e \in acked :
        row[e].status # "ABSENT" \/ (e \in Inline /\ done[e] > 0)

\* The claim excludes: two workers (the poller and any number of nudges) hold
\* the same event only after a fault, an overrun lease, let them.
ClaimsExclude == \A e \in Events : Cardinality(WorkersOn(e)) <= 1 + faults

\* Deduplication, claims and the retry schedule together: an event has its
\* effect once, and every repetition is paid for by a fault.  A fault adds two
\* attempts to the schedule at most: the claim it leaves behind, and the
\* reschedule of a late worker that counts with the attempts it once read.
RepetitionBudget ==
    \A e \in Events :
        /\ e \notin Inline => done[e] <= 1 + faults
        /\ row[e].attempts <= MaxAttempts + 2 * faults

-----------------------------------------------------------------------------
Stage(r) ==
    CASE r.status = "ABSENT" -> "sender"
      [] r.status \in {"RECEIVED", "PROCESSING"} -> "queued"
      [] r.status = "FAILED" -> "given up"
      [] OTHER -> "settled"

\* Settled in the database, where the worker goes on to report a failure.
Doubted(e) ==
    /\ Stage(row[e]) = "settled"
    /\ \E k \in WorkersOn(e) : call[k].pc = "settle" /\ call[k].outcome = "failed"

\* Dealt with, by the request itself or by a worker.
Handled == {e \in Inline : done[e] > 0}

Promise == INSTANCE DeliveryPromise
               WITH stage <- [e \in Events |-> Stage(row[e])],
                    answered <- acked,
                    handled <- Handled,
                    doubted <- {e \in Events : Doubted(e)},
                    OnTheSpot <- Inline, MayRedo <- TRUE

\* The intake implements the promise while no lease runs out under a worker and
\* no uninstall arrives during an outage: nobody is told to stop before the event
\* is stored or its token cleared, and a processed or ignored event is touched again by
\* no redelivery, no operator and no worker but the one that wrote it and got no
\* answer.
KeepsPromise == Promise!Spec

\* Every delivery is settled in the end, across crashes, lost answers and
\* failing writes.
DeliveriesSettle == Promise!Settles
=============================================================================
