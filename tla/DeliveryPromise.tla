---------------------------- MODULE DeliveryPromise ----------------------------
(***************************************************************************)
(* What a webhook intake promises of a delivery, without any mechanism:    *)
(* the sender is told to stop only when the event is safe here, or has     *)
(* been dealt with on the spot; an event that is here is settled, and one  *)
(* that had its effect stays settled, unless whoever settled it never      *)
(* learnt that it was.                                                     *)
(***************************************************************************)
CONSTANTS
    Events,
    OnTheSpot,      \* events that may be dealt with without being stored
    MayRedo         \* whether an operator may reopen an event given up on

VARIABLES
    stage,          \* "sender", "queued", "settled" or "given up"
    answered,       \* events whose sender was told to stop
    handled,        \* events dealt with on the spot
    doubted         \* settled events whose worker was not told they are

vars == <<stage, answered, handled, doubted>>

Init ==
    /\ stage = [e \in Events |-> "sender"]
    /\ answered = {}
    /\ handled = {}
    /\ doubted = {}

Accept(e) ==
    /\ stage[e] = "sender"
    /\ stage' = [stage EXCEPT ![e] = "queued"]
    /\ answered' \in {answered, answered \cup {e}}
    /\ UNCHANGED <<handled, doubted>>

\* The work of e is done without a look at the queue, stored or not.
Handle(e) ==
    /\ e \in OnTheSpot
    /\ handled' = handled \cup {e}
    /\ answered' \in {answered, answered \cup {e}}
    /\ UNCHANGED <<stage, doubted>>

Answer(e) ==
    /\ stage[e] # "sender" \/ e \in handled
    /\ answered' = answered \cup {e}
    /\ UNCHANGED <<stage, handled, doubted>>

Finish(e, end) ==
    /\ stage[e] = "queued"
    /\ stage' = [stage EXCEPT ![e] = end]
    /\ \/ UNCHANGED doubted
       \/ end = "settled" /\ doubted' = doubted \cup {e}
    /\ UNCHANGED <<answered, handled>>

\* The worker in doubt reports a failure.
Recant(e) ==
    /\ e \in doubted
    /\ doubted' = doubted \ {e}
    /\ \E s \in {"queued", "given up"} : stage' = [stage EXCEPT ![e] = s]
    /\ UNCHANGED <<answered, handled>>

\* Workers in doubt are gone, all of them in a crash.
Desert ==
    /\ doubted' \subseteq doubted
    /\ UNCHANGED <<stage, answered, handled>>

Reopen(e) ==
    /\ MayRedo
    /\ stage[e] = "given up"
    /\ stage' = [stage EXCEPT ![e] = "queued"]
    /\ UNCHANGED <<answered, handled, doubted>>

Next ==
    \/ \E e \in Events :
          \/ Accept(e) \/ Handle(e) \/ Answer(e) \/ Reopen(e) \/ Recant(e)
          \/ Finish(e, "settled") \/ Finish(e, "given up")
    \/ Desert

Spec == Init /\ [][Next]_vars

\* Neither settled, nor given up, nor dealt with on the spot.
Open(e) ==
    \/ stage[e] = "queued"
    \/ stage[e] = "sender" /\ e \notin handled

\* No event stays with its sender or in the queue for ever.
Settles == \A e \in Events : Open(e) ~> ~Open(e)
=============================================================================
