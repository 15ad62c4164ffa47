-------------------------- MODULE WebhookQueueProofs --------------------------
(***************************************************************************)
(* Theorems about the Shopify webhook intake and its queue for any number  *)
(* of events, concurrent requests, attempts, faults and manual retries.    *)
(***************************************************************************)
EXTENDS WebhookQueueProperties, FiniteSetTheorems, TLAPS

CallOK(x) ==
    /\ x.pc \in {"enqueue", "inline", "process", "settle"} => x.event \in Events
    /\ x.pc = "inline" => x.event \in Inline
    /\ x.pc = "settle" <=> x.outcome # "none"

\* The workers of e that may still have its effect or report a failure.
Unsettled(e) ==
    {k \in WorkersOn(e) : call[k].pc = "process" \/ call[k].outcome = "failed"}

\* The workers of e that would reschedule it if they failed, be it late.
Young(e) == {k \in WorkersOn(e) : call[k].attempts < MaxAttempts}

Live(e) == row[e].status = "PROCESSING" /\ row[e].lease = "live"

\* The claim in force allows one worker, every other one has cost a fault.
ClaimPaid(e) == Cardinality(WorkersOn(e)) <= faults + (IF Live(e) THEN 1 ELSE 0)

\* The one effect that needs no fault is that of the worker whose claim is in
\* force, or it is written down.
Entitled(e) ==
    \/ Live(e) /\ WorkersOn(e) # {}
    \/ row[e].status \in {"PROCESSED", "IGNORED"}

EffectPaid(e) ==
    e \notin Inline =>
        done[e] + Cardinality(Unsettled(e)) <=
            faults + (IF Entitled(e) THEN 1 ELSE 0)

\* The row will be claimed again, at once or when its worker's lease is over.
Recurs(e) ==
    \/ row[e].status = "RECEIVED"
    \/ row[e].status = "PROCESSING" /\ (row[e].lease # "live" \/ WorkersOn(e) = {})

\* Beyond the schedule an event is claimed again only at the expense of a
\* fault, or because a late worker reschedules it.
AttemptsPaid(e) ==
    /\ row[e].status = "ABSENT" => row[e].attempts = 0
    /\ row[e].attempts >= MaxAttempts =>
          row[e].attempts + Cardinality(Young(e)) + (IF Recurs(e) THEN 1 ELSE 0)
              <= MaxAttempts + 2 * faults

EventOK(e) == ClaimPaid(e) /\ EffectPaid(e) /\ AttemptsPaid(e)

IInv ==
    /\ TypeOK
    /\ \A k \in Calls : CallOK(call[k])
    /\ \A e \in Events : EventOK(e)

USE EventsAssumption, CallsAssumption, AttemptsAssumption, FaultsAssumption

-----------------------------------------------------------------------------
(* How many workers there are, and what one call's step does to them.      *)

LEMMA CallsFinite == IsFiniteSet(Calls)
BY FS_AddElement DEF Calls

LEMMA SubsetSizes ==
    ASSUME NEW A \in SUBSET Calls
    PROVE  /\ Cardinality(A) \in Nat
           /\ \A B \in SUBSET A : Cardinality(B) <= Cardinality(A)
           /\ A = {} => Cardinality(A) = 0
           /\ \A k \in A : Cardinality(A \ {k}) = Cardinality(A) - 1
           /\ \A k \in Calls \ A : Cardinality(A \cup {k}) = Cardinality(A) + 1
<1>1. IsFiniteSet(A)
  BY CallsFinite, FS_Subset
<1>2. Cardinality(A) \in Nat
  BY <1>1, FS_CardinalityType
<1>3. \A B \in SUBSET A : Cardinality(B) <= Cardinality(A)
  BY <1>1, FS_Subset
<1>4. A = {} => Cardinality(A) = 0
  BY FS_EmptySet
<1>5. \A k \in A : Cardinality(A \ {k}) = Cardinality(A) - 1
  BY <1>1, FS_RemoveElement
<1>6. \A k \in Calls \ A : Cardinality(A \cup {k}) = Cardinality(A) + 1
  BY <1>1, FS_AddElement
<1> QED BY <1>2, <1>3, <1>4, <1>5, <1>6

LEMMA Sizes ==
    ASSUME NEW e
    PROVE  /\ Cardinality(WorkersOn(e)) \in Nat
           /\ Cardinality(Unsettled(e)) \in Nat
           /\ Cardinality(Young(e)) \in Nat
           /\ Cardinality(Unsettled(e)) <= Cardinality(WorkersOn(e))
           /\ Cardinality(Young(e)) <= Cardinality(WorkersOn(e))
           /\ WorkersOn(e) = {} => /\ Cardinality(Unsettled(e)) = 0
                                   /\ Cardinality(Young(e)) = 0
<1>1. /\ WorkersOn(e) \in SUBSET Calls
      /\ Unsettled(e) \in SUBSET WorkersOn(e) /\ Young(e) \in SUBSET WorkersOn(e)
  BY DEF WorkersOn, Unsettled, Young
<1>2. /\ Unsettled(e) \in SUBSET Calls /\ Young(e) \in SUBSET Calls
      /\ WorkersOn(e) = {} => Unsettled(e) = {} /\ Young(e) = {}
  BY <1>1
<1> QED BY <1>1, <1>2, SubsetSizes

Working(x, e) == x.event = e /\ x.pc \in {"process", "settle"}

LEMMA CallStep ==
    ASSUME TypeOK, NEW k \in Calls, NEW x, Become(k, x)
    PROVE  call'[k] = x /\ \A j \in Calls : j # k => call'[j] = call[j]
BY DEF TypeOK, Become

\* An event that the step's call works on neither before nor after it.
LEMMA NotWorkedOn ==
    ASSUME TypeOK, NEW k \in Calls, NEW x, Become(k, x), NEW f,
           ~Working(call[k], f), ~Working(x, f)
    PROVE  /\ WorkersOn(f)' = WorkersOn(f)
           /\ Unsettled(f)' = Unsettled(f)
           /\ Young(f)' = Young(f)
<1>1. WorkersOn(f)' = WorkersOn(f) /\ k \notin WorkersOn(f)
  BY CallStep DEF WorkersOn, Working
<1>2. \A j \in WorkersOn(f) : call'[j] = call[j]
  BY <1>1, CallStep DEF WorkersOn
<1> QED BY <1>1, <1>2 DEF Unsettled, Young

\* A worker of e is done with it.
LEMMA WorkerLeaves ==
    ASSUME TypeOK, NEW k \in Calls, NEW e, Working(call[k], e), Become(k, Idle)
    PROVE  /\ WorkersOn(e)' = WorkersOn(e) \ {k} /\ k \in WorkersOn(e)
           /\ Unsettled(e)' = Unsettled(e) \ {k}
           /\ Young(e)' = Young(e) \ {k}
<1>1. WorkersOn(e)' = WorkersOn(e) \ {k} /\ k \in WorkersOn(e)
  BY CallStep DEF WorkersOn, Working, Idle
<1>2. \A j \in WorkersOn(e) \ {k} : call'[j] = call[j]
  BY CallStep DEF WorkersOn
<1> QED BY <1>1, <1>2 DEF Unsettled, Young

\* An event that a step leaves alone: faults elsewhere only add to its credit.
LEMMA Untouched ==
    ASSUME IInv, NEW f \in Events, row'[f] = row[f],
           WorkersOn(f)' = WorkersOn(f), Unsettled(f)' = Unsettled(f),
           Young(f)' = Young(f), f \notin Inline => done'[f] = done[f],
           faults' \in Nat, faults' >= faults
    PROVE  EventOK(f)'
<1>1. faults \in Nat /\ MaxAttempts \in Nat
  BY DEF IInv, TypeOK
<1>2. f \notin Inline => done[f] \in Nat
  BY DEF IInv, TypeOK, EffectCap
<1>3. row[f].attempts \in Nat
  BY DEF IInv, TypeOK, Row
<1>4. EventOK(f)
  BY DEF IInv
<1>5. Live(f)' = Live(f) /\ Entitled(f)' = Entitled(f) /\ Recurs(f)' = Recurs(f)
  BY DEF Live, Entitled, Recurs
<1>6. ClaimPaid(f)'
  BY <1>1, <1>4, <1>5, Sizes DEF EventOK, ClaimPaid
<1>7. EffectPaid(f)'
  BY <1>1, <1>2, <1>4, <1>5, Sizes DEF EventOK, EffectPaid
<1>8. AttemptsPaid(f)'
  BY <1>1, <1>3, <1>4, <1>5, Sizes DEF EventOK, AttemptsPaid
<1> QED BY <1>6, <1>7, <1>8 DEF EventOK

LEMMA IdleIsACall == Idle \in CallState /\ CallOK(Idle) /\ \A e : ~Working(Idle, e)
BY DEF Idle, CallState, CallOK, Working, AttemptsBound

LEMMA NoRowIsARow == NoRow \in Row
BY DEF NoRow, Row, States, AttemptsBound

THEOREM InitIInv == Init => IInv
<1> SUFFICES ASSUME Init PROVE IInv
  OBVIOUS
<1>1. TypeOK
  BY IdleIsACall, NoRowIsARow DEF Init, TypeOK, EffectCap
<1>2. \A k \in Calls : CallOK(call[k])
  BY IdleIsACall DEF Init
<1>3. ASSUME NEW e \in Events PROVE EventOK(e)
  <2>1. WorkersOn(e) = {}
    BY DEF Init, WorkersOn, Idle
  <2>2. Cardinality(WorkersOn(e)) = 0 /\ Cardinality(Unsettled(e)) = 0
    BY <2>1, Sizes, FS_EmptySet
  <2>3. row[e].status = "ABSENT" /\ row[e].attempts = 0 /\ done[e] = 0 /\ faults = 0
    BY DEF Init, NoRow
  <2>4. ~Live(e) /\ ~Entitled(e)
    BY <2>3 DEF Live, Entitled
  <2> QED BY <2>2, <2>3, <2>4 DEF EventOK, ClaimPaid, EffectPaid, AttemptsPaid
<1> QED BY <1>1, <1>2, <1>3 DEF IInv

-----------------------------------------------------------------------------
(* Each action keeps the invariant.                                        *)

LEMMA CallsStay ==
    ASSUME TypeOK, \A j \in Calls : CallOK(call[j]),
           NEW k \in Calls, NEW x \in CallState, CallOK(x), Become(k, x)
    PROVE  call' \in [Calls -> CallState] /\ \A j \in Calls : CallOK(call'[j])
<1>1. call' \in [Calls -> CallState]
  BY DEF TypeOK, Become
<1> QED BY <1>1, CallStep

LEMMA FaultCounts ==
    ASSUME TypeOK, NEW kind, Fault(kind)
    PROVE  faults \in Nat /\ faults' = faults + 1 /\ faults' \in 0..MaxFaults
BY DEF TypeOK, Fault

LEMMA EffectCounts ==
    ASSUME TypeOK, NEW e \in Events, TakeEffect(e)
    PROVE  /\ done' \in [Events -> 0..EffectCap]
           /\ done'[e] <= done[e] + 1 /\ done'[e] > 0
           /\ \A f \in Events : f # e => done'[f] = done[f]
           /\ \A f \in Events : done[f] \in Nat /\ done'[f] \in Nat /\ done'[f] >= done[f]
<1>1. EffectCap \in Nat /\ EffectCap > 0
  BY DEF EffectCap
<1>2. /\ done'[e] = IF done[e] < EffectCap THEN done[e] + 1 ELSE done[e]
      /\ done[e] \in 0..EffectCap
      /\ \A f \in Events : f # e => done'[f] = done[f]
  BY DEF TypeOK, TakeEffect
<1>3. done' \in [Events -> 0..EffectCap]
  BY <1>1 DEF TypeOK, TakeEffect
<1>4. \A f \in Events : done[f] \in Nat /\ done'[f] \in Nat
  BY <1>1, <1>3 DEF TypeOK
<1> QED BY <1>1, <1>2, <1>3, <1>4

LEMMA AcknowledgeTypes ==
    ASSUME TypeOK, NEW e \in Events, Acknowledge(e)
    PROVE  acked' \subseteq Events /\ holding' \subseteq Events
BY DEF TypeOK, Acknowledge

\* An absent row that a delivery stores.
StoredRow(r) == [r EXCEPT !.status = "RECEIVED", !.next = "due"]

LEMMA StoredFields ==
    ASSUME NEW r \in Row
    PROVE  /\ StoredRow(r) \in Row /\ StoredRow(r).status = "RECEIVED"
           /\ StoredRow(r).attempts = r.attempts
BY DEF Row, States, StoredRow

\* A step of a delivery request: it stores an absent row or none, and touches
\* the effects of events that may be handled inline only.
LEMMA RequestStep ==
    ASSUME IInv, NEW k \in Calls, NEW x \in CallState, CallOK(x), Become(k, x),
           \A f : ~Working(call[k], f) /\ ~Working(x, f),
           NEW e \in Events,
           \/ row' = row
           \/ row[e].status = "ABSENT" /\ row' = [row EXCEPT ![e] = StoredRow(row[e])],
           holding' \subseteq Events, acked' \subseteq Events,
           done' \in [Events -> 0..EffectCap],
           \A f \in Events \ Inline : done'[f] = done[f],
           faults' \in 0..MaxFaults, faults' >= faults, UNCHANGED retries
    PROVE  IInv'
<1>1. row' \in [Events -> Row] /\ \A f \in Events : f # e => row'[f] = row[f]
  BY StoredFields DEF IInv, TypeOK
<1>2. TypeOK' /\ \A j \in Calls : CallOK(call'[j])
  BY <1>1, CallsStay DEF IInv, TypeOK
<1>3. \A f \in Events : /\ WorkersOn(f)' = WorkersOn(f)
                        /\ Unsettled(f)' = Unsettled(f)
                        /\ Young(f)' = Young(f)
  BY NotWorkedOn DEF IInv
<1>4. faults' \in Nat /\ faults \in Nat /\ MaxAttempts \in Nat \ {0}
  BY DEF IInv, TypeOK
<1>5. ASSUME NEW f \in Events, row'[f] = row[f] PROVE EventOK(f)'
  BY <1>3, <1>4, <1>5, Untouched
<1>6. ASSUME row'[e] # row[e] PROVE EventOK(e)'
  <2>1. /\ row[e].status = "ABSENT" /\ row[e] \in Row
        /\ row'[e].status = "RECEIVED" /\ row'[e].attempts = row[e].attempts
    BY <1>6, StoredFields DEF IInv, TypeOK
  <2>2. EventOK(e) /\ ~Live(e) /\ ~Entitled(e)
    BY <2>1 DEF IInv, Live, Entitled
  <2>3. ClaimPaid(e)'
    BY <1>3, <1>4, <2>2, Sizes DEF EventOK, ClaimPaid
  <2>4. EffectPaid(e)'
    BY <1>3, <1>4, <2>2, Sizes DEF EventOK, EffectPaid, IInv, TypeOK, EffectCap
  <2>5. row'[e].attempts = 0
    BY <2>1, <2>2 DEF EventOK, AttemptsPaid
  <2>6. AttemptsPaid(e)'
    BY <1>4, <2>1, <2>5 DEF AttemptsPaid
  <2> QED BY <2>3, <2>4, <2>6 DEF EventOK
<1>7. \A f \in Events : EventOK(f)'
  BY <1>1, <1>5, <1>6
<1> QED BY <1>2, <1>7 DEF IInv

\* Neither an idle call nor one at a delivery or at a claim is a worker.
LEMMA NotAtWork ==
    ASSUME NEW x \in CallState, x.pc \notin {"process", "settle"}
    PROVE  \A f : ~Working(x, f)
BY DEF Working

LEMMA DeliverKeeps ==
    ASSUME IInv, NEW k \in Receivers, NEW e \in Events, Deliver(k, e)
    PROVE  IInv'
<1> DEFINE x == [Idle EXCEPT !.pc = "enqueue", !.event = e]
<1>1. x \in CallState /\ CallOK(x) /\ \A f : ~Working(x, f)
  <2>1. x.pc = "enqueue" /\ x.event = e /\ x.outcome = "none"
    BY DEF Idle
  <2>2. x \in CallState
    BY IdleIsACall DEF CallState
  <2> HIDE DEF x
  <2> QED BY <2>1, <2>2 DEF CallOK, Working
<1>2. k \in Calls /\ Become(k, x) /\ call[k].pc = "idle"
  BY DEF Deliver, Calls
<1>3. call[k] \in CallState /\ \A f : ~Working(call[k], f)
  BY <1>2, NotAtWork DEF IInv, TypeOK
<1> HIDE DEF x
<1>4. /\ UNCHANGED <<row, faults, retries>>
      /\ holding' \subseteq Events /\ acked' \subseteq Events
      /\ done' \in [Events -> 0..EffectCap] /\ done' = done
      /\ faults' \in 0..MaxFaults /\ faults' >= faults
  BY DEF Deliver, IInv, TypeOK
<1> QED BY <1>1, <1>2, <1>3, <1>4, RequestStep

\* A request at its insert is about one event.
LEMMA AtEnqueue ==
    ASSUME IInv, NEW k \in Calls, call[k].pc \in {"enqueue", "inline"}
    PROVE  /\ call[k] \in CallState /\ CallOK(call[k]) /\ call[k].event \in Events
           /\ row[call[k].event] \in Row
           /\ \A f : ~Working(call[k], f)
<1>1. call[k] \in CallState /\ CallOK(call[k]) /\ row \in [Events -> Row]
  BY DEF IInv, TypeOK
<1>2. call[k].event \in Events
  BY <1>1 DEF CallOK
<1> QED BY <1>1, <1>2, NotAtWork

\* What a request may turn into.
LEMMA RequestTurns ==
    ASSUME IInv, NEW k \in Calls, call[k].pc = "enqueue"
    PROVE  /\ LET x == [Idle EXCEPT !.pc = "claim"] IN
                 x \in CallState /\ CallOK(x) /\ \A f : ~Working(x, f)
           /\ call[k].event \in Inline =>
                 LET x == [call[k] EXCEPT !.pc = "inline"] IN
                     x \in CallState /\ CallOK(x) /\ \A f : ~Working(x, f)
<1>1. LET x == [Idle EXCEPT !.pc = "claim"] IN
          x \in CallState /\ CallOK(x) /\ \A f : ~Working(x, f)
  BY DEF Idle, CallState, CallOK, Working, AttemptsBound
<1>2. ASSUME call[k].event \in Inline
      PROVE  LET x == [call[k] EXCEPT !.pc = "inline"] IN
                 x \in CallState /\ CallOK(x) /\ \A f : ~Working(x, f)
  BY <1>2, AtEnqueue DEF CallState, CallOK, Working
<1> QED BY <1>1, <1>2

LEMMA EnqueueEventKeeps ==
    ASSUME IInv, NEW k \in Calls, EnqueueEvent(k)
    PROVE  IInv'
<1> DEFINE e == call[k].event
           c == [Idle EXCEPT !.pc = "claim"]
<1>1. call[k].pc = "enqueue"
  BY DEF EnqueueEvent
<1>2. e \in Events /\ row[e] \in Row /\ \A f : ~Working(call[k], f)
  BY <1>1, AtEnqueue
<1>3. /\ acked' \subseteq Events /\ holding' \subseteq Events
      /\ UNCHANGED <<done, faults, retries>>
      /\ faults' \in 0..MaxFaults /\ faults' >= faults
      /\ done' \in [Events -> 0..EffectCap] /\ done' = done
  BY <1>2, AcknowledgeTypes DEF EnqueueEvent, IInv, TypeOK
<1>4. \/ /\ row[e].status = "ABSENT" /\ row' = [row EXCEPT ![e] = StoredRow(row[e])]
         /\ Become(k, c)
      \/ row' = row /\ Become(k, Idle)
  BY <1>2 DEF EnqueueEvent, Finish, StoredRow, IInv, TypeOK
<1>5. c \in CallState /\ CallOK(c) /\ \A f : ~Working(c, f)
  BY <1>1, RequestTurns
<1> HIDE DEF e, c
<1> QED BY <1>2, <1>3, <1>4, <1>5, IdleIsACall, RequestStep

LEMMA EnqueueFailsKeeps ==
    ASSUME IInv, NEW k \in Calls, EnqueueFails(k) \/ EnqueueUncertain(k)
    PROVE  IInv'
<1> DEFINE e == call[k].event
           c == [call[k] EXCEPT !.pc = "inline"]
<1>1. call[k].pc = "enqueue"
  BY DEF EnqueueFails, EnqueueUncertain
<1>2. e \in Events /\ row[e] \in Row /\ \A f : ~Working(call[k], f)
  BY <1>1, AtEnqueue
<1>3. /\ acked' \subseteq Events /\ holding' \subseteq Events
      /\ UNCHANGED <<done, retries>> /\ done' = done
      /\ done' \in [Events -> 0..EffectCap]
  BY DEF EnqueueFails, EnqueueUncertain, IInv, TypeOK
<1>4. faults' \in 0..MaxFaults /\ faults' >= faults
  <2>1. CASE EnqueueFails(k)
    BY <2>1 DEF EnqueueFails, IInv, TypeOK
  <2>2. CASE EnqueueUncertain(k)
    BY <2>2, FaultCounts DEF EnqueueUncertain, IInv
  <2> QED BY <2>1, <2>2
<1>5. \/ row[e].status = "ABSENT" /\ row' = [row EXCEPT ![e] = StoredRow(row[e])]
      \/ row' = row
  BY <1>2 DEF EnqueueFails, EnqueueUncertain, StoredRow, IInv, TypeOK
<1>6. \/ e \in Inline /\ Become(k, c)
      \/ Become(k, Idle)
  BY DEF EnqueueFails, EnqueueUncertain, Finish
<1>7. e \in Inline => c \in CallState /\ CallOK(c) /\ \A f : ~Working(c, f)
  BY <1>1, RequestTurns
<1> HIDE DEF e, c
<1> QED BY <1>2, <1>3, <1>4, <1>5, <1>6, <1>7, IdleIsACall, RequestStep

\* The inline fallback has the effect of an event the queue's budget is not
\* about.
LEMMA HandleInlineKeeps ==
    ASSUME IInv, NEW k \in Calls, HandleInline(k)
    PROVE  IInv'
<1> DEFINE e == call[k].event
<1>1. call[k].pc = "inline" /\ Become(k, Idle) /\ UNCHANGED <<row, retries>>
  BY DEF HandleInline, Finish
<1>2. e \in Events /\ e \in Inline /\ \A f : ~Working(call[k], f)
  BY <1>1, AtEnqueue DEF CallOK
<1>3. acked' \subseteq Events /\ holding' \subseteq Events
  BY <1>2, AcknowledgeTypes DEF HandleInline, IInv, TypeOK
<1>4. /\ done' \in [Events -> 0..EffectCap]
      /\ \A f \in Events \ Inline : done'[f] = done[f]
  <2>1. CASE TakeEffect(e)
    BY <1>2, <2>1, EffectCounts DEF IInv
  <2>2. CASE UNCHANGED done
    BY <2>2 DEF IInv, TypeOK
  <2> QED BY <2>1, <2>2 DEF HandleInline
<1>5. faults' \in 0..MaxFaults /\ faults' >= faults
  <2>1. CASE UNCHANGED faults
    BY <2>1 DEF IInv, TypeOK
  <2>2. CASE Fault("outage")
    BY <2>2, FaultCounts DEF IInv
  <2> QED BY <2>1, <2>2 DEF HandleInline
<1> HIDE DEF e
<1> QED BY <1>1, <1>2, <1>3, <1>4, <1>5, IdleIsACall, RequestStep

LEMMA ClaimNothingKeeps ==
    ASSUME IInv, NEW k \in Calls, ClaimNothing(k)
    PROVE  IInv'
<1>1. /\ Become(k, Idle) /\ call[k].pc = "claim"
      /\ UNCHANGED <<row, holding, acked, done, faults, retries>>
  BY DEF ClaimNothing, Finish
<1>2. \A f : ~Working(call[k], f)
  BY <1>1, NotAtWork DEF IInv, TypeOK
<1>3. CASE Events = {}
  <2>1. TypeOK' /\ \A j \in Calls : CallOK(call'[j])
    BY <1>1, CallsStay, IdleIsACall DEF IInv, TypeOK
  <2> QED BY <1>3, <2>1 DEF IInv
<1>4. ASSUME NEW e \in Events PROVE IInv'
  <2>1. /\ acked' \subseteq Events /\ holding' \subseteq Events
        /\ done' \in [Events -> 0..EffectCap] /\ done' = done
        /\ faults' \in 0..MaxFaults /\ faults' >= faults
    BY <1>1 DEF IInv, TypeOK
  <2> QED BY <1>1, <1>2, <2>1, IdleIsACall, RequestStep
<1> QED BY <1>3, <1>4

\* A claim adds a worker; past the schedule it takes what the fault before it,
\* or the late worker that rescheduled the event, has paid.
LEMMA ClaimKeeps ==
    ASSUME IInv, NEW k \in Calls, ClaimNextEvent(k)
    PROVE  IInv'
<1>1. PICK e \in Events :
         /\ Claimable(e)
         /\ row' = [row EXCEPT ![e].status = "PROCESSING", ![e].lease = "live",
                               ![e].attempts = @ + 1]
         /\ Become(k, [Idle EXCEPT !.pc = "process", !.event = e,
                                   !.attempts = row[e].attempts + 1])
  BY DEF ClaimNextEvent
<1> DEFINE n == row[e].attempts
           x == [Idle EXCEPT !.pc = "process", !.event = e, !.attempts = n + 1]
<1>2. /\ call[k].pc \in {"idle", "claim"}
      /\ UNCHANGED <<holding, acked, done, faults, retries>>
      /\ Become(k, x)
  BY <1>1 DEF ClaimNextEvent
<1>3. /\ row[e] \in Row /\ n \in Nat /\ faults \in Nat /\ EventOK(e)
      /\ MaxAttempts \in Nat \ {0} /\ faults <= MaxFaults /\ MaxFaults \in Nat
  BY DEF IInv, TypeOK, Row
<1>4. /\ row'[e] = [row[e] EXCEPT !.status = "PROCESSING", !.lease = "live",
                                  !.attempts = n + 1]
      /\ \A f \in Events : f # e => row'[f] = row[f]
  BY <1>1 DEF IInv, TypeOK
<1>5. /\ row'[e].status = "PROCESSING" /\ row'[e].lease = "live"
      /\ row'[e].attempts = n + 1
  BY <1>3, <1>4 DEF Row
<1>6. ~Live(e) /\ ~Entitled(e) /\ Recurs(e)
  BY <1>1 DEF Claimable, Live, Entitled, Recurs
<1>7. n + 1 <= MaxAttempts + 2 * faults
  <2>1. CASE n >= MaxAttempts
    BY <1>3, <1>6, <2>1, Sizes DEF EventOK, AttemptsPaid
  <2>2. CASE n < MaxAttempts
    BY <1>3, <2>2
  <2> QED BY <1>3, <2>1, <2>2
<1>8. n + 1 \in 0..AttemptsBound
  BY <1>3, <1>7 DEF AttemptsBound
<1>9. /\ x \in CallState /\ CallOK(x) /\ row'[e] \in Row
      /\ x.pc = "process" /\ x.event = e /\ x.attempts = n + 1 /\ x.outcome = "none"
  <2>1. row'[e] \in Row
    BY <1>3, <1>4, <1>8 DEF Row, States
  <2>2. /\ x.pc = "process" /\ x.event = e /\ x.attempts = n + 1
        /\ x.outcome = "none"
    BY DEF Idle
  <2>3. x \in CallState
    BY <1>8, IdleIsACall DEF CallState
  <2> HIDE DEF x
  <2> QED BY <2>1, <2>2, <2>3 DEF CallOK
<1> HIDE DEF x
<1>10. TypeOK' /\ \A j \in Calls : CallOK(call'[j])
  <2>1. row' \in [Events -> Row]
    BY <1>1, <1>4, <1>9 DEF IInv, TypeOK
  <2> QED BY <1>2, <1>9, <2>1, CallsStay DEF IInv, TypeOK
<1>11. /\ WorkersOn(e)' = WorkersOn(e) \cup {k} /\ k \notin WorkersOn(e)
       /\ Unsettled(e)' = Unsettled(e) \cup {k} /\ k \notin Unsettled(e)
       /\ Young(e)' = IF n + 1 < MaxAttempts THEN Young(e) \cup {k} ELSE Young(e)
  <2>1. call'[k] = x /\ \A j \in Calls : j # k => call'[j] = call[j]
    BY <1>2, CallStep DEF IInv
  <2>2. WorkersOn(e)' = WorkersOn(e) \cup {k} /\ k \notin WorkersOn(e)
    BY <1>2, <1>9, <2>1 DEF WorkersOn
  <2>3. \A j \in WorkersOn(e) : call'[j] = call[j]
    BY <2>1, <2>2 DEF WorkersOn
  <2> QED BY <1>9, <2>1, <2>2, <2>3 DEF Unsettled, Young
<1> HIDE DEF n
<1>12. /\ Cardinality(WorkersOn(e)') = Cardinality(WorkersOn(e)) + 1
       /\ Cardinality(Unsettled(e)') = Cardinality(Unsettled(e)) + 1
  <2>1. WorkersOn(e) \in SUBSET Calls /\ Unsettled(e) \in SUBSET Calls
    BY DEF WorkersOn, Unsettled
  <2> QED BY <1>11, <2>1, SubsetSizes
<1>13. ClaimPaid(e)'
  <2>1. Live(e)'
    BY <1>5 DEF Live
  <2> QED BY <1>2, <1>3, <1>6, <1>12, <2>1, Sizes DEF EventOK, ClaimPaid
<1>14. EffectPaid(e)'
  <2>1. Entitled(e)'
    BY <1>5, <1>11 DEF Entitled, Live
  <2>2. e \notin Inline => done[e] \in Nat
    BY DEF IInv, TypeOK, EffectCap
  <2> QED BY <1>2, <1>3, <1>6, <1>12, <2>1, <2>2, Sizes DEF EventOK, EffectPaid
<1>15. AttemptsPaid(e)'
  <2>1. ~Recurs(e)'
    BY <1>5, <1>11 DEF Recurs
  <2>2. CASE n >= MaxAttempts
    <3>1. Young(e)' = Young(e)
      BY <1>3, <1>11, <2>2
    <3>2. n + Cardinality(Young(e)) + 1 <= MaxAttempts + 2 * faults
      BY <1>3, <1>6, <2>2 DEF EventOK, AttemptsPaid, n
    <3> QED BY <1>2, <1>3, <1>5, <2>1, <3>1, <3>2, Sizes DEF AttemptsPaid
  <2>3. CASE n + 1 = MaxAttempts
    <3>1. Young(e)' = Young(e)
      BY <1>3, <1>11, <2>3
    <3>2. Cardinality(Young(e)) <= faults
      BY <1>3, <1>6, Sizes DEF EventOK, ClaimPaid
    <3> QED BY <1>2, <1>3, <1>5, <2>1, <2>3, <3>1, <3>2, Sizes DEF AttemptsPaid
  <2>4. CASE n + 1 < MaxAttempts
    BY <1>3, <1>5, <2>4 DEF AttemptsPaid
  <2> QED BY <1>3, <2>2, <2>3, <2>4
<1>16. ASSUME NEW f \in Events, f # e PROVE EventOK(f)'
  <2>1. ~Working(call[k], f) /\ ~Working(x, f)
    BY <1>2, <1>9, <1>16 DEF Working
  <2>2. /\ WorkersOn(f)' = WorkersOn(f) /\ Unsettled(f)' = Unsettled(f)
        /\ Young(f)' = Young(f)
    BY <1>2, <2>1, NotWorkedOn DEF IInv
  <2> QED BY <1>2, <1>3, <1>4, <1>16, <2>2, Untouched
<1>17. \A f \in Events : EventOK(f)'
  BY <1>13, <1>14, <1>15, <1>16 DEF EventOK
<1> QED BY <1>10, <1>17 DEF IInv

\* Processing spends the effect the worker stands for.
LEMMA ProcessKeeps ==
    ASSUME IInv, NEW k \in Calls, Process(k)
    PROVE  IInv'
<1>0. PICK e \in Events : e = call[k].event
  BY DEF Process, IInv, CallOK
<1>1. PICK outcome \in Outcomes :
         /\ Become(k, [call[k] EXCEPT !.pc = "settle", !.outcome = outcome])
         /\ IF outcome = "processed" THEN TakeEffect(e) ELSE UNCHANGED done
  BY <1>0 DEF Process
<1> DEFINE x == [call[k] EXCEPT !.pc = "settle", !.outcome = outcome]
<1>2. /\ call[k].pc = "process" /\ call[k] \in CallState
      /\ UNCHANGED <<row, holding, acked, faults, retries>>
  BY DEF Process, IInv, TypeOK
<1>3. /\ x \in CallState /\ CallOK(x) /\ x.event = e /\ x.pc = "settle"
      /\ x.outcome = outcome /\ x.attempts = call[k].attempts
  BY <1>0, <1>2 DEF CallState, CallOK, Outcomes
<1>4. faults \in Nat /\ EventOK(e) /\ MaxAttempts \in Nat
  BY <1>2 DEF IInv, TypeOK
<1> HIDE DEF x
<1>5. call'[k] = x /\ \A j \in Calls : j # k => call'[j] = call[j]
  BY <1>1, CallStep DEF IInv, x
<1>6. WorkersOn(e)' = WorkersOn(e) /\ k \in WorkersOn(e)
  BY <1>0, <1>2, <1>3, <1>5 DEF WorkersOn
<1>7. Young(e)' = Young(e)
  <2>1. \A j \in WorkersOn(e) : call'[j].attempts = call[j].attempts
    BY <1>3, <1>5 DEF WorkersOn
  <2> QED BY <1>6, <2>1 DEF Young
<1>8. /\ Unsettled(e)' = IF outcome = "failed" THEN Unsettled(e) ELSE Unsettled(e) \ {k}
      /\ k \in Unsettled(e)
  <2>1. \A j \in WorkersOn(e) \ {k} : call'[j] = call[j]
    BY <1>5 DEF WorkersOn
  <2>2. call'[k].pc = "settle" /\ call'[k].outcome = outcome
    BY <1>3, <1>5
  <2> QED BY <1>2, <1>6, <2>1, <2>2 DEF Unsettled
<1>9. Cardinality(Unsettled(e) \ {k}) = Cardinality(Unsettled(e)) - 1
  <2>1. Unsettled(e) \in SUBSET Calls
    BY DEF Unsettled, WorkersOn
  <2> QED BY <1>8, <2>1, SubsetSizes
<1>10. /\ done' \in [Events -> 0..EffectCap]
       /\ done'[e] <= done[e] + (IF outcome = "processed" THEN 1 ELSE 0)
       /\ done[e] \in Nat /\ done'[e] \in Nat
       /\ \A f \in Events : f # e => done'[f] = done[f]
  <2>1. CASE outcome = "processed"
    BY <1>1, <2>1, EffectCounts DEF IInv
  <2>2. CASE outcome # "processed"
    BY <1>1, <1>2, <2>2 DEF IInv, TypeOK, EffectCap
  <2> QED BY <2>1, <2>2
<1>11. TypeOK' /\ \A j \in Calls : CallOK(call'[j])
  <2>1. Become(k, x)
    BY <1>1 DEF x
  <2> QED BY <1>2, <1>3, <1>10, <2>1, CallsStay DEF IInv, TypeOK
<1>12. Live(e)' = Live(e) /\ Entitled(e)' = Entitled(e) /\ Recurs(e)' = Recurs(e)
  BY <1>2, <1>6 DEF Live, Entitled, Recurs
<1>13. ClaimPaid(e)' /\ AttemptsPaid(e)'
  BY <1>2, <1>4, <1>6, <1>7, <1>12 DEF EventOK, ClaimPaid, AttemptsPaid
<1>14. EffectPaid(e)'
  <2>1. done'[e] + Cardinality(Unsettled(e)') <= done[e] + Cardinality(Unsettled(e))
    BY <1>8, <1>9, <1>10, Sizes DEF Outcomes
  <2>2. Cardinality(Unsettled(e)') \in Nat
    BY <1>8, <1>9, Sizes, SubsetSizes DEF Unsettled, WorkersOn
  <2> QED BY <1>2, <1>4, <1>10, <1>12, <2>1, <2>2, Sizes DEF EventOK, EffectPaid
<1>15. ASSUME NEW f \in Events, f # e PROVE EventOK(f)'
  <2>1. ~Working(call[k], f) /\ ~Working(x, f)
    BY <1>0, <1>3, <1>15 DEF Working
  <2>2. /\ WorkersOn(f)' = WorkersOn(f) /\ Unsettled(f)' = Unsettled(f)
        /\ Young(f)' = Young(f)
    BY <1>1, <2>1, NotWorkedOn DEF IInv, x
  <2> QED BY <1>2, <1>4, <1>10, <1>15, <2>2, Untouched
<1>16. \A f \in Events : EventOK(f)'
  BY <1>13, <1>14, <1>15 DEF EventOK
<1> QED BY <1>11, <1>16 DEF IInv

-----------------------------------------------------------------------------
(* A worker settles.                                                       *)

LEMMA SettledFields ==
    ASSUME NEW r \in Row, NEW outcome \in Outcomes, NEW attempts \in Nat
    PROVE  LET t == SettledRow(r, outcome, attempts) IN
           /\ t \in Row /\ t.attempts = r.attempts
           /\ outcome # "failed" => t.status \in {"PROCESSED", "IGNORED"}
           /\ outcome = "failed" =>
                 t.status = IF attempts >= MaxAttempts THEN "FAILED" ELSE "RECEIVED"
<1>1. CASE outcome = "failed" /\ attempts >= MaxAttempts
  BY <1>1 DEF SettledRow, FailedRow, Row, States
<1>2. CASE outcome = "failed" /\ ~(attempts >= MaxAttempts)
  BY <1>2 DEF SettledRow, FailedRow, Row, States
<1>3. CASE outcome # "failed"
  BY <1>3 DEF SettledRow, Row, States
<1> QED BY <1>1, <1>2, <1>3

LEMMA AtSettle ==
    ASSUME IInv, NEW k \in Calls, call[k].pc = "settle"
    PROVE  /\ call[k] \in CallState /\ call[k].event \in Events
           /\ call[k].outcome \in Outcomes /\ call[k].attempts \in Nat
           /\ Working(call[k], call[k].event)
           /\ row[call[k].event] \in Row
<1>1. call[k] \in CallState /\ CallOK(call[k]) /\ row \in [Events -> Row]
  BY DEF IInv, TypeOK
<1> QED BY <1>1 DEF CallState, CallOK, Working

\* A worker of e leaves: nobody else's event is concerned.
LEMMA LeavingTypes ==
    ASSUME IInv, NEW k \in Calls, NEW e \in Events, call[k].event = e,
           Become(k, Idle), NEW t \in Row,
           row' = row \/ row' = [row EXCEPT ![e] = t],
           faults' \in 0..MaxFaults, faults' >= faults,
           UNCHANGED <<holding, acked, done, retries>>
    PROVE  /\ TypeOK' /\ \A j \in Calls : CallOK(call'[j])
           /\ \A f \in Events : f # e => EventOK(f)'
<1>1. TypeOK' /\ \A j \in Calls : CallOK(call'[j])
  BY CallsStay, IdleIsACall DEF IInv, TypeOK
<1>2. ASSUME NEW f \in Events, f # e PROVE EventOK(f)'
  <2>1. row'[f] = row[f] /\ faults' \in Nat
    BY <1>2 DEF IInv, TypeOK
  <2>2. ~Working(call[k], f) /\ ~Working(Idle, f)
    BY <1>2, IdleIsACall DEF Working
  <2>3. /\ WorkersOn(f)' = WorkersOn(f) /\ Unsettled(f)' = Unsettled(f)
        /\ Young(f)' = Young(f)
    BY <2>2, NotWorkedOn DEF IInv
  <2> QED BY <2>1, <2>3, Untouched
<1> QED BY <1>1, <1>2

\* The counts of e's workers when k is done with it.
LEMMA LeavingCounts ==
    ASSUME IInv, NEW k \in Calls, NEW e, Working(call[k], e), Become(k, Idle)
    PROVE  /\ Cardinality(WorkersOn(e)') = Cardinality(WorkersOn(e)) - 1
           /\ Cardinality(Unsettled(e)') =
                 Cardinality(Unsettled(e)) - (IF k \in Unsettled(e) THEN 1 ELSE 0)
           /\ Cardinality(Young(e)') =
                 Cardinality(Young(e)) - (IF k \in Young(e) THEN 1 ELSE 0)
<1>1. /\ WorkersOn(e) \in SUBSET Calls /\ Unsettled(e) \in SUBSET Calls
      /\ Young(e) \in SUBSET Calls
  BY DEF WorkersOn, Unsettled, Young
<1>2. /\ WorkersOn(e)' = WorkersOn(e) \ {k} /\ k \in WorkersOn(e)
      /\ Unsettled(e)' = Unsettled(e) \ {k}
      /\ Young(e)' = Young(e) \ {k}
  BY WorkerLeaves DEF IInv
<1>3. Cardinality(WorkersOn(e)') = Cardinality(WorkersOn(e)) - 1
  BY <1>1, <1>2, SubsetSizes
<1>4. k \in Unsettled(e) =>
         Cardinality(Unsettled(e)') = Cardinality(Unsettled(e)) - 1
  BY <1>1, <1>2, SubsetSizes
<1>5. k \notin Unsettled(e) => Unsettled(e)' = Unsettled(e)
  BY <1>2
<1>6. Cardinality(Unsettled(e)') =
          Cardinality(Unsettled(e)) - (IF k \in Unsettled(e) THEN 1 ELSE 0)
  BY <1>4, <1>5, Sizes
<1>7. k \in Young(e) => Cardinality(Young(e)') = Cardinality(Young(e)) - 1
  BY <1>1, <1>2, SubsetSizes
<1>8. k \notin Young(e) => Young(e)' = Young(e)
  BY <1>2
<1>9. Cardinality(Young(e)') =
          Cardinality(Young(e)) - (IF k \in Young(e) THEN 1 ELSE 0)
  BY <1>7, <1>8, Sizes
<1> QED BY <1>3, <1>6, <1>9

\* The worker's departure pays for what its settlement makes possible: the
\* row is written down, given up, or rescheduled by a worker that is young.
LEMMA SettleKeeps ==
    ASSUME IInv, NEW k \in Calls, Settle(k)
    PROVE  IInv'
<1>0. PICK e \in Events : e = call[k].event
  BY AtSettle DEF Settle
<1> DEFINE t == SettledRow(row[e], call[k].outcome, call[k].attempts)
<1>1. /\ call[k].outcome \in Outcomes /\ call[k].attempts \in Nat
      /\ Working(call[k], e) /\ row[e] \in Row /\ call[k].pc = "settle"
  BY <1>0, AtSettle DEF Settle
<1>2. /\ row' = [row EXCEPT ![e] = t] /\ Become(k, Idle)
      /\ UNCHANGED <<holding, acked, done, faults, retries>>
  BY <1>0 DEF Settle, Finish
<1>3. /\ t \in Row /\ t.attempts = row[e].attempts
      /\ call[k].outcome # "failed" => t.status \in {"PROCESSED", "IGNORED"}
      /\ call[k].outcome = "failed" =>
            t.status = IF call[k].attempts >= MaxAttempts THEN "FAILED" ELSE "RECEIVED"
  BY <1>1, SettledFields
<1> HIDE DEF t
<1>4. row'[e] = t
  BY <1>2 DEF IInv, TypeOK
<1>5. /\ faults \in Nat /\ EventOK(e) /\ MaxAttempts \in Nat
      /\ row[e].attempts \in Nat
      /\ faults' \in 0..MaxFaults /\ faults' >= faults
  BY <1>1, <1>2 DEF IInv, TypeOK, Row
<1>6. /\ TypeOK' /\ \A j \in Calls : CallOK(call'[j])
      /\ \A f \in Events : f # e => EventOK(f)'
  BY <1>0, <1>2, <1>3, <1>5, LeavingTypes
<1>7. /\ k \in WorkersOn(e)
      /\ k \in Unsettled(e) <=> call[k].outcome = "failed"
      /\ k \in Young(e) <=> call[k].attempts < MaxAttempts
  BY <1>0, <1>1 DEF WorkersOn, Working, Unsettled, Young
<1>8. /\ Cardinality(WorkersOn(e)') = Cardinality(WorkersOn(e)) - 1
      /\ Cardinality(Unsettled(e)') =
            Cardinality(Unsettled(e)) - (IF call[k].outcome = "failed" THEN 1 ELSE 0)
      /\ Cardinality(Young(e)') =
            Cardinality(Young(e)) - (IF call[k].attempts < MaxAttempts THEN 1 ELSE 0)
  BY <1>1, <1>2, <1>7, LeavingCounts
<1>9. ~Live(e)'
  BY <1>1, <1>3, <1>4 DEF Live, Outcomes
<1>10. ClaimPaid(e)'
  BY <1>2, <1>5, <1>8, <1>9, Sizes DEF EventOK, ClaimPaid
<1>11. EffectPaid(e)'
  <2>1. e \notin Inline => done[e] \in Nat
    BY DEF IInv, TypeOK, EffectCap
  <2>2. CASE call[k].outcome = "failed"
    BY <1>2, <1>5, <1>8, <2>1, <2>2, Sizes DEF EventOK, EffectPaid
  <2>3. CASE call[k].outcome # "failed"
    <3>1. Entitled(e)'
      BY <1>3, <1>4, <2>3 DEF Entitled
    <3> QED BY <1>2, <1>5, <1>8, <2>1, <2>3, <3>1, Sizes DEF EventOK, EffectPaid
  <2> QED BY <2>2, <2>3
<1>12. AttemptsPaid(e)'
  <2>1. row'[e].attempts = row[e].attempts /\ row'[e].status # "ABSENT"
    BY <1>3, <1>4
  <2>2. Recurs(e)' => call[k].attempts < MaxAttempts
    BY <1>1, <1>3, <1>4, <1>5 DEF Recurs
  <2> QED BY <1>2, <1>5, <1>8, <2>1, <2>2, Sizes DEF EventOK, AttemptsPaid
<1>13. \A f \in Events : EventOK(f)'
  BY <1>6, <1>10, <1>11, <1>12 DEF EventOK
<1> QED BY <1>6, <1>13 DEF IInv

\* A failing write costs a fault, which pays for whatever the row is left as.
LEMMA SettleFailsKeeps ==
    ASSUME IInv, NEW k \in Calls, SettleFails(k)
    PROVE  IInv'
<1>0. PICK e \in Events : e = call[k].event
  BY AtSettle DEF SettleFails
<1> DEFINE t == SettledRow(row[e], call[k].outcome, call[k].attempts)
<1>1. /\ call[k] \in CallState /\ call[k].outcome \in Outcomes
      /\ call[k].attempts \in Nat
      /\ Working(call[k], e) /\ row[e] \in Row /\ call[k].pc = "settle"
  BY <1>0, AtSettle DEF SettleFails
<1>2. /\ row' = row \/ row' = [row EXCEPT ![e] = t]
      /\ faults \in Nat /\ faults' = faults + 1 /\ faults' \in 0..MaxFaults
      /\ faults' >= faults
      /\ UNCHANGED <<holding, acked, done, retries>>
  BY <1>0, FaultCounts DEF SettleFails, IInv
<1>3. /\ t \in Row /\ t.attempts = row[e].attempts
      /\ call[k].outcome # "failed" => t.status \in {"PROCESSED", "IGNORED"}
      /\ call[k].outcome = "failed" =>
            t.status = IF call[k].attempts >= MaxAttempts THEN "FAILED" ELSE "RECEIVED"
  BY <1>1, SettledFields
<1> HIDE DEF t
<1>4. /\ row'[e] \in {row[e], t} /\ row' \in [Events -> Row]
      /\ \A f \in Events : f # e => row'[f] = row[f]
  BY <1>2, <1>3 DEF IInv, TypeOK
<1>5. EventOK(e) /\ MaxAttempts \in Nat /\ row[e].attempts \in Nat
  BY <1>1 DEF IInv, Row
<1>6. e \notin Inline => done[e] \in Nat
  BY DEF IInv, TypeOK, EffectCap
<1>7. /\ row'[e].attempts = row[e].attempts
      /\ row'[e].status = "ABSENT" => row[e].status = "ABSENT"
  BY <1>3, <1>4 DEF Outcomes
\* A claim in force and an entitlement are worth one each, less than the fault.
<1>8. ASSUME Cardinality(WorkersOn(e)') <= Cardinality(WorkersOn(e)),
             Cardinality(Unsettled(e)') <= Cardinality(Unsettled(e)) + 1,
             Cardinality(Unsettled(e)') <= Cardinality(Unsettled(e)) \/ Entitled(e)' \/ ~Entitled(e),
             Cardinality(Young(e)') <= Cardinality(Young(e)),
             Cardinality(WorkersOn(e)') \in Nat, Cardinality(Unsettled(e)') \in Nat,
             Cardinality(Young(e)') \in Nat
      PROVE  EventOK(e)'
  <2>1. ClaimPaid(e)'
    BY <1>2, <1>5, <1>8, Sizes DEF EventOK, ClaimPaid
  <2>2. EffectPaid(e)'
    BY <1>2, <1>5, <1>6, <1>8, Sizes DEF EventOK, EffectPaid
  <2>3. AttemptsPaid(e)'
    BY <1>2, <1>5, <1>7, <1>8, Sizes DEF EventOK, AttemptsPaid
  <2> QED BY <2>1, <2>2, <2>3 DEF EventOK
<1>9. CASE call[k].outcome = "failed"
  <2>1. Become(k, Idle)
    BY <1>9 DEF SettleFails, Finish
  <2>2. /\ TypeOK' /\ \A j \in Calls : CallOK(call'[j])
        /\ \A f \in Events : f # e => EventOK(f)'
    BY <1>0, <1>2, <1>3, <2>1, LeavingTypes
  <2>3. /\ Cardinality(WorkersOn(e)') <= Cardinality(WorkersOn(e))
        /\ Cardinality(Unsettled(e)') <= Cardinality(Unsettled(e))
        /\ Cardinality(Young(e)') <= Cardinality(Young(e))
    BY <1>1, <2>1, LeavingCounts, Sizes
  <2>4. /\ Cardinality(WorkersOn(e)') \in Nat /\ Cardinality(Unsettled(e)') \in Nat
        /\ Cardinality(Young(e)') \in Nat
    BY SubsetSizes DEF WorkersOn, Unsettled, Young
  <2>5. Cardinality(Unsettled(e)) \in Nat
    BY Sizes
  <2>6. EventOK(e)'
    BY <1>8, <2>3, <2>4, <2>5
  <2> QED BY <2>2, <2>6 DEF IInv
<1>10. CASE call[k].outcome # "failed"
  <2> DEFINE x == [call[k] EXCEPT !.outcome = "failed"]
  <2>1. Become(k, x)
    BY <1>10 DEF SettleFails
  <2>2. /\ x \in CallState /\ x.pc = "settle" /\ x.outcome = "failed" /\ x.event = e
        /\ x.attempts = call[k].attempts
    BY <1>0, <1>1 DEF CallState, Outcomes
  <2>3. CallOK(x)
    BY <2>2 DEF CallOK
  <2> HIDE DEF x
  <2>4. TypeOK' /\ \A j \in Calls : CallOK(call'[j])
    BY <1>2, <1>4, <2>1, <2>2, <2>3, CallsStay DEF IInv, TypeOK
  <2>5. call'[k] = x /\ \A j \in Calls : j # k => call'[j] = call[j]
    BY <2>1, CallStep DEF IInv
  <2>6. WorkersOn(e)' = WorkersOn(e) /\ k \in WorkersOn(e)
    BY <1>0, <1>1, <2>2, <2>5 DEF WorkersOn
  <2>7. Young(e)' = Young(e)
    <3>1. \A j \in WorkersOn(e) : call'[j].attempts = call[j].attempts
      BY <2>2, <2>5 DEF WorkersOn
    <3> QED BY <2>6, <3>1 DEF Young
  <2>8. Unsettled(e)' = Unsettled(e) \cup {k} /\ k \notin Unsettled(e)
    <3>1. \A j \in WorkersOn(e) \ {k} : call'[j] = call[j]
      BY <2>5 DEF WorkersOn
    <3> QED BY <1>1, <1>10, <2>2, <2>5, <2>6, <3>1 DEF Unsettled
  <2>9. Cardinality(Unsettled(e)') = Cardinality(Unsettled(e)) + 1
    <3>1. Unsettled(e) \in SUBSET Calls
      BY DEF Unsettled, WorkersOn
    <3> QED BY <2>8, <3>1, SubsetSizes
  <2>10. Entitled(e)' \/ ~Entitled(e)
    BY <1>3, <1>4, <1>10, <2>6 DEF Entitled, Live
  <2>11. EventOK(e)'
    BY <1>8, <2>6, <2>7, <2>9, <2>10, Sizes
  <2>12. ASSUME NEW f \in Events, f # e PROVE EventOK(f)'
    <3>1. ~Working(call[k], f) /\ ~Working(x, f)
      BY <1>0, <2>2, <2>12 DEF Working
    <3>2. /\ WorkersOn(f)' = WorkersOn(f) /\ Unsettled(f)' = Unsettled(f)
          /\ Young(f)' = Young(f)
      BY <2>1, <3>1, NotWorkedOn DEF IInv
    <3>3. row'[f] = row[f] /\ faults' \in Nat /\ (f \notin Inline => done'[f] = done[f])
      BY <1>2, <1>4, <2>12
    <3> QED BY <1>2, <3>2, <3>3, Untouched
  <2> QED BY <2>4, <2>11, <2>12 DEF IInv
<1> QED BY <1>9, <1>10

-----------------------------------------------------------------------------
(* What no call does.                                                      *)

\* Manual retries and clocks: the workers stay, one row changes.
LEMMA RowStep ==
    ASSUME IInv, NEW e \in Events, NEW t \in Row, row' = [row EXCEPT ![e] = t],
           faults' \in 0..MaxFaults, faults' >= faults,
           retries' \in 0..MaxRetries, UNCHANGED <<holding, acked, call, done>>,
           EventOK(e)'
    PROVE  IInv'
<1>1. TypeOK' /\ \A k \in Calls : CallOK(call'[k])
  BY DEF IInv, TypeOK
<1>2. ASSUME NEW f \in Events, f # e PROVE EventOK(f)'
  <2>1. /\ WorkersOn(f)' = WorkersOn(f) /\ Unsettled(f)' = Unsettled(f)
        /\ Young(f)' = Young(f)
    BY DEF WorkersOn, Unsettled, Young
  <2>2. row'[f] = row[f] /\ faults' \in Nat
    BY <1>2 DEF IInv, TypeOK
  <2> QED BY <2>1, <2>2, Untouched
<1> QED BY <1>1, <1>2 DEF IInv

\* An event given up has no claim in force and starts with no attempt spent.
LEMMA RetryKeeps ==
    ASSUME IInv, NEW e \in Events, RetryFailedEvent(e)
    PROVE  IInv'
<1> DEFINE t == [status |-> "RECEIVED", attempts |-> 0, next |-> "due", lease |-> "none"]
<1>1. /\ row' = [row EXCEPT ![e] = t] /\ row[e].status = "FAILED"
      /\ UNCHANGED <<holding, acked, call, done, faults>>
      /\ retries' \in 0..MaxRetries
  BY DEF RetryFailedEvent, IInv, TypeOK
<1>2. t \in Row /\ t.status = "RECEIVED" /\ t.attempts = 0
  BY DEF Row, States, AttemptsBound
<1> HIDE DEF t
<1>3. row'[e] = t
  BY <1>1 DEF IInv, TypeOK
<1>4. /\ WorkersOn(e)' = WorkersOn(e) /\ Unsettled(e)' = Unsettled(e)
  BY <1>1 DEF WorkersOn, Unsettled
<1>5. ~Live(e) /\ ~Entitled(e) /\ EventOK(e)
  BY <1>1 DEF Live, Entitled, IInv
<1>6. ~Live(e)' /\ ~Entitled(e)'
  BY <1>2, <1>3 DEF Live, Entitled
<1>7. ClaimPaid(e)' /\ EffectPaid(e)'
  BY <1>1, <1>4, <1>5, <1>6 DEF EventOK, ClaimPaid, EffectPaid
<1>8. AttemptsPaid(e)'
  BY <1>2, <1>3 DEF AttemptsPaid
<1>9. faults' \in 0..MaxFaults /\ faults' >= faults
  BY <1>1 DEF IInv, TypeOK
<1> QED BY <1>1, <1>2, <1>7, <1>8, <1>9, RowStep DEF EventOK

LEMMA RetryComesDueKeeps ==
    ASSUME IInv, NEW e \in Events, RetryComesDue(e)
    PROVE  IInv'
<1> DEFINE t == [row[e] EXCEPT !.next = "due"]
<1>1. /\ row' = [row EXCEPT ![e] = t] /\ row[e] \in Row
      /\ UNCHANGED <<holding, acked, call, done, faults, retries>>
  BY DEF RetryComesDue, IInv, TypeOK
<1>2. /\ t \in Row /\ t.status = row[e].status /\ t.attempts = row[e].attempts
      /\ t.lease = row[e].lease
  BY <1>1 DEF Row
<1> HIDE DEF t
<1>3. row'[e] = t
  BY <1>1 DEF IInv, TypeOK
<1>4. /\ WorkersOn(e)' = WorkersOn(e) /\ Unsettled(e)' = Unsettled(e)
      /\ Young(e)' = Young(e)
  BY <1>1 DEF WorkersOn, Unsettled, Young
<1>5. Live(e)' = Live(e) /\ Entitled(e)' = Entitled(e) /\ Recurs(e)' = Recurs(e)
  BY <1>2, <1>3, <1>4 DEF Live, Entitled, Recurs
<1>6. EventOK(e)'
  BY <1>1, <1>2, <1>3, <1>4, <1>5
  DEF IInv, EventOK, ClaimPaid, EffectPaid, AttemptsPaid
<1>7. /\ faults' \in 0..MaxFaults /\ faults' >= faults
      /\ retries' \in 0..MaxRetries
  BY <1>1 DEF IInv, TypeOK
<1> QED BY <1>1, <1>2, <1>6, <1>7, RowStep

\* A lease ends after its worker, which cost a fault, or under it, which costs
\* one now.
LEMMA LeaseExpiresKeeps ==
    ASSUME IInv, NEW e \in Events, LeaseExpires(e)
    PROVE  IInv'
<1> DEFINE t == [row[e] EXCEPT !.lease = "expired"]
<1>1. /\ row' = [row EXCEPT ![e] = t] /\ row[e] \in Row
      /\ row[e].status = "PROCESSING" /\ row[e].lease = "live"
      /\ UNCHANGED <<holding, acked, call, done, retries>>
  BY DEF LeaseExpires, IInv, TypeOK
<1>2. /\ faults \in Nat /\ faults' \in 0..MaxFaults
      /\ IF WorkersOn(e) = {} THEN faults' = faults ELSE faults' = faults + 1
  BY FaultCounts DEF LeaseExpires, IInv, TypeOK
<1>3. /\ t \in Row /\ t.status = "PROCESSING" /\ t.attempts = row[e].attempts
      /\ t.lease = "expired"
  BY <1>1 DEF Row
<1> HIDE DEF t
<1>4. row'[e] = t
  BY <1>1 DEF IInv, TypeOK
<1>5. /\ WorkersOn(e)' = WorkersOn(e) /\ Unsettled(e)' = Unsettled(e)
      /\ Young(e)' = Young(e)
  BY <1>1 DEF WorkersOn, Unsettled, Young
<1>6. EventOK(e) /\ MaxAttempts \in Nat /\ row[e].attempts \in Nat
  BY <1>1 DEF IInv, Row
<1>7. e \notin Inline => done[e] \in Nat
  BY DEF IInv, TypeOK, EffectCap
<1>8. ~Live(e)' /\ ~Entitled(e)'
  BY <1>3, <1>4 DEF Live, Entitled
<1>9. ClaimPaid(e)'
  <2>1. WorkersOn(e) = {} => Cardinality(WorkersOn(e)) = 0
    BY FS_EmptySet
  <2> QED BY <1>2, <1>5, <1>6, <1>8, <2>1, Sizes DEF EventOK, ClaimPaid
<1>10. EffectPaid(e)'
  <2>1. WorkersOn(e) = {} => ~Entitled(e)
    BY <1>1 DEF Entitled
  <2> QED BY <1>1, <1>2, <1>5, <1>6, <1>7, <1>8, <2>1, Sizes DEF EventOK, EffectPaid
<1>11. AttemptsPaid(e)'
  <2>1. WorkersOn(e) = {} => Recurs(e)
    BY <1>1 DEF Recurs
  <2>2. row'[e].attempts = row[e].attempts /\ row'[e].status # "ABSENT"
    BY <1>3, <1>4
  <2> QED BY <1>2, <1>5, <1>6, <2>1, <2>2, Sizes DEF EventOK, AttemptsPaid
<1>12. faults' >= faults /\ retries' \in 0..MaxRetries
  BY <1>1, <1>2 DEF IInv, TypeOK
<1> QED BY <1>1, <1>2, <1>3, <1>9, <1>10, <1>11, <1>12, RowStep DEF EventOK

LEMMA CrashKeeps == IInv /\ Crash => IInv'
<1> SUFFICES ASSUME IInv, Crash PROVE IInv'
  OBVIOUS
<1>1. /\ call' = [k \in Calls |-> Idle] /\ UNCHANGED <<row, holding, acked, done, retries>>
      /\ faults \in Nat /\ faults' = faults + 1 /\ faults' \in 0..MaxFaults
  BY FaultCounts DEF Crash, IInv
<1>2. TypeOK' /\ \A k \in Calls : CallOK(call'[k])
  BY <1>1, IdleIsACall DEF IInv, TypeOK
<1>3. ASSUME NEW e \in Events PROVE EventOK(e)'
  <2>1. WorkersOn(e)' = {} /\ Unsettled(e)' = {} /\ Young(e)' = {}
    BY <1>1 DEF WorkersOn, Unsettled, Young, Idle
  <2>2. /\ Cardinality(WorkersOn(e)') = 0 /\ Cardinality(Unsettled(e)') = 0
        /\ Cardinality(Young(e)') = 0
    BY <2>1, FS_EmptySet
  <2>3. EventOK(e) /\ MaxAttempts \in Nat /\ row[e].attempts \in Nat
    BY DEF IInv, TypeOK, Row
  <2>4. e \notin Inline => done[e] \in Nat
    BY DEF IInv, TypeOK, EffectCap
  <2>5. ClaimPaid(e)'
    BY <1>1, <2>2 DEF ClaimPaid
  <2>6. EffectPaid(e)'
    BY <1>1, <2>2, <2>3, <2>4, Sizes DEF EventOK, EffectPaid
  <2>7. AttemptsPaid(e)'
    BY <1>1, <2>2, <2>3, Sizes DEF EventOK, AttemptsPaid
  <2> QED BY <2>5, <2>6, <2>7 DEF EventOK
<1> QED BY <1>2, <1>3 DEF IInv

-----------------------------------------------------------------------------
\* Every step of a request, a worker, the operator, a clock or a crash keeps the
\* invariant.
THEOREM NextIInv == IInv /\ [Next]_vars => IInv'
<1> SUFFICES ASSUME IInv, [Next]_vars PROVE IInv'
  OBVIOUS
<1>1. ASSUME NEW k \in Calls, Step(k) PROVE IInv'
  BY <1>1, EnqueueEventKeeps, EnqueueFailsKeeps, HandleInlineKeeps, ClaimKeeps,
     ClaimNothingKeeps, ProcessKeeps, SettleKeeps, SettleFailsKeeps DEF Step
<1>2. ASSUME NEW k \in Receivers, NEW e \in Events, Deliver(k, e) PROVE IInv'
  BY <1>2, DeliverKeeps
<1>3. ASSUME NEW e \in Events,
             RetryFailedEvent(e) \/ RetryComesDue(e) \/ LeaseExpires(e)
      PROVE  IInv'
  BY <1>3, RetryKeeps, RetryComesDueKeeps, LeaseExpiresKeeps
<1>4. CASE Crash
  BY <1>4, CrashKeeps
<1>5. CASE UNCHANGED vars
  <2>1. \A e \in Events : EventOK(e)'
    <3>1. /\ \A e : /\ WorkersOn(e)' = WorkersOn(e) /\ Unsettled(e)' = Unsettled(e)
                    /\ Young(e)' = Young(e)
          /\ UNCHANGED <<row, done, faults>>
      BY <1>5 DEF vars, WorkersOn, Unsettled, Young
    <3>2. faults' \in Nat /\ faults' >= faults
      BY <3>1 DEF IInv, TypeOK
    <3> QED BY <3>1, <3>2, Untouched
  <2> QED BY <1>5, <2>1 DEF vars, IInv, TypeOK
<1> QED BY <1>1, <1>2, <1>3, <1>4, <1>5 DEF Next

THEOREM AlwaysIInv == Spec => []IInv
BY InitIInv, NextIInv, PTL DEF Spec

\* Every variable keeps its type; the attempts of an event stay within the
\* bound that the schedule and the faults give them.
THEOREM TypeCorrect == Spec => []TypeOK
<1>1. IInv => TypeOK
  BY DEF IInv
<1> QED BY <1>1, AlwaysIInv, PTL

\* What the inductive invariant says of one state.
LEMMA ClaimsFollow == IInv => ClaimsExclude
BY Sizes DEF IInv, TypeOK, EventOK, ClaimPaid, ClaimsExclude

LEMMA BudgetFollows == IInv => RepetitionBudget
<1> SUFFICES ASSUME IInv, NEW e \in Events
             PROVE  /\ e \notin Inline => done[e] <= 1 + faults
                    /\ row[e].attempts <= MaxAttempts + 2 * faults
  BY DEF RepetitionBudget
<1>1. /\ EventOK(e) /\ faults \in Nat /\ row[e].attempts \in Nat
      /\ MaxAttempts \in Nat
      /\ done[e] \in Nat
  BY DEF IInv, TypeOK, Row, EffectCap
<1>2. e \notin Inline => done[e] <= 1 + faults
  BY <1>1, Sizes DEF EventOK, EffectPaid
<1>3. row[e].attempts <= MaxAttempts + 2 * faults
  BY <1>1, Sizes DEF EventOK, AttemptsPaid
<1> QED BY <1>2, <1>3

\* For any number of nudges beside the poller: two workers hold the same event
\* only at the expense of a fault.
THEOREM ClaimsAreExclusive == Spec => []ClaimsExclude
BY ClaimsFollow, AlwaysIInv, PTL

\* However many deliveries, faults and manual retries there are: an event that
\* only the queue acts on has its effect once and is attempted as often as its
\* schedule says, unless faults pay for more.
THEOREM RepetitionsArePaidFor == Spec => []RepetitionBudget
BY BudgetFollows, AlwaysIInv, PTL

\* Only an outage lets a delivery be answered that is neither stored nor acted
\* upon.
LEMMA AcknowledgedKeeps ==
    ASSUME "outage" \notin FaultKinds
    PROVE  IInv /\ AcknowledgedIsSafe /\ [Next]_vars => AcknowledgedIsSafe'
<1> SUFFICES ASSUME IInv, AcknowledgedIsSafe, [Next]_vars
             PROVE  AcknowledgedIsSafe'
  OBVIOUS
\* A step that answers nobody takes neither a row nor an effect back.
<1>1. ASSUME acked' = acked,
             \A e \in Events : row[e].status # "ABSENT" => row'[e].status # "ABSENT",
             UNCHANGED done
      PROVE  AcknowledgedIsSafe'
  BY <1>1 DEF AcknowledgedIsSafe, IInv, TypeOK
<1>2. ASSUME NEW k \in Calls, Step(k) PROVE AcknowledgedIsSafe'
  <2>1. CASE EnqueueEvent(k)
    <3>0. PICK e \in Events : e = call[k].event
      BY <2>1, AtEnqueue DEF EnqueueEvent
    <3>1. /\ acked' = acked \cup {e} /\ UNCHANGED done
          /\ \/ row' = [row EXCEPT ![e] = StoredRow(row[e])]
             \/ row' = row /\ row[e].status # "ABSENT"
          /\ row[e] \in Row
      BY <2>1, <3>0, AtEnqueue
      DEF EnqueueEvent, Acknowledge, StoredRow, IInv, TypeOK
    <3>2. /\ row'[e].status # "ABSENT"
          /\ \A f \in Events : f # e => row'[f] = row[f]
      BY <3>1, StoredFields DEF IInv, TypeOK
    <3> QED BY <3>1, <3>2 DEF AcknowledgedIsSafe, IInv, TypeOK
  <2>2. CASE EnqueueFails(k)
    BY <1>1, <2>2 DEF EnqueueFails
  <2>3. CASE EnqueueUncertain(k)
    <3>0. PICK e \in Events : e = call[k].event
      BY <2>3, AtEnqueue DEF EnqueueUncertain
    <3>1. /\ acked' = acked /\ UNCHANGED done
          /\ row' = [row EXCEPT ![e] = StoredRow(row[e])] /\ row[e] \in Row
      BY <2>3, <3>0, AtEnqueue DEF EnqueueUncertain, StoredRow, IInv, TypeOK
    <3>2. /\ row'[e].status # "ABSENT"
          /\ \A f \in Events : f # e => row'[f] = row[f]
      BY <3>1, StoredFields DEF IInv, TypeOK
    <3> QED BY <1>1, <3>1, <3>2
  <2>4. CASE HandleInline(k)
    <3>0. PICK e \in Events : e = call[k].event
      BY <2>4, AtEnqueue DEF HandleInline
    <3>1. e \in Inline /\ UNCHANGED row
      BY <2>4, <3>0 DEF HandleInline, IInv, CallOK
    <3>2. CASE TakeEffect(e) /\ Acknowledge(e)
      <4>1. /\ acked' = acked \cup {e} /\ done'[e] > 0
            /\ \A f \in Events : f # e => done'[f] = done[f]
        BY <3>2, EffectCounts DEF Acknowledge, IInv
      <4> QED BY <3>1, <4>1 DEF AcknowledgedIsSafe, IInv, TypeOK
    <3>3. CASE UNCHANGED <<done, holding, acked, faults>>
      BY <1>1, <3>1, <3>3
    <3> QED BY <2>4, <3>0, <3>2, <3>3 DEF HandleInline, Fault
  <2>5. CASE ClaimNextEvent(k)
    <3>1. PICK e \in Events :
             row' = [row EXCEPT ![e].status = "PROCESSING", ![e].lease = "live",
                                ![e].attempts = @ + 1]
      BY <2>5 DEF ClaimNextEvent
    <3>2. row[e] \in Row
      BY DEF IInv, TypeOK
    <3>3. /\ row'[e].status = "PROCESSING"
          /\ \A f \in Events : f # e => row'[f] = row[f]
      BY <3>1, <3>2 DEF IInv, TypeOK, Row
    <3> QED BY <1>1, <2>5, <3>3 DEF ClaimNextEvent
  <2>6. CASE ClaimNothing(k)
    BY <1>1, <2>6 DEF ClaimNothing
  <2>7. CASE Process(k)
    <3>0. PICK e \in Events : e = call[k].event
      BY <2>7 DEF Process, IInv, CallOK
    <3>1. UNCHANGED <<row, acked>> /\ (TakeEffect(e) \/ UNCHANGED done)
      BY <2>7, <3>0 DEF Process
    <3>2. CASE TakeEffect(e)
      <4>1. \A f \in Events : done'[f] >= done[f] /\ done[f] \in Nat /\ done'[f] \in Nat
        BY <3>2, EffectCounts DEF IInv
      <4> QED BY <3>1, <4>1 DEF AcknowledgedIsSafe, IInv, TypeOK
    <3> QED BY <1>1, <3>1, <3>2
  <2>8. CASE Settle(k) \/ SettleFails(k)
    <3>0. PICK e \in Events : e = call[k].event
      BY <2>8, AtSettle DEF Settle, SettleFails
    <3> DEFINE t == SettledRow(row[e], call[k].outcome, call[k].attempts)
    <3>1. /\ call[k].outcome \in Outcomes /\ call[k].attempts \in Nat
          /\ row[e] \in Row
      BY <2>8, <3>0, AtSettle DEF Settle, SettleFails
    <3>2. t.status # "ABSENT"
      BY <3>1, SettledFields
    <3>3. row' \in {row, [row EXCEPT ![e] = t]} /\ UNCHANGED <<acked, done>>
      BY <2>8, <3>0 DEF Settle, SettleFails
    <3> HIDE DEF t
    <3>4. row'[e] \in {row[e], t} /\ \A f \in Events : f # e => row'[f] = row[f]
      BY <3>3 DEF IInv, TypeOK
    <3> QED BY <1>1, <3>2, <3>3, <3>4
  <2> QED BY <1>2, <2>1, <2>2, <2>3, <2>4, <2>5, <2>6, <2>7, <2>8 DEF Step
<1>3. ASSUME NEW k \in Receivers, NEW e \in Events, Deliver(k, e)
      PROVE  AcknowledgedIsSafe'
  BY <1>1, <1>3 DEF Deliver
<1>4. ASSUME NEW e \in Events,
             RetryFailedEvent(e) \/ RetryComesDue(e) \/ LeaseExpires(e)
      PROVE  AcknowledgedIsSafe'
  <2>1. /\ UNCHANGED <<acked, done>> /\ row[e] \in Row
        /\ row[e].status # "ABSENT" => row'[e].status # "ABSENT"
        /\ \A f \in Events : f # e => row'[f] = row[f]
    BY <1>4 DEF RetryFailedEvent, RetryComesDue, LeaseExpires, IInv, TypeOK, Row
  <2> QED BY <1>1, <2>1
<1>5. CASE Crash
  BY <1>1, <1>5 DEF Crash
<1>6. CASE UNCHANGED vars
  BY <1>1, <1>6 DEF vars
<1> QED BY <1>2, <1>3, <1>4, <1>5, <1>6 DEF Next

\* Without a database that is down while an uninstall arrives, whatever else
\* fails or crashes, a delivery that was answered is stored or was acted upon.
THEOREM AcknowledgedStaysSafe ==
    ASSUME "outage" \notin FaultKinds
    PROVE  Spec => []AcknowledgedIsSafe
<1>1. Init => AcknowledgedIsSafe
  BY DEF Init, AcknowledgedIsSafe
<1> QED BY <1>1, AcknowledgedKeeps, AlwaysIInv, PTL DEF Spec

-----------------------------------------------------------------------------
(* The queue implements DeliveryPromise while no lease runs out under a    *)
(* worker and there is no outage: then a claim has one worker, and the row *)
(* can be settled under it only by its own write that it takes for a       *)
(* failed one.                                                             *)

Alone(e) ==
    \A k \in WorkersOn(e) :
        /\ \A j \in WorkersOn(e) : j = k
        /\ \/ Live(e)
           \/ /\ row[e].status \in {"PROCESSED", "IGNORED"}
              /\ call[k].pc = "settle" /\ call[k].outcome = "failed"

EveryoneAlone == \A e \in Events : Alone(e)

\* The workers of f, and what they are at, are not touched by the step.
Stays(f) == /\ WorkersOn(f)' = WorkersOn(f)
            /\ \A j \in WorkersOn(f) : call'[j] = call[j]

LEMMA StayAway ==
    ASSUME TypeOK, NEW k \in Calls, NEW x, Become(k, x), NEW f,
           ~Working(call[k], f), ~Working(x, f)
    PROVE  Stays(f)
<1>1. WorkersOn(f)' = WorkersOn(f) /\ k \notin WorkersOn(f)
  BY CallStep DEF WorkersOn, Working
<1> QED BY <1>1, CallStep DEF WorkersOn, Stays

LEMMA AloneStays ==
    ASSUME NEW f \in Events, Stays(f), Alone(f), row'[f].status = row[f].status,
           Live(f) /\ WorkersOn(f) # {} => Live(f)'
    PROVE  Alone(f)' /\ (Doubted(f)' <=> Doubted(f))
<1>1. Stage(row'[f]) = Stage(row[f])
  BY DEF Stage
<1> QED BY <1>1 DEF Stays, Alone, Doubted

LEMMA NobodyIsAlone ==
    ASSUME NEW f \in Events, WorkersOn(f) = {}
    PROVE  Alone(f) /\ ~Doubted(f)
BY DEF Alone, Doubted

\* A row in the queue, absent or given up has no worker but that of its claim.
LEMMA WhoseRow ==
    ASSUME NEW f \in Events, Alone(f), ~Live(f),
           row[f].status \notin {"PROCESSED", "IGNORED"}
    PROVE  WorkersOn(f) = {}
BY DEF Alone

LEMMA SameDoubts ==
    ASSUME \A e \in Events : Doubted(e)' <=> Doubted(e)
    PROVE  {e \in Events : Doubted(e)}' = {e \in Events : Doubted(e)}
OBVIOUS

LEMMA Stutter ==
    ASSUME \A e \in Events : Stage(row'[e]) = Stage(row[e]),
           \A e \in Events : Doubted(e)' <=> Doubted(e),
           UNCHANGED <<acked, Handled>>
    PROVE  UNCHANGED Promise!vars
BY DEF Promise!vars

LEMMA SameEffects == ASSUME UNCHANGED done PROVE UNCHANGED Handled
BY DEF Handled

\* The effect of an uninstall, with or without an answer.
LEMMA EffectPromised ==
    ASSUME TypeOK, NEW e \in Inline, TakeEffect(e), UNCHANGED row,
           \A f \in Events : Doubted(f)' <=> Doubted(f),
           acked' \in {acked, acked \cup {e}}
    PROVE  Promise!Handle(e)
<1>1. /\ done'[e] > 0
      /\ \A f \in Events : f # e => done'[f] = done[f]
  BY EventsAssumption, EffectCounts
<1>2. Handled' = Handled \cup {e}
  BY <1>1, EventsAssumption DEF Handled
<1> QED BY <1>2, SameDoubts DEF Promise!Handle

\* The effect of any other event is the queue's own business.
LEMMA EffectUnseen ==
    ASSUME TypeOK, NEW e \in Events \ Inline, TakeEffect(e)
    PROVE  UNCHANGED Handled
<1>1. \A f \in Inline : done'[f] = done[f]
  BY EventsAssumption, EffectCounts
<1> QED BY <1>1 DEF Handled

\* A step that moves the stage of one event.
LEMMA OneStage ==
    ASSUME TypeOK, NEW e \in Events, NEW t,
           row' = [row EXCEPT ![e] = t]
    PROVE  [f \in Events |-> Stage(row[f])]'
              = [[f \in Events |-> Stage(row[f])] EXCEPT ![e] = Stage(t)]
<1>1. row'[e] = t /\ \A f \in Events : f # e => row'[f] = row[f]
  BY DEF TypeOK
<1>2. \A f \in Events : Stage(row'[f]) = IF f = e THEN Stage(t) ELSE Stage(row[f])
  BY <1>1
<1> QED BY <1>2

\* A delivery request accepts an absent event, answers for one that is here, or
\* does nothing the promise sees.
LEMMA RequestPromised ==
    ASSUME IInv, EveryoneAlone, NEW e \in Events,
           \A f \in Events : Stays(f),
           \/ row' = row
           \/ row[e].status = "ABSENT" /\ row' = [row EXCEPT ![e] = StoredRow(row[e])],
           acked' \in {acked, acked \cup {e}}, UNCHANGED done,
           acked' # acked => row'[e].status # "ABSENT"
    PROVE  EveryoneAlone' /\ [Promise!Next]_(Promise!vars)
<1>0. UNCHANGED Handled
  BY SameEffects
<1>1. CASE row' = row
  <2>1. \A f \in Events : Alone(f)' /\ (Doubted(f)' <=> Doubted(f))
    <3>1. \A f \in Events : Live(f)' = Live(f) /\ row'[f].status = row[f].status
      BY <1>1 DEF Live
    <3> QED BY <3>1, AloneStays DEF EveryoneAlone
  <2>2. CASE acked' = acked
    BY <1>0, <1>1, <2>1, <2>2, Stutter DEF EveryoneAlone
  <2>3. CASE acked' # acked
    <3>1. Stage(row[e]) # "sender"
      BY <1>1, <2>3 DEF Stage
    <3>2. Promise!Answer(e)
      BY <1>0, <1>1, <2>1, <2>3, <3>1, SameDoubts DEF Promise!Answer
    <3> QED BY <2>1, <3>2 DEF EveryoneAlone, Promise!Next
  <2> QED BY <2>2, <2>3
<1>2. CASE row[e].status = "ABSENT" /\ row' = [row EXCEPT ![e] = StoredRow(row[e])]
  <2>1. /\ row[e] \in Row /\ row'[e].status = "RECEIVED"
        /\ StoredRow(row[e]).status = "RECEIVED"
        /\ \A f \in Events : f # e => row'[f] = row[f]
    BY <1>2, StoredFields DEF IInv, TypeOK
  <2>2. WorkersOn(e) = {} /\ WorkersOn(e)' = {}
    BY <1>2, WhoseRow DEF EveryoneAlone, Live, Stays
  <2>3. ASSUME NEW f \in Events PROVE Alone(f)' /\ (Doubted(f)' <=> Doubted(f))
    <3>1. CASE f = e
      BY <2>2, <3>1 DEF Alone, Doubted
    <3>2. CASE f # e
      BY <2>1, <3>2, AloneStays DEF EveryoneAlone, Live
    <3> QED BY <3>1, <3>2
  <2>4. Stage(row[e]) = "sender" /\ Stage(StoredRow(row[e])) = "queued"
    BY <1>2, <2>1 DEF Stage
  <2>5. Promise!Accept(e)
    BY <1>0, <1>2, <2>3, <2>4, OneStage, SameDoubts DEF Promise!Accept, IInv
  <2> QED BY <2>3, <2>5 DEF EveryoneAlone, Promise!Next
<1> QED BY <1>1, <1>2

LEMMA DeliveryPromised ==
    ASSUME IInv, EveryoneAlone, "outage" \notin FaultKinds, NEW k \in Calls,
           \/ EnqueueEvent(k) \/ EnqueueFails(k) \/ EnqueueUncertain(k)
           \/ HandleInline(k)
    PROVE  EveryoneAlone' /\ [Promise!Next]_(Promise!vars)
<1>0. /\ call[k].pc \in {"enqueue", "inline"}
      /\ call[k].pc = "inline" => HandleInline(k)
  BY DEF EnqueueEvent, EnqueueFails, EnqueueUncertain, HandleInline
<1>1. PICK e \in Events : e = call[k].event
  BY <1>0, AtEnqueue
<1>2. row[e] \in Row /\ \A f : ~Working(call[k], f)
  BY <1>0, <1>1, AtEnqueue
<1>3. PICK x : Become(k, x) /\ \A f : ~Working(x, f)
  <2>1. CASE HandleInline(k)
    BY <2>1, IdleIsACall DEF HandleInline, Finish
  <2>2. CASE ~HandleInline(k)
    <3>1. call[k].pc = "enqueue"
      BY <1>0, <2>2
    <3>2. \/ Become(k, [Idle EXCEPT !.pc = "claim"])
          \/ e \in Inline /\ Become(k, [call[k] EXCEPT !.pc = "inline"])
          \/ Become(k, Idle)
      BY <1>1, <2>2 DEF EnqueueEvent, EnqueueFails, EnqueueUncertain, Finish
    <3> QED BY <1>1, <3>1, <3>2, RequestTurns, IdleIsACall
  <2> QED BY <2>1, <2>2
<1>4. \A f \in Events : Stays(f)
  BY <1>2, <1>3, StayAway DEF IInv
<1>5. CASE /\ e \in Inline /\ TakeEffect(e) /\ UNCHANGED row
           /\ acked' = acked \cup {e}
  <2>1. \A f \in Events : Live(f)' = Live(f) /\ row'[f].status = row[f].status
    BY <1>5 DEF Live
  <2>2. \A f \in Events : Alone(f)' /\ (Doubted(f)' <=> Doubted(f))
    BY <1>4, <2>1, AloneStays DEF EveryoneAlone
  <2>3. Promise!Handle(e)
    BY <1>5, <2>2, EffectPromised DEF IInv
  <2> QED BY <2>2, <2>3 DEF EveryoneAlone, Promise!Next
<1>6. CASE ~(/\ e \in Inline /\ TakeEffect(e) /\ UNCHANGED row
             /\ acked' = acked \cup {e})
  <2>1. /\ acked' \in {acked, acked \cup {e}} /\ UNCHANGED done
        /\ \/ row' = row
           \/ row[e].status = "ABSENT" /\ row' = [row EXCEPT ![e] = StoredRow(row[e])]
        /\ acked' # acked => \/ row[e].status # "ABSENT"
                             \/ row' = [row EXCEPT ![e] = StoredRow(row[e])]
    <3>1. CASE EnqueueEvent(k)
      BY <1>1, <1>2, <3>1 DEF EnqueueEvent, Acknowledge, StoredRow, IInv, TypeOK
    <3>2. CASE EnqueueFails(k)
      BY <1>1, <3>2 DEF EnqueueFails
    <3>3. CASE EnqueueUncertain(k)
      BY <1>1, <1>2, <3>3 DEF EnqueueUncertain, StoredRow, IInv, TypeOK
    <3>4. CASE HandleInline(k)
      <4>1. e \in Inline /\ UNCHANGED row
        BY <1>1, <3>4 DEF HandleInline, IInv, CallOK
      <4>2. ~Fault("outage")
        BY DEF Fault
      <4>3. \/ TakeEffect(e) /\ Acknowledge(e)
            \/ UNCHANGED <<done, holding, acked, faults>>
        BY <1>1, <3>4, <4>2 DEF HandleInline
      <4> QED BY <1>6, <4>1, <4>3 DEF Acknowledge
    <3> QED BY <3>1, <3>2, <3>3, <3>4
  <2>2. acked' # acked => row'[e].status # "ABSENT"
    <3>1. row' = [row EXCEPT ![e] = StoredRow(row[e])] => row'[e].status = "RECEIVED"
      BY <1>2, StoredFields DEF IInv, TypeOK
    <3> QED BY <2>1, <3>1
  <2> QED BY <1>4, <2>1, <2>2, RequestPromised
<1> QED BY <1>5, <1>6

\* Claims and processing are out of the promise's sight; what is claimed has no
\* worker.
LEMMA ClaimPromised ==
    ASSUME IInv, EveryoneAlone, NEW k \in Calls, ClaimNextEvent(k)
    PROVE  EveryoneAlone' /\ UNCHANGED Promise!vars
<1>1. PICK e \in Events :
         /\ Claimable(e)
         /\ row' = [row EXCEPT ![e].status = "PROCESSING", ![e].lease = "live",
                               ![e].attempts = @ + 1]
         /\ Become(k, [Idle EXCEPT !.pc = "process", !.event = e,
                                   !.attempts = row[e].attempts + 1])
  BY DEF ClaimNextEvent
<1> DEFINE x == [Idle EXCEPT !.pc = "process", !.event = e,
                             !.attempts = row[e].attempts + 1]
<1>2. /\ call[k].pc \in {"idle", "claim"} /\ row[e] \in Row
      /\ UNCHANGED <<acked, Handled>>
  BY <1>1, SameEffects DEF ClaimNextEvent, IInv, TypeOK
<1>3. x.pc = "process" /\ x.event = e
  BY DEF Idle
<1>4. Become(k, x)
  BY <1>1
<1> HIDE DEF x
<1>5. /\ row'[e].status = "PROCESSING" /\ row'[e].lease = "live"
      /\ \A f \in Events : f # e => row'[f] = row[f]
  BY <1>1, <1>2 DEF IInv, TypeOK, Row
<1>6. /\ row[e].status \in {"RECEIVED", "PROCESSING"} /\ WorkersOn(e) = {}
  BY <1>1, WhoseRow DEF Claimable, Live, EveryoneAlone
<1>7. WorkersOn(e)' = {k}
  BY <1>3, <1>4, <1>6, CallStep DEF WorkersOn, IInv
<1>8. ASSUME NEW f \in Events, f # e PROVE Alone(f)' /\ (Doubted(f)' <=> Doubted(f))
  <2>1. Stays(f)
    BY <1>2, <1>3, <1>4, <1>8, StayAway DEF Working, IInv
  <2> QED BY <1>5, <1>8, <2>1, AloneStays DEF EveryoneAlone, Live
<1>9. Alone(e)' /\ ~Doubted(e) /\ ~Doubted(e)'
  BY <1>5, <1>6, <1>7 DEF Alone, Live, Doubted, Stage
<1>10. \A f \in Events : Stage(row'[f]) = Stage(row[f])
  BY <1>5, <1>6 DEF Stage
<1>11. \A f \in Events : Alone(f)' /\ (Doubted(f)' <=> Doubted(f))
  BY <1>8, <1>9
<1> QED BY <1>2, <1>10, <1>11, Stutter DEF EveryoneAlone

\* Processing an uninstall is dealing with it; of any other event it is out of
\* the promise's sight.
LEMMA ProcessPromised ==
    ASSUME IInv, EveryoneAlone, NEW k \in Calls, Process(k)
    PROVE  EveryoneAlone' /\ [Promise!Next]_(Promise!vars)
<1>0. PICK e \in Events : e = call[k].event
  BY DEF Process, IInv, CallOK
<1>1. PICK outcome \in Outcomes :
         Become(k, [call[k] EXCEPT !.pc = "settle", !.outcome = outcome])
  BY DEF Process
<1> DEFINE x == [call[k] EXCEPT !.pc = "settle", !.outcome = outcome]
<1>2. /\ call[k].pc = "process" /\ call[k] \in CallState
      /\ UNCHANGED <<row, acked>>
  BY DEF Process, IInv, TypeOK
<1>3. x.event = e /\ x.pc = "settle"
  BY <1>0, <1>2 DEF CallState
<1>4. Become(k, x)
  BY <1>1
<1> HIDE DEF x
<1>5. /\ k \in WorkersOn(e) /\ WorkersOn(e)' = WorkersOn(e)
  BY <1>0, <1>2, <1>3, <1>4, CallStep DEF WorkersOn, IInv
<1>6. Live(e) /\ \A j \in WorkersOn(e) : j = k
  BY <1>2, <1>5 DEF EveryoneAlone, Alone
<1>7. Alone(e)' /\ ~Doubted(e) /\ ~Doubted(e)'
  BY <1>2, <1>5, <1>6 DEF Alone, Live, Doubted, Stage
<1>8. ASSUME NEW f \in Events, f # e PROVE Alone(f)' /\ (Doubted(f)' <=> Doubted(f))
  <2>1. Stays(f)
    BY <1>0, <1>3, <1>4, <1>8, StayAway DEF Working, IInv
  <2> QED BY <1>2, <2>1, AloneStays DEF EveryoneAlone, Live
<1>9. \A f \in Events : Alone(f)' /\ (Doubted(f)' <=> Doubted(f))
  BY <1>7, <1>8
<1>10. \A f \in Events : Stage(row'[f]) = Stage(row[f])
  BY <1>2
<1>11. TakeEffect(e) \/ UNCHANGED done
  BY <1>0 DEF Process
<1>12. CASE e \in Inline /\ TakeEffect(e)
  <2>1. Promise!Handle(e)
    BY <1>2, <1>9, <1>12, EffectPromised DEF IInv
  <2> QED BY <1>9, <2>1 DEF EveryoneAlone, Promise!Next
<1>13. CASE ~(e \in Inline /\ TakeEffect(e))
  <2>1. UNCHANGED Handled
    BY <1>11, <1>13, EffectUnseen, SameEffects DEF IInv
  <2> QED BY <1>2, <1>9, <1>10, <2>1, Stutter DEF EveryoneAlone
<1> QED BY <1>12, <1>13

\* A settlement finishes the event; it recants it when its worker was told that
\* the first write failed though it had not.
LEMMA SettlePromised ==
    ASSUME IInv, EveryoneAlone, NEW k \in Calls, Settle(k) \/ SettleFails(k)
    PROVE  EveryoneAlone' /\ [Promise!Next]_(Promise!vars)
<1>0. PICK e \in Events : e = call[k].event
  BY AtSettle DEF Settle, SettleFails
<1> DEFINE t == SettledRow(row[e], call[k].outcome, call[k].attempts)
           x == [call[k] EXCEPT !.outcome = "failed"]
<1>1. /\ call[k] \in CallState /\ call[k].outcome \in Outcomes
      /\ call[k].attempts \in Nat /\ Working(call[k], e)
      /\ row[e] \in Row /\ call[k].pc = "settle"
  BY <1>0, AtSettle DEF Settle, SettleFails
<1>2. /\ call[k].outcome # "failed" => t.status \in {"PROCESSED", "IGNORED"}
      /\ call[k].outcome = "failed" => t.status \in {"FAILED", "RECEIVED"}
  BY <1>1, SettledFields
<1>3. k \in WorkersOn(e) /\ \A j \in WorkersOn(e) : j = k
  BY <1>0, <1>1 DEF WorkersOn, Working, EveryoneAlone, Alone
<1>4. /\ Live(e) \/ row[e].status \in {"PROCESSED", "IGNORED"}
      /\ call[k].outcome # "failed" => Live(e)
  BY <1>3 DEF EveryoneAlone, Alone
<1>5. /\ Doubted(e) <=> /\ call[k].outcome = "failed"
                        /\ row[e].status \in {"PROCESSED", "IGNORED"}
  BY <1>1, <1>3, <1>4 DEF Doubted, Stage, Live
<1>6. row[e] # t
  BY <1>2, <1>4 DEF Live
<1>7. /\ row' \in {row, [row EXCEPT ![e] = t]} /\ UNCHANGED <<acked, Handled>>
      /\ \/ Become(k, Idle) /\ (call[k].outcome = "failed" \/ row' # row)
         \/ call[k].outcome # "failed" /\ Become(k, x)
  <2>1. [row EXCEPT ![e] = t] # row
    BY <1>6 DEF IInv, TypeOK
  <2>2. UNCHANGED Handled
    BY SameEffects DEF Settle, SettleFails
  <2> QED BY <1>0, <2>1, <2>2 DEF Settle, SettleFails, Finish
<1>8. x.event = e /\ x.pc = "settle" /\ x.outcome = "failed"
  BY <1>0, <1>1 DEF CallState
<1> HIDE DEF t, x
<1>9. ASSUME NEW f \in Events, f # e PROVE Alone(f)' /\ (Doubted(f)' <=> Doubted(f))
  <2>1. Stays(f)
    BY <1>0, <1>7, <1>8, <1>9, StayAway, IdleIsACall DEF Working, IInv
  <2>2. row'[f] = row[f]
    BY <1>7, <1>9 DEF IInv, TypeOK
  <2> QED BY <2>1, <2>2, AloneStays DEF EveryoneAlone, Live
<1>10. Become(k, Idle) => WorkersOn(e)' = {}
  BY <1>1, <1>3, WorkerLeaves DEF IInv
<1>11. ASSUME Become(k, x)
       PROVE  WorkersOn(e)' = {k} /\ call'[k] = x
  BY <1>3, <1>8, <1>11, CallStep DEF WorkersOn, IInv
<1>12. CASE row' = row
  <2>1. CASE Become(k, Idle)
    <3>1. Alone(e)' /\ ~Doubted(e)'
      BY <1>10, <2>1 DEF Alone, Doubted
    <3>2. \A f \in Events : Alone(f)' /\ (Doubted(f)' => Doubted(f))
      BY <1>9, <3>1
    <3>3. Promise!Desert
      BY <1>7, <1>12, <3>2 DEF Promise!Desert
    <3> QED BY <3>2, <3>3 DEF EveryoneAlone, Promise!Next
  <2>2. CASE call[k].outcome # "failed" /\ Become(k, x)
    <3>1. Live(e)' /\ ~Doubted(e) /\ ~Doubted(e)'
      BY <1>4, <1>5, <1>12, <2>2 DEF Live, Doubted, Stage
    <3>2. Alone(e)'
      BY <1>11, <2>2, <3>1 DEF Alone
    <3>3. \A f \in Events : Alone(f)' /\ (Doubted(f)' <=> Doubted(f))
      BY <1>9, <3>1, <3>2
    <3> QED BY <1>7, <1>12, <3>3, Stutter DEF EveryoneAlone
  <2> QED BY <1>7, <2>1, <2>2
<1>13. CASE row' = [row EXCEPT ![e] = t]
  <2>1. /\ [f \in Events |-> Stage(row[f])]'
               = [[f \in Events |-> Stage(row[f])] EXCEPT ![e] = Stage(t)]
        /\ row'[e] = t
    BY <1>13, OneStage DEF IInv, TypeOK
  <2>2. CASE call[k].outcome # "failed"
    <3>1. Stage(row[e]) = "queued" /\ Stage(t) = "settled" /\ ~Doubted(e)
      BY <1>2, <1>4, <1>5, <2>2 DEF Stage, Live
    <3>2. Alone(e)'
      <4>1. CASE Become(k, Idle)
        BY <1>10, <4>1 DEF Alone
      <4>2. CASE Become(k, x)
        BY <1>2, <1>8, <1>11, <2>1, <2>2, <4>2 DEF Alone
      <4> QED BY <1>7, <4>1, <4>2
    <3>3. {f \in Events : Doubted(f)}' \in
              {{f \in Events : Doubted(f)}, {f \in Events : Doubted(f)} \cup {e}}
      BY <1>9, <3>1
    <3>4. Promise!Finish(e, "settled")
      BY <1>7, <2>1, <3>1, <3>3 DEF Promise!Finish
    <3> QED BY <1>9, <3>2, <3>4 DEF EveryoneAlone, Promise!Next
  <2>3. CASE call[k].outcome = "failed"
    <3>1. Stage(t) \in {"queued", "given up"}
      BY <1>2, <2>3 DEF Stage
    <3>2. Alone(e)' /\ ~Doubted(e)'
      BY <1>7, <1>10, <2>3 DEF Alone, Doubted
    <3>3. {f \in Events : Doubted(f)}' = {f \in Events : Doubted(f)} \ {e}
      BY <1>9, <3>2
    <3>4. EveryoneAlone'
      BY <1>9, <3>2 DEF EveryoneAlone
    <3>5. CASE Doubted(e)
      <4>1. Promise!Recant(e)
        BY <1>7, <2>1, <3>1, <3>3, <3>5 DEF Promise!Recant
      <4> QED BY <3>4, <4>1 DEF Promise!Next
    <3>6. CASE ~Doubted(e)
      <4>1. Stage(row[e]) = "queued" /\ UNCHANGED {f \in Events : Doubted(f)}
        BY <1>4, <1>5, <2>3, <3>3, <3>6 DEF Stage, Live
      <4>2. CASE Stage(t) = "given up"
        <5>1. Promise!Finish(e, "given up")
          BY <1>7, <2>1, <4>1, <4>2 DEF Promise!Finish
        <5> QED BY <3>4, <5>1 DEF Promise!Next
      <4>3. CASE Stage(t) = "queued"
        <5>1. \A f \in Events : f # e => row'[f] = row[f]
          BY <1>13 DEF IInv, TypeOK
        <5>2. \A f \in Events : Stage(row'[f]) = Stage(row[f])
          BY <2>1, <4>1, <4>3, <5>1
        <5>3. \A f \in Events : Doubted(f)' <=> Doubted(f)
          BY <1>9, <3>2, <3>6
        <5> QED BY <1>7, <3>4, <5>2, <5>3, Stutter
      <4> QED BY <3>1, <4>2, <4>3
    <3> QED BY <3>5, <3>6
  <2> QED BY <2>2, <2>3
<1> QED BY <1>7, <1>12, <1>13

\* The operator reopens what was given up; clocks are out of the promise's
\* sight, as a lease ends only after its worker.
LEMMA OtherPromised ==
    ASSUME IInv, EveryoneAlone, "overrun" \notin FaultKinds, NEW e \in Events,
           RetryFailedEvent(e) \/ RetryComesDue(e) \/ LeaseExpires(e)
    PROVE  EveryoneAlone' /\ [Promise!Next]_(Promise!vars)
<1>1. /\ UNCHANGED <<acked, call, Handled>> /\ row[e] \in Row
      /\ \A f \in Events : f # e => row'[f] = row[f]
  BY SameEffects DEF RetryFailedEvent, RetryComesDue, LeaseExpires, IInv, TypeOK
<1>2. \A f \in Events : Stays(f)
  BY <1>1 DEF Stays, WorkersOn
<1>3. ASSUME NEW f \in Events, f # e PROVE Alone(f)' /\ (Doubted(f)' <=> Doubted(f))
  BY <1>1, <1>2, <1>3, AloneStays DEF EveryoneAlone, Live
<1>4. CASE RetryFailedEvent(e)
  <2> DEFINE t == [status |-> "RECEIVED", attempts |-> 0, next |-> "due", lease |-> "none"]
  <2>1. row' = [row EXCEPT ![e] = t] /\ row[e].status = "FAILED"
    BY <1>4 DEF RetryFailedEvent
  <2>2. t.status = "RECEIVED"
    OBVIOUS
  <2> HIDE DEF t
  <2>3. WorkersOn(e) = {} /\ WorkersOn(e)' = {}
    BY <1>2, <2>1, WhoseRow DEF EveryoneAlone, Live, Stays
  <2>4. Alone(e)' /\ ~Doubted(e) /\ ~Doubted(e)'
    BY <2>3 DEF Alone, Doubted
  <2>5. \A f \in Events : Alone(f)' /\ (Doubted(f)' <=> Doubted(f))
    BY <1>3, <2>4
  <2>6. Stage(row[e]) = "given up" /\ Stage(t) = "queued"
    BY <2>1, <2>2 DEF Stage
  <2>7. Promise!Reopen(e)
    <3>1. [f \in Events |-> Stage(row[f])]'
             = [[f \in Events |-> Stage(row[f])] EXCEPT ![e] = "queued"]
      BY <2>1, <2>6, OneStage DEF IInv
    <3>2. {f \in Events : Doubted(f)}' = {f \in Events : Doubted(f)}
      BY <2>5, SameDoubts
    <3> QED BY <1>1, <2>6, <3>1, <3>2 DEF Promise!Reopen
  <2> QED BY <2>5, <2>7 DEF EveryoneAlone, Promise!Next
<1>5. CASE RetryComesDue(e) \/ LeaseExpires(e)
  <2>1. /\ row'[e].status = row[e].status
        /\ Live(e) => Live(e)' \/ WorkersOn(e) = {}
    BY <1>1, <1>5 DEF RetryComesDue, LeaseExpires, Fault, Live, IInv, TypeOK, Row
  <2>2. Alone(e)' /\ (Doubted(e)' <=> Doubted(e))
    BY <1>2, <2>1, AloneStays DEF EveryoneAlone
  <2>3. \A f \in Events : Alone(f)' /\ (Doubted(f)' <=> Doubted(f))
    BY <1>3, <2>2
  <2>4. \A f \in Events : Stage(row'[f]) = Stage(row[f])
    BY <1>1, <2>1 DEF Stage
  <2> QED BY <1>1, <2>3, <2>4, Stutter DEF EveryoneAlone
<1> QED BY <1>4, <1>5

\* The intake implements the promise, in spite of crashes, lost answers and
\* failing writes, as long as no lease runs out under its worker and no uninstall
\* arrives while the database is down: the initial states and every step are
\* those of the promise.
THEOREM ImplementsPromise ==
    ASSUME "overrun" \notin FaultKinds, "outage" \notin FaultKinds
    PROVE  Spec => KeepsPromise
<1>1. Init => EveryoneAlone /\ Promise!Init
  <2> SUFFICES ASSUME Init PROVE EveryoneAlone /\ Promise!Init
    OBVIOUS
  <2>1. \A e \in Events : Stage(row[e]) = "sender"
    BY DEF Init, Stage, NoRow
  <2>2. \A e \in Events : WorkersOn(e) = {}
    BY DEF Init, WorkersOn, Idle
  <2>3. \A e \in Events : Alone(e) /\ ~Doubted(e)
    BY <2>2, NobodyIsAlone
  <2>4. Handled = {}
    BY EventsAssumption DEF Init, Handled
  <2> QED BY <2>1, <2>3, <2>4 DEF Init, Promise!Init, EveryoneAlone
<1>2. IInv /\ EveryoneAlone /\ [Next]_vars =>
          EveryoneAlone' /\ [Promise!Next]_(Promise!vars)
  <2> SUFFICES ASSUME IInv, EveryoneAlone, [Next]_vars
               PROVE  EveryoneAlone' /\ [Promise!Next]_(Promise!vars)
    OBVIOUS
  <2>1. ASSUME NEW k \in Calls, Step(k)
        PROVE  EveryoneAlone' /\ [Promise!Next]_(Promise!vars)
    <3>1. CASE ClaimNothing(k)
      <4>1. /\ Become(k, Idle) /\ call[k].pc = "claim"
            /\ UNCHANGED <<row, acked, Handled>>
        BY <3>1, SameEffects DEF ClaimNothing, Finish
      <4>2. \A f \in Events : Stays(f)
        BY <4>1, StayAway, NotAtWork, IdleIsACall DEF IInv, TypeOK
      <4>3. \A f \in Events : Alone(f)' /\ (Doubted(f)' <=> Doubted(f))
        BY <4>1, <4>2, AloneStays DEF EveryoneAlone, Live
      <4> QED BY <4>1, <4>3, Stutter DEF EveryoneAlone
    <3> QED BY <2>1, <3>1, DeliveryPromised, ClaimPromised, ProcessPromised,
               SettlePromised DEF Step
  <2>2. ASSUME NEW k \in Receivers, NEW e \in Events, Deliver(k, e)
        PROVE  EveryoneAlone' /\ [Promise!Next]_(Promise!vars)
    <3> DEFINE x == [Idle EXCEPT !.pc = "enqueue", !.event = e]
    <3>1. /\ k \in Calls /\ Become(k, x) /\ call[k] \in CallState
          /\ call[k].pc = "idle" /\ UNCHANGED <<row, acked, Handled>>
      BY <2>2, SameEffects DEF Deliver, Calls, IInv, TypeOK
    <3>2. x.pc = "enqueue"
      BY DEF Idle
    <3> HIDE DEF x
    <3>3. \A f \in Events : Stays(f)
      BY <3>1, <3>2, StayAway DEF Working, IInv
    <3>4. \A f \in Events : Alone(f)' /\ (Doubted(f)' <=> Doubted(f))
      BY <3>1, <3>3, AloneStays DEF EveryoneAlone, Live
    <3> QED BY <3>1, <3>4, Stutter DEF EveryoneAlone
  <2>3. ASSUME NEW e \in Events,
               RetryFailedEvent(e) \/ RetryComesDue(e) \/ LeaseExpires(e)
        PROVE  EveryoneAlone' /\ [Promise!Next]_(Promise!vars)
    BY <2>3, OtherPromised
  <2>4. CASE Crash
    <3>1. /\ \A f \in Events : WorkersOn(f)' = {}
          /\ UNCHANGED <<row, acked, Handled>>
      BY <2>4, SameEffects DEF Crash, WorkersOn, Idle
    <3>2. \A f \in Events : Alone(f)' /\ ~Doubted(f)'
      BY <3>1 DEF Alone, Doubted
    <3>3. Promise!Desert
      BY <3>1, <3>2 DEF Promise!Desert
    <3> QED BY <3>2, <3>3 DEF EveryoneAlone, Promise!Next
  <2>5. CASE UNCHANGED vars
    <3>1. /\ \A f \in Events : Stays(f)
          /\ UNCHANGED <<row, acked, Handled>>
      BY <2>5, SameEffects DEF vars, Stays, WorkersOn
    <3>2. \A f \in Events : Alone(f)' /\ (Doubted(f)' <=> Doubted(f))
      BY <3>1, AloneStays DEF EveryoneAlone, Live
    <3> QED BY <3>1, <3>2, Stutter DEF EveryoneAlone
  <2> QED BY <2>1, <2>2, <2>3, <2>4, <2>5 DEF Next
<1> QED BY <1>1, <1>2, AlwaysIInv, PTL DEF Spec, KeepsPromise, Promise!Spec

=============================================================================
