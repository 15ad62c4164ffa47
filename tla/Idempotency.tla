------------------------------ MODULE Idempotency ------------------------------
(***************************************************************************)
(* The idempotency gate of common/idempotency.ts, for one key of one       *)
(* operation: the requests that carry the key, the record in Mongo that    *)
(* decides which of them runs the handler, and the clients' retries.       *)
(*                                                                         *)
(* A handler is what it does to the outside world, whether it had its      *)
(* effect, and the class of its answer.  An effect is anything the route   *)
(* writes: a product, a stock level, a pushed draft.                       *)
(***************************************************************************)
EXTENDS Integers, FiniteSets

CONSTANTS
    Requests,       \* slots for requests that carry the key
    Bodies,         \* what they may ask for, as requestHash tells apart
    MaxRuns,        \* bound on handler runs
    MaxMishaps,     \* bound on what goes wrong in the process or in Mongo
    None

ASSUME RequestsAssumption == IsFiniteSet(Requests)
ASSUME NoneAssumption == None \notin Bodies \cup {"ok", "invalid", "error"}
ASSUME BoundsAssumption == MaxRuns \in Nat /\ MaxMishaps \in Nat

VARIABLES
    record,     \* the row of idempotency_keys, or None
    request,    \* the requests in progress
    replays,    \* what was answered from the record
    runs,       \* requests let through to the handler
    effects,    \* effects the runs had
    excuses,    \* runs the gate let through although it may have run before
    mishaps     \* crashes, failed writes and lost answers

vars == <<record, request, replays, runs, effects, excuses, mishaps>>

-----------------------------------------------------------------------------
Answers == {"ok", "invalid", "error"}       \* 2xx, 4xx, and 5xx or 429

Record ==
    [status: {"IN_PROGRESS", "COMPLETED"}, body: Bodies,
     response: Answers \cup {None}, about: Bodies \cup {None}]

ASSUME RecordAssumption == None \notin Record

RequestState ==
    [pc: {"idle", "claim", "look",
          "run", "finalise",                \* with the key claimed
          "unclaimed"},                     \* the handler runs without
     body: Bodies \cup {None},
     response: Answers \cup {None}]

Idle == [pc |-> "idle", body |-> None, response |-> None]

Replay == [asked: Bodies, about: Bodies, response: Answers]

TypeOK ==
    /\ record \in Record \cup {None}
    /\ request \in [Requests -> RequestState]
    /\ replays \subseteq Replay
    /\ runs \in 0..MaxRuns /\ effects \in 0..MaxRuns
    /\ excuses \in Nat /\ mishaps \in 0..MaxMishaps

Init ==
    /\ record = None
    /\ request = [r \in Requests |-> Idle]
    /\ replays = {}
    /\ runs = 0 /\ effects = 0 /\ excuses = 0 /\ mishaps = 0

At(r, pc) == request[r].pc = pc
Become(r, x) == request' = [request EXCEPT ![r] = x]
Goto(r, pc) == Become(r, [request[r] EXCEPT !.pc = pc])
Finish(r) == Become(r, Idle)

Claimants == {r \in Requests : request[r].pc \in {"run", "finalise"}}

LetThrough == runs < MaxRuns /\ runs' = runs + 1

Mishap == mishaps < MaxMishaps /\ mishaps' = mishaps + 1

-----------------------------------------------------------------------------
(* Claiming the key                                                        *)

\* The unique-index insert: it succeeds only where there is no record.
InProgress(body) ==
    [status |-> "IN_PROGRESS", body |-> body, response |-> None, about |-> None]

Arrive(r, body) ==
    /\ At(r, "idle")
    /\ Become(r, [Idle EXCEPT !.pc = "claim", !.body = body])
    /\ UNCHANGED <<record, replays, runs, effects, excuses, mishaps>>

Claim(r) ==
    /\ At(r, "claim")
    /\ IF record = None
       THEN /\ record' = InProgress(request[r].body)
            /\ Goto(r, "run")
            /\ LetThrough
       ELSE Goto(r, "look") /\ UNCHANGED <<record, runs>>
    /\ UNCHANGED <<replays, effects, excuses, mishaps>>

\* The insert fails with something else than a duplicate, carried out or not:
\* the request is refused and the key, if it is there, stays claimed.
ClaimFails(r) ==
    /\ At(r, "claim")
    /\ Mishap
    /\ record' \in {record, IF record = None THEN InProgress(request[r].body) ELSE record}
    /\ Finish(r)
    /\ UNCHANGED <<replays, runs, effects, excuses>>

\* Mutant: another body's answer is good enough.
ConflictsNever(r) == FALSE

\* The key was used for a different request.
Conflicts(r) == record.body # request[r].body

\* Mutant: a claim in progress is taken for a completed one.
LookIgnoresProgress(r) ==
    /\ At(r, "look")
    /\ Goto(r, "unclaimed")
    /\ LetThrough
    /\ excuses' = IF record = None THEN excuses + 1 ELSE excuses
    /\ UNCHANGED <<record, replays, effects, mishaps>>

\* The duplicate's read: a record that is gone lets the request through
\* without a claim, another body or a claim in progress is refused, and a
\* completed record is replayed.
Look(r) ==
    /\ At(r, "look")
    /\ IF record = None
       THEN /\ Goto(r, "unclaimed")
            /\ LetThrough
            /\ excuses' = excuses + 1
            /\ UNCHANGED replays
       ELSE /\ Finish(r)
            /\ replays' = IF Conflicts(r) \/ record.status = "IN_PROGRESS"
                          THEN replays
                          ELSE replays \cup
                                 {[asked |-> request[r].body, about |-> record.about,
                                   response |-> record.response]}
            /\ UNCHANGED <<runs, excuses>>
    /\ UNCHANGED <<record, effects, mishaps>>

-----------------------------------------------------------------------------
(* The handler and the record of its answer                                *)

\* The handler runs and answers; res.json captures the answer.  A failure may
\* come after the effect: the gate lets the retry run again.
RunHandler(r) ==
    /\ request[r].pc \in {"run", "unclaimed"}
    /\ \E response \in Answers, effective \in BOOLEAN :
          /\ response = "ok" => effective
          /\ response = "invalid" => ~effective
          /\ effects' = effects + IF effective THEN 1 ELSE 0
          /\ excuses' = excuses + IF effective /\ response = "error" THEN 1 ELSE 0
          /\ Become(r, IF At(r, "run")
                       THEN [request[r] EXCEPT !.pc = "finalise", !.response = response]
                       ELSE Idle)
    /\ UNCHANGED <<record, replays, runs, mishaps>>

ShouldRelease(r) == request[r].response = "error"

Completed(r) ==
    [status |-> "COMPLETED", body |-> record.body,
     response |-> request[r].response, about |-> request[r].body]

\* finalise, after the response was sent: deleteOne only of a record in
\* progress, updateOne of whatever record there is.
Finalise(r) ==
    /\ At(r, "finalise")
    /\ record' = IF record = None THEN None
                 ELSE IF ~ShouldRelease(r) THEN Completed(r)
                 ELSE IF record.status = "IN_PROGRESS" THEN None ELSE record
    /\ Finish(r)
    /\ UNCHANGED <<replays, runs, effects, excuses, mishaps>>

\* The write fails, or finish never fires because the client is gone.
FinaliseFails(r) ==
    /\ At(r, "finalise")
    /\ Mishap
    /\ Finish(r)
    /\ UNCHANGED <<record, replays, runs, effects, excuses>>

-----------------------------------------------------------------------------
(* The TTL index and crashes                                               *)

\* Mutant: only completed records carry a deadline.
ExpirableCompleted == record # None /\ record.status = "COMPLETED"

\* Every record carries one, of two days: no request outlives it.
Expirable == record # None /\ Claimants = {}

\* The TTL monitor removes the record: the next request with the key runs.
Expire ==
    /\ Expirable
    /\ record' = None
    /\ excuses' = excuses + 1
    /\ UNCHANGED <<request, replays, runs, effects, mishaps>>

Crash ==
    /\ Mishap
    /\ request' = [r \in Requests |-> Idle]
    /\ UNCHANGED <<record, replays, runs, effects, excuses>>

-----------------------------------------------------------------------------
Step(r) == Claim(r) \/ Look(r) \/ RunHandler(r) \/ Finalise(r)

Next ==
    \/ \E r \in Requests :
          \/ Step(r) \/ ClaimFails(r) \/ FinaliseFails(r)
          \/ \E body \in Bodies : Arrive(r, body)
    \/ Expire \/ Crash

Spec == Init /\ [][Next]_vars

\* The event loop resumes every request, and Mongo removes what has expired.
Fairness ==
    /\ \A r \in Requests : WF_vars(Step(r))
    /\ WF_vars(Expire)

FairSpec == Spec /\ Fairness

-----------------------------------------------------------------------------
\* The effect happens once, whatever is retried and however requests overlap:
\* again only where the handler failed after its effect, the record expired,
\* or a record that was just released let a request through without a claim.
EffectOnce == effects <= 1 + excuses

\* A replayed answer is the answer to the same request, and never one the
\* client should have retried.
ReplaysAreFaithful ==
    \A a \in replays : a.about = a.asked /\ a.response # "error"

\* A claim does not outlive its request for ever: a retry is not refused as
\* "in progress" until the end of time.
ClaimsEnd ==
    record # None /\ record.status = "IN_PROGRESS"
        ~> record = None \/ record.status = "COMPLETED"
=============================================================================
