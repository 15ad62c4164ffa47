----------------------------- MODULE DurableProofs -----------------------------
(***************************************************************************)
(* Theorems about the two parts that owe their promise to a unique key in  *)
(* Mongo and to nothing else: the idempotency gate, for any number of      *)
(* requests and bodies, and the queue of Razorpay's webhooks, for any      *)
(* number of events, receivers and faults and any retry schedule.  They    *)
(* share no state; the queue is the instance Queue of MCRazorpayQueue.     *)
(***************************************************************************)
EXTENDS Idempotency, MCRazorpayQueue, FiniteSetTheorems, TLAPS

RequestOK(x) ==
    /\ x.pc # "idle" => x.body \in Bodies
    /\ x.pc = "finalise" => x.response \in Answers

\* Who is past the claim owns the record and asked what it is about; a
\* completed record holds an answer to its own question.
Ownership ==
    /\ \A r \in Requests : RequestOK(request[r])
    /\ \A r \in Claimants :
          /\ record # None /\ record.body = request[r].body
          /\ \A q \in Claimants : q = r
    /\ record # None /\ record.status = "COMPLETED" =>
          /\ record.about = record.body
          /\ record.response \in {"ok", "invalid"}

Running == {r \in Requests : request[r].pc \in {"run", "unclaimed"}}

\* A claimant has reported a failure: the record is about to go.
Releasing ==
    \E r \in Requests : request[r].pc = "finalise" /\ request[r].response = "error"

\* The one effect that needs no excuse belongs to the record.
Allowance == IF record = None \/ Releasing THEN 0 ELSE 1

\* An effect is an effect when its run is let through.
Balance ==
    /\ effects + Cardinality(Running) <= runs
    /\ effects + Cardinality(Running) <= excuses + Allowance

IInv == TypeOK /\ Ownership /\ Balance

USE RequestsAssumption, NoneAssumption, RecordAssumption, BoundsAssumption

-----------------------------------------------------------------------------
LEMMA RunningFinite == IsFiniteSet(Running) /\ Cardinality(Running) \in Nat
BY FS_Subset, FS_CardinalityType DEF Running

\* What one request's step does to the number of running handlers.
LEMMA RunningStep ==
    ASSUME TypeOK, NEW r \in Requests, NEW x \in RequestState, Become(r, x)
    PROVE  /\ Cardinality(Running') \in Nat
           /\ x.pc \notin {"run", "unclaimed"} /\ r \in Running =>
                 Cardinality(Running') = Cardinality(Running) - 1
           /\ x.pc \notin {"run", "unclaimed"} /\ r \notin Running =>
                 Cardinality(Running') = Cardinality(Running)
           /\ x.pc \in {"run", "unclaimed"} /\ r \notin Running =>
                 Cardinality(Running') = Cardinality(Running) + 1
<1>1. \A q \in Requests : request'[q] = IF q = r THEN x ELSE request[q]
  BY DEF Become, TypeOK
<1>2. x.pc \notin {"run", "unclaimed"} => Running' = Running \ {r}
  BY <1>1 DEF Running
<1>3. x.pc \in {"run", "unclaimed"} => Running' = Running \cup {r}
  BY <1>1 DEF Running
<1>4. IsFiniteSet(Running \ {r}) /\ IsFiniteSet(Running \cup {r})
  BY RunningFinite, FS_RemoveElement, FS_AddElement
<1>5. Cardinality(Running') \in Nat
  BY <1>2, <1>3, <1>4, FS_CardinalityType
<1>6. r \in Running => Cardinality(Running \ {r}) = Cardinality(Running) - 1
  BY RunningFinite, FS_RemoveElement
<1>7. r \notin Running => Running \ {r} = Running
  OBVIOUS
<1>8. r \notin Running => Cardinality(Running \cup {r}) = Cardinality(Running) + 1
  BY RunningFinite, FS_AddElement
<1> QED BY <1>2, <1>3, <1>5, <1>6, <1>7, <1>8

\* Steps of a request that claims nothing and is not let through.
LEMMA QuietStep ==
    ASSUME IInv, NEW r \in Requests, NEW x \in RequestState, Become(r, x),
           RequestOK(x), x.pc \in {"idle", "claim", "look"},
           request[r].pc \in {"idle", "claim", "look"},
           UNCHANGED <<record, runs, effects, excuses>>
    PROVE  Ownership' /\ Balance'
<1>1. \A q \in Requests : request'[q] = IF q = r THEN x ELSE request[q]
  BY DEF Become, IInv, TypeOK
<1>2. Claimants' = Claimants
  BY <1>1 DEF Claimants
<1>3. Ownership'
  BY <1>1, <1>2 DEF IInv, Ownership, Claimants
<1>4. Cardinality(Running') = Cardinality(Running)
  BY RunningStep DEF IInv, Running
<1>5. Releasing' = Releasing
  BY <1>1 DEF Releasing
<1>6. Balance'
  BY <1>4, <1>5 DEF IInv, Balance, Allowance
<1> QED BY <1>3, <1>6

\* What becomes of everybody else when one request moves on.
LEMMA Others ==
    ASSUME TypeOK, NEW r \in Requests, NEW x, Become(r, x)
    PROVE  /\ request'[r] = x
           /\ \A q \in Requests : q # r => request'[q] = request[q]
BY DEF Become, TypeOK

-----------------------------------------------------------------------------
(* Each step keeps the types.                                              *)

LEMMA IdleIsARequest == Idle \in RequestState /\ RequestOK(Idle)
BY DEF Idle, RequestState, RequestOK

\* TypeOK for a step of one request: its new state, record, replays and counts.
LEMMA TypeStep ==
    ASSUME TypeOK, NEW r \in Requests, NEW x \in RequestState, Become(r, x),
           record' \in Record \cup {None}, replays' \subseteq Replay,
           runs' \in 0..MaxRuns, effects' \in 0..MaxRuns,
           excuses' \in Nat, mishaps' \in 0..MaxMishaps
    PROVE  TypeOK'
BY DEF TypeOK, Become

THEOREM InitIInv == Init => IInv
<1> SUFFICES ASSUME Init PROVE IInv
  OBVIOUS
<1>1. TypeOK
  BY IdleIsARequest DEF Init, TypeOK
<1>2. Ownership
  BY IdleIsARequest DEF Init, Ownership, Claimants, Idle
<1>3. Running = {}
  BY DEF Init, Running, Idle
<1>4. Balance
  BY <1>3, FS_EmptySet DEF Init, Balance, Allowance
<1> QED BY <1>1, <1>2, <1>4 DEF IInv

-----------------------------------------------------------------------------
(* Each action keeps the invariant.                                        *)

LEMMA ArriveKeeps ==
    ASSUME IInv, NEW r \in Requests, NEW body \in Bodies, Arrive(r, body)
    PROVE  IInv'
<1> DEFINE x == [Idle EXCEPT !.pc = "claim", !.body = body]
<1>1. x \in RequestState /\ RequestOK(x) /\ x.pc = "claim"
  BY DEF Idle, RequestState, RequestOK
<1>2. Become(r, x) /\ request[r].pc = "idle"
  BY DEF Arrive, At
<1>3. TypeOK'
  BY <1>1, <1>2, TypeStep DEF IInv, TypeOK, Arrive
<1>4. Ownership' /\ Balance'
  BY <1>1, <1>2, QuietStep DEF Arrive
<1> QED BY <1>3, <1>4 DEF IInv

LEMMA ClaimKeeps ==
    ASSUME IInv, NEW r \in Requests, Claim(r)
    PROVE  IInv'
<1>0. /\ request[r] \in RequestState /\ request[r].pc = "claim"
      /\ request[r].body \in Bodies
  BY DEF IInv, TypeOK, Claim, At, Ownership, RequestOK
<1>1. CASE record # None
  <2> DEFINE x == [request[r] EXCEPT !.pc = "look"]
  <2>1. x \in RequestState /\ RequestOK(x) /\ x.pc = "look"
    BY <1>0 DEF RequestState, RequestOK
  <2>2. Become(r, x) /\ UNCHANGED <<record, replays, runs, effects, excuses, mishaps>>
    BY <1>1 DEF Claim, Goto
  <2>3. TypeOK'
    BY <2>1, <2>2, TypeStep DEF IInv, TypeOK
  <2>4. Ownership' /\ Balance'
    BY <1>0, <2>1, <2>2, QuietStep
  <2> QED BY <2>3, <2>4 DEF IInv
<1>2. CASE record = None
  <2> DEFINE x == [request[r] EXCEPT !.pc = "run"]
  <2>1. /\ x \in RequestState /\ RequestOK(x) /\ x.pc = "run"
        /\ x.body = request[r].body
    BY <1>0 DEF RequestState, RequestOK
  <2>2. /\ Become(r, x) /\ record' = InProgress(request[r].body)
        /\ runs < MaxRuns /\ runs' = runs + 1
        /\ UNCHANGED <<replays, effects, excuses, mishaps>>
    BY <1>2 DEF Claim, Goto, LetThrough
  <2>3. /\ record' \in Record /\ record'.body = request[r].body
        /\ record'.status = "IN_PROGRESS"
    BY <1>0, <2>2 DEF InProgress, Record
  <2>. record' # None
    BY <2>3
  <2>4. TypeOK'
    BY <2>1, <2>2, <2>3, TypeStep DEF IInv, TypeOK
  <2> HIDE DEF x
  <2>5. Claimants = {}
    BY <1>2 DEF IInv, Ownership
  <2>6. Claimants' = {r}
    BY <2>1, <2>2, <2>5, Others DEF IInv, Claimants
  <2>7. Ownership'
    <3>1. /\ request'[r] = x
          /\ \A q \in Requests : q # r => request'[q] = request[q]
      BY <2>2, Others DEF IInv
    <3>2. \A q \in Requests : RequestOK(request'[q])
      BY <2>1, <3>1 DEF IInv, Ownership
    <3>3. \A q \in Claimants' : /\ record'.body = request'[q].body
                                /\ \A p \in Claimants' : p = q
      BY <2>1, <2>3, <2>6, <3>1
    <3> QED BY <2>3, <3>2, <3>3 DEF Ownership
  <2>8. Cardinality(Running') = Cardinality(Running) + 1
    BY <1>0, <2>1, <2>2, RunningStep DEF IInv, Running
  <2>9. ~Releasing'
    <3>1. request'[r] = x
      BY <2>2, Others DEF IInv
    <3> QED BY <2>1, <2>6, <3>1 DEF Releasing, Claimants
  <2>10. Balance'
    <3>1. Allowance = 0 /\ Allowance' = 1
      BY <1>2, <2>3, <2>9 DEF Allowance
    <3> QED BY <2>2, <2>8, <3>1, RunningFinite DEF IInv, Balance, TypeOK
  <2> QED BY <2>4, <2>7, <2>10 DEF IInv
<1> QED BY <1>1, <1>2

\* The failed insert may have left a record behind: the balance only gains.
LEMMA ClaimFailsKeeps ==
    ASSUME IInv, NEW r \in Requests, ClaimFails(r)
    PROVE  IInv'
<1>0. /\ request[r] \in RequestState /\ request[r].pc = "claim"
      /\ request[r].body \in Bodies
  BY DEF IInv, TypeOK, ClaimFails, At, Ownership, RequestOK
<1>1. Become(r, Idle) /\ UNCHANGED <<replays, runs, effects, excuses>>
  BY DEF ClaimFails, Finish
<1>2. /\ record' \in Record \cup {None}
      /\ record # None => record' = record
      /\ record = None /\ record' # None =>
            record'.status = "IN_PROGRESS"
  BY <1>0 DEF ClaimFails, InProgress, Record, IInv, TypeOK
<1>3. mishaps' \in 0..MaxMishaps
  BY DEF ClaimFails, Mishap, IInv, TypeOK
<1>4. TypeOK'
  BY <1>1, <1>2, <1>3, IdleIsARequest, TypeStep DEF IInv, TypeOK
<1>5. Claimants' = Claimants
  BY <1>0, <1>1, Others DEF IInv, Claimants, Idle
<1>6. record = None => Claimants = {}
  BY DEF IInv, Ownership
<1>7. Ownership'
  BY <1>0, <1>1, <1>2, <1>5, <1>6, IdleIsARequest, Others
  DEF IInv, Ownership, Claimants
<1>8. Cardinality(Running') = Cardinality(Running)
  BY <1>0, <1>1, IdleIsARequest, RunningStep DEF IInv, Running, Idle
<1>9. Releasing' = Releasing
  BY <1>0, <1>1, Others DEF IInv, Releasing, Idle
<1>10. Balance'
  BY <1>1, <1>2, <1>8, <1>9, RunningFinite DEF IInv, Balance, Allowance, TypeOK
<1> QED BY <1>4, <1>7, <1>10 DEF IInv

LEMMA LookKeeps ==
    ASSUME IInv, NEW r \in Requests, Look(r)
    PROVE  IInv'
<1>0. /\ request[r] \in RequestState /\ request[r].pc = "look"
      /\ request[r].body \in Bodies
  BY DEF IInv, TypeOK, Look, At, Ownership, RequestOK
<1>1. CASE record = None
  <2> DEFINE x == [request[r] EXCEPT !.pc = "unclaimed"]
  <2>1. x \in RequestState /\ RequestOK(x) /\ x.pc = "unclaimed"
    BY <1>0 DEF RequestState, RequestOK
  <2>2. /\ Become(r, x) /\ runs < MaxRuns /\ runs' = runs + 1
        /\ excuses' = excuses + 1
        /\ UNCHANGED <<record, replays, effects, mishaps>>
    BY <1>1 DEF Look, Goto, LetThrough
  <2>3. TypeOK'
    BY <2>1, <2>2, TypeStep DEF IInv, TypeOK
  <2>4. Claimants' = Claimants
    BY <1>0, <2>1, <2>2, Others DEF IInv, Claimants
  <2>5. Ownership'
    BY <1>0, <2>1, <2>2, <2>4, Others DEF IInv, Ownership, Claimants
  <2>6. Cardinality(Running') = Cardinality(Running) + 1
    BY <1>0, <2>1, <2>2, RunningStep DEF IInv, Running
  <2>7. Allowance = 0 /\ Allowance' = 0
    BY <1>1, <2>2 DEF Allowance
  <2>8. Balance'
    BY <2>2, <2>6, <2>7, RunningFinite DEF IInv, Balance, TypeOK
  <2> QED BY <2>3, <2>5, <2>8 DEF IInv
<1>2. CASE record # None
  <2>1. /\ Become(r, Idle) /\ UNCHANGED <<record, runs, effects, excuses, mishaps>>
    BY <1>2 DEF Look, Finish
  <2>2. replays' \subseteq Replay
    <3>1. CASE Conflicts(r) \/ record.status = "IN_PROGRESS"
      BY <1>2, <3>1 DEF Look, IInv, TypeOK
    <3>2. CASE ~(Conflicts(r) \/ record.status = "IN_PROGRESS")
      <4>1. /\ record \in Record /\ record.status = "COMPLETED"
        BY <1>2, <3>2 DEF IInv, TypeOK, Record
      <4>2. /\ record.about \in Bodies /\ record.response \in Answers
        BY <1>2, <4>1 DEF IInv, Ownership, Record, Answers
      <4>3. replays' = replays \cup {[asked |-> request[r].body, about |-> record.about,
                                     response |-> record.response]}
        BY <1>2, <3>2 DEF Look
      <4> QED BY <1>0, <4>2, <4>3 DEF IInv, TypeOK, Replay
    <3> QED BY <3>1, <3>2
  <2>3. TypeOK'
    BY <2>1, <2>2, IdleIsARequest, TypeStep DEF IInv, TypeOK
  <2>4. Ownership' /\ Balance'
    BY <1>0, <2>1, IdleIsARequest, QuietStep DEF Idle
  <2> QED BY <2>3, <2>4 DEF IInv
<1> QED BY <1>1, <1>2

LEMMA RunHandlerKeeps ==
    ASSUME IInv, NEW r \in Requests, RunHandler(r)
    PROVE  IInv'
<1>0. /\ request[r] \in RequestState /\ request[r].pc \in {"run", "unclaimed"}
      /\ request[r].body \in Bodies
  BY DEF IInv, TypeOK, RunHandler, Ownership, RequestOK
<1>1. PICK response \in Answers, effective \in BOOLEAN :
          /\ response = "ok" => effective
          /\ response = "invalid" => ~effective
          /\ effects' = effects + IF effective THEN 1 ELSE 0
          /\ excuses' = excuses + IF effective /\ response = "error" THEN 1 ELSE 0
          /\ Become(r, IF At(r, "run")
                       THEN [request[r] EXCEPT !.pc = "finalise", !.response = response]
                       ELSE Idle)
  BY DEF RunHandler
<1> DEFINE x == IF At(r, "run")
                THEN [request[r] EXCEPT !.pc = "finalise", !.response = response]
                ELSE Idle
<1>2. /\ x \in RequestState /\ RequestOK(x)
      /\ x.pc = "finalise" \/ x.pc = "idle"
      /\ At(r, "run") => /\ x.pc = "finalise" /\ x.response = response
                         /\ x.body = request[r].body
      /\ ~At(r, "run") => x.pc = "idle"
  BY <1>0, IdleIsARequest DEF RequestState, RequestOK, At, Idle
<1>3. /\ Become(r, x) /\ UNCHANGED <<record, replays, runs, mishaps>>
  BY <1>1 DEF RunHandler
<1> HIDE DEF x
<1>4. /\ Cardinality(Running') = Cardinality(Running) - 1
      /\ Cardinality(Running) \in Nat /\ Cardinality(Running') \in Nat
  BY <1>0, <1>2, <1>3, RunningStep, RunningFinite DEF IInv, Running
<1>5. excuses' \in Nat /\ effects' \in Nat /\ effects' <= effects + 1
  BY <1>1 DEF IInv, TypeOK
<1>6. effects' \in 0..MaxRuns
  BY <1>4, <1>5 DEF IInv, TypeOK, Balance
<1>7. TypeOK'
  BY <1>2, <1>3, <1>5, <1>6, TypeStep DEF IInv, TypeOK
<1>8. Claimants' = Claimants
  BY <1>0, <1>2, <1>3, Others DEF IInv, Claimants, At
<1>9. Ownership'
  BY <1>0, <1>2, <1>3, <1>8, Others DEF IInv, Ownership, Claimants, At
<1>10. Balance'
  <2>1. CASE ~At(r, "run")
    <3>1. Releasing' = Releasing
      BY <1>0, <1>2, <1>3, <2>1, Others DEF IInv, Releasing, At
    <3>2. Allowance' = Allowance /\ Allowance \in Nat
      BY <1>3, <3>1 DEF Allowance
    <3>3. effective => response = "error" \/ excuses' = excuses
      BY <1>1 DEF IInv, TypeOK
    <3>4. effects' + Cardinality(Running') <= effects + Cardinality(Running)
      BY <1>1, <1>4 DEF IInv, TypeOK
    <3>5. excuses <= excuses'
      BY <1>1 DEF IInv, TypeOK
    <3> QED BY <1>3, <1>4, <1>5, <3>2, <3>4, <3>5 DEF IInv, TypeOK, Balance
  <2>2. CASE At(r, "run")
    <3>1. r \in Claimants /\ record # None /\ \A q \in Claimants : q = r
      BY <2>2 DEF IInv, Ownership, Claimants, At
    <3>2. ~Releasing
      BY <2>2, <3>1 DEF Releasing, Claimants, At
    <3>3. Releasing' <=> response = "error"
      BY <1>2, <1>3, <1>8, <2>2, <3>1, Others DEF IInv, Releasing, Claimants
    <3>4. Allowance = 1 /\ Allowance' = IF response = "error" THEN 0 ELSE 1
      BY <1>3, <3>1, <3>2, <3>3 DEF Allowance
    <3>5. CASE response = "error"
      <4>1. effects' - effects = excuses' - excuses
        BY <1>1, <3>5 DEF IInv, TypeOK
      <4> QED BY <1>3, <1>4, <1>5, <3>4, <3>5, <4>1 DEF IInv, TypeOK, Balance
    <3>6. CASE response # "error"
      <4>1. excuses' = excuses
        BY <1>1, <3>6 DEF IInv, TypeOK
      <4> QED BY <1>3, <1>4, <1>5, <3>4, <3>6, <4>1 DEF IInv, TypeOK, Balance
    <3> QED BY <3>5, <3>6
  <2> QED BY <2>1, <2>2
<1> QED BY <1>7, <1>9, <1>10 DEF IInv

\* The claimant leaves: the record stays, is completed, or is removed after a
\* failure was reported.
LEMMA ClaimantLeaves ==
    ASSUME IInv, NEW r \in Requests, request[r].pc = "finalise", Become(r, Idle),
           record' = None => request[r].response = "error",
           record' # None /\ record'.status = "COMPLETED" =>
              record'.about = record'.body /\ record'.response \in {"ok", "invalid"},
           UNCHANGED <<runs, effects, excuses>>
    PROVE  Ownership' /\ Balance'
<1>1. r \in Claimants /\ record # None /\ \A q \in Claimants : q = r
  BY DEF IInv, Ownership, Claimants
<1>2. Claimants' = {}
  BY <1>1, IdleIsARequest, Others DEF IInv, Claimants, Idle
<1>3. Ownership'
  BY <1>2, IdleIsARequest, Others DEF IInv, Ownership
<1>4. Cardinality(Running') = Cardinality(Running) /\ Cardinality(Running) \in Nat
  BY IdleIsARequest, RunningFinite, RunningStep DEF IInv, Running, Idle
<1>5. ~Releasing'
  BY <1>2 DEF Releasing, Claimants
<1>6. Allowance <= Allowance'
  BY <1>1, <1>5 DEF Allowance, Releasing
<1>7. Allowance \in Nat /\ Allowance' \in Nat
  BY DEF Allowance
<1>8. Balance'
  BY <1>4, <1>6, <1>7 DEF IInv, TypeOK, Balance
<1> QED BY <1>3, <1>8

LEMMA FinaliseKeeps ==
    ASSUME IInv, NEW r \in Requests, Finalise(r)
    PROVE  IInv'
<1>1. /\ request[r] \in RequestState /\ request[r].pc = "finalise"
      /\ request[r].body \in Bodies /\ request[r].response \in Answers
  BY DEF IInv, TypeOK, Finalise, At, Ownership, RequestOK
<1>2. /\ record # None /\ record \in Record /\ record.body \in Bodies
      /\ record.status = "COMPLETED" =>
            record.about = record.body /\ record.response \in {"ok", "invalid"}
      /\ record.body = request[r].body
  BY <1>1 DEF IInv, TypeOK, Record, Ownership, Claimants
<1>3. Become(r, Idle) /\ UNCHANGED <<replays, runs, effects, excuses, mishaps>>
  BY DEF Finalise, Finish
<1>4. CASE request[r].response = "error"
  <2>1. record' = IF record.status = "IN_PROGRESS" THEN None ELSE record
    BY <1>2, <1>4 DEF Finalise, ShouldRelease
  <2>2. TypeOK'
    BY <1>2, <1>3, <2>1, IdleIsARequest, TypeStep DEF IInv, TypeOK
  <2>3. Ownership' /\ Balance'
    BY <1>1, <1>2, <1>3, <1>4, <2>1, ClaimantLeaves
  <2> QED BY <2>2, <2>3 DEF IInv
<1>5. CASE request[r].response # "error"
  <2>1. record' = Completed(r)
    BY <1>2, <1>5 DEF Finalise, ShouldRelease
  <2>2. /\ record' \in Record /\ record'.about = record'.body
        /\ record'.response \in {"ok", "invalid"}
    BY <1>1, <1>2, <1>5, <2>1 DEF Completed, Record, Answers
  <2>3. record' # None
    BY <2>2
  <2>4. TypeOK'
    BY <1>3, <2>2, IdleIsARequest, TypeStep DEF IInv, TypeOK
  <2>5. Ownership' /\ Balance'
    BY <1>1, <1>3, <2>2, <2>3, ClaimantLeaves
  <2> QED BY <2>4, <2>5 DEF IInv
<1> QED BY <1>4, <1>5

LEMMA FinaliseFailsKeeps ==
    ASSUME IInv, NEW r \in Requests, FinaliseFails(r)
    PROVE  IInv'
<1>1. /\ request[r].pc = "finalise" /\ Become(r, Idle)
      /\ UNCHANGED <<record, replays, runs, effects, excuses>>
      /\ mishaps' \in 0..MaxMishaps
  BY DEF FinaliseFails, At, Finish, Mishap, IInv, TypeOK
<1>2. TypeOK'
  BY <1>1, IdleIsARequest, TypeStep DEF IInv, TypeOK
<1>3. record # None
  BY <1>1 DEF IInv, Ownership, Claimants
<1>4. Ownership' /\ Balance'
  BY <1>1, <1>3, ClaimantLeaves DEF IInv, Ownership
<1> QED BY <1>2, <1>4 DEF IInv

LEMMA ExpireKeeps == IInv /\ Expire => IInv'
<1> SUFFICES ASSUME IInv, Expire PROVE IInv'
  OBVIOUS
<1>1. /\ Claimants = {} /\ record' = None /\ excuses' = excuses + 1
      /\ UNCHANGED <<request, replays, runs, effects, mishaps>>
  BY DEF Expire, Expirable
<1>2. TypeOK'
  BY <1>1 DEF IInv, TypeOK
<1>3. Ownership' /\ Running' = Running
  BY <1>1 DEF IInv, Ownership, Claimants, Running
<1>4. Allowance' = 0 /\ Allowance \in 0..1
  BY <1>1 DEF Allowance
<1>5. Balance'
  BY <1>1, <1>3, <1>4, RunningFinite DEF IInv, TypeOK, Balance
<1> QED BY <1>2, <1>3, <1>5 DEF IInv

LEMMA CrashKeeps == IInv /\ Crash => IInv'
<1> SUFFICES ASSUME IInv, Crash PROVE IInv'
  OBVIOUS
<1>1. /\ request' = [r \in Requests |-> Idle] /\ mishaps' \in 0..MaxMishaps
      /\ UNCHANGED <<record, replays, runs, effects, excuses>>
  BY DEF Crash, Mishap, IInv, TypeOK
<1>2. TypeOK'
  BY <1>1, IdleIsARequest DEF IInv, TypeOK
<1>3. Ownership'
  BY <1>1, IdleIsARequest DEF IInv, Ownership, Claimants, Idle
<1>4. Running' = {} /\ ~Releasing'
  BY <1>1 DEF Running, Releasing, Idle
<1>5. Cardinality(Running') = 0
  BY <1>4, FS_EmptySet
<1>6. Allowance <= Allowance' /\ Allowance \in 0..1 /\ Allowance' \in 0..1
  BY <1>1, <1>4 DEF Allowance
<1>7. effects \in Nat /\ excuses \in Nat /\ runs \in Nat
  BY DEF IInv, TypeOK
<1>8. effects <= runs /\ effects <= excuses + Allowance
  <2>1. Cardinality(Running) \in Nat
    BY RunningFinite
  <2>2. /\ effects + Cardinality(Running) <= runs
        /\ effects + Cardinality(Running) <= excuses + Allowance
    BY DEF IInv, Balance
  <2>3. Allowance \in Nat
    BY <1>6
  <2> QED BY <1>7, <2>1, <2>2, <2>3
<1>9. effects + Cardinality(Running') <= runs
  BY <1>5, <1>7, <1>8
<1>10. effects + Cardinality(Running') <= excuses + Allowance'
  <2>1. ASSUME NEW a \in Nat, NEW b \in Nat, a <= b, effects <= excuses + a
        PROVE  effects + 0 <= excuses + b
    BY <1>7, <2>1
  <2>2. Allowance \in Nat /\ Allowance' \in Nat
    BY <1>6
  <2> QED BY <1>5, <1>6, <1>8, <2>1, <2>2
<1>11. Balance'
  BY <1>1, <1>9, <1>10 DEF Balance
<1> QED BY <1>2, <1>3, <1>11 DEF IInv

THEOREM NextIInv == IInv /\ [Next]_vars => IInv'
<1> SUFFICES ASSUME IInv, [Next]_vars PROVE IInv'
  OBVIOUS
<1>1. ASSUME NEW r \in Requests, NEW body \in Bodies, Arrive(r, body) PROVE IInv'
  BY <1>1, ArriveKeeps
<1>2. ASSUME NEW r \in Requests, Claim(r) PROVE IInv'
  BY <1>2, ClaimKeeps
<1>3. ASSUME NEW r \in Requests, ClaimFails(r) PROVE IInv'
  BY <1>3, ClaimFailsKeeps
<1>4. ASSUME NEW r \in Requests, Look(r) PROVE IInv'
  BY <1>4, LookKeeps
<1>5. ASSUME NEW r \in Requests, RunHandler(r) PROVE IInv'
  BY <1>5, RunHandlerKeeps
<1>6. ASSUME NEW r \in Requests, Finalise(r) PROVE IInv'
  BY <1>6, FinaliseKeeps
<1>7. ASSUME NEW r \in Requests, FinaliseFails(r) PROVE IInv'
  BY <1>7, FinaliseFailsKeeps
<1>8. CASE UNCHANGED vars
  BY <1>8 DEF vars, IInv, TypeOK, Ownership, RequestOK, Claimants, Balance,
              Running, Allowance, Releasing
<1> QED BY <1>1, <1>2, <1>3, <1>4, <1>5, <1>6, <1>7, <1>8,
           ExpireKeeps, CrashKeeps DEF Next, Step

\* A replay answers the question that was asked: it comes from a completed
\* record of the same body, and what completed it was not an error.
LEMMA ReplayStep == IInv /\ ReplaysAreFaithful /\ [Next]_vars => ReplaysAreFaithful'
<1> SUFFICES ASSUME IInv, ReplaysAreFaithful, [Next]_vars PROVE ReplaysAreFaithful'
  OBVIOUS
<1>1. ASSUME NEW r \in Requests, Look(r), replays' # replays
      PROVE  ReplaysAreFaithful'
  <2>1. /\ record # None /\ record.body = request[r].body
        /\ record.status # "IN_PROGRESS"
        /\ replays' = replays \cup {[asked |-> request[r].body, about |-> record.about,
                                     response |-> record.response]}
    BY <1>1 DEF Look, Conflicts
  <2>2. record.about = request[r].body /\ record.response \in {"ok", "invalid"}
    BY <2>1 DEF IInv, TypeOK, Record, Ownership
  <2> QED BY <2>1, <2>2 DEF ReplaysAreFaithful
<1>2. replays' # replays => \E r \in Requests : Look(r)
  BY DEF Next, Step, vars, Arrive, Claim, ClaimFails, RunHandler, Finalise,
         FinaliseFails, Expire, Crash
<1> QED BY <1>1, <1>2 DEF ReplaysAreFaithful

-----------------------------------------------------------------------------
(* The theorems                                                            *)

THEOREM Invariance == Spec => []IInv
BY InitIInv, NextIInv, PTL DEF Spec

\* Every variable keeps its type, however many requests carry the key.
THEOREM TypeCorrect == Spec => []TypeOK
<1>1. IInv => TypeOK
  BY DEF IInv
<1> QED BY <1>1, Invariance, PTL

\* The gate's promise: an effect is repeated only where it excuses it.
THEOREM EffectsAreOnce == Spec => []EffectOnce
<1>1. IInv => EffectOnce
  <2>1. Allowance \in 0..1
    BY DEF Allowance
  <2> QED BY <2>1, RunningFinite DEF IInv, TypeOK, Balance, EffectOnce
<1> QED BY <1>1, Invariance, PTL

\* Replays answer what was asked, and never with a retryable failure.
THEOREM ReplaysFaithful == Spec => []ReplaysAreFaithful
<1>1. Init => ReplaysAreFaithful
  BY DEF Init, ReplaysAreFaithful
<1> QED BY <1>1, ReplayStep, Invariance, PTL DEF Spec

-----------------------------------------------------------------------------
(* The queue of Razorpay's webhooks.                                       *)

\* A busy worker holds an event, at the count of attempts the row still has;
\* only after a failure can the row be settled under it.
WorkerOK ==
    \/ worker = Queue!NoWorker
    \/ /\ worker.pc \in {"process", "settle"}
       /\ worker.event \in Events
       /\ IF worker.pc = "settle" THEN worker.outcome \in Queue!Outcomes
                                  ELSE worker.outcome = "none"
       /\ row[worker.event].attempts = worker.attempts
       /\ row[worker.event].status \in
             IF worker.outcome = "failed" THEN {"PROCESSING", "PROCESSED", "IGNORED"}
                                          ELSE {"PROCESSING"}

\* What the attempts of an event may have come to: an event in the queue has
\* part of its schedule left, one that a worker lost has cost a fault.
AttemptsPaid ==
    \A e \in Events :
        /\ row[e].attempts <= Delays + 1 + faults
        /\ row[e].status = "ABSENT" => row[e].attempts = 0
        /\ row[e].status = "RECEIVED" => row[e].attempts <= Delays
        /\ row[e].status = "PROCESSING" /\ worker.event # e =>
              row[e].attempts <= Delays + faults

\* The one effect of e that needs no fault: its worker is about to write it
\* down, or it is written down.
Entitled(e) ==
    IF worker.event = e THEN worker.pc = "settle" /\ worker.outcome = "PROCESSED"
    ELSE row[e].status = "PROCESSED"

EffectsPaid ==
    \A e \in Events : done[e] <= faults + (IF Entitled(e) THEN 1 ELSE 0)

QueueInv == Queue!TypeOK /\ WorkerOK /\ AttemptsPaid /\ EffectsPaid

USE QueueBounds DEF Queue!Bounds

-----------------------------------------------------------------------------
LEMMA RowTypes ==
    /\ Queue!NoRow \in Queue!Row
    /\ \A s \in Queue!Row : Queue!Stored(s) \in Queue!Row
    /\ \A s \in Queue!Row, outcome \in Queue!Outcomes, attempts \in Nat :
          Queue!Settled(s, outcome, attempts) \in Queue!Row
<1>1. Queue!NoRow \in Queue!Row
  BY DEF Queue!NoRow, Queue!Row, Queue!AttemptsBound
<1>2. ASSUME NEW s \in Queue!Row PROVE Queue!Stored(s) \in Queue!Row
  <2>1. CASE s.status = "ABSENT"
    BY <1>1, <2>1 DEF Queue!Row, Queue!Stored
  <2>2. CASE s.status # "ABSENT"
    BY <2>2 DEF Queue!Stored
  <2> QED BY <2>1, <2>2
<1>3. ASSUME NEW s \in Queue!Row, NEW outcome \in Queue!Outcomes, NEW attempts \in Nat
      PROVE  Queue!Settled(s, outcome, attempts) \in Queue!Row
  <2>1. CASE outcome # "failed"
    BY <2>1 DEF Queue!Row, Queue!Settled, Queue!Outcomes
  <2>2. CASE outcome = "failed"
    BY <2>2 DEF Queue!Row, Queue!Settled
  <2> QED BY <2>1, <2>2
<1> QED BY <1>1, <1>2, <1>3

\* What settling does to the fields the invariant speaks of.
LEMMA SettledFields ==
    ASSUME NEW s \in Queue!Row, NEW outcome \in Queue!Outcomes, NEW attempts \in Nat
    PROVE  LET t == Queue!Settled(s, outcome, attempts) IN
           /\ t.attempts = s.attempts
           /\ t.status = "PROCESSED" <=> outcome = "PROCESSED"
           /\ t.status \in IF outcome = "failed" THEN {"RECEIVED", "FAILED"}
                                               ELSE {"PROCESSED", "IGNORED"}
           /\ t.status = "RECEIVED" => outcome = "failed" /\ attempts <= Delays
BY DEF Queue!Row, Queue!Settled, Queue!Outcomes

LEMMA IdleIsAWorker ==
    Queue!NoWorker \in Queue!Worker /\ Queue!NoWorker.event = NoEvent
BY DEF Queue!NoWorker, Queue!Worker, Queue!AttemptsBound

LEMMA StoredFields ==
    ASSUME NEW s \in Queue!Row
    PROVE  /\ s.status # "ABSENT" => Queue!Stored(s) = s
           /\ s.status = "ABSENT" => /\ Queue!Stored(s).status = "RECEIVED"
                                     /\ Queue!Stored(s).attempts = 0
BY DEF Queue!Row, Queue!Stored, Queue!NoRow

THEOREM InitQueueInv == Queue!Init => QueueInv
<1> SUFFICES ASSUME Queue!Init PROVE QueueInv
  OBVIOUS
<1>1. Queue!TypeOK
  BY RowTypes, IdleIsAWorker DEF Queue!Init, Queue!TypeOK, Queue!AttemptsBound
<1>2. WorkerOK /\ AttemptsPaid
  BY DEF Queue!Init, WorkerOK, AttemptsPaid, Queue!NoRow
<1>3. EffectsPaid
  BY IdleIsAWorker DEF Queue!Init, EffectsPaid, Entitled, Queue!NoRow
<1> QED BY <1>1, <1>2, <1>3 DEF QueueInv

-----------------------------------------------------------------------------
(* Each action keeps the invariant.                                        *)

LEMMA DeliverKeeps ==
    ASSUME QueueInv, NEW r \in Receivers, NEW e \in Events, Queue!Deliver(r, e)
    PROVE  QueueInv'
BY DEF QueueInv, Queue!TypeOK, WorkerOK, AttemptsPaid, EffectsPaid, Entitled, Queue!Deliver

\* A delivery changes a row only by storing an absent one.
LEMMA StoreKeeps ==
    ASSUME QueueInv, NEW e \in Events,
           row' \in {row, [row EXCEPT ![e] = Queue!Stored(@)]},
           holding' \subseteq Events, acked' \subseteq Events,
           delivery' \in [Receivers -> Events \cup {NoEvent}],
           UNCHANGED <<worker, done, faults>>
    PROVE  QueueInv'
<1>1. \A f \in Events : row[f] \in Queue!Row /\ row'[f] \in {row[f], Queue!Stored(row[f])}
  BY DEF QueueInv, Queue!TypeOK
<1>2. \A f \in Events :
         \/ row'[f] = row[f]
         \/ /\ row[f].status = "ABSENT" /\ row'[f].status = "RECEIVED"
            /\ row[f].attempts = 0 /\ row'[f].attempts = 0
  BY <1>1, StoredFields DEF QueueInv, AttemptsPaid
<1>3. Queue!TypeOK'
  BY <1>1, RowTypes DEF QueueInv, Queue!TypeOK
<1>4. WorkerOK'
  BY <1>2 DEF QueueInv, WorkerOK
<1>5. AttemptsPaid'
  BY <1>2 DEF QueueInv, AttemptsPaid, Queue!TypeOK
<1>6. EffectsPaid'
  BY <1>2 DEF QueueInv, EffectsPaid, Entitled
<1> QED BY <1>3, <1>4, <1>5, <1>6 DEF QueueInv

LEMMA EnqueueKeeps ==
    ASSUME QueueInv, NEW r \in Receivers,
           Queue!EnqueueRazorpayWebhook(r) \/ Queue!EnqueueFails(r)
    PROVE  QueueInv'
<1>1. delivery[r] \in Events
  BY DEF QueueInv, Queue!TypeOK, Queue!EnqueueRazorpayWebhook, Queue!EnqueueFails
<1>2. /\ row' \in {row, [row EXCEPT ![delivery[r]] = Queue!Stored(@)]}
      /\ holding' \subseteq Events /\ acked' \subseteq Events
      /\ delivery' \in [Receivers -> Events \cup {NoEvent}]
      /\ UNCHANGED <<worker, done, faults>>
  BY <1>1 DEF QueueInv, Queue!TypeOK, Queue!EnqueueRazorpayWebhook, Queue!EnqueueFails
<1> QED BY <1>1, <1>2, StoreKeeps

\* Only an idle worker claims, so what it claims is in the queue or was lost.
LEMMA QueueClaimKeeps == QueueInv /\ Queue!Claim => QueueInv'
<1> SUFFICES ASSUME QueueInv, Queue!Claim PROVE QueueInv'
  OBVIOUS
<1>1. PICK e \in Events :
         /\ Queue!Claimable(e)
         /\ row' = [row EXCEPT ![e].status = "PROCESSING", ![e].lease = "live",
                               ![e].attempts = @ + 1]
         /\ worker' = [Queue!NoWorker EXCEPT !.pc = "process", !.event = e,
                                       !.attempts = row[e].attempts + 1]
  BY DEF Queue!Claim
<1>2. /\ worker.event = NoEvent /\ row[e] \in Queue!Row
      /\ UNCHANGED <<holding, acked, delivery, done, faults>>
  BY IdleIsAWorker DEF Queue!Claim, QueueInv, WorkerOK, Queue!TypeOK
<1>3. row[e].attempts <= Delays + faults /\ row[e].status # "PROCESSED"
  BY <1>1, <1>2 DEF QueueInv, AttemptsPaid, Queue!Claimable, Queue!TypeOK, Queue!Row
<1>4. /\ row'[e] = [row[e] EXCEPT !.status = "PROCESSING", !.lease = "live",
                                  !.attempts = row[e].attempts + 1]
      /\ \A f \in Events : f # e => row'[f] = row[f]
  BY <1>1 DEF QueueInv, Queue!TypeOK
<1>5. row[e].attempts + 1 \in 0..Queue!AttemptsBound
  BY <1>2, <1>3 DEF QueueInv, Queue!TypeOK, Queue!Row, Queue!AttemptsBound
<1>6. Queue!TypeOK'
  <2>1. row'[e] \in Queue!Row
    BY <1>2, <1>4, <1>5 DEF Queue!Row
  <2>2. worker' \in Queue!Worker
    BY <1>1, <1>5 DEF Queue!Worker, Queue!NoWorker
  <2> QED BY <1>1, <1>2, <1>4, <2>1, <2>2 DEF QueueInv, Queue!TypeOK
<1>7. /\ worker'.event = e /\ worker'.pc = "process"
      /\ worker'.attempts = row[e].attempts + 1 /\ worker'.outcome = "none"
  BY <1>1 DEF Queue!NoWorker
<1>8. WorkerOK'
  BY <1>2, <1>4, <1>7 DEF WorkerOK, Queue!Row
<1>9. AttemptsPaid'
  <2>1. /\ row'[e].attempts = row[e].attempts + 1 /\ row'[e].status = "PROCESSING"
        /\ row[e].attempts \in Nat /\ faults \in Nat /\ faults' = faults
    BY <1>2, <1>4 DEF Queue!Row, QueueInv, Queue!TypeOK
  <2>2. row'[e].attempts <= Delays + 1 + faults'
    BY <1>3, <2>1
  <2>3. \A f \in Events : f # e => row'[f] = row[f] /\ worker.event # f
    BY <1>2, <1>4
  <2> QED BY <1>7, <2>1, <2>2, <2>3 DEF QueueInv, AttemptsPaid
<1>10. EffectsPaid'
  BY <1>2, <1>3, <1>4, <1>7 DEF QueueInv, EffectsPaid, Entitled, Queue!TypeOK
<1> QED BY <1>6, <1>8, <1>9, <1>10 DEF QueueInv

\* The effect happens while its worker is entitled to it.
LEMMA ProcessKeeps == QueueInv /\ Queue!ProcessWebhook => QueueInv'
<1> SUFFICES ASSUME QueueInv, Queue!ProcessWebhook PROVE QueueInv'
  OBVIOUS
<1>1. PICK outcome \in Queue!Outcomes :
         /\ worker' = [worker EXCEPT !.pc = "settle", !.outcome = outcome]
         /\ done' = IF outcome = "PROCESSED"
                    THEN [done EXCEPT ![worker.event] = @ + 1] ELSE done
  BY DEF Queue!ProcessWebhook
<1>2. /\ worker.event \in Events /\ worker.pc = "process" /\ worker \in Queue!Worker
      /\ UNCHANGED <<row, holding, acked, delivery, faults>>
  BY DEF Queue!ProcessWebhook, QueueInv, WorkerOK, Queue!NoWorker, Queue!TypeOK
<1>3. /\ worker'.event = worker.event /\ worker'.attempts = worker.attempts
      /\ worker'.pc = "settle" /\ worker'.outcome = outcome
  BY <1>1, <1>2 DEF Queue!Worker
<1>4. \A f \in Events : done'[f] <= faults' + (IF Entitled(f)' THEN 1 ELSE 0)
  <2> SUFFICES ASSUME NEW f \in Events
               PROVE  done'[f] <= faults' + (IF Entitled(f)' THEN 1 ELSE 0)
    OBVIOUS
  <2>1. CASE f = worker.event
    <3>1. ~Entitled(f) /\ (Entitled(f)' <=> outcome = "PROCESSED")
      BY <1>2, <1>3, <2>1 DEF Entitled
    <3>2. done'[f] = IF outcome = "PROCESSED" THEN done[f] + 1 ELSE done[f]
      BY <1>1, <2>1 DEF QueueInv, Queue!TypeOK
    <3> QED BY <1>2, <3>1, <3>2 DEF QueueInv, EffectsPaid, Queue!TypeOK
  <2>2. CASE f # worker.event
    <3>1. Entitled(f)' = Entitled(f) /\ done'[f] = done[f]
      BY <1>1, <1>2, <1>3, <2>2 DEF Entitled, QueueInv, Queue!TypeOK
    <3> QED BY <1>2, <3>1 DEF QueueInv, EffectsPaid
  <2> QED BY <2>1, <2>2
<1>5. Queue!TypeOK'
  <2>1. worker' \in Queue!Worker
    BY <1>1, <1>2 DEF Queue!Worker
  <2>2. \A f \in Events : done'[f] \in Nat
    BY <1>1, <1>2 DEF QueueInv, Queue!TypeOK
  <2>3. \A f \in Events : done'[f] <= Queue!AttemptsBound
    BY <1>2, <1>4, <2>2 DEF QueueInv, Queue!TypeOK, Queue!AttemptsBound
  <2>4. done' \in [Events -> 0..Queue!AttemptsBound]
    <3>1. done' = [f \in Events |-> done'[f]]
      BY <1>1 DEF QueueInv, Queue!TypeOK
    <3>2. \A f \in Events : done'[f] \in 0..Queue!AttemptsBound
      BY <2>2, <2>3 DEF Queue!AttemptsBound
    <3> QED BY <3>1, <3>2
  <2> QED BY <1>2, <2>1, <2>4 DEF QueueInv, Queue!TypeOK
<1>6. WorkerOK' /\ AttemptsPaid'
  BY <1>2, <1>3 DEF QueueInv, WorkerOK, AttemptsPaid, Queue!NoWorker
<1> QED BY <1>4, <1>5, <1>6 DEF QueueInv, EffectsPaid

\* Writing the outcome down turns the worker's entitlement into the row's; a
\* failure within the schedule leaves part of the schedule.
LEMMA SettleKeeps == QueueInv /\ Queue!Settle => QueueInv'
<1> SUFFICES ASSUME QueueInv, Queue!Settle PROVE QueueInv'
  OBVIOUS
<1> DEFINE e == worker.event
           t == Queue!Settled(row[e], worker.outcome, worker.attempts)
<1>1. /\ e \in Events /\ row[e] \in Queue!Row /\ worker.outcome \in Queue!Outcomes
      /\ worker.attempts \in Nat /\ row[e].attempts = worker.attempts
      /\ worker.pc = "settle"
  BY DEF Queue!Settle, QueueInv, WorkerOK, Queue!TypeOK, Queue!Worker, Queue!NoWorker
<1>2. /\ row' = [row EXCEPT ![e] = t] /\ worker' = Queue!NoWorker
      /\ UNCHANGED <<holding, acked, delivery, done, faults>>
  BY DEF Queue!Settle
<1>3. /\ row'[e] = t /\ \A f \in Events : f # e => row'[f] = row[f]
      /\ worker'.event = NoEvent
  BY <1>1, <1>2, IdleIsAWorker DEF QueueInv, Queue!TypeOK
<1>4. t \in Queue!Row
  BY <1>1, RowTypes
<1>5. /\ t.attempts = row[e].attempts
      /\ t.status = "PROCESSED" <=> worker.outcome = "PROCESSED"
      /\ t.status \in {"PROCESSED", "IGNORED", "RECEIVED", "FAILED"}
      /\ t.status = "RECEIVED" => worker.attempts <= Delays
  BY <1>1, SettledFields
<1> HIDE DEF t
<1>6. Queue!TypeOK'
  BY <1>2, <1>4, IdleIsAWorker DEF QueueInv, Queue!TypeOK
<1>7. WorkerOK'
  BY <1>2 DEF WorkerOK
<1>8. AttemptsPaid'
  BY <1>1, <1>2, <1>3, <1>5 DEF QueueInv, AttemptsPaid
<1>9. EffectsPaid'
  <2>1. \A f \in Events : Entitled(f)' <=> Entitled(f)
    BY <1>1, <1>3, <1>5 DEF Entitled
  <2> QED BY <1>2, <2>1 DEF QueueInv, EffectsPaid
<1> QED BY <1>6, <1>7, <1>8, <1>9 DEF QueueInv

\* A failing write costs a fault: it pays for the entitlement that is lost and
\* for the claim that the row will see again.
LEMMA SettleFailsKeeps == QueueInv /\ Queue!SettleFails => QueueInv'
<1> SUFFICES ASSUME QueueInv, Queue!SettleFails PROVE QueueInv'
  OBVIOUS
<1> DEFINE e == worker.event
           t == Queue!Settled(row[e], worker.outcome, worker.attempts)
           w == IF worker.outcome = "failed" THEN Queue!NoWorker
                ELSE [worker EXCEPT !.outcome = "failed"]
<1>1. /\ e \in Events /\ row[e] \in Queue!Row /\ worker.outcome \in Queue!Outcomes
      /\ worker.attempts \in Nat /\ row[e].attempts = worker.attempts
      /\ worker \in Queue!Worker /\ worker.pc = "settle"
      /\ row[e].status \in {"PROCESSING", "PROCESSED", "IGNORED"}
  BY DEF Queue!SettleFails, QueueInv, WorkerOK, Queue!TypeOK, Queue!Worker, Queue!NoWorker
<1>2. /\ row' \in {row, [row EXCEPT ![e] = t]} /\ worker' = w
      /\ faults \in Nat /\ faults' = faults + 1 /\ faults' \in 0..MaxFaults
      /\ UNCHANGED <<holding, acked, delivery, done>>
  BY DEF Queue!SettleFails, Queue!Fault, QueueInv, Queue!TypeOK
<1>3. /\ row'[e] \in {row[e], t}
      /\ \A f \in Events : f # e => row'[f] = row[f]
  BY <1>1, <1>2 DEF QueueInv, Queue!TypeOK
<1>4. t \in Queue!Row
  BY <1>1, RowTypes
<1>5. /\ t.attempts = row[e].attempts
      /\ t.status \in IF worker.outcome = "failed" THEN {"RECEIVED", "FAILED"}
                                                 ELSE {"PROCESSED", "IGNORED"}
      /\ t.status = "RECEIVED" => /\ worker.outcome = "failed"
                                  /\ worker.attempts <= Delays
  BY <1>1, SettledFields
<1> HIDE DEF t
<1>6. /\ w \in Queue!Worker
      /\ worker.outcome = "failed" => w = Queue!NoWorker /\ w.event = NoEvent
      /\ worker.outcome # "failed" =>
            /\ w.event = e /\ w.pc = "settle" /\ w.outcome = "failed"
            /\ w.attempts = worker.attempts
  BY <1>1, IdleIsAWorker DEF Queue!Worker, Queue!Outcomes
<1> HIDE DEF w
<1>7. Queue!TypeOK'
  BY <1>2, <1>4, <1>6 DEF QueueInv, Queue!TypeOK
<1>8. WorkerOK'
  BY <1>1, <1>2, <1>3, <1>5, <1>6 DEF WorkerOK, Queue!Outcomes
<1>9. AttemptsPaid'
  <2>1. \A f \in Events : row[f].attempts \in Nat
    BY DEF QueueInv, Queue!TypeOK, Queue!Row
  <2>2. \A f \in Events \ {e} : row'[f] = row[f]
    BY <1>3
  <2>3. /\ row'[e].attempts = worker.attempts
        /\ row'[e].status # "ABSENT"
        /\ row'[e].status = "RECEIVED" => worker.attempts <= Delays
        /\ worker.attempts <= Delays + 1 + faults
    BY <1>1, <1>3, <1>5 DEF QueueInv, AttemptsPaid
  <2>4. /\ row'[e].attempts <= Delays + 1 + faults'
        /\ row'[e].attempts <= Delays + faults'
    BY <1>1, <1>2, <2>3
  <2>5. ASSUME NEW f \in Events \ {e}
        PROVE  /\ row'[f].attempts <= Delays + 1 + faults'
               /\ row'[f].status = "ABSENT" => row'[f].attempts = 0
               /\ row'[f].status = "RECEIVED" => row'[f].attempts <= Delays
               /\ row'[f].status = "PROCESSING" =>
                     row'[f].attempts <= Delays + faults'
    BY <1>2, <2>1, <2>2 DEF QueueInv, AttemptsPaid
  <2> QED BY <2>3, <2>4, <2>5 DEF AttemptsPaid
<1>10. EffectsPaid'
  <2>1. \A f \in Events : done[f] \in Nat /\ done[f] <= faults + 1
    BY <1>2 DEF QueueInv, EffectsPaid, Queue!TypeOK
  <2> QED BY <1>2, <2>1 DEF EffectsPaid
<1> QED BY <1>7, <1>8, <1>9, <1>10 DEF QueueInv

\* Clocks change neither states nor counts.
LEMMA ClockKeeps ==
    ASSUME QueueInv, NEW e \in Events, Queue!RetryComesDue(e) \/ Queue!LeaseExpires(e)
    PROVE  QueueInv'
<1>1. /\ row' \in [Events -> Queue!Row]
      /\ \A f \in Events : /\ row'[f].status = row[f].status
                            /\ row'[f].attempts = row[f].attempts
      /\ UNCHANGED <<holding, acked, delivery, worker, done, faults>>
  BY DEF QueueInv, Queue!TypeOK, Queue!Row, Queue!RetryComesDue, Queue!LeaseExpires
<1>2. Queue!TypeOK'
  BY <1>1 DEF QueueInv, Queue!TypeOK
<1>3. WorkerOK' /\ AttemptsPaid'
  BY <1>1 DEF QueueInv, WorkerOK, AttemptsPaid
<1>4. EffectsPaid'
  BY <1>1 DEF QueueInv, EffectsPaid, Entitled
<1> QED BY <1>2, <1>3, <1>4 DEF QueueInv

\* A crash takes worker and entitlement, and is a fault itself.
LEMMA QueueCrashKeeps == QueueInv /\ Queue!Crash => QueueInv'
<1> SUFFICES ASSUME QueueInv, Queue!Crash PROVE QueueInv'
  OBVIOUS
<1>1. /\ worker' = Queue!NoWorker /\ worker'.event = NoEvent
      /\ faults \in Nat /\ faults' = faults + 1 /\ faults' \in 0..MaxFaults
      /\ UNCHANGED <<row, holding, acked, done>>
  BY IdleIsAWorker DEF Queue!Crash, Queue!Fault, QueueInv, Queue!TypeOK
<1>2. Queue!TypeOK'
  BY <1>1, IdleIsAWorker DEF QueueInv, Queue!TypeOK, Queue!Crash
<1>3. WorkerOK'
  BY <1>1 DEF WorkerOK
<1>4. AttemptsPaid'
  <2>1. \A f \in Events : row[f].attempts \in Nat
    BY DEF QueueInv, Queue!TypeOK, Queue!Row
  <2> QED BY <1>1, <2>1 DEF QueueInv, AttemptsPaid
<1>5. EffectsPaid'
  <2>1. \A f \in Events : done[f] \in Nat /\ done[f] <= faults + 1
    BY <1>1 DEF QueueInv, EffectsPaid, Queue!TypeOK
  <2> QED BY <1>1, <2>1 DEF EffectsPaid
<1> QED BY <1>2, <1>3, <1>4, <1>5 DEF QueueInv

-----------------------------------------------------------------------------
\* Every step of the intake, the drain, the clocks or a crash keeps the
\* invariant.
THEOREM NextQueueInv == QueueInv /\ [Queue!Next]_(Queue!vars) => QueueInv'
<1> SUFFICES ASSUME QueueInv, [Queue!Next]_(Queue!vars) PROVE QueueInv'
  OBVIOUS
<1>1. ASSUME NEW r \in Receivers, NEW e \in Events, Queue!Deliver(r, e) PROVE QueueInv'
  BY <1>1, DeliverKeeps
<1>2. ASSUME NEW r \in Receivers, Queue!EnqueueRazorpayWebhook(r) \/ Queue!EnqueueFails(r)
      PROVE  QueueInv'
  BY <1>2, EnqueueKeeps
<1>3. CASE Queue!Drain
  BY <1>3, QueueClaimKeeps, ProcessKeeps, SettleKeeps, SettleFailsKeeps DEF Queue!Drain
<1>4. ASSUME NEW e \in Events, Queue!RetryComesDue(e) \/ Queue!LeaseExpires(e) PROVE QueueInv'
  BY <1>4, ClockKeeps
<1>5. CASE Queue!Crash
  BY <1>5, QueueCrashKeeps
<1>6. CASE UNCHANGED Queue!vars
  BY <1>6 DEF Queue!vars, QueueInv, Queue!TypeOK, WorkerOK, AttemptsPaid, EffectsPaid, Entitled
<1> QED BY <1>1, <1>2, <1>3, <1>4, <1>5, <1>6 DEF Queue!Next

THEOREM AlwaysQueueInv == Queue!Spec => []QueueInv
BY InitQueueInv, NextQueueInv, PTL DEF Queue!Spec

\* Every variable keeps its type: the counters stay within the bound that the
\* schedule and the faults give them.
THEOREM QueueTypeCorrect == Queue!Spec => []Queue!TypeOK
<1>1. QueueInv => Queue!TypeOK
  BY DEF QueueInv
<1> QED BY <1>1, AlwaysQueueInv, PTL

\* However many payment events arrive, however often, and whatever crashes or
\* fails: an event is acted upon once and attempted as often as the schedule
\* says, and each repetition has its fault.
THEOREM RepetitionsArePaidFor == Queue!Spec => []RepetitionBudget
<1>1. QueueInv => RepetitionBudget
  <2> SUFFICES ASSUME QueueInv PROVE RepetitionBudget
    OBVIOUS
  <2>1. \A e \in Events : done[e] <= 1 + faults
    BY DEF QueueInv, EffectsPaid, Queue!TypeOK
  <2> QED BY <2>1 DEF QueueInv, AttemptsPaid, RepetitionBudget, Queue!RepetitionBudget
<1> QED BY <1>1, AlwaysQueueInv, PTL

-----------------------------------------------------------------------------
(* The queue implements the promise the Shopify queue implements too, with  *)
(* no way to act on the spot and no operator who reopens an event.          *)

Stage(r) ==
    CASE r.status = "ABSENT" -> "sender"
      [] r.status \in {"RECEIVED", "PROCESSING"} -> "queued"
      [] r.status = "FAILED" -> "given up"
      [] OTHER -> "settled"

\* Settled in the database, where the worker goes on to report a failure.
Doubted(e) ==
    /\ Stage(row[e]) = "settled"
    /\ worker.event = e /\ worker.pc = "settle" /\ worker.outcome = "failed"

Promise == INSTANCE DeliveryPromise
               WITH stage <- [e \in Events |-> Stage(row[e])],
                    doubted <- {e \in Events : Doubted(e)}, answered <- acked,
                    handled <- {}, OnTheSpot <- {}, MayRedo <- FALSE

\* Razorpay is told to stop only when the event is stored, and an event that
\* was dealt with is touched again only by a worker that never learnt it was.
KeepsPromise == Promise!Spec

\* A step that leaves the stages and the doubts of all events alone.
LEMMA Stutter ==
    ASSUME \A e \in Events : Stage(row'[e]) = Stage(row[e]),
           \A e \in Events : Doubted(e)' <=> Doubted(e),
           UNCHANGED acked
    PROVE  UNCHANGED Promise!vars
BY DEF Promise!vars

\* A step that leaves all doubts alone.
LEMMA SameDoubts ==
    ASSUME \A e \in Events : Doubted(e)' <=> Doubted(e)
    PROVE  {e \in Events : Doubted(e)}' = {e \in Events : Doubted(e)}
OBVIOUS

\* A step that moves the stage of one event.
LEMMA OneStage ==
    ASSUME Queue!TypeOK, NEW e \in Events, NEW t,
           row' = [row EXCEPT ![e] = t]
    PROVE  [f \in Events |-> Stage(row[f])]'
              = [[f \in Events |-> Stage(row[f])] EXCEPT ![e] = Stage(t)]
<1>1. /\ row'[e] = t /\ \A f \in Events : f # e => row'[f] = row[f]
  BY DEF Queue!TypeOK
<1>2. \A f \in Events : Stage(row'[f]) = IF f = e THEN Stage(t) ELSE Stage(row[f])
  BY <1>1
<1> QED BY <1>2

\* Storing a delivery accepts it; finding it stored answers it.
LEMMA EnqueuePromised ==
    ASSUME QueueInv, NEW r \in Receivers,
           Queue!EnqueueRazorpayWebhook(r) \/ Queue!EnqueueFails(r)
    PROVE  [Promise!Next]_(Promise!vars)
<1> DEFINE e == delivery[r]
<1>1. /\ e \in Events /\ row[e] \in Queue!Row
      /\ UNCHANGED <<worker, done, faults>>
      /\ row' \in {row, [row EXCEPT ![e] = Queue!Stored(row[e])]}
      /\ acked' \in {acked, acked \cup {e}}
      /\ acked' # acked => row' = [row EXCEPT ![e] = Queue!Stored(row[e])]
  BY DEF Queue!EnqueueRazorpayWebhook, Queue!EnqueueFails, QueueInv, Queue!TypeOK
<1> HIDE DEF e
<1>2. worker.event = e => row[e].status # "ABSENT"
  BY <1>1 DEF QueueInv, WorkerOK, Queue!NoWorker
<1>3. \A f \in Events : Doubted(f)' <=> Doubted(f)
  <2> SUFFICES ASSUME NEW f \in Events PROVE Doubted(f)' <=> Doubted(f)
    OBVIOUS
  <2>1. worker.event = f => row'[f] = row[f]
    BY <1>1, <1>2, StoredFields DEF QueueInv, Queue!TypeOK
  <2> QED BY <1>1, <2>1 DEF Doubted
<1>4. CASE row[e].status = "ABSENT" /\ row' = [row EXCEPT ![e] = Queue!Stored(row[e])]
  <2>1. Stage(row[e]) = "sender" /\ Stage(Queue!Stored(row[e])) = "queued"
    BY <1>1, <1>4, StoredFields DEF Stage
  <2>2. Promise!Accept(e)
    BY <1>1, <1>3, <1>4, <2>1, OneStage, SameDoubts DEF Promise!Accept, QueueInv
  <2> QED BY <1>1, <2>2 DEF Promise!Next
<1>5. CASE ~(row[e].status = "ABSENT" /\ row' = [row EXCEPT ![e] = Queue!Stored(row[e])])
  <2>1. row' = row
    BY <1>1, <1>5, StoredFields DEF QueueInv, Queue!TypeOK
  <2>2. CASE acked' = acked
    BY <1>3, <2>1, <2>2, Stutter
  <2>3. CASE acked' # acked
    <3>1. Stage(row[e]) # "sender"
      BY <1>1, <1>5, <2>3 DEF Stage
    <3>2. Promise!Answer(e)
      BY <1>1, <1>3, <2>1, <2>3, <3>1, SameDoubts DEF Promise!Answer
    <3> QED BY <1>1, <3>2 DEF Promise!Next
  <2> QED BY <2>2, <2>3
<1> QED BY <1>4, <1>5

\* Claiming and processing are out of the promise's sight.
LEMMA WorkPromised ==
    ASSUME QueueInv, Queue!Claim \/ Queue!ProcessWebhook
    PROVE  [Promise!Next]_(Promise!vars)
<1>1. CASE Queue!Claim
  <2>1. worker.event = NoEvent /\ acked' = acked /\ worker'.pc = "process"
    BY <1>1, IdleIsAWorker DEF Queue!Claim, QueueInv, WorkerOK, Queue!NoWorker
  <2>2. \A e \in Events : ~Doubted(e) /\ ~Doubted(e)'
    BY <2>1 DEF Doubted
  <2>3. \A e \in Events : \/ row'[e] = row[e]
                         \/ /\ row[e].status \in {"RECEIVED", "PROCESSING"}
                            /\ row'[e].status = "PROCESSING"
    <3>1. PICK e \in Events :
             /\ Queue!Claimable(e)
             /\ row' = [row EXCEPT ![e].status = "PROCESSING", ![e].lease = "live",
                                   ![e].attempts = @ + 1]
      BY <1>1 DEF Queue!Claim
    <3>2. row[e] \in Queue!Row /\ row[e].status \in {"RECEIVED", "PROCESSING"}
      BY <3>1 DEF Queue!Claimable, QueueInv, Queue!TypeOK
    <3>3. /\ row'[e].status = "PROCESSING"
          /\ \A f \in Events : f # e => row'[f] = row[f]
      BY <3>1, <3>2 DEF QueueInv, Queue!TypeOK, Queue!Row
    <3> QED BY <3>2, <3>3
  <2>4. \A e \in Events : Stage(row'[e]) = Stage(row[e])
    BY <2>3 DEF Stage
  <2> QED BY <2>1, <2>2, <2>4, Stutter
<1>2. CASE Queue!ProcessWebhook
  <2>1. /\ worker.pc = "process" /\ UNCHANGED <<row, acked>>
        /\ worker'.event = worker.event
        /\ worker.event \in Events => row[worker.event].status = "PROCESSING"
    <3>1. worker.pc = "process" /\ UNCHANGED <<row, acked>> /\ worker \in Queue!Worker
      BY <1>2 DEF Queue!ProcessWebhook, QueueInv, Queue!TypeOK
    <3>2. worker'.event = worker.event
      BY <1>2, <3>1 DEF Queue!ProcessWebhook, Queue!Worker
    <3>3. worker.outcome = "none" /\ row[worker.event].status = "PROCESSING"
      BY <3>1 DEF QueueInv, WorkerOK, Queue!NoWorker
    <3> QED BY <3>1, <3>2, <3>3
  <2>2. \A e \in Events : ~Doubted(e) /\ ~Doubted(e)'
    BY <2>1 DEF Doubted, Stage
  <2> QED BY <2>1, <2>2, Stutter
<1> QED BY <1>1, <1>2

\* A settlement finishes the event, or recants it when the worker was told
\* that its first write failed though it had not.
LEMMA SettlePromised ==
    ASSUME QueueInv, Queue!Settle \/ Queue!SettleFails
    PROVE  [Promise!Next]_(Promise!vars)
<1>0. PICK e \in Events : e = worker.event
  BY DEF Queue!Settle, Queue!SettleFails, QueueInv, WorkerOK, Queue!NoWorker
<1> DEFINE t == Queue!Settled(row[e], worker.outcome, worker.attempts)
<1>1. /\ worker.event = e /\ row[e] \in Queue!Row /\ worker.outcome \in Queue!Outcomes
      /\ worker.attempts \in Nat /\ worker \in Queue!Worker /\ worker.pc = "settle"
      /\ row[e].status \in
            IF worker.outcome = "failed" THEN {"PROCESSING", "PROCESSED", "IGNORED"}
                                         ELSE {"PROCESSING"}
  BY <1>0 DEF Queue!Settle, Queue!SettleFails, QueueInv, WorkerOK, Queue!TypeOK, Queue!Worker,
      Queue!NoWorker
<1>2. /\ t.status \in IF worker.outcome = "failed" THEN {"RECEIVED", "FAILED"}
                                                 ELSE {"PROCESSED", "IGNORED"}
  BY <1>1, SettledFields
<1>3. /\ row' \in {row, [row EXCEPT ![e] = t]}
      /\ UNCHANGED acked
      /\ \/ worker' = Queue!NoWorker /\ (worker.outcome = "failed" \/ row' # row)
         \/ worker.outcome # "failed" /\ worker' = [worker EXCEPT !.outcome = "failed"]
  <2>1. row[e] # t
    BY <1>1, <1>2
  <2>2. [row EXCEPT ![e] = t] # row
    BY <1>1, <2>1 DEF QueueInv, Queue!TypeOK
  <2> QED BY <1>1, <2>2 DEF Queue!Settle, Queue!SettleFails
<1> HIDE DEF t
<1>4. /\ \A f \in Events : f # e => row'[f] = row[f] /\ ~Doubted(f) /\ ~Doubted(f)'
      /\ Doubted(e) <=> /\ worker.outcome = "failed"
                        /\ row[e].status \in {"PROCESSED", "IGNORED"}
  <2>1. \A f \in Events : f # e => row'[f] = row[f]
    BY <1>1, <1>3 DEF QueueInv, Queue!TypeOK
  <2>2. worker'.event \in {e, NoEvent}
    BY <1>1, <1>3, IdleIsAWorker DEF Queue!Worker
  <2>3. \A f \in Events : f # e => ~Doubted(f) /\ ~Doubted(f)'
    BY <1>1, <2>2 DEF Doubted
  <2> QED BY <1>1, <2>1, <2>3 DEF Doubted, Stage
<1>5. CASE row' = row
  <2>1. CASE worker' = Queue!NoWorker
    <3>1. ~Doubted(e)'
      BY <1>1, <2>1, IdleIsAWorker DEF Doubted
    <3>2. Promise!Desert
      BY <1>3, <1>4, <1>5, <3>1 DEF Promise!Desert
    <3> QED BY <3>2 DEF Promise!Next
  <2>2. CASE worker' # Queue!NoWorker
    <3>1. ~Doubted(e) /\ ~Doubted(e)'
      BY <1>1, <1>3, <1>4, <1>5, <2>2 DEF Doubted, Stage
    <3> QED BY <1>3, <1>4, <1>5, <3>1, Stutter
  <2> QED BY <2>1, <2>2
<1>6. CASE row' = [row EXCEPT ![e] = t]
  <2>1. /\ [f \in Events |-> Stage(row[f])]'
               = [[f \in Events |-> Stage(row[f])] EXCEPT ![e] = Stage(t)]
        /\ row'[e] = t
    BY <1>1, <1>6, OneStage DEF QueueInv, Queue!TypeOK
  <2>2. CASE worker.outcome # "failed"
    <3>1. Stage(row[e]) = "queued" /\ Stage(t) = "settled" /\ ~Doubted(e)
      BY <1>1, <1>2, <1>4, <2>2 DEF Stage
    <3>2. {f \in Events : Doubted(f)} = {}
      BY <1>4, <3>1
    <3>3. {f \in Events : Doubted(f)}' \in {{}, {e}}
      BY <1>4
    <3>4. Promise!Finish(e, "settled")
      BY <1>1, <1>3, <2>1, <3>1, <3>2, <3>3 DEF Promise!Finish
    <3> QED BY <1>1, <3>4 DEF Promise!Next
  <2>3. CASE worker.outcome = "failed"
    <3>1. Stage(t) \in {"queued", "given up"}
      BY <1>2, <2>3 DEF Stage
    <3>2. ~Doubted(e)'
      BY <2>1, <3>1 DEF Doubted
    <3>3. {f \in Events : Doubted(f)}' = {f \in Events : Doubted(f)} \ {e}
      BY <1>4, <3>2
    <3>4. CASE Doubted(e)
      <4>1. Promise!Recant(e)
        BY <1>1, <1>3, <2>1, <3>1, <3>3, <3>4 DEF Promise!Recant
      <4> QED BY <1>1, <4>1 DEF Promise!Next
    <3>5. CASE ~Doubted(e)
      <4>1. Stage(row[e]) = "queued" /\ UNCHANGED {f \in Events : Doubted(f)}
        BY <1>1, <1>4, <2>3, <3>3, <3>5 DEF Stage
      <4>2. CASE Stage(t) = "given up"
        <5>1. Promise!Finish(e, "given up")
          BY <1>1, <1>3, <2>1, <4>1, <4>2 DEF Promise!Finish
        <5> QED BY <1>1, <5>1 DEF Promise!Next
      <4>3. CASE Stage(t) = "queued"
        BY <1>3, <1>4, <2>1, <3>2, <3>5, <4>1, <4>3, Stutter
      <4> QED BY <3>1, <4>2, <4>3
    <3> QED BY <3>4, <3>5
  <2> QED BY <2>2, <2>3
<1> QED BY <1>3, <1>5, <1>6

\* The initial state and every step of the queue are those of the promise.
THEOREM ImplementsPromise == Queue!Spec => KeepsPromise
<1>1. Queue!Init => Promise!Init
  <2> SUFFICES ASSUME Queue!Init PROVE Promise!Init
    OBVIOUS
  <2>1. \A e \in Events : Stage(row[e]) = "sender"
    BY DEF Queue!Init, Stage, Queue!NoRow
  <2>2. \A e \in Events : ~Doubted(e)
    BY <2>1 DEF Doubted
  <2> QED BY <2>1, <2>2 DEF Queue!Init, Promise!Init
<1>2. QueueInv /\ [Queue!Next]_(Queue!vars) => [Promise!Next]_(Promise!vars)
  <2> SUFFICES ASSUME QueueInv, [Queue!Next]_(Queue!vars) PROVE [Promise!Next]_(Promise!vars)
    OBVIOUS
  <2>1. ASSUME NEW r \in Receivers, NEW e \in Events, Queue!Deliver(r, e)
        PROVE  [Promise!Next]_(Promise!vars)
    BY <2>1, Stutter DEF Queue!Deliver, Doubted
  <2>2. ASSUME NEW r \in Receivers, Queue!EnqueueRazorpayWebhook(r) \/ Queue!EnqueueFails(r)
        PROVE  [Promise!Next]_(Promise!vars)
    BY <2>2, EnqueuePromised
  <2>3. CASE Queue!Drain
    BY <2>3, WorkPromised, SettlePromised DEF Queue!Drain
  <2>4. ASSUME NEW e \in Events, Queue!RetryComesDue(e) \/ Queue!LeaseExpires(e)
        PROVE  [Promise!Next]_(Promise!vars)
    <3>1. /\ \A f \in Events : row'[f].status = row[f].status
          /\ UNCHANGED <<worker, acked>>
      BY <2>4 DEF Queue!RetryComesDue, Queue!LeaseExpires, QueueInv, Queue!TypeOK, Queue!Row
    <3> QED BY <3>1, Stutter DEF Stage, Doubted
  <2>5. CASE Queue!Crash
    <3>1. \A e \in Events : ~Doubted(e)'
      BY <2>5, IdleIsAWorker DEF Queue!Crash, Doubted
    <3>2. Promise!Desert
      BY <2>5, <3>1 DEF Queue!Crash, Promise!Desert
    <3> QED BY <3>2 DEF Promise!Next
  <2>6. CASE UNCHANGED Queue!vars
    BY <2>6, Stutter DEF Queue!vars, Doubted
  <2> QED BY <2>1, <2>2, <2>3, <2>4, <2>5, <2>6 DEF Queue!Next
<1> QED BY <1>1, <1>2, AlwaysQueueInv, PTL DEF Queue!Spec, KeepsPromise, Promise!Spec
=============================================================================
