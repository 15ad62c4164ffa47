------------------------------- MODULE MCDurable -------------------------------
(***************************************************************************)
(* Two parts of the backend that answer a request they cannot finish by    *)
(* leaving something in Mongo for the next one: the idempotency gate and   *)
(* the push of candidates.  They share no state; a behaviour is one of     *)
(* one of them, and the other rests.                                       *)
(***************************************************************************)
EXTENDS Idempotency

CONSTANTS Inputs, Operations, Products, MaxDisturbances,
          Editors, Decisions, PromptShopify, PromptPushes
VARIABLES doc, call, draft, indexed, visible, late, cost, edits, published, lost, faults

Push == INSTANCE PushDraftProperties

pushVars == <<doc, call, draft, indexed, visible, late, cost, edits, published, lost, faults>>

VARIABLE service

DurableInit == service \in {"gate", "push"} /\ Init /\ Push!Init

DurableNext ==
    /\ UNCHANGED service
    /\ \/ service = "gate" /\ Next /\ UNCHANGED pushVars
       \/ service = "push" /\ Push!Next /\ UNCHANGED vars

\* Only the part that runs is scheduled.
DurableSpec ==
    /\ DurableInit /\ [][DurableNext]_<<service, vars, pushVars>>
    /\ \/ service = "gate" /\ Fairness
       \/ service = "push" /\ Push!Fairness

\* A draft that was made is adopted in the end, whoever died and whatever
\* answer was lost (push.service.ts, the recovery of a push).
DraftsAreAdopted == Push!DraftsAreAdopted
=============================================================================
