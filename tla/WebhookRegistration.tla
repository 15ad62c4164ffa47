-------------------------- MODULE WebhookRegistration --------------------------
(***************************************************************************)
(* Which events Shopify delivers to this backend (webhooks/webhooks.       *)
(* service.ts, webhook.registration.ts): an operator's run lists the       *)
(* subscriptions, plans one action for each wanted topic, and performs     *)
(* them one call at a time, while another run or another deployment of     *)
(* the same app does the same.                                             *)
(***************************************************************************)
EXTENDS Integers, Sequences, FiniteSets, FiniteSetsExt

CONSTANTS
    Runs,               \* registration runs of this deployment
    PlannedTopics,      \* PLANNED_WEBHOOK_TOPICS, in order
    OtherTopic,         \* a topic that is no longer wanted
    MaxRefusals, MaxLostAnswers, MaxStrangers, MaxSubscriptions

VARIABLES
    subs,       \* the subscriptions at Shopify: [id, topic, url]
    issued,     \* ids given out so far
    run,        \* run[r]
    refusals, lost, strangers   \* bounds on what goes wrong

registrationVars == <<subs, issued, run, refusals, lost, strangers>>

-----------------------------------------------------------------------------
Desired == {PlannedTopics[i] : i \in DOMAIN PlannedTopics}
Topics == Desired \union {OtherTopic}

\* Where a subscription delivers to: here, here as Shopify may echo it with a trailing
\* slash, at another address over HTTP, or at an endpoint that has no callback URL.
Urls == {"ours", "ours/", "theirs", "pubsub"}

\* normaliseCallbackUrl
NormaliseCallbackUrl(url) == IF url = "ours/" THEN "ours" ELSE url

\* requireCallbackUrl registers nothing before APP_URL and the secret are set; a run
\* that has not started has no listing.
Idle == [pc |-> "idle", dryRun |-> FALSE, existing |-> {}, outcomes |-> <<>>, orphaned |-> {}, disturbed |-> FALSE]

RegistrationInit ==
    /\ subs \in {{[id |-> 1, topic |-> t, url |-> u]} : t \in Topics, u \in Urls} \union {{}}
    /\ issued = 1
    /\ run = [r \in Runs |-> Idle]
    /\ refusals = 0 /\ lost = 0 /\ strangers = 0

First(entries) == CHOOSE e \in entries : \A d \in entries : e.id <= d.id

\* planWebhookRegistration for one topic: an exact match is kept, another HTTP
\* subscription repointed, one on another transport left alone.
PlanWebhookRegistration(existing, topic) ==
    LET matches == {e \in existing : e.topic = topic}
        exact == {e \in matches : NormaliseCallbackUrl(e.url) = "ours"}
        http == {e \in matches : e.url # "pubsub"}
    IN  IF matches = {} THEN [action |-> "create", id |-> 0]
        ELSE IF exact # {} THEN [action |-> "keep", id |-> First(exact).id]
        ELSE IF http # {} THEN [action |-> "update", id |-> First(http).id]
        ELSE [action |-> "skip", id |-> First(matches).id]

\* Subscriptions of this app to topics it no longer wants: reported, never deleted.
Orphaned(existing) == {e \in existing : e.topic \notin Desired /\ NormaliseCallbackUrl(e.url) = "ours"}

\* The topic a run has come to
Topic(r) == PlannedTopics[Len(run[r].outcomes) + 1]
Entry(r) == PlanWebhookRegistration(run[r].existing, Topic(r))

At(r, action) ==
    /\ run[r].pc = "acting" /\ Len(run[r].outcomes) < Len(PlannedTopics)
    /\ Entry(r).action = action

Outcome(r, outcome) == run' = [run EXCEPT ![r].outcomes = Append(@, outcome)]

-----------------------------------------------------------------------------
(* Shopify *)

\* One address is subscribed to a topic once, and a topic needs the scope of its data.
Taken(topic, url, id) == \E e \in subs : e.topic = topic /\ e.url = url /\ e.id # id

Answers == {"done", "refused", "lost"}

\* What a mutation does: it takes effect or is refused, and its answer may be lost, after
\* which the client tries again and gives up.
Call(effect, possible, answer) ==
    \/ answer = "done" /\ possible /\ effect /\ UNCHANGED <<refusals, lost>>
    \/ answer = "refused" /\ ~possible /\ UNCHANGED <<subs, issued, refusals, lost>>
    \/ /\ answer = "refused" /\ refusals < MaxRefusals
       /\ refusals' = refusals + 1 /\ UNCHANGED <<subs, issued, lost>>
    \/ /\ answer = "lost" /\ lost < MaxLostAnswers
       /\ lost' = lost + 1 /\ UNCHANGED refusals
       /\ (possible /\ effect) \/ UNCHANGED <<subs, issued>>

-----------------------------------------------------------------------------
(* registerWebhookSubscriptions *)

\* listWebhookSubscriptions
Start(r, dryRun) ==
    /\ run[r].pc = "idle"
    /\ run' = [run EXCEPT ![r] = [Idle EXCEPT !.pc = "acting", !.dryRun = dryRun,
                                              !.existing = subs, !.orphaned = Orphaned(subs)]]
    /\ UNCHANGED <<subs, issued, refusals, lost, strangers>>

StartFails(r) ==
    /\ run[r].pc = "idle" /\ lost < MaxLostAnswers /\ lost' = lost + 1
    /\ run' = [run EXCEPT ![r].pc = "threw"]
    /\ UNCHANGED <<subs, issued, refusals, strangers>>

Keep(r) == At(r, "keep") /\ Outcome(r, "kept") /\ UNCHANGED <<subs, issued, refusals, lost, strangers>>
Skip(r) == At(r, "skip") /\ Outcome(r, "skipped") /\ UNCHANGED <<subs, issued, refusals, lost, strangers>>

DryRun(r) ==
    /\ run[r].dryRun
    /\ \/ At(r, "create") /\ Outcome(r, "created")
       \/ At(r, "update") /\ Outcome(r, "updated")
    /\ UNCHANGED <<subs, issued, refusals, lost, strangers>>

\* Mutant: what Shopify answers in userErrors is not looked at.
ReportedRegardless(outcome, answer) == IF answer = "lost" THEN "failed" ELSE outcome

\* What is reported of a call: userErrors are thrown, and whatever is thrown is a failure
\* of this topic, after which the run goes on.
Reported(outcome, answer) == IF answer = "done" THEN outcome ELSE "failed"

Create(r) ==
    /\ ~run[r].dryRun /\ At(r, "create") /\ issued < MaxSubscriptions
    /\ \E answer \in Answers :
        /\ Call(/\ subs' = subs \union {[id |-> issued + 1, topic |-> Topic(r), url |-> "ours"]}
                /\ issued' = issued + 1,
                ~Taken(Topic(r), "ours", 0), answer)
        /\ Outcome(r, Reported("created", answer))
    /\ UNCHANGED strangers

Update(r) ==
    /\ ~run[r].dryRun /\ At(r, "update")
    /\ LET id == Entry(r).id IN
       \E answer \in Answers :
           /\ Call(/\ subs' = {IF e.id = id THEN [e EXCEPT !.url = "ours"] ELSE e : e \in subs}
                   /\ UNCHANGED issued,
                   (\E e \in subs : e.id = id) /\ ~Taken(Topic(r), "ours", id), answer)
           /\ Outcome(r, Reported("updated", answer))
    /\ UNCHANGED strangers

Finish(r) ==
    /\ run[r].pc = "acting" /\ Len(run[r].outcomes) = Len(PlannedTopics)
    /\ run' = [run EXCEPT ![r].pc = "done", ![r].existing = {}]
    /\ UNCHANGED <<subs, issued, refusals, lost, strangers>>

-----------------------------------------------------------------------------
(* What else changes the subscriptions *)

\* From here on what a run under way has seen of a wanted topic is out of date.
Disturb(topics) ==
    run' = [r \in Runs |-> IF run[r].pc # "idle" /\ topics \intersect Desired # {}
                           THEN [run[r] EXCEPT !.disturbed = TRUE] ELSE run[r]]

\* deleteWebhookSubscription: an operator prunes an orphan, or deletes another one.
DeleteWebhookSubscription(e) ==
    /\ strangers < MaxStrangers /\ strangers' = strangers + 1
    /\ subs' = subs \ {e} /\ Disturb({e.topic})
    /\ UNCHANGED <<issued, refusals, lost>>

\* Another deployment, or the Shopify admin
StrangerRepoints(e) ==
    /\ strangers < MaxStrangers /\ strangers' = strangers + 1
    /\ \E url \in Urls : ~Taken(e.topic, url, e.id) /\ subs' = (subs \ {e}) \union {[e EXCEPT !.url = url]}
    /\ Disturb({e.topic})
    /\ UNCHANGED <<issued, refusals, lost>>

StrangerCreates ==
    /\ strangers < MaxStrangers /\ strangers' = strangers + 1 /\ issued < MaxSubscriptions
    /\ \E t \in Topics, url \in Urls :
          ~Taken(t, url, 0) /\ subs' = subs \union {[id |-> issued + 1, topic |-> t, url |-> url]}
    /\ issued' = issued + 1
    /\ UNCHANGED <<run, refusals, lost>>

AppIsUninstalled ==
    /\ strangers < MaxStrangers /\ strangers' = strangers + 1
    /\ subs' = {} /\ Disturb(Desired)
    /\ UNCHANGED <<issued, refusals, lost>>

RegistrationNext ==
    \/ \E r \in Runs : \/ \E dryRun \in BOOLEAN : Start(r, dryRun)
                       \/ StartFails(r) \/ Keep(r) \/ Skip(r) \/ DryRun(r)
                       \/ Create(r) \/ Update(r) \/ Finish(r)
    \/ \E e \in subs : DeleteWebhookSubscription(e) \/ StrangerRepoints(e)
    \/ StrangerCreates
    \/ AppIsUninstalled

RegistrationSpec == RegistrationInit /\ [][RegistrationNext]_registrationVars

-----------------------------------------------------------------------------
(* Properties *)

Delivered(topic) == \E e \in subs : e.topic = topic /\ NormaliseCallbackUrl(e.url) = "ours"

\* What a run reports is so: a topic it calls created, updated or kept is delivered here
\* unless somebody else took the subscription away, however many runs overlapped and
\* whichever of their calls were refused or lost their answer.
RegistrationDelivers ==
    \A r \in Runs : ~run[r].disturbed /\ ~run[r].dryRun =>
        \A i \in DOMAIN run[r].outcomes :
            run[r].outcomes[i] \in {"created", "updated", "kept"} => Delivered(PlannedTopics[i])

=============================================================================
