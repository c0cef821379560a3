---------------------------- MODULE EventDelivery ----------------------------
(***************************************************************************)
(* Domain events from emission to the subscribers' handlers                *)
(* (internal/engine/wasm host.event, internal/engine/eventdelivery).       *)
(*                                                                         *)
(* host.event.emit_tx inserts a fan-out job in the emitter's transaction;  *)
(* host.event.emit inserts it on its own, after calling the synchronous    *)
(* subscribers inline when asked to.  The fan-out job inserts one delivery *)
(* job per subscriber and writes the event log; a delivery job calls the   *)
(* handler, inside a transaction that also claims the delivery in a ledger *)
(* when the subscription is transactional.  River runs jobs at least once: *)
(* an attempt can fail, or finish without its completion being recorded,   *)
(* at any point, and is repeated until its attempts are used up.  An       *)
(* operator can replay logged events and retry dead-lettered deliveries.   *)
(***************************************************************************)
EXTENDS Integers, FiniteSets, FiniteSetsExt

CONSTANTS Emissions,    \* calls of emit and emit_tx
          Key,          \* the event id each derives from its idempotency key
          Mode,         \* "tx", "plain" or "sync"
          Subs,         \* subscriptions, numbered in registration order
          Async, Transactional,  \* subsets of Subs
          MaxAttempts,  \* River's attempts per job
          MaxFailures,  \* bound on failing steps
          MaxReplays, MaxRetries  \* bounds on the operator's actions

ASSUME EmissionAssumption ==
    Mode \in [Emissions -> {"tx", "plain", "sync"}] /\ DOMAIN Key = Emissions
ASSUME SubsAssumption ==
    Subs \subseteq Nat /\ Async \subseteq Subs /\ Transactional \subseteq Async
ASSUME BoundAssumption == {MaxAttempts, MaxFailures, MaxReplays, MaxRetries} \subseteq Nat

Events == {Key[m] : m \in Emissions}

VARIABLES
    emit,      \* where each emission is
    inline,    \* synchronous subscribers it has yet to call
    fan,       \* fan[e]: state, attempt and SyncDispatched of the fan-out job
    holder,    \* holder[e]: the open transaction that inserted it
    todo,      \* subscribers the running fan-out has yet to visit
    jobs,      \* delivery jobs
    log,       \* events in event_log
    ledger,    \* committed rows <<event, sub>> of event_deliveries
    effects,   \* effects[e, s]: times the handler's effects were committed, replays apart
    failures, replays, retries

vars == <<emit, inline, fan, holder, todo, jobs, log, ledger, effects, failures, replays, retries>>
emissionVars == <<emit, inline, holder>>
deliveryVars == <<jobs, ledger, effects>>
operatorVars == <<replays, retries>>

Settled == {"completed", "discarded", "cancelled"}

Init ==
    /\ emit = [m \in Emissions |-> "start"]
    /\ inline = [m \in Emissions |-> Subs \ Async]
    /\ fan = [e \in Events |-> [state |-> "none", attempt |-> 0, sync |-> FALSE]]
    /\ holder = [e \in Events |-> "nobody"]
    /\ todo = [e \in Events |-> {}]
    /\ jobs = {}
    /\ log = {}
    /\ ledger = {}
    /\ effects = [d \in Events \X Subs |-> 0]
    /\ failures = 0 /\ replays = 0 /\ retries = 0

MayFail == failures < MaxFailures /\ failures' = failures + 1
Emit(m, s) == emit' = [emit EXCEPT ![m] = s]
FanOut(e, state) == fan' = [fan EXCEPT ![e].state = state]

\* Mutant: one attempt too many.
RetryState_OneMore(attempt) == IF attempt <= MaxAttempts THEN "available" ELSE "discarded"

\* River retries a failed attempt until there are none left.
RetryState(attempt) == IF attempt < MaxAttempts THEN "available" ELSE "discarded"

-----------------------------------------------------------------------------
(* host.event *)

\* River's unique index on the event id: a conflicting insert waits for an
\* open transaction's row, and does nothing when the row is committed.
InsertFanOut(e, state, sync) ==
    /\ fan[e].state # "held"
    /\ fan' = IF fan[e].state = "none"
              THEN [fan EXCEPT ![e] = [state |-> state, attempt |-> 0, sync |-> sync]] ELSE fan

\* Mutant: the job is inserted outside the emitter's transaction.
TxState_OwnConnection == "available"

\* enqueueEventDeliveryTx inserts through the caller's transaction.
TxState == "held"

\* A failed insert answers an error and adds no job.
EmitTx(m) ==
    /\ emit[m] = "start" /\ Mode[m] = "tx"
    /\ \/ /\ InsertFanOut(Key[m], TxState, FALSE)
          /\ holder' = IF fan[Key[m]].state = "none" THEN [holder EXCEPT ![Key[m]] = m] ELSE holder
          /\ Emit(m, "open") /\ UNCHANGED failures
       \/ MayFail /\ Emit(m, "error") /\ UNCHANGED <<fan, holder>>
    /\ UNCHANGED <<inline, todo, deliveryVars, log, operatorVars>>

\* The emitter's transaction commits or rolls back, its write and job together.
EndTx(m) ==
    /\ emit[m] = "open"
    /\ \E commit \in BOOLEAN :
          /\ Emit(m, IF commit THEN "ok" ELSE "rolledBack")
          /\ IF holder[Key[m]] = m /\ fan[Key[m]].state = "held"
             THEN FanOut(Key[m], IF commit THEN "available" ELSE "none")
             ELSE UNCHANGED fan
          /\ holder' = IF holder[Key[m]] = m THEN [holder EXCEPT ![Key[m]] = "nobody"] ELSE holder
    /\ UNCHANGED <<inline, todo, deliveryVars, log, failures, operatorVars>>

\* dispatchSyncSubscribers calls the synchronous subscribers in order; one
\* failure does not stop the others but fails the emission.  A handler that
\* fails or times out may have had its effects.
DispatchSync(m) ==
    /\ emit[m] \in {"start", "failing"} /\ Mode[m] = "sync" /\ inline[m] # {}
    /\ LET s == Min(inline[m])
       IN  /\ inline' = [inline EXCEPT ![m] = @ \ {s}]
           /\ \/ /\ effects' = [effects EXCEPT ![Key[m], s] = @ + 1]
                 /\ UNCHANGED <<emit, failures>>
              \/ /\ MayFail /\ Emit(m, "failing")
                 /\ \E done \in {0, 1} : effects' = [effects EXCEPT ![Key[m], s] = @ + done]
    /\ UNCHANGED <<fan, holder, todo, jobs, ledger, log, operatorVars>>

\* insertEventDelivery, after the synchronous subscribers if there are any.
EmitInsert(m) ==
    /\ \/ emit[m] = "start" /\ Mode[m] = "plain"
       \/ emit[m] \in {"start", "failing"} /\ Mode[m] = "sync" /\ inline[m] = {}
    /\ \/ /\ emit[m] = "start"
          /\ InsertFanOut(Key[m], "available", Mode[m] = "sync")
          /\ Emit(m, "ok") /\ UNCHANGED failures
       \/ emit[m] = "start" /\ MayFail /\ Emit(m, "error") /\ UNCHANGED fan
       \/ emit[m] = "failing" /\ Emit(m, "error") /\ UNCHANGED <<fan, failures>>
    /\ UNCHANGED <<inline, holder, todo, deliveryVars, log, operatorVars>>

-----------------------------------------------------------------------------
(* Worker: the fan-out job *)

FanOutStart(e) ==
    /\ fan[e].state = "available"
    /\ fan' = [fan EXCEPT ![e].state = "running", ![e].attempt = @ + 1]
    /\ todo' = [todo EXCEPT ![e] = {s \in Subs : s \in Async \/ ~fan[e].sync}]
    /\ UNCHANGED <<emissionVars, deliveryVars, log, failures, operatorVars>>

JobsOf(e, s, replay) == {j \in jobs : j.ev = e /\ j.sub = s /\ j.replay = replay}
NewJob(n, e, s, replay) ==
    [id |-> Cardinality(jobs) + n, ev |-> e, sub |-> s, replay |-> replay,
     state |-> "available", attempt |-> 0]

\* Mutant: River's default states, a settled job is forgotten.
Duplicate_ActiveOnly(e, s) == \E j \in JobsOf(e, s, FALSE) : j.state \notin Settled

\* UniqueAcrossAllJobStates: any job of the event and the subscriber.
Duplicate(e, s) == JobsOf(e, s, FALSE) # {}

FanOutInsert(e) ==
    /\ fan[e].state = "running" /\ todo[e] # {}
    /\ LET s == Min(todo[e])
       IN  /\ todo' = [todo EXCEPT ![e] = @ \ {s}]
           /\ jobs' = IF Duplicate(e, s) THEN jobs ELSE jobs \cup {NewJob(1, e, s, FALSE)}
    /\ UNCHANGED <<emissionVars, fan, log, ledger, effects, failures, operatorVars>>

\* Mutant: the event is logged as soon as the fan-out starts.
LogReady_AtOnce(e) == fan[e].state = "running"

\* The log row is written once every delivery job is inserted.
LogReady(e) == fan[e].state = "running" /\ todo[e] = {}

FanOutLog(e) ==
    /\ LogReady(e)
    /\ log' = log \cup {e}
    /\ FanOut(e, "logged")
    /\ UNCHANGED <<emissionVars, todo, deliveryVars, failures, operatorVars>>

FanOutComplete(e) ==
    /\ fan[e].state = "logged"
    /\ FanOut(e, "completed")
    /\ UNCHANGED <<emissionVars, todo, deliveryVars, log, failures, operatorVars>>

\* Mutant: the error is swallowed and the job counts as done.
FanOutFail_Swallowed(e) ==
    /\ fan[e].state \in {"running", "logged"} /\ MayFail
    /\ FanOut(e, "completed")
    /\ UNCHANGED <<emissionVars, todo, deliveryVars, log, operatorVars>>

\* The attempt fails, or the process dies and River rescues the job.
FanOutFail(e) ==
    /\ fan[e].state \in {"running", "logged"} /\ MayFail
    /\ FanOut(e, RetryState(fan[e].attempt))
    /\ UNCHANGED <<emissionVars, todo, deliveryVars, log, operatorVars>>

-----------------------------------------------------------------------------
(* SubscriberDeliveryWorker and HandlerInvoker *)

Becomes(j, s) == jobs' = (jobs \ {j}) \cup {[j EXCEPT !.state = s]}
AttemptFailed(j) == Becomes(j, RetryState(j.attempt))

\* The job's subscription has to be asynchronous.
Registered(j) == j.sub \in Async

DeliveryStart(j) ==
    /\ j.state = "available"
    /\ jobs' = (jobs \ {j}) \cup
          {[j EXCEPT !.attempt = @ + 1,
                     !.state = IF Registered(j) THEN "running" ELSE RetryState(j.attempt + 1)]}
    /\ UNCHANGED <<emissionVars, fan, todo, log, ledger, effects, failures, operatorVars>>

\* Mutant: the claim's row count is not looked at.
AlreadyDelivered_Ignored(j) == FALSE

\* ON CONFLICT DO NOTHING affects no row; a replay's DO UPDATE affects one.
AlreadyDelivered(j) == <<j.ev, j.sub>> \in ledger /\ ~j.replay

\* Mutant: the claim is committed before the handler runs.
ClaimedLedger_Early(j) == ledger \cup {<<j.ev, j.sub>>}

\* The claim is part of the delivery's open transaction.
ClaimedLedger(j) == ledger

\* The ledger claim waits for a claim of the same delivery that is open.
DeliveryClaim(j) ==
    /\ j.state = "running"
    /\ IF j.sub \in Transactional
       THEN /\ \A k \in jobs : <<k.ev, k.sub>> = <<j.ev, j.sub>> => k.state # "handling"
            /\ IF AlreadyDelivered(j)
               THEN Becomes(j, "succeeded") /\ UNCHANGED ledger
               ELSE Becomes(j, "handling") /\ ledger' = ClaimedLedger(j)
       ELSE Becomes(j, "handling") /\ UNCHANGED ledger
    /\ UNCHANGED <<emissionVars, fan, todo, log, effects, failures, operatorVars>>

Applied(j) ==
    effects' = IF j.replay THEN effects ELSE [effects EXCEPT ![j.ev, j.sub] = @ + 1]

\* handle_event returns 0: claim and effects commit together.
HandlerSucceeds(j) ==
    /\ j.state = "handling"
    /\ Becomes(j, "succeeded")
    /\ ledger' = IF j.sub \in Transactional THEN ledger \cup {<<j.ev, j.sub>>} ELSE ledger
    /\ Applied(j)
    /\ UNCHANGED <<emissionVars, fan, todo, log, failures, operatorVars>>

\* The module was upgraded across an incompatible migration, or the acting
\* user is no longer a member: JobCancel.
DeliveryCancel(j) ==
    /\ j.state = "running" /\ MayFail
    /\ Becomes(j, "cancelled")
    /\ UNCHANGED <<emissionVars, fan, todo, log, ledger, effects, operatorVars>>

\* handle_event returns a permanent failure, which dead-letters the job.
\* Effects outside a transaction may remain.
HandlerRejects(j) ==
    /\ j.state = "handling" /\ MayFail
    /\ Becomes(j, "discarded")
    /\ IF j.sub \in Transactional THEN UNCHANGED effects ELSE Applied(j) \/ UNCHANGED effects
    /\ UNCHANGED <<emissionVars, fan, todo, log, ledger, operatorVars>>

\* Any other failure, or the process dies: an open transaction rolls back.
DeliveryFail(j) ==
    /\ j.state \in {"running", "handling", "succeeded"} /\ MayFail
    /\ AttemptFailed(j)
    /\ IF j.state = "handling" /\ j.sub \notin Transactional
       THEN Applied(j) \/ UNCHANGED effects ELSE UNCHANGED effects
    /\ UNCHANGED <<emissionVars, fan, todo, log, ledger, operatorVars>>

DeliveryComplete(j) ==
    /\ j.state = "succeeded"
    /\ Becomes(j, "completed")
    /\ UNCHANGED <<emissionVars, fan, todo, log, ledger, effects, failures, operatorVars>>

-----------------------------------------------------------------------------
(* Operator *)

\* EventsReplayWorker inserts a replay job for every asynchronous subscriber
\* of a logged event, unless one is under way or done.
EventsReplay(e) ==
    /\ e \in log /\ replays < MaxReplays
    /\ replays' = replays + 1
    /\ LET targets == {s \in Async : \A j \in JobsOf(e, s, TRUE) : j.state \in {"discarded", "cancelled"}}
       IN  jobs' = jobs \cup
             {NewJob(Cardinality({t \in targets : t <= s}), e, s, TRUE) : s \in targets}
    /\ UNCHANGED <<emissionVars, fan, todo, log, ledger, effects, failures, retries>>

\* DLQ.Retry makes a dead-lettered delivery available with fresh attempts.
DLQRetry(j) ==
    /\ j.state = "discarded" /\ retries < MaxRetries
    /\ retries' = retries + 1
    /\ jobs' = (jobs \ {j}) \cup {[j EXCEPT !.state = "available", !.attempt = 0]}
    /\ UNCHANGED <<emissionVars, fan, todo, log, ledger, effects, failures, replays>>

-----------------------------------------------------------------------------
EmissionStep(m) == EmitTx(m) \/ EndTx(m) \/ DispatchSync(m) \/ EmitInsert(m)
FanOutStep(e) == FanOutStart(e) \/ FanOutInsert(e) \/ FanOutLog(e) \/ FanOutComplete(e)
DeliveryStep(j) == DeliveryStart(j) \/ DeliveryClaim(j) \/ HandlerSucceeds(j) \/ DeliveryComplete(j)
DeliveryFails(j) == DeliveryCancel(j) \/ HandlerRejects(j) \/ DeliveryFail(j)

Quiet ==
    /\ \A m \in Emissions : emit[m] \in {"ok", "rolledBack", "error"}
    /\ \A e \in Events : fan[e].state \in Settled \cup {"none"}
    /\ \A j \in jobs : j.state \in Settled

\* Nothing is left to emit or to deliver.
AllQuiet == Quiet /\ UNCHANGED vars

Next ==
    \/ \E m \in Emissions : EmissionStep(m)
    \/ \E e \in Events : FanOutStep(e) \/ FanOutFail(e) \/ EventsReplay(e)
    \/ \E j \in jobs : DeliveryStep(j) \/ DeliveryFails(j) \/ DLQRetry(j)
    \/ AllQuiet

Spec == Init /\ [][Next]_vars

\* River works every job it has; failing is never obligatory.
FairSpec ==
    /\ Spec
    /\ \A m \in Emissions : WF_vars(EmissionStep(m))
    /\ \A e \in Events : WF_vars(FanOutStep(e))
    /\ WF_vars(\E j \in jobs : DeliveryStep(j))

-----------------------------------------------------------------------------
(* Properties *)

JobStates == {"available", "running", "handling", "succeeded"} \cup Settled

\* Types; no job is attempted more often than River allows.
TypeOK ==
    /\ emit \in [Emissions -> {"start", "open", "failing", "ok", "rolledBack", "error"}]
    /\ inline \in [Emissions -> SUBSET Subs]
    /\ \A e \in Events : /\ fan[e].state \in {"none", "held", "available", "running", "logged"} \cup Settled
                         /\ fan[e].attempt \in 0..MaxAttempts /\ fan[e].sync \in BOOLEAN
                         /\ holder[e] \in Emissions \cup {"nobody"}
                         /\ todo[e] \subseteq Subs
    /\ \A j \in jobs : /\ j.ev \in Events /\ j.sub \in Subs /\ j.replay \in BOOLEAN
                       /\ j.state \in JobStates /\ j.attempt \in 0..MaxAttempts
    /\ log \subseteq Events
    /\ ledger \subseteq Events \X Subs
    /\ effects \in [Events \X Subs -> Nat]

\* An event exists exactly when a write that emitted it is committed: no job
\* survives the rollback of its emitter, and no committed emission lacks one,
\* whatever emissions of the same idempotency key overlap.
EventIffCommitted ==
    \A e \in Events :
       fan[e].state \notin {"none", "held"} <=> \E m \in Emissions : Key[m] = e /\ emit[m] = "ok"

\* A subscriber has one delivery job per event, however often the fan-out is
\* repeated and the event emitted again after the delivery has settled.
OneDeliveryJob ==
    \A e \in Events, s \in Subs : Cardinality(JobsOf(e, s, FALSE)) <= 1

\* An event in the log, which a replay reads, has been handed to all of its
\* asynchronous subscribers.
LoggedIsFannedOut == \A e \in log, s \in Async : JobsOf(e, s, FALSE) # {}

\* Apart from replays, a transactional subscriber's effects are committed at
\* most once per event: attempts repeated after a commit whose completion was
\* lost, and dead-letter retries, find the claim in the ledger.
TransactionalOnce == \A e \in Events, s \in Transactional : effects[e, s] <= 1

\* A delivery of a transactional subscriber that is reported as completed has
\* had its effects committed, by it or by a replay of the same event.
CompletedWasApplied ==
    \A j \in jobs :
       j.state = "completed" /\ j.sub \in Transactional /\ ~j.replay =>
          \/ effects[j.ev, j.sub] > 0
          \/ \E k \in JobsOf(j.ev, j.sub, TRUE) : <<k.ev, k.sub>> \in ledger

\* An event that exists ends with every asynchronous subscriber's delivery
\* settled (completed, cancelled or in the dead-letter queue), or with its
\* fan-out given up.
EventsSettle ==
    \A e \in Events : fan[e].state = "available" ~>
       \/ fan[e].state = "discarded"
       \/ \A s \in Async : \E j \in JobsOf(e, s, FALSE) : j.state \in Settled

(* What a test says *)

\* TestWork_SyncSubscriber_FallsBackToAsyncWhenNotSyncDispatched: an event not
\* dispatched inline reaches a synchronous subscriber through the queue.  While
\* nothing fails, no delivery ends in the dead-letter queue.
FallbackDelivers == failures = 0 => \A j \in jobs : j.state # "discarded"
=============================================================================
