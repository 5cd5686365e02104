------------------------------ MODULE Batcher ------------------------------
(***************************************************************************)
(* The request batcher and its one client, batched AKS machine creation:   *)
(* callers enqueue a create and wait, the batcher's loop collects pending  *)
(* batches until the burst is over or a batch is full, and one goroutine   *)
(* per batch makes a single Azure call and answers every request.          *)
(***************************************************************************)
EXTENDS Integers, FiniteSets

CONSTANTS Requests,      \* concurrent callers, each with a machine of its own
          Keys, Key,     \* batch keys, and the key of each request
          Stranger,      \* a machine name no request has
          MaxBatchSize

ASSUME BatcherAssumption ==
    /\ Key \in [Requests -> Keys]
    /\ Stranger \notin Requests
    /\ MaxBatchSize \in Nat \ {0}

VARIABLES
    pendingBatches,    \* key -> the requests of its pending batch
    trigger,           \* the wake-up channel holds its one token
    loop,              \* where the background loop is
    idleElapsed,       \* the idle timer has expired since it was last (re)set
    ctxDone,           \* the batcher's context is cancelled
    executing,         \* batches handed to a goroutine: members, step, result, who is left to answer
    responseChan,      \* what sits in each request's channel of capacity one
    caller, answer,    \* the caller of each request, and what it was told
    created            \* machines Azure accepted

loopVars   == <<loop, idleElapsed>>
callerVars == <<caller, answer>>
vars == <<pendingBatches, trigger, loopVars, ctxDone, executing, responseChan, callerVars, created>>

Answers == {"success", "apiError", "opError"}
NoResponse == "none"
Pending == UNION {pendingBatches[k] : k \in Keys}
NoBatches == [k \in Keys |-> {}]

-----------------------------------------------------------------------------
(* Callers: BeginCreateWithBatch.                                          *)

\* Enqueue under the lock; the wake-up follows after the unlock.
Enqueue(r) ==
    /\ caller[r] = "idle"
    /\ caller' = [caller EXCEPT ![r] = "appended"]
    /\ pendingBatches' = [pendingBatches EXCEPT ![Key[r]] = @ \cup {r}]
    /\ UNCHANGED <<trigger, loopVars, ctxDone, executing, responseChan, answer, created>>

Bug_UnbufferedTrigger == trigger \/ loop \in {"select", "waiting"}
\* The send does not block, and the channel has room for one token: a token that is already there
\* stands for this request too.
TriggerAfterSend == TRUE
Signal(r) ==
    /\ caller[r] = "appended"
    /\ caller' = [caller EXCEPT ![r] = "waiting"]
    /\ trigger' = TriggerAfterSend
    /\ UNCHANGED <<pendingBatches, loopVars, ctxDone, executing, responseChan, answer, created>>

\* The key cannot be determined: nothing is enqueued.
EnqueueFails(r) ==
    /\ caller[r] = "idle"
    /\ caller' = [caller EXCEPT ![r] = "answered"]
    /\ answer' = [answer EXCEPT ![r] = "opError"]
    /\ UNCHANGED <<pendingBatches, trigger, loopVars, ctxDone, executing, responseChan, created>>

Receive(r) ==
    /\ caller[r] = "waiting"
    /\ responseChan[r] # NoResponse
    /\ caller' = [caller EXCEPT ![r] = "answered"]
    /\ answer' = [answer EXCEPT ![r] = responseChan[r]]
    /\ responseChan' = [responseChan EXCEPT ![r] = NoResponse]
    /\ UNCHANGED <<pendingBatches, trigger, loopVars, ctxDone, executing, created>>

\* The caller's own context ends first. Its request stays where it is.
GiveUp(r) ==
    /\ caller[r] = "waiting"
    /\ caller' = [caller EXCEPT ![r] = "gaveUp"]
    /\ UNCHANGED <<pendingBatches, trigger, loopVars, ctxDone, executing, responseChan, answer,
                   created>>

\* An answered caller returns with another machine, and so with another channel.
Return(r) ==
    /\ caller[r] = "answered"
    /\ \A b \in executing : r \notin b.members
    /\ caller' = [caller EXCEPT ![r] = "idle"]
    /\ answer' = [answer EXCEPT ![r] = NoResponse]
    /\ responseChan' = [responseChan EXCEPT ![r] = NoResponse]
    /\ created' = created \ {r}
    /\ UNCHANGED <<pendingBatches, trigger, loopVars, ctxDone, executing>>

\* A caller whose request the model does not follow wakes the loop up.
SignalFromOthers ==
    /\ ~trigger
    /\ trigger' = TriggerAfterSend
    /\ UNCHANGED <<pendingBatches, loopVars, ctxDone, executing, responseChan, callerVars, created>>

-----------------------------------------------------------------------------
(* The background loop: run, waitForIdle, executeBatches, drain.           *)

anyBatchFull == \E k \in Keys : Cardinality(pendingBatches[k]) >= MaxBatchSize

Wake ==
    /\ loop = "select"
    /\ trigger
    /\ trigger' = FALSE
    /\ loop' = "check"
    /\ UNCHANGED <<pendingBatches, idleElapsed, ctxDone, executing, responseChan, callerVars, created>>

Bug_SkipCheck == "waiting"
\* Where waitForIdle goes from a check for full batches, at its start or after a wake-up.
AfterCheck == IF anyBatchFull THEN "ready" ELSE "waiting"
CheckFull ==
    /\ loop = "check"
    /\ loop' = AfterCheck
    /\ idleElapsed' = FALSE
    /\ UNCHANGED <<pendingBatches, trigger, ctxDone, executing, responseChan, callerVars, created>>

WakeWhileWaiting ==
    /\ loop = "waiting"
    /\ trigger
    /\ trigger' = FALSE
    /\ loop' = "check"
    /\ UNCHANGED <<pendingBatches, idleElapsed, ctxDone, executing, responseChan, callerVars, created>>

IdleTimerExpires ==
    /\ loop = "waiting"
    /\ ~idleElapsed
    /\ idleElapsed' = TRUE
    /\ UNCHANGED <<pendingBatches, trigger, loop, ctxDone, executing, responseChan, callerVars, created>>

IdleTimeout ==
    /\ loop = "waiting"
    /\ idleElapsed
    /\ loop' = "ready"
    /\ UNCHANGED <<pendingBatches, trigger, idleElapsed, ctxDone, executing, responseChan,
                   callerVars, created>>

Bug_NoMaxTimeout == FALSE
\* The max timer is not reset by wake-ups.
MaxTimerMayFire == loop = "waiting"
MaxTimeout ==
    /\ MaxTimerMayFire
    /\ loop' = "ready"
    /\ UNCHANGED <<pendingBatches, trigger, idleElapsed, ctxDone, executing, responseChan,
                   callerVars, created>>

\* Both selects watch the context, and run looks at it again before it executes anything.
NoticeShutdown ==
    /\ loop \in {"select", "waiting", "ready"}
    /\ ctxDone
    /\ loop' = "draining"
    /\ UNCHANGED <<pendingBatches, trigger, idleElapsed, ctxDone, executing, responseChan,
                   callerVars, created>>

NewBatch(k) == [members |-> pendingBatches[k], step |-> "built", left |-> pendingBatches[k],
                result |-> [r \in pendingBatches[k] |-> NoResponse]]

Bug_KeepPending == pendingBatches
\* The map is swapped for an empty one, so no request is in two batches.
SwappedBatches == NoBatches
executeBatches ==
    /\ loop = "ready"
    /\ ~ctxDone
    /\ loop' = "dispatching"
    /\ executing' = executing \cup {NewBatch(k) : k \in {j \in Keys : pendingBatches[j] # {}}}
    /\ pendingBatches' = SwappedBatches
    /\ UNCHANGED <<trigger, idleElapsed, ctxDone, responseChan, callerVars, created>>

\* The goroutines are started after the unlock; requests may arrive meanwhile.
Dispatched ==
    /\ loop = "dispatching"
    /\ loop' = "select"
    /\ UNCHANGED <<pendingBatches, trigger, idleElapsed, ctxDone, executing, responseChan,
                   callerVars, created>>

drain ==
    /\ loop = "draining"
    /\ \A r \in Pending : responseChan[r] = NoResponse
    /\ loop' = "stopped"
    /\ responseChan' = [r \in Requests |-> IF r \in Pending THEN "opError" ELSE responseChan[r]]
    /\ pendingBatches' = NoBatches
    /\ UNCHANGED <<trigger, idleElapsed, ctxDone, executing, callerVars, created>>

Shutdown ==
    /\ ~ctxDone
    /\ ctxDone' = TRUE
    /\ UNCHANGED <<pendingBatches, trigger, loopVars, executing, responseChan, callerVars, created>>

-----------------------------------------------------------------------------
(* executeBatch, in a goroutine per batch.                                 *)

Everyone(b, a) == [r \in b.members |-> a]

\* The header or the template cannot be built: no call is made.
BuildFails(b) ==
    /\ b \in executing /\ b.step = "built"
    /\ executing' = (executing \ {b}) \cup
                      {[b EXCEPT !.step = "distributing", !.result = Everyone(b, "opError")]}
    /\ UNCHANGED <<pendingBatches, trigger, loopVars, ctxDone, responseChan, callerVars, created>>

\* Azure's replies (external): no error, a batch error with a detail per failed machine, any other
\* error answered by the service, or no answer at all. A body may be unreadable and a detail may
\* name a machine outside the batch or none.
Replies(b) ==
    [kind : {"none", "batch", "other", "noResponse"}, readable : BOOLEAN,
     targets : SUBSET (b.members \cup {Stranger})]
Accepted(b, reply) ==
    CASE reply.kind = "none"       -> {b.members}
      [] reply.kind = "batch"      -> {b.members \ reply.targets}
      [] reply.kind = "other"      -> {{}}
      [] reply.kind = "noResponse" -> SUBSET b.members

Bug_DetailsOnly(b, reply) ==
    IF reply.kind = "batch" /\ reply.readable
    THEN [r \in reply.targets |-> "apiError"]
    ELSE Everyone(b, IF reply.kind = "none" THEN "success" ELSE "opError")
Bug_FirstDetailOnly(b, reply) ==
    CASE reply.kind = "none" -> Everyone(b, "success")
      [] reply.kind = "batch" /\ reply.readable /\ reply.targets # {} /\ Stranger \notin reply.targets ->
            LET first == CHOOSE r \in reply.targets : TRUE
            IN  [r \in b.members |-> IF r = first THEN "apiError" ELSE "success"]
      [] reply.kind = "other" /\ reply.readable -> Everyone(b, "apiError")
      [] OTHER -> Everyone(b, "opError")
\* extractPerMachineErrors and what is then distributed: a reply that departs from the contract
\* fails the whole batch.
ResultOf(b, reply) ==
    CASE reply.kind = "none" -> Everyone(b, "success")
      [] reply.kind = "batch" /\ reply.readable /\ reply.targets # {} /\ Stranger \notin reply.targets ->
            [r \in b.members |-> IF r \in reply.targets THEN "apiError" ELSE "success"]
      [] reply.kind = "other" /\ reply.readable -> Everyone(b, "apiError")
      [] OTHER -> Everyone(b, "opError")

CallAzure(b) ==
    /\ b \in executing /\ b.step = "built"
    /\ \E reply \in Replies(b) : \E accepted \in Accepted(b, reply) :
          /\ created' = created \cup accepted
          /\ executing' = (executing \ {b}) \cup
                            {[b EXCEPT !.step = "distributing", !.result = ResultOf(b, reply)]}
    /\ UNCHANGED <<pendingBatches, trigger, loopVars, ctxDone, responseChan, callerVars>>

\* One blocking send of a distribute loop; the goroutine ends with the last one.
Distribute(b, r) ==
    /\ b \in executing /\ b.step = "distributing" /\ r \in b.left
    /\ responseChan[r] = NoResponse
    /\ responseChan' = [responseChan EXCEPT ![r] = b.result[r]]
    /\ executing' = (executing \ {b}) \cup
                      (IF b.left = {r} THEN {} ELSE {[b EXCEPT !.left = @ \ {r}]})
    /\ UNCHANGED <<pendingBatches, trigger, loopVars, ctxDone, callerVars, created>>

\* A panic is recovered: an error goes to every channel that has room.
Panic(b) ==
    /\ b \in executing
    /\ responseChan' = [r \in Requests |->
          IF r \in b.members /\ responseChan[r] = NoResponse THEN "opError" ELSE responseChan[r]]
    /\ executing' = executing \ {b}
    /\ UNCHANGED <<pendingBatches, trigger, loopVars, ctxDone, callerVars, created>>

-----------------------------------------------------------------------------
Init ==
    /\ pendingBatches = NoBatches
    /\ trigger = FALSE
    /\ loop = "select" /\ idleElapsed = FALSE
    /\ ctxDone = FALSE
    /\ executing = {}
    /\ responseChan = [r \in Requests |-> NoResponse]
    /\ caller = [r \in Requests |-> "idle"]
    /\ answer = [r \in Requests |-> NoResponse]
    /\ created = {}

Loop ==
    \/ Wake \/ CheckFull \/ WakeWhileWaiting \/ IdleTimerExpires \/ IdleTimeout \/ MaxTimeout
    \/ NoticeShutdown \/ executeBatches \/ Dispatched \/ drain

Caller(r) ==
    Enqueue(r) \/ Signal(r) \/ EnqueueFails(r) \/ Receive(r) \/ GiveUp(r) \/ Return(r)

Executor(b) == BuildFails(b) \/ CallAzure(b) \/ (\E r \in b.left : Distribute(b, r)) \/ Panic(b)

Next ==
    \/ Loop
    \/ \E r \in Requests : Caller(r)
    \/ \E b \in executing : Executor(b)
    \/ SignalFromOthers
    \/ Shutdown

Spec == Init /\ [][Next]_vars

\* The goroutine that holds r's request takes its next step.
Serve(r) ==
    \E b \in executing : r \in b.left /\ (BuildFails(b) \/ CallAzure(b) \/ Distribute(b, r))
\* The callers' contexts end with the process, like the batcher's.
GiveUpOnShutdown(r) == ctxDone /\ GiveUp(r)

\* Goroutines and timers run, a call to Azure returns, and a select that finds the max timer
\* expired again and again takes that branch in the end.
Fairness ==
    /\ WF_vars(Wake) /\ WF_vars(CheckFull) /\ WF_vars(IdleTimerExpires) /\ WF_vars(IdleTimeout)
    /\ SF_vars(MaxTimeout)
    /\ WF_vars(NoticeShutdown) /\ WF_vars(executeBatches) /\ WF_vars(Dispatched)
    /\ WF_vars(drain)
    /\ \A r \in Requests : /\ WF_vars(Signal(r)) /\ WF_vars(Serve(r)) /\ WF_vars(Receive(r))
                           /\ WF_vars(GiveUpOnShutdown(r))

FairSpec == Spec /\ Fairness

-----------------------------------------------------------------------------
(* Properties.                                                             *)

IsBatch(b) ==
    /\ DOMAIN b = {"members", "step", "left", "result"}
    /\ b.members \subseteq Requests /\ b.left \subseteq b.members
    /\ b.step \in {"built", "distributing"}
    /\ b.result \in [b.members -> Answers \cup {NoResponse}]

\* Every variable has its type.
TypeOK ==
    /\ pendingBatches \in [Keys -> SUBSET Requests]
    /\ trigger \in BOOLEAN /\ idleElapsed \in BOOLEAN /\ ctxDone \in BOOLEAN
    /\ loop \in {"select", "check", "waiting", "ready", "dispatching", "draining", "stopped"}
    /\ \A b \in executing : IsBatch(b)
    /\ responseChan \in [Requests -> Answers \cup {NoResponse}]
    /\ caller \in [Requests -> {"idle", "appended", "waiting", "answered", "gaveUp"}]
    /\ answer \in [Requests -> Answers \cup {NoResponse}]
    /\ created \subseteq Requests

Count(p) == IF p THEN 1 ELSE 0
Tokens(r) ==
    Count(r \in Pending) + Cardinality({b \in executing : r \in b.left})
      + Count(responseChan[r] # NoResponse)

\* A request is in one place only: pending, in the hands of one goroutine, or answered. So no
\* blocking send on a channel of capacity one ever blocks, and a waiting caller's answer is on
\* its way.
ExactlyOneAnswer ==
    \A r \in Requests :
        /\ Tokens(r) <= 1
        /\ caller[r] \in {"appended", "waiting"} => Tokens(r) = 1

AboutToSignal == \E r \in Pending : caller[r] = "appended"

\* The loop never sleeps on pending requests: coalesced wake-ups lose nothing.
NoLostWakeup == loop = "select" /\ Pending # {} => trigger \/ AboutToSignal

\* The loop never waits for a timer over a full batch without a wake-up on its way.
FullBatchNoticed == loop = "waiting" /\ anyBatchFull => trigger \/ AboutToSignal

\* What a caller in step c with answer a has heard.
Heard(c, a) ==
    CASE c = "idle" -> "none"
      [] c \in {"appended", "waiting"} -> "submitted"
      [] c = "answered" -> a
      [] c = "gaveUp" -> "gaveUp"
Outcome == [r \in Requests |-> Heard(caller[r], answer[r])]

Service == INSTANCE CreateService WITH outcome <- Outcome, created <- created

\* Batching is invisible to a caller: the batcher and its executor implement CreateService. In
\* particular nobody is told success for a machine Azure turned down, or an API error for one
\* it accepted.
ImplementsService == Service!Spec

\* Every caller that waits is answered or gives up, also across a stream of other requests that
\* keeps resetting the idle timer, and across a shutdown.
EveryCallerReturns ==
    \A r \in Requests : caller[r] = "waiting" ~> caller[r] \in {"answered", "gaveUp"}
=============================================================================
