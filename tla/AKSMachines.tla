---------------------------- MODULE AKSMachines ----------------------------
(***************************************************************************)
(* AKS machines from create to delete: the machine cache and its refresh   *)
(* worker, the create and its promise (begin, early GET, polling through   *)
(* the cache), and the delete as promise cleanup, termination and garbage  *)
(* collection run it side by side. Azure and the NodeClaims survive a      *)
(* restart, everything else is in memory.                                  *)
(***************************************************************************)
EXTENDS Integers, FiniteSets

CONSTANTS Machines,                     \* machine names, one per NodeClaim
          Standalone,                   \* those whose NodeClaim has no NodePool: Create waits for them
          Terminators,                  \* controllers that delete: termination, garbage collection
          \* bounds of the model, not of the code: of which NodeClaims, still live, garbage collection
          \* may find what a failed attempt left; creations of a machine; restarts
          Leftovers, MaxIncarnations, MaxRestarts

ASSUME MachinesAssumption ==
    /\ Standalone \subseteq Machines /\ Leftovers \subseteq Machines
    /\ "creator" \notin Terminators
    /\ MaxIncarnations \in Nat /\ MaxRestarts \in Nat

\* Who deletes a machine: the thread that created it, after a synchronous failure or a failed wait,
\* and the controllers.
Callers == {"creator"} \cup Terminators

VARIABLES
    azure,              \* machine -> provisioning state and incarnation, as Azure has them
    incarnations,       \* machine -> how often it was created
    claim,              \* its NodeClaim: "live" or "deleted"
    \* MachineCache
    machines, fresh, updateRequested,
    updater, fetched, unread,
    \* the create of each machine and the GetWithFallback it is in
    creator, fetch, got,
    \* deletes
    deletingMachines, deleter, deleterGot,
    restarts,
    \* history: the newest incarnation a delete is about (0: no delete), and the last one invalidated
    deleterSaw, invalidated

cacheVars   == <<machines, fresh, updateRequested>>
updaterVars == <<updater, fetched, unread>>
createVars  == <<creator, fetch, got>>
deleteVars  == <<deletingMachines, deleter, deleterGot, deleterSaw, invalidated>>
azureVars   == <<azure, incarnations, claim>>
vars == <<azureVars, cacheVars, updaterVars, createVars, deleteVars, restarts>>

NotThere == [state |-> "absent", incarnation |-> 0]
States   == {"Creating", "Succeeded", "Failed", "Deleting"}
Entry    == {NotThere} \cup [state : States, incarnation : 1..MaxIncarnations]
NoMachines == [m \in Machines |-> NotThere]
Exists(m) == azure[m] # NotThere

-----------------------------------------------------------------------------
(* MachineCache.                                                           *)

\* What getFromCache answers.
Served(m) == fresh /\ machines[m] # NotThere

Bug_NoRequest == updateRequested
\* A stale read asks the worker for an update; the channel holds one request.
RequestedAfterRead == updateRequested \/ ~fresh

Expire ==
    /\ fresh
    /\ fresh' = FALSE
    /\ UNCHANGED <<azureVars, machines, updateRequested, updaterVars, createVars, deleteVars, restarts>>

\* run receives a request; update returns at once when the cache has become fresh.
StartUpdate ==
    /\ updater = "idle" /\ updateRequested
    /\ updateRequested' = FALSE
    /\ updater' = IF fresh THEN "idle" ELSE "listing"
    /\ unread' = IF fresh THEN {} ELSE Machines
    /\ UNCHANGED <<azureVars, machines, fresh, fetched, createVars, deleteVars, restarts>>

\* Pages arrive one after the other. A pool that is not found ends the list: it has no machines, which
\* is what the remaining pages would say.
ListPage(m) ==
    /\ updater = "listing" /\ m \in unread
    /\ unread' = unread \ {m}
    /\ fetched' = [fetched EXCEPT ![m] = azure[m]]
    /\ UNCHANGED <<azureVars, cacheVars, updater, createVars, deleteVars, restarts>>

ListFails ==
    /\ updater = "listing" /\ unread # {}
    /\ updater' = "idle" /\ unread' = {}
    /\ fetched' = NoMachines
    /\ UNCHANGED <<azureVars, cacheVars, createVars, deleteVars, restarts>>

SwapMachines ==
    /\ updater = "listing" /\ unread = {}
    /\ updater' = "swapped"
    /\ machines' = fetched
    /\ fetched' = NoMachines
    /\ UNCHANGED <<azureVars, fresh, updateRequested, unread, createVars, deleteVars, restarts>>

StampUpdate ==
    /\ updater = "swapped"
    /\ updater' = "idle"
    /\ fresh' = TRUE
    /\ UNCHANGED <<azureVars, machines, updateRequested, fetched, unread, createVars, deleteVars,
                   restarts>>

-----------------------------------------------------------------------------
(* Creating a machine. Where it needs the machine it calls GetWithFallback *)
(* ("cache", then "get", then "store") and continues with the result.      *)

\* "exists", "polling" and "confirm" are the promise's PollUntilDone.
InCreate     == {"check", "put", "once", "syncFailed", "cleaning"}
InPoll       == {"exists", "polling", "confirm"}
InPromise    == InPoll \cup {"pollFailed", "pollCleaning"}
CreatorSteps == InCreate \cup InPromise \cup {"idle", "launched", "done"}
Fetching == {"check", "once", "exists", "confirm"}

\* The cache is used everywhere but in the GET right after the create was accepted.
FirstFetchStep(step) ==
    IF step \notin Fetching THEN "idle" ELSE IF step = "once" THEN "get" ELSE "cache"
GoTo(m, step) ==
    /\ creator' = [creator EXCEPT ![m] = step]
    /\ fetch' = [fetch EXCEPT ![m] = FirstFetchStep(step)]

BeginCreate(m) ==
    /\ creator[m] = "idle" /\ claim[m] = "live"
    /\ GoTo(m, "check")
    /\ UNCHANGED <<azureVars, cacheVars, updaterVars, got, deleteVars, restarts>>

\* Where the create goes with a machine in hand: a failed one or one it cannot use is an error,
\* a usable one is adopted; a poll goes on.
Continuations(m, e) ==
    CASE creator[m] = "check" -> IF e.state = "Failed" THEN {"syncFailed"} ELSE {"launched", "syncFailed"}
      [] creator[m] = "once"  -> IF e.state = "Failed" THEN {"syncFailed"} ELSE {"exists", "syncFailed"}
      [] creator[m] \in {"exists", "confirm"} -> {"polling"}
\* And without: no machine to adopt, or none to continue with.
ContinuationWithout(m) ==
    CASE creator[m] = "check" -> "put"
      [] creator[m] = "once"  -> "syncFailed"
      [] creator[m] \in {"exists", "confirm"} -> "pollFailed"

GetFromCache(m) ==
    /\ fetch[m] = "cache" /\ Served(m)
    /\ \E step \in Continuations(m, machines[m]) : GoTo(m, step)
    /\ UNCHANGED <<azureVars, cacheVars, updaterVars, got, deleteVars, restarts>>

MissCache(m) ==
    /\ fetch[m] = "cache" /\ ~Served(m)
    /\ updateRequested' = RequestedAfterRead
    /\ fetch' = [fetch EXCEPT ![m] = "get"]
    /\ UNCHANGED <<azureVars, machines, fresh, updaterVars, creator, got, deleteVars, restarts>>

GetMachine(m) ==
    /\ fetch[m] = "get" /\ Exists(m)
    /\ got' = [got EXCEPT ![m] = azure[m]]
    /\ fetch' = [fetch EXCEPT ![m] = "store"]
    /\ UNCHANGED <<azureVars, cacheVars, updaterVars, creator, deleteVars, restarts>>

\* Not found, or any other error.
GetFails(m) ==
    /\ fetch[m] = "get"
    /\ GoTo(m, ContinuationWithout(m))
    /\ UNCHANGED <<azureVars, cacheVars, updaterVars, got, deleteVars, restarts>>

StoreMachine(m) ==
    /\ fetch[m] = "store"
    /\ machines' = [machines EXCEPT ![m] = got[m]]
    /\ got' = [got EXCEPT ![m] = NotThere]
    /\ \E step \in Continuations(m, got[m]) : GoTo(m, step)
    /\ UNCHANGED <<azureVars, fresh, updateRequested, updaterVars, deleteVars, restarts>>

\* The PUT is accepted; the answer may still get lost on its way.
PutAccepted(m) ==
    /\ creator[m] = "put"
    /\ ~Exists(m) => incarnations[m] < MaxIncarnations
    /\ IF Exists(m)
       THEN UNCHANGED <<azure, incarnations>>
       ELSE /\ incarnations' = [incarnations EXCEPT ![m] = @ + 1]
            /\ azure' = [azure EXCEPT ![m] = [state |-> "Creating", incarnation |-> incarnations[m] + 1]]
    /\ \E step \in {"once", "syncFailed"} : GoTo(m, step)
    /\ UNCHANGED <<claim, cacheVars, updaterVars, got, deleteVars, restarts>>

\* No capacity, no template, or a request Azure turns down.
PutRefused(m) ==
    /\ creator[m] = "put"
    /\ GoTo(m, "syncFailed")
    /\ UNCHANGED <<azureVars, cacheVars, updaterVars, got, deleteVars, restarts>>

-----------------------------------------------------------------------------
(* Polling: PollUntilDone, through the cache only as long as it serves.    *)

Bug_StateAsOutcome(e) == e.state
\* HandleProvisioningState; a machine still being created leaves the poll where it is.
AfterPoll(e) ==
    CASE e.state = "Succeeded" -> "launched"
      [] e.state \in {"Failed", "Deleting"} -> "pollFailed"
      [] OTHER -> "polling"

PollServed(m) ==
    /\ creator[m] = "polling" /\ Served(m)
    /\ GoTo(m, AfterPoll(machines[m]))
    /\ UNCHANGED <<azureVars, cacheVars, updaterVars, got, deleteVars, restarts>>

PollStale(m) ==
    /\ creator[m] = "polling" /\ ~fresh
    /\ updateRequested' = RequestedAfterRead
    /\ UNCHANGED <<azureVars, machines, fresh, updaterVars, createVars, deleteVars, restarts>>

\* A fresh cache without the machine is double checked.
PollMissing(m) ==
    /\ creator[m] = "polling" /\ fresh /\ machines[m] = NotThere
    /\ GoTo(m, "confirm")
    /\ UNCHANGED <<azureVars, cacheVars, updaterVars, got, deleteVars, restarts>>

\* The poll timeout, or the end of its context.
PollTimeout(m) ==
    /\ creator[m] = "polling"
    /\ GoTo(m, "pollFailed")
    /\ UNCHANGED <<azureVars, cacheVars, updaterVars, got, deleteVars, restarts>>

-----------------------------------------------------------------------------
(* Deleting a machine: deleteImpl and deleteMachine, per caller. Marking   *)
(* the machine and issuing the request are one step, as are invalidating   *)
(* the cache and removing the mark: another caller that finds the mark     *)
(* returns without effect, which it may also do a step earlier or later.   *)

DeleterSteps == {"idle", "get", "store", "issue", "lro", "gone"}
DeleteTo(m, k, step) ==
    /\ deleter' = [deleter EXCEPT ![m][k] = step]
    /\ IF step = "idle" THEN deleterSaw' = [deleterSaw EXCEPT ![m][k] = 0] ELSE UNCHANGED deleterSaw
StartDelete(m, k, step) ==
    /\ deleter' = [deleter EXCEPT ![m][k] = step]
    /\ deleterSaw' = [deleterSaw EXCEPT ![m][k] = IF step = "idle" THEN 0 ELSE incarnations[m]]

\* BeginCreate goes straight to deleteMachine.
CleanUpFailedCreate(m) ==
    /\ creator[m] = "syncFailed"
    /\ GoTo(m, "cleaning")
    /\ StartDelete(m, "creator", "issue")
    /\ UNCHANGED <<azureVars, cacheVars, updaterVars, got, deletingMachines, deleterGot, invalidated,
                   restarts>>

Bug_DeletingIsGone == "gone"
\* A delete in flight makes another call return without waiting for it.
IfDeleting == "idle"
Delete(m, k) ==
    /\ StartDelete(m, k, IF m \in deletingMachines THEN IfDeleting ELSE "get")
    /\ UNCHANGED <<azureVars, cacheVars, updaterVars, got, deletingMachines, deleterGot, invalidated,
                   restarts>>

CleanUpFailedPromise(m) ==
    /\ creator[m] = "pollFailed"
    /\ GoTo(m, "pollCleaning")
    /\ Delete(m, "creator")

\* Garbage collection deletes a listed machine that no NodeClaim names: what an earlier attempt has
\* left (no provider ID is recorded; found during the next Create is as found before it), and the
\* machine of a standalone NodeClaim until it is provisioned and Create returns.
Unnamed(m) ==
    \/ m \in Leftovers /\ creator[m] = "idle" /\ Exists(m)
    \/ m \in Standalone /\ creator[m] \in InPromise
\* Termination repeats for a deleted NodeClaim, but not while the same reconciler is in Create.
MayTerminate(m) == Unnamed(m) \/ (claim[m] = "deleted" /\ creator[m] \notin InCreate)
Terminate(m, k) ==
    /\ k \in Terminators /\ deleter[m][k] = "idle"
    /\ MayTerminate(m)
    /\ Delete(m, k)
    /\ UNCHANGED <<creator, fetch>>

DeleterGets(m, k) ==
    /\ deleter[m][k] = "get"
    /\ DeleteTo(m, k, IF Exists(m) THEN "store" ELSE "gone")
    /\ deleterGot' = [deleterGot EXCEPT ![m][k] = azure[m]]
    /\ UNCHANGED <<azureVars, cacheVars, updaterVars, createVars, deletingMachines, invalidated, restarts>>

DeleterGetFails(m, k) ==
    /\ deleter[m][k] = "get"
    /\ DeleteTo(m, k, "idle")
    /\ UNCHANGED <<azureVars, cacheVars, updaterVars, createVars, deletingMachines, deleterGot,
                   invalidated, restarts>>

DeleterStores(m, k) ==
    /\ deleter[m][k] = "store"
    /\ machines' = [machines EXCEPT ![m] = deleterGot[m][k]]
    /\ deleterGot' = [deleterGot EXCEPT ![m][k] = NotThere]
    /\ DeleteTo(m, k, IF deleterGot[m][k].state = "Deleting" THEN "idle" ELSE "issue")
    /\ UNCHANGED <<azureVars, fresh, updateRequested, updaterVars, createVars, deletingMachines,
                   invalidated, restarts>>

Bug_MarkSurvivesError(m) == deletingMachines
\* The deferred removal, which also runs when deleteMachine returns an error.
Unmarked(m) == deletingMachines \ {m}

IssueDelete(m, k) ==
    /\ deleter[m][k] = "issue"
    /\ IF Exists(m)
       THEN /\ azure' = [azure EXCEPT ![m].state = "Deleting"]
            /\ deleter' = [deleter EXCEPT ![m][k] = "lro"]
            /\ deleterSaw' = [deleterSaw EXCEPT ![m][k] = azure[m].incarnation]
            /\ deletingMachines' = deletingMachines \cup {m}
       ELSE /\ DeleteTo(m, k, "gone")
            /\ deletingMachines' = Unmarked(m)
            /\ UNCHANGED azure
    /\ UNCHANGED <<incarnations, claim, cacheVars, updaterVars, createVars, deleterGot, invalidated,
                   restarts>>

\* The request or the long-running operation fails.
DeleteFails(m, k) ==
    /\ deleter[m][k] \in {"issue", "lro"}
    /\ DeleteTo(m, k, "idle")
    /\ deletingMachines' = Unmarked(m)
    /\ UNCHANGED <<azureVars, cacheVars, updaterVars, createVars, deleterGot, invalidated, restarts>>

DeletedOnAzure(m, k) == azure[m] = NotThere \/ azure[m].incarnation > deleterSaw[m][k]
Invalidate(m, k) ==
    /\ deleter[m][k] = "lro" /\ DeletedOnAzure(m, k)
    /\ machines' = [machines EXCEPT ![m] = NotThere]
    /\ invalidated' = [invalidated EXCEPT ![m] = IF @ < deleterSaw[m][k] THEN deleterSaw[m][k] ELSE @]
    /\ deletingMachines' = Unmarked(m)
    /\ DeleteTo(m, k, "gone")
    /\ UNCHANGED <<azureVars, fresh, updateRequested, updaterVars, createVars, deleterGot, restarts>>

\* deleteImpl answers that the machine is gone, and its caller releases the quota.
ReportGone(m, k) ==
    /\ deleter[m][k] = "gone"
    /\ DeleteTo(m, k, "idle")
    /\ UNCHANGED <<azureVars, cacheVars, updaterVars, createVars, deletingMachines, deleterGot,
                   invalidated, restarts>>

-----------------------------------------------------------------------------
(* After the cleanup, NodeClaims, Azure and restarts.                      *)

\* A claim whose create failed is tried again, or given up as out of capacity.
CreateReturnsError(m) ==
    /\ creator[m] = "cleaning" /\ deleter[m]["creator"] = "idle"
    /\ GoTo(m, "idle")
    /\ claim' \in {claim, [claim EXCEPT ![m] = "deleted"]}
    /\ UNCHANGED <<azure, incarnations, cacheVars, updaterVars, got, deleteVars, restarts>>

\* The promise's goroutine deletes the NodeClaim, or leaves it to its liveness TTL when that fails;
\* the Create of a standalone one returns the error.
PromiseHandled(m) ==
    /\ creator[m] = "pollCleaning" /\ deleter[m]["creator"] = "idle"
    /\ IF m \in Standalone
       THEN GoTo(m, "idle") /\ UNCHANGED claim
       ELSE GoTo(m, "done") /\ claim' \in {claim, [claim EXCEPT ![m] = "deleted"]}
    /\ UNCHANGED <<azure, incarnations, cacheVars, updaterVars, got, deleteVars, restarts>>

DeleteClaim(m) ==
    /\ claim[m] = "live"
    /\ claim' = [claim EXCEPT ![m] = "deleted"]
    /\ UNCHANGED <<azure, incarnations, cacheVars, updaterVars, createVars, deleteVars, restarts>>

\* Azure (external): provisioning ends, a delete completes or does not.
Provision(m) ==
    /\ azure[m].state = "Creating"
    /\ \E s \in {"Succeeded", "Failed"} : azure' = [azure EXCEPT ![m].state = s]
    /\ UNCHANGED <<incarnations, claim, cacheVars, updaterVars, createVars, deleteVars, restarts>>

FinishDelete(m) ==
    /\ azure[m].state = "Deleting"
    /\ azure' = [azure EXCEPT ![m] = NotThere]
    /\ UNCHANGED <<incarnations, claim, cacheVars, updaterVars, createVars, deleteVars, restarts>>

AbandonDelete(m) ==
    /\ azure[m].state = "Deleting"
    /\ azure' = [azure EXCEPT ![m].state = "Failed"]
    /\ UNCHANGED <<incarnations, claim, cacheVars, updaterVars, createVars, deleteVars, restarts>>

IdleDeleters == [m \in Machines |-> [k \in Callers |-> "idle"]]
NothingRead  == [m \in Machines |-> [k \in Callers |-> NotThere]]
NothingSeen  == [m \in Machines |-> [k \in Callers |-> 0]]

\* A promise is held in memory only. A NodeClaim whose launch was recorded is left to register or to
\* its liveness TTL, any other one is created again.
AfterRestart(m) ==
    CASE creator[m] \in {"launched", "done"} -> {creator[m]}
      [] creator[m] \in InPromise /\ m \notin Standalone -> {"idle", "launched"}
      [] OTHER -> {"idle"}
Restart ==
    /\ restarts < MaxRestarts
    /\ restarts' = restarts + 1
    /\ machines' = NoMachines /\ fresh' = FALSE /\ updateRequested' = FALSE
    /\ updater' = "idle" /\ unread' = {} /\ fetched' = NoMachines
    /\ creator' \in {c \in [Machines -> CreatorSteps] : \A m \in Machines : c[m] \in AfterRestart(m)}
    /\ fetch' = [m \in Machines |-> "idle"]
    /\ got' = NoMachines
    /\ deletingMachines' = {} /\ deleter' = IdleDeleters
    /\ deleterGot' = NothingRead /\ deleterSaw' = NothingSeen
    /\ UNCHANGED <<azureVars, invalidated>>

-----------------------------------------------------------------------------
Init ==
    /\ azure = NoMachines
    /\ incarnations = [m \in Machines |-> 0]
    /\ claim = [m \in Machines |-> "live"]
    /\ machines = NoMachines /\ fresh = FALSE /\ updateRequested = FALSE
    /\ updater = "idle" /\ fetched = NoMachines /\ unread = {}
    /\ creator = [m \in Machines |-> "idle"]
    /\ fetch = [m \in Machines |-> "idle"]
    /\ got = NoMachines
    /\ deletingMachines = {}
    /\ deleter = IdleDeleters
    /\ deleterGot = NothingRead
    /\ restarts = 0
    /\ deleterSaw = NothingSeen
    /\ invalidated = [m \in Machines |-> 0]

Updater == Expire \/ StartUpdate \/ ListFails \/ SwapMachines \/ StampUpdate
             \/ \E m \in Machines : ListPage(m)

Creator(m) ==
    \/ BeginCreate(m) \/ GetFromCache(m) \/ MissCache(m) \/ GetMachine(m) \/ GetFails(m)
    \/ StoreMachine(m) \/ PutAccepted(m) \/ PutRefused(m)
    \/ PollServed(m) \/ PollStale(m) \/ PollMissing(m) \/ PollTimeout(m)
    \/ CreateReturnsError(m) \/ PromiseHandled(m) \/ CleanUpFailedCreate(m) \/ CleanUpFailedPromise(m)

Deleter(m, k) ==
    \/ Terminate(m, k) \/ DeleterGets(m, k) \/ DeleterGetFails(m, k) \/ DeleterStores(m, k)
    \/ IssueDelete(m, k) \/ DeleteFails(m, k) \/ Invalidate(m, k) \/ ReportGone(m, k)

Azure(m) == Provision(m) \/ FinishDelete(m) \/ AbandonDelete(m)

Next ==
    \/ Updater
    \/ \E m \in Machines :
          \/ Creator(m) \/ DeleteClaim(m) \/ Azure(m)
          \/ \E k \in Callers : Deleter(m, k)
    \/ Restart

Spec == Init /\ [][Next]_vars

\* Fairness. Goroutines run and timers fire; Azure ends what it started. A call that is repeated for
\* ever succeeds at last, and a poll, every five seconds, falls into the thirty for which a refreshed
\* cache is fresh. Nothing is assumed of the poll's timeout, or of garbage collection and termination
\* beyond that they come back.
Fairness ==
    /\ WF_vars(Expire) /\ WF_vars(StartUpdate \/ SwapMachines \/ StampUpdate)
    /\ \A m \in Machines :
          /\ SF_vars(ListPage(m))
          /\ WF_vars(\/ GetFromCache(m) \/ MissCache(m) \/ GetMachine(m) \/ GetFails(m) \/ StoreMachine(m)
                     \/ PutAccepted(m) \/ PutRefused(m) \/ PollStale(m)
                     \/ CleanUpFailedCreate(m) \/ CleanUpFailedPromise(m)
                     \/ CreateReturnsError(m) \/ PromiseHandled(m))
          /\ SF_vars(PollServed(m) \/ PollMissing(m))
          /\ WF_vars(Provision(m)) /\ SF_vars(FinishDelete(m))
          /\ \A k \in Callers :
                WF_vars(\/ Terminate(m, k) \/ DeleterGets(m, k) \/ DeleterGetFails(m, k) \/ DeleterStores(m, k)
                        \/ IssueDelete(m, k) \/ Invalidate(m, k) \/ ReportGone(m, k)
                        \/ DeleteFails(m, k) /\ azure[m].state = "Failed")
          /\ \A k \in Terminators : SF_vars(DeleterGets(m, k)) /\ SF_vars(IssueDelete(m, k))

FairSpec == Spec /\ Fairness

-----------------------------------------------------------------------------
(* Properties.                                                             *)

TypeOK ==
    /\ azure \in [Machines -> Entry]
    /\ incarnations \in [Machines -> 0..MaxIncarnations]
    /\ claim \in [Machines -> {"live", "deleted"}]
    /\ machines \in [Machines -> Entry] /\ fresh \in BOOLEAN /\ updateRequested \in BOOLEAN
    /\ updater \in {"idle", "listing", "swapped"}
    /\ fetched \in [Machines -> Entry] /\ unread \subseteq Machines
    /\ creator \in [Machines -> CreatorSteps]
    /\ fetch \in [Machines -> {"idle", "cache", "get", "store"}]
    /\ got \in [Machines -> Entry]
    /\ \A m \in Machines : /\ fetch[m] # "idle" <=> creator[m] \in Fetching
                           /\ got[m] # NotThere <=> fetch[m] = "store"
    /\ deletingMachines \subseteq Machines
    /\ deleter \in [Machines -> [Callers -> DeleterSteps]]
    /\ deleterGot \in [Machines -> [Callers -> Entry]]
    /\ deleterSaw \in [Machines -> [Callers -> 0..MaxIncarnations]]
    /\ invalidated \in [Machines -> 0..MaxIncarnations]
    /\ restarts \in 0..MaxRestarts

\* A machine is marked as being deleted only while a delete of it is under way: a mark left behind
\* by a failed delete would turn every later Delete into a success that does nothing.
DeletingTracked ==
    \A m \in deletingMachines : \E k \in Callers : deleter[m][k] = "lro"

\* deleteImpl answers "gone", which releases the quota and lets the finalizer go, only when no
\* incarnation is left that existed when it was called, whoever else deletes or creates meanwhile.
GoneMeansGone ==
    \A m \in Machines, k \in Callers : deleter[m][k] = "gone" => DeletedOnAzure(m, k)

\* What the comment on Invalidate claims: after it, a read of the machine goes to the API, so the
\* fresh cache serves no incarnation that was already invalidated.
InvalidatedFallsBack ==
    \A m \in Machines : Served(m) => machines[m].incarnation > invalidated[m]

\* PollUntilDone ends by itself, although refreshes fail, the cache expires between two polls, and
\* the machine may be deleted under it.
PromiseSettles == \A m \in Machines : creator[m] \in InPoll ~> creator[m] \notin InPoll

\* The machine of a deleted NodeClaim does not stay on Azure, however the delete was interrupted.
DeletedClaimIsCleanedUp == \A m \in Machines : claim[m] = "deleted" ~> ~Exists(m)
============================================================================
