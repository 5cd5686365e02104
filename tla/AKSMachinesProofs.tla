------------------------- MODULE AKSMachinesProofs -------------------------
(***************************************************************************)
(* What AKSMachines promises of every step, for any machines, any deleting *)
(* controllers, any number of incarnations and restarts: proofs of its     *)
(* invariants.                                                             *)
(*                                                                         *)
(* GoneMeansGone is not inductive by itself: a machine that a deleter      *)
(* found gone may be created again under its name, so that the invariant   *)
(* has to order incarnations (Ordered). Nor is DeletingTracked: the        *)
(* creator's own delete must be over before it may start another           *)
(* (OneCleanup).                                                           *)
(*                                                                         *)
(* InvalidatedFallsBack fails by one race only, which the hypothesis of    *)
(* InvalidateCorrect excludes (NothingStaleInHand).                        *)
(***************************************************************************)
EXTENDS AKSMachines, TLAPS

\* No incarnation on Azure, and none a delete is about, is newer than the last one created.
Ordered ==
    \A m \in Machines :
       /\ azure[m].incarnation <= incarnations[m]
       /\ \A k \in Callers : deleterSaw[m][k] <= incarnations[m]

\* The creating thread is in a delete only while it cleans up.
OneCleanup ==
    \A m \in Machines : creator[m] \notin {"cleaning", "pollCleaning"} => deleter[m]["creator"] = "idle"

IInv ==
    /\ TypeOK
    /\ Ordered
    /\ OneCleanup
    /\ DeletingTracked
    /\ GoneMeansGone

-----------------------------------------------------------------------------
(* Updates.                                                                *)

\* A delete moves on, or ends and forgets what it was about.
LEMMA DeleteMoves ==
    ASSUME TypeOK, NEW m \in Machines, NEW k \in Callers, NEW step \in DeleterSteps, DeleteTo(m, k, step)
    PROVE  /\ deleter' \in [Machines -> [Callers -> DeleterSteps]] /\ deleter'[m][k] = step
           /\ deleterSaw' \in [Machines -> [Callers -> 0..MaxIncarnations]]
           /\ deleterSaw'[m][k] = IF step = "idle" THEN 0 ELSE deleterSaw[m][k]
           /\ \A n \in Machines, l \in Callers :
                 n # m \/ l # k => deleter'[n][l] = deleter[n][l] /\ deleterSaw'[n][l] = deleterSaw[n][l]
<1>1. deleter \in [Machines -> [Callers -> DeleterSteps]] /\ deleter' = [deleter EXCEPT ![m][k] = step]
    BY DEF TypeOK, DeleteTo
<1>2. deleterSaw \in [Machines -> [Callers -> 0..MaxIncarnations]] /\ 0 \in 0..MaxIncarnations
    BY MachinesAssumption DEF TypeOK
<1>3. deleterSaw' = IF step = "idle" THEN [deleterSaw EXCEPT ![m][k] = 0] ELSE deleterSaw
    BY DEF DeleteTo
<1>4. /\ deleter' \in [Machines -> [Callers -> DeleterSteps]] /\ deleter'[m][k] = step
      /\ \A n \in Machines, l \in Callers : n # m \/ l # k => deleter'[n][l] = deleter[n][l]
    BY <1>1
<1>5. /\ deleterSaw' \in [Machines -> [Callers -> 0..MaxIncarnations]]
      /\ deleterSaw'[m][k] = IF step = "idle" THEN 0 ELSE deleterSaw[m][k]
      /\ \A n \in Machines, l \in Callers : n # m \/ l # k => deleterSaw'[n][l] = deleterSaw[n][l]
    BY <1>2, <1>3
<1> QED
    BY <1>4, <1>5

\* A delete starts: it is about what was created so far.
LEMMA DeleteStarts ==
    ASSUME TypeOK, NEW m \in Machines, NEW k \in Callers, NEW step \in DeleterSteps, StartDelete(m, k, step)
    PROVE  /\ deleter' \in [Machines -> [Callers -> DeleterSteps]] /\ deleter'[m][k] = step
           /\ deleterSaw' \in [Machines -> [Callers -> 0..MaxIncarnations]]
           /\ deleterSaw'[m][k] <= incarnations[m]
           /\ \A n \in Machines, l \in Callers :
                 n # m \/ l # k => deleter'[n][l] = deleter[n][l] /\ deleterSaw'[n][l] = deleterSaw[n][l]
<1> DEFINE saw == IF step = "idle" THEN 0 ELSE incarnations[m]
<1>1. /\ deleter \in [Machines -> [Callers -> DeleterSteps]] /\ deleter' = [deleter EXCEPT ![m][k] = step]
      /\ deleterSaw \in [Machines -> [Callers -> 0..MaxIncarnations]] /\ deleterSaw' = [deleterSaw EXCEPT ![m][k] = saw]
    BY DEF TypeOK, StartDelete
<1>2. saw \in 0..MaxIncarnations /\ saw <= incarnations[m]
    BY MachinesAssumption DEF TypeOK
<1> HIDE DEF saw
<1>3. /\ deleter' \in [Machines -> [Callers -> DeleterSteps]] /\ deleter'[m][k] = step
      /\ \A n \in Machines, l \in Callers : n # m \/ l # k => deleter'[n][l] = deleter[n][l]
    BY <1>1
<1>4. /\ deleterSaw' \in [Machines -> [Callers -> 0..MaxIncarnations]]
      /\ deleterSaw'[m][k] = saw
      /\ \A n \in Machines, l \in Callers : n # m \/ l # k => deleterSaw'[n][l] = deleterSaw[n][l]
    BY <1>1, <1>2
<1> QED
    BY <1>2, <1>3, <1>4

\* A create moves on, and fetches where its next step needs the machine.
LEMMA CreateMoves ==
    ASSUME TypeOK, NEW m \in Machines, NEW step \in CreatorSteps, GoTo(m, step)
    PROVE  /\ creator' \in [Machines -> CreatorSteps] /\ creator'[m] = step
           /\ fetch' \in [Machines -> {"idle", "cache", "get", "store"}]
           /\ fetch'[m] # "idle" <=> step \in Fetching
           /\ fetch'[m] # "store"
           /\ \A n \in Machines : n # m => creator'[n] = creator[n] /\ fetch'[n] = fetch[n]
BY DEF TypeOK, GoTo, FirstFetchStep, Fetching

\* Azure's own steps, and a delete it accepts, create nothing and give no machine another incarnation.
LEMMA AzureKeepsIncarnations ==
    ASSUME TypeOK, NEW m \in Machines, Azure(m) \/ \E k \in Callers : IssueDelete(m, k)
    PROVE  /\ azure' \in [Machines -> Entry]
           /\ \A n \in Machines :
                 \/ azure'[n] = NotThere
                 \/ azure[n] # NotThere /\ azure'[n].incarnation = azure[n].incarnation
<1>1. CASE UNCHANGED azure
    BY <1>1 DEF TypeOK
<1>2. CASE azure' = [azure EXCEPT ![m] = NotThere]
    BY <1>2 DEF TypeOK, Entry
<1>3. ASSUME NEW s \in States, Exists(m), azure' = [azure EXCEPT ![m].state = s]
      PROVE  /\ azure' \in [Machines -> Entry]
             /\ \A n \in Machines : azure'[n].incarnation = azure[n].incarnation /\ (azure[n] = NotThere => azure'[n] = NotThere)
  <2> DEFINE e == [azure[m] EXCEPT !.state = s]
  <2>1. azure[m] \in [state : States, incarnation : 1..MaxIncarnations]
    BY <1>3 DEF TypeOK, Entry, Exists
  <2>2. e \in Entry /\ e.incarnation = azure[m].incarnation
    BY <2>1 DEF Entry
  <2>3. azure' = [azure EXCEPT ![m] = e]
    BY <1>3 DEF TypeOK
  <2> HIDE DEF e
  <2> QED
    BY <1>3, <2>2, <2>3 DEF TypeOK, Exists
<1>4. \/ UNCHANGED azure
      \/ azure' = [azure EXCEPT ![m] = NotThere]
      \/ Exists(m) /\ \E s \in States : azure' = [azure EXCEPT ![m].state = s]
    BY DEF Azure, Provision, FinishDelete, AbandonDelete, IssueDelete, Exists, NotThere, States
<1> QED
    BY <1>1, <1>2, <1>3, <1>4

-----------------------------------------------------------------------------
(* Type correctness.                                                       *)

\* The create in its steps.
LEMMA CreatorTypes ==
    ASSUME TypeOK, NEW m \in Machines, Creator(m)
    PROVE  TypeOK'
<1> USE DEF azureVars, cacheVars, updaterVars, createVars, deleteVars
<1>e. NotThere \in Entry
    BY DEF Entry
<1>d. ASSUME NEW step \in CreatorSteps, GoTo(m, step),
             got' = [got EXCEPT ![m] = NotThere] \/ (UNCHANGED got /\ fetch[m] # "store")
      PROVE  /\ creator' \in [Machines -> CreatorSteps]
             /\ fetch' \in [Machines -> {"idle", "cache", "get", "store"}]
             /\ got' \in [Machines -> Entry]
             /\ \A n \in Machines : /\ fetch'[n] # "idle" <=> creator'[n] \in Fetching
                                    /\ got'[n] # NotThere <=> fetch'[n] = "store"
  <2>1. got' \in [Machines -> Entry] /\ got'[m] = NotThere /\ \A n \in Machines : n # m => got'[n] = got[n]
    BY <1>d, <1>e DEF TypeOK
  <2>2. /\ creator' \in [Machines -> CreatorSteps] /\ creator'[m] = step
        /\ fetch' \in [Machines -> {"idle", "cache", "get", "store"}]
        /\ fetch'[m] # "idle" <=> step \in Fetching
        /\ fetch'[m] # "store"
        /\ \A n \in Machines : n # m => creator'[n] = creator[n] /\ fetch'[n] = fetch[n]
    BY <1>d, CreateMoves
  <2>3. ASSUME NEW n \in Machines
        PROVE  /\ fetch[n] # "idle" <=> creator[n] \in Fetching
               /\ got[n] # NotThere <=> fetch[n] = "store"
    BY DEF TypeOK
  <2> QED
    BY <2>1, <2>2, <2>3
<1>f. creator[m] \notin Fetching => fetch[m] # "store"
    BY DEF TypeOK
<1>s. updateRequested' \in BOOLEAN
    BY DEF Creator, BeginCreate, GetFromCache, MissCache, GetMachine, GetFails, StoreMachine, PutAccepted, PutRefused,
       PollServed, PollStale, PollMissing, PollTimeout, CreateReturnsError, PromiseHandled, CleanUpFailedCreate,
       CleanUpFailedPromise, Delete, RequestedAfterRead, TypeOK
<1>1. CASE BeginCreate(m) \/ PutRefused(m) \/ PollMissing(m) \/ PollTimeout(m)
  <2>1. /\ UNCHANGED <<azureVars, cacheVars, updaterVars, got, deleteVars, restarts>>
        /\ fetch[m] # "store"
        /\ \E step \in CreatorSteps : GoTo(m, step)
    BY <1>1, <1>f DEF BeginCreate, PutRefused, PollMissing, PollTimeout, CreatorSteps, InCreate, InPromise, InPoll,
           Fetching
  <2> QED
    BY <1>d, <2>1 DEF TypeOK
<1>2. CASE PollServed(m)
  <2>1. UNCHANGED <<azureVars, cacheVars, updaterVars, got, deleteVars, restarts>> /\ fetch[m] # "store"
        /\ GoTo(m, AfterPoll(machines[m]))
    BY <1>2, <1>f DEF PollServed, Fetching
  <2>2. AfterPoll(machines[m]) \in CreatorSteps
    BY DEF AfterPoll, CreatorSteps, InPromise, InPoll
  <2> QED
    BY <1>d, <2>1, <2>2 DEF TypeOK
<1>3. CASE GetFromCache(m)
  <2>1. PICK step \in Continuations(m, machines[m]) : GoTo(m, step)
    BY <1>3 DEF GetFromCache
  <2>2. creator[m] \in Fetching /\ fetch[m] # "store" /\ UNCHANGED got
    BY <1>3 DEF GetFromCache, TypeOK
  <2>3. step \in CreatorSteps
    BY <2>1, <2>2 DEF Continuations, Fetching, CreatorSteps, InCreate, InPromise, InPoll
  <2> QED
    BY <1>d, <1>3, <2>1, <2>2, <2>3 DEF GetFromCache, TypeOK
<1>4. CASE StoreMachine(m)
  <2>1. PICK step \in Continuations(m, got[m]) : GoTo(m, step)
    BY <1>4 DEF StoreMachine
  <2>2. creator[m] \in Fetching /\ got[m] \in Entry
    BY <1>4 DEF StoreMachine, TypeOK
  <2>3. step \in CreatorSteps
    BY <2>1, <2>2 DEF Continuations, Fetching, CreatorSteps, InCreate, InPromise, InPoll
  <2>4. machines' \in [Machines -> Entry]
    BY <1>4, <2>2 DEF StoreMachine, TypeOK
  <2> QED
    BY <1>d, <1>4, <2>1, <2>3, <2>4 DEF StoreMachine, TypeOK
<1>5. CASE GetFails(m)
  <2>1. creator[m] \in Fetching
    BY <1>5 DEF GetFails, TypeOK
  <2>2. ContinuationWithout(m) \in CreatorSteps
    BY <2>1 DEF ContinuationWithout, Fetching, CreatorSteps, InCreate, InPromise, InPoll
  <2> QED
    BY <1>d, <1>5, <2>2 DEF GetFails, TypeOK
<1>6. CASE MissCache(m) \/ PollStale(m)
  <2>1. UNCHANGED <<azureVars, machines, fresh, updaterVars, creator, got, deleteVars, restarts>>
        /\ (UNCHANGED fetch \/ (fetch[m] = "cache" /\ fetch' = [fetch EXCEPT ![m] = "get"]))
    BY <1>6 DEF MissCache, PollStale
  <2> QED
    BY <1>s, <2>1 DEF TypeOK
<1>7. CASE GetMachine(m)
    BY <1>7 DEF GetMachine, TypeOK, Exists
<1>8. CASE PutAccepted(m)
  <2>1. PICK step \in {"once", "syncFailed"} : GoTo(m, step)
    BY <1>8 DEF PutAccepted
  <2>2. step \in CreatorSteps /\ fetch[m] # "store"
    BY <1>8, <1>f DEF PutAccepted, CreatorSteps, InCreate, Fetching
  <2>3. incarnations' \in [Machines -> 0..MaxIncarnations] /\ azure' \in [Machines -> Entry]
    <3>1. CASE Exists(m)
      BY <1>8, <3>1 DEF PutAccepted, TypeOK
    <3>2. CASE ~Exists(m)
      <4> DEFINE e == [state |-> "Creating", incarnation |-> incarnations[m] + 1]
      <4>1. incarnations[m] + 1 \in 1..MaxIncarnations /\ incarnations[m] + 1 \in 0..MaxIncarnations
        BY <1>8, <3>2, MachinesAssumption DEF PutAccepted, TypeOK
      <4>2. e \in Entry
        BY <4>1 DEF Entry, States
      <4>3. incarnations' = [incarnations EXCEPT ![m] = @ + 1] /\ azure' = [azure EXCEPT ![m] = e]
        BY <1>8, <3>2 DEF PutAccepted
      <4> HIDE DEF e
      <4> QED
        BY <4>1, <4>2, <4>3 DEF TypeOK
    <3> QED
      BY <3>1, <3>2
  <2> QED
    BY <1>d, <1>8, <2>1, <2>2, <2>3 DEF PutAccepted, TypeOK
<1>9. CASE CreateReturnsError(m) \/ PromiseHandled(m)
  <2>1. /\ UNCHANGED <<azure, incarnations, cacheVars, updaterVars, got, deleteVars, restarts>>
        /\ fetch[m] # "store"
        /\ \E step \in CreatorSteps : GoTo(m, step)
        /\ claim' \in {claim, [claim EXCEPT ![m] = "deleted"]}
    BY <1>9, <1>f DEF CreateReturnsError, PromiseHandled, CreatorSteps, Fetching
  <2> QED
    BY <1>d, <2>1 DEF TypeOK
<1>10. CASE CleanUpFailedCreate(m) \/ CleanUpFailedPromise(m)
  <2>1. /\ UNCHANGED <<azureVars, cacheVars, updaterVars, got, deletingMachines, deleterGot, invalidated, restarts>>
        /\ fetch[m] # "store"
        /\ \E step \in CreatorSteps : GoTo(m, step)
    BY <1>10, <1>f DEF CleanUpFailedCreate, CleanUpFailedPromise, Delete, CreatorSteps, InCreate, InPromise, Fetching
  <2>2. \E step \in DeleterSteps : StartDelete(m, "creator", step)
    BY <1>10 DEF CleanUpFailedCreate, CleanUpFailedPromise, Delete, DeleterSteps, IfDeleting
  <2>3. /\ deleter' \in [Machines -> [Callers -> DeleterSteps]]
        /\ deleterSaw' \in [Machines -> [Callers -> 0..MaxIncarnations]]
    BY <2>2, DeleteStarts DEF Callers
  <2> QED
    BY <1>d, <2>1, <2>3 DEF TypeOK
<1> QED
    BY <1>1, <1>2, <1>3, <1>4, <1>5, <1>6, <1>7, <1>8, <1>9, <1>10 DEF Creator

\* A caller of deleteImpl in its steps.
LEMMA DeleterTypes ==
    ASSUME TypeOK, NEW m \in Machines, NEW k \in Callers, Deleter(m, k)
    PROVE  TypeOK'
<1> USE DEF azureVars, cacheVars, updaterVars, createVars, deleteVars
<1>e. NotThere \in Entry /\ "idle" \in DeleterSteps /\ "store" \in DeleterSteps /\ "gone" \in DeleterSteps
      /\ "issue" \in DeleterSteps /\ "lro" \in DeleterSteps /\ "get" \in DeleterSteps
    BY DEF Entry, DeleterSteps
<1>1. /\ deleter' \in [Machines -> [Callers -> DeleterSteps]]
      /\ deleterSaw' \in [Machines -> [Callers -> 0..MaxIncarnations]]
  <2>1. CASE Terminate(m, k)
    <3>1. \E step \in DeleterSteps : StartDelete(m, k, step)
      BY <1>e, <2>1 DEF Terminate, Delete, IfDeleting
    <3> QED
      BY <3>1, DeleteStarts
  <2>2. CASE IssueDelete(m, k) /\ Exists(m)
    <3>1. deleter' = [deleter EXCEPT ![m][k] = "lro"] /\ deleterSaw' = [deleterSaw EXCEPT ![m][k] = azure[m].incarnation]
      BY <2>2 DEF IssueDelete
    <3>2. azure[m].incarnation \in 0..MaxIncarnations
      BY <2>2, MachinesAssumption DEF TypeOK, Entry, Exists
    <3> QED
      BY <1>e, <3>1, <3>2 DEF TypeOK
  <2>3. CASE ~Terminate(m, k) /\ ~(IssueDelete(m, k) /\ Exists(m))
    <3>1. \E step \in DeleterSteps : DeleteTo(m, k, step)
      BY <1>e, <2>3 DEF Deleter, DeleterGets, DeleterGetFails, DeleterStores, IssueDelete, DeleteFails, Invalidate,
             ReportGone
    <3> QED
      BY <3>1, DeleteMoves
  <2> QED
    BY <2>1, <2>2, <2>3
<1>2. deleterGot' \in [Machines -> [Callers -> Entry]] /\ machines' \in [Machines -> Entry]
  <2>1. CASE DeleterGets(m, k)
    BY <2>1 DEF DeleterGets, TypeOK
  <2>2. CASE DeleterStores(m, k)
    BY <1>e, <2>2 DEF DeleterStores, TypeOK
  <2>3. CASE Invalidate(m, k)
    BY <1>e, <2>3 DEF Invalidate, TypeOK
  <2>4. CASE UNCHANGED <<deleterGot, machines>>
    BY <2>4 DEF TypeOK
  <2> QED
    BY <2>1, <2>2, <2>3, <2>4 DEF Deleter, Terminate, Delete, DeleterGetFails, IssueDelete, DeleteFails, ReportGone
<1>3. invalidated' \in [Machines -> 0..MaxIncarnations]
  <2>1. CASE Invalidate(m, k)
    BY <2>1 DEF Invalidate, TypeOK
  <2>2. CASE UNCHANGED invalidated
    BY <2>2 DEF TypeOK
  <2> QED
    BY <2>1, <2>2 DEF Deleter, Terminate, Delete, DeleterGets, DeleterGetFails, DeleterStores, IssueDelete, DeleteFails,
       ReportGone
<1>4. azure' \in [Machines -> Entry]
  <2>1. CASE IssueDelete(m, k)
    BY <2>1, AzureKeepsIncarnations
  <2>2. CASE UNCHANGED azure
    BY <2>2 DEF TypeOK
  <2> QED
    BY <2>1, <2>2 DEF Deleter, Terminate, Delete, DeleterGets, DeleterGetFails, DeleterStores, DeleteFails, Invalidate,
       ReportGone
<1>5. /\ deletingMachines' \subseteq Machines
      /\ UNCHANGED <<incarnations, claim, fresh, updateRequested, updaterVars, createVars, restarts>>
    BY DEF Deleter, Terminate, Delete, DeleterGets, DeleterGetFails, DeleterStores, IssueDelete, DeleteFails, Invalidate,
       ReportGone, Unmarked, TypeOK
<1> QED
    BY <1>1, <1>2, <1>3, <1>4, <1>5 DEF TypeOK

\* Every step keeps the types.
LEMMA TypeStep ==
    ASSUME TypeOK, [Next]_vars
    PROVE  TypeOK'
<1> USE DEF azureVars, cacheVars, updaterVars, createVars, deleteVars
<1>e. NoMachines \in [Machines -> Entry] /\ NotThere \in Entry
    BY DEF NoMachines, Entry
<1>1. CASE Updater
  <2>1. CASE \E m \in Machines : ListPage(m)
    BY <2>1 DEF ListPage, TypeOK
  <2>2. CASE Expire \/ StartUpdate \/ ListFails \/ SwapMachines \/ StampUpdate
    <3>1. /\ fresh' \in BOOLEAN /\ updateRequested' \in BOOLEAN /\ updater' \in {"idle", "listing", "swapped"}
          /\ fetched' \in [Machines -> Entry] /\ unread' \subseteq Machines /\ machines' \in [Machines -> Entry]
      BY <1>e, <2>2 DEF Expire, StartUpdate, ListFails, SwapMachines, StampUpdate, TypeOK
    <3>2. UNCHANGED <<azureVars, createVars, deleteVars, restarts>>
      BY <2>2 DEF Expire, StartUpdate, ListFails, SwapMachines, StampUpdate
    <3> QED
      BY <3>1, <3>2 DEF TypeOK
  <2> QED
    BY <1>1, <2>1, <2>2 DEF Updater
<1>2. CASE \E m \in Machines : Creator(m)
    BY <1>2, CreatorTypes
<1>3. CASE \E m \in Machines : DeleteClaim(m)
    BY <1>3 DEF DeleteClaim, TypeOK
<1>4. ASSUME NEW m \in Machines, Azure(m)
      PROVE  TypeOK'
  <2>1. azure' \in [Machines -> Entry]
    BY <1>4, AzureKeepsIncarnations
  <2> QED
    BY <1>4, <2>1 DEF Azure, Provision, FinishDelete, AbandonDelete, TypeOK
<1>5. CASE \E m \in Machines, k \in Callers : Deleter(m, k)
    BY <1>5, DeleterTypes
<1>6. CASE Restart
  <2>1. /\ IdleDeleters \in [Machines -> [Callers -> DeleterSteps]]
        /\ NothingRead \in [Machines -> [Callers -> Entry]]
        /\ NothingSeen \in [Machines -> [Callers -> 0..MaxIncarnations]]
    BY <1>e, MachinesAssumption DEF IdleDeleters, NothingRead, NothingSeen, DeleterSteps
  <2>2. creator' \in [Machines -> CreatorSteps] /\ \A m \in Machines : creator'[m] \in AfterRestart(m)
    BY <1>6 DEF Restart
  <2>3. \A m \in Machines : creator'[m] \notin Fetching
    BY <2>2 DEF AfterRestart, Fetching
  <2>4. restarts' \in 0..MaxRestarts
    BY <1>6, MachinesAssumption DEF Restart, TypeOK
  <2>5. /\ machines' = NoMachines /\ fresh' = FALSE /\ updateRequested' = FALSE
        /\ updater' = "idle" /\ unread' = {} /\ fetched' = NoMachines /\ got' = NoMachines
        /\ fetch' \in [Machines -> {"idle"}]
        /\ deletingMachines' = {} /\ deleter' = IdleDeleters
        /\ deleterGot' = NothingRead /\ deleterSaw' = NothingSeen
        /\ UNCHANGED <<azureVars, invalidated>>
    BY <1>6 DEF Restart
  <2>6. \A m \in Machines : NoMachines[m] = NotThere
    BY DEF NoMachines
  <2> QED
    BY <1>e, <2>1, <2>2, <2>3, <2>4, <2>5, <2>6 DEF TypeOK
<1>7. CASE UNCHANGED vars
    BY <1>7 DEF TypeOK, vars
<1> QED
    BY <1>1, <1>2, <1>3, <1>4, <1>5, <1>6, <1>7 DEF Next

-----------------------------------------------------------------------------
(* What deletes rely on.                                                   *)

\* Every step keeps OneCleanup.
LEMMA OneCleanupStep ==
    ASSUME IInv, [Next]_vars
    PROVE  OneCleanup'
<1> USE DEF azureVars, cacheVars, updaterVars, createVars, deleteVars
<1>t. TypeOK /\ TypeOK' /\ OneCleanup
    BY TypeStep DEF IInv
<1>0. ASSUME UNCHANGED <<creator, deleter>>
      PROVE  OneCleanup'
    BY <1>0, <1>t DEF OneCleanup
<1>1. ASSUME NEW m \in Machines, Creator(m)
      PROVE  OneCleanup'
  <2>1. CASE CleanUpFailedCreate(m) \/ CleanUpFailedPromise(m)
    <3>1. /\ \E step \in DeleterSteps : StartDelete(m, "creator", step)
          /\ creator'[m] \in {"cleaning", "pollCleaning"} /\ \A n \in Machines : n # m => creator'[n] = creator[n]
      BY <1>t, <2>1 DEF CleanUpFailedCreate, CleanUpFailedPromise, Delete, DeleterSteps, IfDeleting, GoTo, TypeOK
    <3>2. \A n \in Machines, l \in Callers : n # m \/ l # "creator" => deleter'[n][l] = deleter[n][l]
      BY <1>t, <3>1, DeleteStarts DEF Callers
    <3> QED
      BY <1>t, <3>1, <3>2 DEF OneCleanup, Callers
  <2>2. CASE ~CleanUpFailedCreate(m) /\ ~CleanUpFailedPromise(m)
    <3>1. UNCHANGED deleter /\ \A n \in Machines : n # m => creator'[n] = creator[n]
      BY <1>1, <1>t, <2>2 DEF Creator, BeginCreate, GetFromCache, MissCache, GetMachine, GetFails, StoreMachine,
             PutAccepted, PutRefused, PollServed, PollStale, PollMissing, PollTimeout, CreateReturnsError,
             PromiseHandled, GoTo, TypeOK
    <3>2. deleter[m]["creator"] = "idle" \/ UNCHANGED creator
      <4>1. creator[m] \in {"cleaning", "pollCleaning"} => deleter[m]["creator"] = "idle" \/ UNCHANGED creator
        BY <1>1, <1>t, <2>2 DEF Creator, BeginCreate, GetFromCache, MissCache, GetMachine, GetFails, StoreMachine,
               PutAccepted, PutRefused, PollServed, PollStale, PollMissing, PollTimeout, CreateReturnsError,
               PromiseHandled, TypeOK, Fetching
      <4> QED
        BY <1>t, <4>1 DEF OneCleanup
    <3> QED
      BY <1>t, <3>1, <3>2 DEF OneCleanup
  <2> QED
    BY <2>1, <2>2
<1>2. ASSUME NEW m \in Machines, NEW k \in Callers, Deleter(m, k)
      PROVE  OneCleanup'
  <2>1. UNCHANGED creator
    BY <1>2 DEF Deleter, Terminate, Delete, DeleterGets, DeleterGetFails, DeleterStores, IssueDelete, DeleteFails,
           Invalidate, ReportGone
  <2>2. CASE Terminate(m, k)
    <3>1. k # "creator" /\ \E step \in DeleterSteps : StartDelete(m, k, step)
      BY <2>2, MachinesAssumption DEF Terminate, Delete, DeleterSteps, IfDeleting
    <3>2. \A n \in Machines : deleter'[n]["creator"] = deleter[n]["creator"]
      BY <1>t, <3>1, DeleteStarts DEF Callers
    <3> QED
      BY <1>t, <2>1, <3>2 DEF OneCleanup
  <2>3. CASE ~Terminate(m, k)
    <3>1. deleter[m][k] # "idle"
      BY <1>2, <2>3 DEF Deleter, DeleterGets, DeleterGetFails, DeleterStores, IssueDelete, DeleteFails, Invalidate,
             ReportGone
    <3>2. (\E step \in DeleterSteps : DeleteTo(m, k, step)) \/ deleter' = [deleter EXCEPT ![m][k] = "lro"]
      BY <1>2, <2>3 DEF Deleter, DeleterGets, DeleterGetFails, DeleterStores, IssueDelete, DeleteFails, Invalidate,
             ReportGone, DeleterSteps
    <3>3. \A n \in Machines, l \in Callers : n # m \/ l # k => deleter'[n][l] = deleter[n][l]
      BY <1>t, <3>2, DeleteMoves DEF TypeOK
    <3> QED
      BY <1>t, <2>1, <3>1, <3>3 DEF OneCleanup, Callers
  <2> QED
    BY <2>2, <2>3
<1>3. CASE Restart
    BY <1>3 DEF Restart, IdleDeleters, OneCleanup, Callers
<1>4. CASE \/ Updater \/ UNCHANGED vars
           \/ \E m \in Machines : DeleteClaim(m) \/ Azure(m)
  <2>1. UNCHANGED <<creator, deleter>>
    BY <1>4 DEF Updater, Expire, StartUpdate, ListFails, SwapMachines, StampUpdate, ListPage, DeleteClaim, Azure,
           Provision, FinishDelete, AbandonDelete, vars
  <2> QED
    BY <1>0, <2>1
<1> QED
    BY <1>1, <1>2, <1>3, <1>4 DEF Next

\* The steps that leave Azure and every delete alone.
LEMMA QuietSteps ==
    ASSUME \/ Updater \/ UNCHANGED vars
           \/ \E m \in Machines :
                 \/ DeleteClaim(m)
                 \/ Creator(m) /\ ~PutAccepted(m) /\ ~CleanUpFailedCreate(m) /\ ~CleanUpFailedPromise(m)
    PROVE  UNCHANGED <<azure, incarnations, deletingMachines, deleter, deleterSaw>>
<1> USE DEF azureVars, cacheVars, updaterVars, createVars, deleteVars
<1>1. CASE Updater \/ UNCHANGED vars
    BY <1>1 DEF Updater, Expire, StartUpdate, ListFails, SwapMachines, StampUpdate, ListPage, vars
<1>2. CASE \E m \in Machines : DeleteClaim(m)
    BY <1>2 DEF DeleteClaim
<1>3. ASSUME NEW m \in Machines, Creator(m), ~PutAccepted(m), ~CleanUpFailedCreate(m), ~CleanUpFailedPromise(m)
      PROVE  UNCHANGED <<azure, incarnations, deletingMachines, deleter, deleterSaw>>
    BY <1>3 DEF Creator, BeginCreate, GetFromCache, MissCache, GetMachine, GetFails, StoreMachine, PutRefused,
           PollServed, PollStale, PollMissing, PollTimeout, CreateReturnsError, PromiseHandled
<1> QED
    BY <1>1, <1>2, <1>3

\* The creating thread's cleanups start a delete, and change nothing else of this.
LEMMA CleanupStarts ==
    ASSUME TypeOK, NEW m \in Machines, CleanUpFailedCreate(m) \/ CleanUpFailedPromise(m)
    PROVE  /\ UNCHANGED <<azure, incarnations, deletingMachines>>
           /\ creator[m] \notin {"cleaning", "pollCleaning"}
           /\ \E step \in DeleterSteps \ {"gone"} : StartDelete(m, "creator", step)
BY DEF CleanUpFailedCreate, CleanUpFailedPromise, Delete, DeleterSteps, IfDeleting, azureVars, cacheVars

\* A PUT either finds the machine or makes a newer incarnation of it than there ever was.
LEMMA PutCreatesNewest ==
    ASSUME TypeOK, NEW m \in Machines, PutAccepted(m)
    PROVE  /\ UNCHANGED <<deletingMachines, deleter, deleterSaw>>
           /\ \A n \in Machines :
                 \/ azure'[n] = azure[n] /\ incarnations'[n] = incarnations[n]
                 \/ /\ azure[n] = NotThere
                    /\ incarnations'[n] = incarnations[n] + 1 /\ azure'[n].incarnation = incarnations[n] + 1
BY DEF PutAccepted, TypeOK, Exists, deleteVars

\* Every step keeps Ordered.
LEMMA OrderedStep ==
    ASSUME IInv, [Next]_vars
    PROVE  Ordered'
<1> USE DEF azureVars, cacheVars, updaterVars, createVars, deleteVars
<1>t. TypeOK /\ TypeOK' /\ Ordered
    BY TypeStep DEF IInv
<1>n. /\ NotThere.incarnation = 0
      /\ \A m \in Machines : /\ incarnations[m] \in Nat
                             /\ \A k \in Callers : deleterSaw[m][k] \in Nat
    BY <1>t, MachinesAssumption DEF TypeOK, NotThere
<1>0. ASSUME UNCHANGED <<azure, incarnations, deleterSaw>>
      PROVE  Ordered'
    BY <1>0, <1>t DEF Ordered
<1>a. ASSUME \A n \in Machines :
                \/ azure'[n] = NotThere
                \/ azure[n] # NotThere /\ azure'[n].incarnation = azure[n].incarnation
      PROVE  \A n \in Machines : azure'[n].incarnation <= incarnations[n]
    BY <1>a, <1>n, <1>t DEF Ordered
<1>1. ASSUME NEW m \in Machines, CleanUpFailedCreate(m) \/ CleanUpFailedPromise(m)
      PROVE  Ordered'
  <2>1. UNCHANGED <<azure, incarnations>> /\ \E step \in DeleterSteps : StartDelete(m, "creator", step)
    BY <1>t, <1>1, CleanupStarts
  <2>2. \A n \in Machines, l \in Callers :
           deleterSaw'[n][l] = deleterSaw[n][l] \/ (n = m /\ deleterSaw'[n][l] <= incarnations[m])
    BY <1>t, <2>1, DeleteStarts DEF Callers
  <2> QED
    BY <1>t, <2>1, <2>2 DEF Ordered
<1>2. ASSUME NEW m \in Machines, PutAccepted(m)
      PROVE  Ordered'
    BY <1>t, <1>n, <1>2, PutCreatesNewest DEF Ordered
<1>3. ASSUME NEW m \in Machines, NEW k \in Callers, Deleter(m, k)
      PROVE  Ordered'
  <2>1. UNCHANGED incarnations
    BY <1>3 DEF Deleter, Terminate, Delete, DeleterGets, DeleterGetFails, DeleterStores, IssueDelete, DeleteFails,
           Invalidate, ReportGone
  <2>2. CASE IssueDelete(m, k)
    <3>1. \A n \in Machines : azure'[n].incarnation <= incarnations[n]
      BY <1>t, <1>a, <2>2, AzureKeepsIncarnations
    <3>2. CASE Exists(m)
      <4>1. deleterSaw' = [deleterSaw EXCEPT ![m][k] = azure[m].incarnation]
        BY <2>2, <3>2 DEF IssueDelete
      <4>2. \A n \in Machines, l \in Callers : deleterSaw'[n][l] = deleterSaw[n][l] \/ (n = m /\ deleterSaw'[n][l] = azure[m].incarnation)
        BY <1>t, <4>1 DEF TypeOK
      <4> QED
        BY <1>t, <2>1, <3>1, <4>2 DEF Ordered
    <3>3. CASE ~Exists(m)
      <4>1. UNCHANGED deleterSaw
        BY <2>2, <3>3 DEF IssueDelete, DeleteTo
      <4> QED
        BY <1>t, <2>1, <3>1, <4>1 DEF Ordered
    <3> QED
      BY <3>2, <3>3
  <2>3. CASE ~IssueDelete(m, k)
    <3>1. UNCHANGED azure
      BY <1>3, <2>3 DEF Deleter, Terminate, Delete, DeleterGets, DeleterGetFails, DeleterStores, DeleteFails,
             Invalidate, ReportGone
    <3>2. \E step \in DeleterSteps : StartDelete(m, k, step) \/ DeleteTo(m, k, step)
      BY <1>3, <2>3 DEF Deleter, Terminate, Delete, DeleterGets, DeleterGetFails, DeleterStores, DeleteFails,
             Invalidate, ReportGone, DeleterSteps, IfDeleting
    <3>3. \A n \in Machines, l \in Callers : deleterSaw'[n][l] <= incarnations[n]
      BY <1>t, <1>n, <3>2, DeleteStarts, DeleteMoves DEF Ordered
    <3> QED
      BY <1>t, <2>1, <3>1, <3>3 DEF Ordered
  <2> QED
    BY <2>2, <2>3
<1>4. ASSUME NEW m \in Machines, Azure(m)
      PROVE  Ordered'
  <2>1. UNCHANGED <<incarnations, deleterSaw>>
    BY <1>4 DEF Azure, Provision, FinishDelete, AbandonDelete
  <2> QED
    BY <1>t, <1>a, <1>4, <2>1, AzureKeepsIncarnations DEF Ordered
<1>5. CASE Restart
    BY <1>t, <1>n, <1>5 DEF Restart, NothingSeen, Ordered
<1> QED
    BY <1>0, <1>1, <1>2, <1>3, <1>4, <1>5, QuietSteps DEF Next

\* Every step keeps the marks of the machines that a delete is about.
LEMMA TrackedStep ==
    ASSUME IInv, [Next]_vars
    PROVE  DeletingTracked'
<1> USE DEF azureVars, cacheVars, updaterVars, createVars, deleteVars
<1>t. TypeOK /\ OneCleanup /\ DeletingTracked
    BY DEF IInv
<1>0. ASSUME UNCHANGED <<deletingMachines, deleter>>
      PROVE  DeletingTracked'
    BY <1>0, <1>t DEF DeletingTracked
<1>f. ASSUME NEW m \in Machines, NEW k \in Callers, deletingMachines' = deletingMachines, deleter[m][k] # "lro",
             \A n \in Machines, l \in Callers : n # m \/ l # k => deleter'[n][l] = deleter[n][l]
      PROVE  DeletingTracked'
  <2> SUFFICES ASSUME NEW n \in deletingMachines PROVE \E l \in Callers : deleter'[n][l] = "lro"
    BY <1>f DEF DeletingTracked
  <2>1. n \in Machines
    BY <1>t DEF TypeOK
  <2>2. PICK l \in Callers : deleter[n][l] = "lro"
    BY <1>t DEF DeletingTracked
  <2> QED
    BY <1>f, <2>1, <2>2
<1>u. ASSUME NEW m \in Machines, NEW k \in Callers, deletingMachines' = Unmarked(m),
             \A n \in Machines, l \in Callers : n # m \/ l # k => deleter'[n][l] = deleter[n][l]
      PROVE  DeletingTracked'
  <2> SUFFICES ASSUME NEW n \in deletingMachines, n # m PROVE \E l \in Callers : deleter'[n][l] = "lro"
    BY <1>u DEF DeletingTracked, Unmarked
  <2>1. n \in Machines
    BY <1>t DEF TypeOK
  <2>2. PICK l \in Callers : deleter[n][l] = "lro"
    BY <1>t DEF DeletingTracked
  <2> QED
    BY <1>u, <2>1, <2>2
<1>1. ASSUME NEW m \in Machines, CleanUpFailedCreate(m) \/ CleanUpFailedPromise(m)
      PROVE  DeletingTracked'
  <2>1. deleter[m]["creator"] # "lro" /\ deletingMachines' = deletingMachines
    BY <1>t, <1>1, CleanupStarts DEF OneCleanup
  <2>2. "creator" \in Callers /\ \A n \in Machines, l \in Callers : n # m \/ l # "creator" => deleter'[n][l] = deleter[n][l]
    BY <1>t, <1>1, CleanupStarts, DeleteStarts DEF Callers
  <2> QED
    BY <1>f, <2>1, <2>2
<1>2. ASSUME NEW m \in Machines, NEW k \in Callers, Deleter(m, k)
      PROVE  DeletingTracked'
  <2>1. CASE IssueDelete(m, k) /\ Exists(m)
    <3>1. deletingMachines' = deletingMachines \cup {m} /\ deleter' = [deleter EXCEPT ![m][k] = "lro"]
      BY <2>1 DEF IssueDelete
    <3>2. deleter'[m][k] = "lro" /\ \A n \in Machines, l \in Callers : n # m \/ l # k => deleter'[n][l] = deleter[n][l]
      BY <1>t, <3>1 DEF TypeOK
    <3> QED
      BY <1>t, <3>1, <3>2 DEF DeletingTracked, TypeOK
  <2>2. CASE ~(IssueDelete(m, k) /\ Exists(m))
    <3>1. \E step \in DeleterSteps : StartDelete(m, k, step) \/ DeleteTo(m, k, step)
      BY <1>2, <2>2 DEF Deleter, Terminate, Delete, DeleterGets, DeleterGetFails, DeleterStores, IssueDelete,
             DeleteFails, Invalidate, ReportGone, DeleterSteps, IfDeleting
    <3>2. \A n \in Machines, l \in Callers : n # m \/ l # k => deleter'[n][l] = deleter[n][l]
      BY <1>t, <3>1, DeleteStarts, DeleteMoves
    <3>3. \/ deletingMachines' = deletingMachines /\ deleter[m][k] # "lro"
          \/ deletingMachines' = Unmarked(m)
      BY <1>2, <2>2 DEF Deleter, Terminate, Delete, DeleterGets, DeleterGetFails, DeleterStores, IssueDelete,
             DeleteFails, Invalidate, ReportGone
    <3> QED
      BY <1>f, <1>u, <3>2, <3>3
  <2> QED
    BY <2>1, <2>2
<1>3. CASE Restart
    BY <1>3 DEF Restart, DeletingTracked
<1>4. CASE \E m \in Machines : PutAccepted(m) \/ Azure(m)
    BY <1>0, <1>4 DEF PutAccepted, Azure, Provision, FinishDelete, AbandonDelete
<1> QED
    BY <1>0, <1>1, <1>2, <1>3, <1>4, QuietSteps DEF Next

\* No step makes the incarnation come back that a delete reported gone.
LEMMA GoneStep ==
    ASSUME IInv, [Next]_vars
    PROVE  GoneMeansGone'
<1> USE DEF azureVars, cacheVars, updaterVars, createVars, deleteVars
<1>t. TypeOK /\ TypeOK' /\ Ordered /\ GoneMeansGone
    BY TypeStep DEF IInv
<1>n. \A m \in Machines, k \in Callers : deleterSaw[m][k] \in Nat /\ incarnations[m] \in Nat
    BY <1>t, MachinesAssumption DEF TypeOK
<1>0. ASSUME UNCHANGED <<azure, deleter, deleterSaw>>
      PROVE  GoneMeansGone'
    BY <1>0, <1>t DEF GoneMeansGone, DeletedOnAzure
\* What is gone for a delete stays gone, unless a newer incarnation comes.
<1>k. ASSUME NEW m \in Machines, NEW k \in Callers, DeletedOnAzure(m, k), deleterSaw'[m][k] = deleterSaw[m][k],
             \/ azure'[m] = NotThere
             \/ azure[m] # NotThere /\ azure'[m].incarnation = azure[m].incarnation
      PROVE  DeletedOnAzure(m, k)'
    BY <1>k DEF DeletedOnAzure
<1>1. ASSUME NEW m \in Machines, CleanUpFailedCreate(m) \/ CleanUpFailedPromise(m)
      PROVE  GoneMeansGone'
  <2>1. PICK step \in DeleterSteps \ {"gone"} : StartDelete(m, "creator", step)
    BY <1>t, <1>1, CleanupStarts
  <2>2. /\ UNCHANGED azure /\ deleter'[m]["creator"] # "gone"
        /\ \A n \in Machines, l \in Callers :
              n # m \/ l # "creator" => deleter'[n][l] = deleter[n][l] /\ deleterSaw'[n][l] = deleterSaw[n][l]
    BY <1>t, <1>1, <2>1, CleanupStarts, DeleteStarts DEF Callers
  <2> QED
    BY <1>t, <2>2 DEF GoneMeansGone, DeletedOnAzure
<1>2. ASSUME NEW m \in Machines, PutAccepted(m)
      PROVE  GoneMeansGone'
  <2> SUFFICES ASSUME NEW n \in Machines, NEW l \in Callers, deleter[n][l] = "gone", UNCHANGED <<deleter, deleterSaw>>
               PROVE  azure'[n] = NotThere \/ azure'[n].incarnation > deleterSaw[n][l]
    BY <1>t, <1>2, PutCreatesNewest DEF GoneMeansGone, DeletedOnAzure
  <2>1. DeletedOnAzure(n, l) /\ deleterSaw[n][l] <= incarnations[n]
    BY <1>t DEF GoneMeansGone, Ordered
  <2>2. \/ azure'[n] = azure[n]
        \/ azure'[n].incarnation = incarnations[n] + 1
    BY <1>t, <1>2, PutCreatesNewest
  <2> QED
    BY <1>n, <2>1, <2>2 DEF DeletedOnAzure
<1>3. ASSUME NEW m \in Machines, NEW k \in Callers, Deleter(m, k)
      PROVE  GoneMeansGone'
  <2>1. \A n \in Machines :
           \/ azure'[n] = NotThere
           \/ azure[n] # NotThere /\ azure'[n].incarnation = azure[n].incarnation
    <3>1. CASE IssueDelete(m, k)
      BY <1>t, <3>1, AzureKeepsIncarnations
    <3>2. CASE UNCHANGED azure
      BY <3>2
    <3> QED
      BY <1>3, <3>1, <3>2 DEF Deleter, Terminate, Delete, DeleterGets, DeleterGetFails, DeleterStores, DeleteFails,
         Invalidate, ReportGone
  <2>2. /\ \A n \in Machines, l \in Callers :
              n # m \/ l # k => deleter'[n][l] = deleter[n][l] /\ deleterSaw'[n][l] = deleterSaw[n][l]
        /\ deleter'[m][k] = "gone" => DeletedOnAzure(m, k)'
    <3>1. CASE IssueDelete(m, k) /\ Exists(m)
      <4>1. deleter' = [deleter EXCEPT ![m][k] = "lro"] /\ deleterSaw' = [deleterSaw EXCEPT ![m][k] = azure[m].incarnation]
        BY <3>1 DEF IssueDelete
      <4> QED
        BY <1>t, <4>1 DEF TypeOK
    <3>2. CASE IssueDelete(m, k) /\ ~Exists(m)
      <4>1. DeleteTo(m, k, "gone") /\ UNCHANGED azure
        BY <3>2 DEF IssueDelete
      <4> QED
        BY <1>t, <3>2, <4>1, DeleteMoves DEF DeletedOnAzure, DeleterSteps, Exists
    <3>3. CASE Terminate(m, k)
      <4>1. \E step \in DeleterSteps \ {"gone"} : StartDelete(m, k, step)
        BY <3>3 DEF Terminate, Delete, DeleterSteps, IfDeleting
      <4> QED
        BY <1>t, <4>1, DeleteStarts
    <3>4. CASE DeleterGets(m, k)
      <4>1. DeleteTo(m, k, IF Exists(m) THEN "store" ELSE "gone") /\ UNCHANGED azure
        BY <3>4 DEF DeleterGets
      <4> QED
        BY <1>t, <4>1, DeleteMoves DEF DeletedOnAzure, DeleterSteps, Exists
    <3>5. CASE Invalidate(m, k)
      <4>1. DeleteTo(m, k, "gone") /\ UNCHANGED azure /\ DeletedOnAzure(m, k)
        BY <3>5 DEF Invalidate
      <4> QED
        BY <1>t, <4>1, DeleteMoves DEF DeletedOnAzure, DeleterSteps
    <3>6. CASE DeleterGetFails(m, k) \/ DeleterStores(m, k) \/ DeleteFails(m, k) \/ ReportGone(m, k)
      <4>1. \E step \in DeleterSteps \ {"gone"} : DeleteTo(m, k, step)
        BY <3>6 DEF DeleterGetFails, DeleterStores, DeleteFails, ReportGone, DeleterSteps
      <4> QED
        BY <1>t, <4>1, DeleteMoves
    <3> QED
      BY <1>3, <3>1, <3>2, <3>3, <3>4, <3>5, <3>6 DEF Deleter
  <2> QED
    BY <1>t, <1>k, <2>1, <2>2 DEF GoneMeansGone
<1>4. ASSUME NEW m \in Machines, Azure(m)
      PROVE  GoneMeansGone'
  <2>1. UNCHANGED <<deleter, deleterSaw>>
    BY <1>4 DEF Azure, Provision, FinishDelete, AbandonDelete
  <2>2. \A n \in Machines :
           \/ azure'[n] = NotThere
           \/ azure[n] # NotThere /\ azure'[n].incarnation = azure[n].incarnation
    BY <1>t, <1>4, AzureKeepsIncarnations
  <2> QED
    BY <1>t, <1>k, <2>1, <2>2 DEF GoneMeansGone
<1>5. CASE Restart
    BY <1>5 DEF Restart, IdleDeleters, GoneMeansGone
<1> QED
    BY <1>0, <1>1, <1>2, <1>3, <1>4, <1>5, QuietSteps DEF Next

-----------------------------------------------------------------------------
(* The theorems.                                                           *)

\* The inductive invariant holds initially.
LEMMA InitEstablishes == Init => IInv
<1> SUFFICES ASSUME Init PROVE IInv
    OBVIOUS
<1> USE DEF Init
<1>e. NotThere \in Entry /\ NotThere.incarnation = 0 /\ NoMachines \in [Machines -> Entry]
      /\ \A m \in Machines : NoMachines[m] = NotThere
    BY DEF Entry, NotThere, NoMachines
<1>d. /\ IdleDeleters \in [Machines -> [Callers -> DeleterSteps]]
      /\ NothingRead \in [Machines -> [Callers -> Entry]]
      /\ NothingSeen \in [Machines -> [Callers -> 0..MaxIncarnations]]
    BY <1>e, MachinesAssumption DEF IdleDeleters, NothingRead, NothingSeen, DeleterSteps
<1>1. TypeOK
  <2>1. \A m \in Machines : /\ fetch[m] # "idle" <=> creator[m] \in Fetching
                            /\ got[m] # NotThere <=> fetch[m] = "store"
    BY <1>e DEF Fetching
  <2>2. /\ creator \in [Machines -> CreatorSteps] /\ fetch \in [Machines -> {"idle", "cache", "get", "store"}]
        /\ claim \in [Machines -> {"live", "deleted"}]
    BY DEF CreatorSteps
  <2>3. /\ incarnations \in [Machines -> 0..MaxIncarnations] /\ invalidated \in [Machines -> 0..MaxIncarnations]
        /\ restarts \in 0..MaxRestarts
    BY MachinesAssumption
  <2> QED
    BY <1>e, <1>d, <2>1, <2>2, <2>3 DEF TypeOK
<1>2. Ordered
    BY <1>e DEF Ordered, NothingSeen
<1>3. OneCleanup /\ DeletingTracked /\ GoneMeansGone
    BY DEF OneCleanup, DeletingTracked, GoneMeansGone, IdleDeleters, Callers
<1> QED
    BY <1>1, <1>2, <1>3 DEF IInv

\* Every step preserves the inductive invariant.
LEMMA StepPreserves == IInv /\ [Next]_vars => IInv'
BY TypeStep, OrderedStep, OneCleanupStep, TrackedStep, GoneStep DEF IInv

\* The inductive invariant holds in every state.
THEOREM InvariantHolds == Spec => []IInv
BY InitEstablishes, StepPreserves, PTL DEF Spec

\* Type correctness, with what a create that fetches a machine has in hand.
THEOREM TypeCorrect == Spec => []TypeOK
<1>1. IInv => TypeOK
    BY DEF IInv
<1> QED
    BY <1>1, InvariantHolds, PTL

\* A machine is marked as being deleted only while a delete of it is under way, whichever deletes
\* fail and however many callers there are.
THEOREM MarksCorrect == Spec => []DeletingTracked
<1>1. IInv => DeletingTracked
    BY DEF IInv
<1> QED
    BY <1>1, InvariantHolds, PTL

\* deleteImpl answers "gone" only when no incarnation is left that existed when it was called.
THEOREM GoneCorrect == Spec => []GoneMeansGone
<1>1. IInv => GoneMeansGone
    BY DEF IInv
<1> QED
    BY <1>1, InvariantHolds, PTL

-----------------------------------------------------------------------------
(* What the cache serves after Invalidate. A read that Azure answered      *)
(* before it may be stored after it, and only such a read brings the       *)
(* machine back.                                                           *)

\* An entry that is not of an invalidated incarnation.
Newer(e, m) == e # NotThere => e.incarnation > invalidated[m]

\* Azure has no invalidated incarnation, so that no read after Invalidate returns one.
AzureNewer == \A m \in Machines : invalidated[m] <= incarnations[m] /\ Newer(azure[m], m)

\* Nor do the cache and the reads on their way into it hold one.
ReadsNewer ==
    \A m \in Machines :
        /\ Newer(machines[m], m) /\ Newer(fetched[m], m) /\ Newer(got[m], m)
        /\ \A k \in Callers : Newer(deleterGot[m][k], m)

\* What was read of a machine and is not stored yet.
InHand(m) == {fetched[m], got[m]} \cup {deleterGot[m][k] : k \in Callers}

\* Invalidate does not run while a read of what it invalidates is in hand.
NothingStaleInHand ==
    \A m \in Machines, k \in Callers : Invalidate(m, k) =>
        \A e \in InHand(m) : e # NotThere => e.incarnation > deleterSaw[m][k]

\* Only Invalidate changes the history of invalidations.
LEMMA InvalidatedUnchanged ==
    ASSUME [Next]_vars, ~\E m \in Machines, k \in Callers : Invalidate(m, k)
    PROVE  UNCHANGED invalidated
<1> USE DEF azureVars, cacheVars, updaterVars, createVars, deleteVars
<1>1. CASE Updater \/ UNCHANGED vars \/ Restart
    BY <1>1 DEF Updater, Expire, StartUpdate, ListFails, SwapMachines, StampUpdate, ListPage, Restart, vars
<1>2. ASSUME NEW m \in Machines, Creator(m)
      PROVE  UNCHANGED invalidated
    BY <1>2 DEF Creator, BeginCreate, GetFromCache, MissCache, GetMachine, GetFails, StoreMachine, PutAccepted,
           PutRefused, PollServed, PollStale, PollMissing, PollTimeout, CreateReturnsError, PromiseHandled,
           CleanUpFailedCreate, CleanUpFailedPromise, Delete
<1>3. ASSUME NEW m \in Machines, DeleteClaim(m) \/ Azure(m)
      PROVE  UNCHANGED invalidated
    BY <1>3 DEF DeleteClaim, Azure, Provision, FinishDelete, AbandonDelete
<1>4. ASSUME NEW m \in Machines, NEW k \in Callers, Deleter(m, k), ~Invalidate(m, k)
      PROVE  UNCHANGED invalidated
    BY <1>4 DEF Deleter, Terminate, Delete, DeleterGets, DeleterGetFails, DeleterStores, IssueDelete, DeleteFails,
           ReportGone
<1> QED
    BY <1>1, <1>2, <1>3, <1>4 DEF Next

\* Invalidate raises the mark to the incarnation its delete was about.
LEMMA InvalidateRaises ==
    ASSUME TypeOK, NEW m \in Machines, NEW k \in Callers, Invalidate(m, k)
    PROVE  /\ UNCHANGED <<azure, incarnations, fetched, got, deleterGot>>
           /\ \A n \in Machines :
                 IF n = m
                 THEN machines'[n] = NotThere /\ invalidated'[n] \in {invalidated[n], deleterSaw[m][k]}
                 ELSE machines'[n] = machines[n] /\ invalidated'[n] = invalidated[n]
BY DEF Invalidate, TypeOK, azureVars, updaterVars, createVars

\* Every step keeps AzureNewer.
LEMMA AzureNewerStep ==
    ASSUME IInv, AzureNewer, [Next]_vars
    PROVE  AzureNewer'
<1> USE DEF azureVars, cacheVars, updaterVars, createVars, deleteVars
<1>t. TypeOK /\ Ordered /\ TypeOK'
    BY TypeStep DEF IInv
<1>n. \A m \in Machines : /\ incarnations[m] \in Nat /\ invalidated[m] \in Nat
                          /\ \A k \in Callers : deleterSaw[m][k] \in Nat
    BY <1>t, MachinesAssumption DEF TypeOK
<1>1. ASSUME NEW m \in Machines, NEW k \in Callers, Invalidate(m, k)
      PROVE  AzureNewer'
  <2>1. azure[m] # NotThere => azure[m].incarnation > deleterSaw[m][k]
    BY <1>1 DEF Invalidate, DeletedOnAzure
  <2>2. deleterSaw[m][k] <= incarnations[m]
    BY <1>t DEF Ordered
  <2> QED
    BY <1>t, <1>1, <2>1, <2>2, InvalidateRaises DEF AzureNewer, Newer
<1>2. CASE ~\E m \in Machines, k \in Callers : Invalidate(m, k)
  <2>0. UNCHANGED invalidated
    BY <1>2, InvalidatedUnchanged
  <2>1. ASSUME UNCHANGED incarnations,
               \A n \in Machines :
                  \/ azure'[n] = NotThere \/ azure'[n] = azure[n]
                  \/ azure[n] # NotThere /\ azure'[n].incarnation = azure[n].incarnation
        PROVE  AzureNewer'
    BY <2>0, <2>1 DEF AzureNewer, Newer
  <2>2. ASSUME NEW m \in Machines, PutAccepted(m)
        PROVE  AzureNewer'
    BY <1>t, <1>n, <2>0, <2>2, PutCreatesNewest DEF AzureNewer, Newer
  <2>3. ASSUME NEW m \in Machines, NEW k \in Callers, Deleter(m, k)
        PROVE  AzureNewer'
    <3>1. UNCHANGED incarnations
      BY <2>3 DEF Deleter, Terminate, Delete, DeleterGets, DeleterGetFails, DeleterStores, IssueDelete, DeleteFails,
             Invalidate, ReportGone
    <3>2. UNCHANGED azure \/ IssueDelete(m, k)
      BY <2>3 DEF Deleter, Terminate, Delete, DeleterGets, DeleterGetFails, DeleterStores, DeleteFails,
             Invalidate, ReportGone
    <3> QED
      BY <1>t, <2>1, <3>1, <3>2, AzureKeepsIncarnations
  <2>4. ASSUME NEW m \in Machines, Azure(m)
        PROVE  AzureNewer'
    <3>1. UNCHANGED incarnations
      BY <2>4 DEF Azure, Provision, FinishDelete, AbandonDelete
    <3> QED
      BY <1>t, <2>1, <2>4, <3>1, AzureKeepsIncarnations
  <2>5. ASSUME NEW m \in Machines, CleanUpFailedCreate(m) \/ CleanUpFailedPromise(m)
        PROVE  AzureNewer'
    BY <1>t, <2>1, <2>5, CleanupStarts
  <2>6. CASE Restart
    BY <2>1, <2>6 DEF Restart
  <2>7. CASE UNCHANGED <<azure, incarnations>>
    BY <2>1, <2>7
  <2> QED
    BY <2>2, <2>3, <2>4, <2>5, <2>6, <2>7, QuietSteps DEF Next
<1> QED
    BY <1>1, <1>2

\* Whatever a step puts into the cache, or takes into the hand, was there or is on Azure.
Known(m) == {NotThere, azure[m], machines[m]} \cup InHand(m)
LEMMA ReadsAreKnown ==
    ASSUME TypeOK, [Next]_vars
    PROVE  \A n \in Machines : /\ machines'[n] \in Known(n) /\ fetched'[n] \in Known(n) /\ got'[n] \in Known(n)
                               /\ \A l \in Callers : deleterGot'[n][l] \in Known(n)
<1> DEFINE Goal == \A n \in Machines : /\ machines'[n] \in Known(n) /\ fetched'[n] \in Known(n) /\ got'[n] \in Known(n)
                                       /\ \A l \in Callers : deleterGot'[n][l] \in Known(n)
<1> USE DEF azureVars, cacheVars, updaterVars, createVars, deleteVars
<1>0. /\ machines \in [Machines -> Entry] /\ fetched \in [Machines -> Entry] /\ got \in [Machines -> Entry]
      /\ deleterGot \in [Machines -> [Callers -> Entry]]
    BY DEF TypeOK
<1>1. ASSUME UNCHANGED <<machines, fetched, got, deleterGot>>
      PROVE  Goal
    BY <1>1 DEF Known, InHand
<1>2. CASE UNCHANGED vars \/ Expire \/ StartUpdate \/ StampUpdate
    BY <1>1, <1>2 DEF Expire, StartUpdate, StampUpdate, vars
<1>3. CASE ListFails \/ SwapMachines
    BY <1>0, <1>3 DEF ListFails, SwapMachines, NoMachines, Known, InHand
<1>4. ASSUME NEW m \in Machines, ListPage(m)
      PROVE  Goal
    BY <1>0, <1>4 DEF ListPage, Known, InHand
<1>5. ASSUME NEW m \in Machines, GetMachine(m) \/ StoreMachine(m)
      PROVE  Goal
    BY <1>0, <1>5 DEF GetMachine, StoreMachine, Known, InHand
<1>6. ASSUME NEW m \in Machines, Creator(m), ~GetMachine(m), ~StoreMachine(m)
      PROVE  Goal
    BY <1>1, <1>6 DEF Creator, BeginCreate, GetFromCache, MissCache, GetFails, PutAccepted, PutRefused,
           PollServed, PollStale, PollMissing, PollTimeout, CreateReturnsError, PromiseHandled,
           CleanUpFailedCreate, CleanUpFailedPromise, Delete
<1>7. ASSUME NEW m \in Machines, DeleteClaim(m) \/ Azure(m)
      PROVE  Goal
    BY <1>1, <1>7 DEF DeleteClaim, Azure, Provision, FinishDelete, AbandonDelete
<1>8. ASSUME NEW m \in Machines, NEW k \in Callers, DeleterGets(m, k)
      PROVE  Goal
  <2>1. \A n \in Machines, l \in Callers : deleterGot'[n][l] \in {azure[n], deleterGot[n][l]}
    BY <1>0, <1>8 DEF DeleterGets
  <2> QED
    BY <1>8, <2>1 DEF DeleterGets, Known, InHand
<1>9. ASSUME NEW m \in Machines, NEW k \in Callers, DeleterStores(m, k)
      PROVE  Goal
  <2>1. \A n \in Machines, l \in Callers : deleterGot'[n][l] \in {NotThere, deleterGot[n][l]}
    BY <1>0, <1>9 DEF DeleterStores
  <2>2. \A n \in Machines : machines'[n] \in {machines[n], deleterGot[n][k]}
    BY <1>0, <1>9 DEF DeleterStores
  <2> QED
    BY <1>9, <2>1, <2>2 DEF DeleterStores, Known, InHand
<1>10. ASSUME NEW m \in Machines, NEW k \in Callers, Invalidate(m, k)
       PROVE  Goal
    BY <1>10, InvalidateRaises DEF Known, InHand
<1>11. ASSUME NEW m \in Machines, NEW k \in Callers,
              Deleter(m, k), ~DeleterGets(m, k), ~DeleterStores(m, k), ~Invalidate(m, k)
       PROVE  Goal
    BY <1>1, <1>11 DEF Deleter, Terminate, Delete, DeleterGetFails, IssueDelete, DeleteFails, ReportGone
<1>12. CASE Restart
    BY <1>12 DEF Restart, NoMachines, NothingRead, Known
<1> QED
    BY <1>2, <1>3, <1>4, <1>5, <1>6, <1>7, <1>8, <1>9, <1>10, <1>11, <1>12 DEF Next, Updater

\* Every step keeps ReadsNewer, if Invalidate finds nothing stale in hand.
LEMMA ReadsNewerStep ==
    ASSUME IInv, AzureNewer, ReadsNewer, [Next]_vars, [NothingStaleInHand]_vars
    PROVE  ReadsNewer'
<1>t. TypeOK /\ TypeOK'
    BY TypeStep DEF IInv
<1>1. ASSUME NEW m \in Machines, NEW k \in Callers, Invalidate(m, k)
      PROVE  ReadsNewer'
  <2>1. deleter'[m][k] # deleter[m][k]
    BY <1>t, <1>1, DeleteMoves DEF Invalidate, DeleterSteps
  <2>2. \A e \in InHand(m) : e # NotThere => e.incarnation > deleterSaw[m][k]
    BY <1>1, <2>1 DEF NothingStaleInHand, vars, deleteVars
  <2>3. ASSUME NEW n \in Machines, n # m
        PROVE  /\ Newer(machines[n], n)' /\ Newer(fetched[n], n)' /\ Newer(got[n], n)'
               /\ \A l \in Callers : Newer(deleterGot[n][l], n)'
    BY <1>t, <1>1, <2>3, InvalidateRaises DEF ReadsNewer, Newer
  <2>4. /\ Newer(machines[m], m)' /\ Newer(fetched[m], m)' /\ Newer(got[m], m)'
        /\ \A l \in Callers : Newer(deleterGot[m][l], m)'
    BY <1>t, <1>1, <2>2, InvalidateRaises DEF ReadsNewer, Newer, InHand
  <2> QED
    BY <2>3, <2>4 DEF ReadsNewer
<1>2. CASE ~\E m \in Machines, k \in Callers : Invalidate(m, k)
  <2>1. UNCHANGED invalidated
    BY <1>2, InvalidatedUnchanged
  <2>2. \A n \in Machines : \A e \in Known(n) : e # NotThere => e.incarnation > invalidated[n]
    BY DEF AzureNewer, ReadsNewer, Newer, Known, InHand
  <2> QED
    BY <1>t, <2>1, <2>2, ReadsAreKnown DEF ReadsNewer, Newer
<1> QED
    BY <1>1, <1>2

\* After Invalidate the cache serves no invalidated incarnation, provided that no read of the machine
\* which Azure answered before is still to be stored: the comment on Invalidate holds up to this race.
THEOREM InvalidateCorrect == Spec /\ [][NothingStaleInHand]_vars => []InvalidatedFallsBack
<1>1. Init => AzureNewer /\ ReadsNewer
    BY DEF Init, AzureNewer, ReadsNewer, Newer, NoMachines, NothingRead
<1>2. IInv /\ AzureNewer /\ [Next]_vars => AzureNewer'
    BY AzureNewerStep
<1>3. IInv /\ AzureNewer /\ ReadsNewer /\ [Next]_vars /\ [NothingStaleInHand]_vars => ReadsNewer'
    BY ReadsNewerStep
<1>4. ReadsNewer => InvalidatedFallsBack
    BY DEF ReadsNewer, Newer, InvalidatedFallsBack, Served
<1> QED
    BY <1>1, <1>2, <1>3, <1>4, InvariantHolds, PTL DEF Spec
=============================================================================
