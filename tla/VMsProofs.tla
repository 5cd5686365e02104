----------------------------- MODULE VMsProofs -----------------------------
(***************************************************************************)
(* What VMs promises of every step, for any nodes, any scenarios, any      *)
(* number of faults and pool changes: proofs of its safety properties.     *)
(*                                                                         *)
(* The inductive invariant IInv has one part for each thing that the       *)
(* interleaved creates, deletes and collections rely on: who may be at     *)
(* work on a node at the same time (Exclusion), what a create knows at     *)
(* each of its steps (CreateKnows), what a NIC and a public IP belong to   *)
(* (Wiring), what a deleter that saw no VM may conclude (GoneKnows), what  *)
(* the NIC collector still means to delete (Condemned), and what the       *)
(* cached backend pools and those in a create's hand have to do with each  *)
(* other (PoolsKnown).                                                     *)
(***************************************************************************)
EXTENDS VMs, TLAPS

CreateSteps  == {"idle", "get", "getPools", "getNic", "putNic", "ip", "attach", "refresh", "putVM", "returning",
                 "cleaning"}
PromiseSteps == {"none", "polling", "extensions", "failed", "cleaning", "deleteClaim"}
DeleteSteps  == {"idle", "check", "get", "vm", "poll", "nic", "ip"}
Verdicts     == {"none", "gone", "notFound", "error"}
Deletions    == [step : DeleteSteps, result : Verdicts]
NicRecords   == {NoNic} \cup [there : {TRUE}, pools : 0..pools, ip : BOOLEAN]

\* The create's steps after it found no VM, up to the PUT of one.
BeforeVM == {"getPools", "getNic", "putNic", "ip", "attach", "refresh", "putVM"}

\* Every function is one, also where TypeOK speaks only of its values.
Types ==
    /\ scenario \in Scenarios
    /\ faults \in 0..scenario.faults /\ pools \in 0..scenario.poolChanges
    /\ vm \in [Nodes -> {"absent", "Creating", "Running", "Failed", "Deleting"}]
    /\ nic \in [Nodes -> NicRecords]
    /\ cached \in {NotCached} \cup 0..pools /\ generation \in Nat
    /\ pc \in [Nodes -> CreateSteps]
    /\ observed \in [Nodes -> [pools : 0..pools, generation : 0..generation]]
    /\ retried \in [Nodes -> BOOLEAN]
    /\ promise \in [Nodes -> PromiseSteps]
    /\ del \in [Callers -> [Nodes -> Deletions]]

Sets ==
    /\ old \subseteq {c \in Nodes : Exists(c)}
    /\ ips \subseteq PublicIP
    /\ born \subseteq Nodes /\ claims \subseteq born /\ launched \subseteq claims /\ terminating \subseteq claims
    /\ gcNics \subseteq Nodes /\ gcIPs \subseteq PublicIP /\ gcOrphans \subseteq PublicIP

\* Who is at work on a node: a create only for a NodeClaim without provider ID, termination only
\* for one with it, the cleanup of a promise for one with it or one that is gone.
Exclusion ==
    \A c \in Nodes :
       /\ pc[c] # "idle" => c \in claims /\ c \notin launched
       /\ pc[c] = "cleaning" <=> del["creator"][c] # NotDeleting
       /\ promise[c] = "cleaning" <=> del["promise"][c] # NotDeleting
       /\ promise[c] # "none" => c \in born
       /\ promise[c] = "cleaning" => c \in launched \/ c \notin claims
       /\ del["termination"][c] # NotDeleting => c \in launched

\* What a create knows at its steps: there is no VM yet, the node has a public IP where it handles
\* one, and a NIC that is left when the VM is made has it.
CreateKnows ==
    \A c \in Nodes :
       /\ pc[c] \in BeforeVM => ~Exists(c)
       /\ pc[c] \in {"getNic", "ip", "attach"} => c \in PublicIP
       /\ pc[c] = "putVM" /\ c \in PublicIP /\ nic[c].there => nic[c].ip

\* A NIC belongs to a NodeClaim there was, its IP is there, and a VM that is up is wired.
Wiring ==
    \A c \in Nodes :
       /\ nic[c].there => c \in born
       /\ nic[c].ip => c \in ips
       /\ c \in PublicIP /\ vm[c] \in {"Creating", "Running"} => nic[c].ip

\* The promise's cleanup and termination have no create beside them, so that a VM they saw leave
\* stays away.
GoneKnows ==
    \A k \in {"promise", "termination"}, c \in Nodes :
       /\ del[k][c].step = "poll" => vm[c] \in {"Deleting", "absent"}
       /\ del[k][c].result \in {"gone", "notFound"} => ~Exists(c)

\* The NICs to collect are of NodeClaims there were, and, once these are listed, that are gone.
Condemned ==
    /\ gcNics \subseteq born
    /\ gcStep = "nics" => gcNics \cap claims = {}

\* Pools seen in the cache's generation are the cached ones; a create refreshes only pools it found gone.
PoolsKnown ==
    /\ generation = 0 => cached = NotCached
    /\ \A c \in Nodes :
          /\ observed[c].generation = generation /\ cached # NotCached => cached = observed[c].pools
          /\ pc[c] = "refresh" => observed[c].pools # pools

IInv ==
    /\ Types
    /\ Sets
    /\ Exclusion
    /\ CreateKnows
    /\ Wiring
    /\ GoneKnows
    /\ Condemned
    /\ PoolsKnown

-----------------------------------------------------------------------------
(* Steps by what takes them, and the effect of those that many callers     *)
(* share.                                                                  *)

\* The scenario bounds what the model may do.
LEMMA ScenarioTypes ==
    ASSUME scenario \in Scenarios
    PROVE  /\ scenario.nodes \subseteq Nodes /\ scenario.publicIP \subseteq Nodes /\ scenario.leftovers \subseteq Nodes
           /\ scenario.faults \in Nat /\ scenario.poolChanges \in Nat
BY VMsAssumption

\* A record of del changes for one caller and one node.
LEMMA DeletionSet ==
    ASSUME Types, NEW k \in Callers, NEW c \in Nodes, NEW step \in DeleteSteps, NEW result \in Verdicts,
           DeleteAt(k, c, step, result)
    PROVE  /\ del' \in [Callers -> [Nodes -> Deletions]]
           /\ del'[k][c] = [step |-> step, result |-> result]
           /\ \A m \in Callers, e \in Nodes : m # k \/ e # c => del'[m][e] = del[m][e]
<1> DEFINE d == [step |-> step, result |-> result]
<1>1. d \in Deletions
    BY DEF Deletions
<1>2. del' = [del EXCEPT ![k] = [del[k] EXCEPT ![c] = d]]
    BY DEF Types, DeleteAt
<1> HIDE DEF d
<1>3. [del[k] EXCEPT ![c] = d] \in [Nodes -> Deletions]
    BY <1>1 DEF Types
<1>4. del'[k][c] = d /\ del' \in [Callers -> [Nodes -> Deletions]]
    BY <1>2, <1>3 DEF Types
<1> QED
    BY <1>2, <1>3, <1>4 DEF Types, d

\* One step of a deletion: it goes on, or returns to its caller; it touches only what is its node's,
\* it takes a NIC from no VM and an IP from no NIC, and it holds a VM for gone only if it is.
LEMMA DeleteEffect ==
    ASSUME Types, NEW k \in Callers, NEW c \in Nodes, DeleteStep(k, c)
    PROVE  /\ del' \in [Callers -> [Nodes -> Deletions]] /\ del[k][c].step # "idle"
           /\ \A m \in Callers, e \in Nodes : m # k \/ e # c => del'[m][e] = del[m][e]
           /\ \/ del'[k][c].step # "idle" /\ UNCHANGED <<claimVars, createVars>>
              \/ del'[k][c] = NotDeleting /\ \E result : Return(k, c, result)
           /\ del'[k][c].step = "poll" => vm'[c] = "Deleting"
           /\ del'[k][c].result \in {"gone", "notFound"} =>
                 vm' = vm /\ (~Exists(c) \/ del[k][c].result \in {"gone", "notFound"}
                                         \/ (del[k][c].step = "poll" /\ vm[c] # "Deleting"))
           /\ faults' \in 0..scenario.faults
           /\ UNCHANGED <<scenario, old, pools, lbVars, gcVars, igVars>>
           /\ vm' = vm \/ (Exists(c) /\ vm' = [vm EXCEPT ![c] = "Deleting"])
           /\ \/ UNCHANGED <<nic, ips>>
              \/ ~(nic[c].there /\ Exists(c)) /\ nic' = [nic EXCEPT ![c] = NoNic] /\ UNCHANGED ips
              \/ ~nic[c].ip /\ ips' = ips \ {c} /\ UNCHANGED nic
<1> DEFINE T == del' \in [Callers -> [Nodes -> Deletions]]
           O == \A m \in Callers, e \in Nodes : m # k \/ e # c => del'[m][e] = del[m][e]
<1>1. ASSUME NEW step \in DeleteSteps, NEW result \in Verdicts, DeleteAt(k, c, step, result)
      PROVE  T /\ O /\ del'[k][c].step = step /\ del'[k][c].result = result
  <2>1. T /\ O /\ del'[k][c] = [step |-> step, result |-> result]
    BY <1>1, DeletionSet
  <2> QED
    BY <2>1
<1>2. ASSUME NEW result, Return(k, c, result)
      PROVE  T /\ O /\ del'[k][c] = NotDeleting
  <2>1. DeleteAt(k, c, "idle", "none")
    BY <1>2 DEF Return, DeleteAt, NotDeleting
  <2> QED
    BY <2>1, DeletionSet DEF NotDeleting, DeleteSteps, Verdicts
<1>3. faults' \in 0..scenario.faults
  <2>1. faults' = faults \/ Fault
    BY DEF DeleteStep, CheckDeleting, GetVM, DeleteVM, PollDelete, DeleteNic, DeletePublicIP
  <2> QED
    BY <2>1, ScenarioTypes DEF Types, Fault
<1>4. del[k][c] \in Deletions /\ del[k][c].result \in Verdicts /\ NotDeleting.step = "idle" /\ NotDeleting.result = "none"
    BY DEF Types, Deletions, NotDeleting
<1> DEFINE GoesOn(step, result) ==
               /\ DeleteAt(k, c, step, result) /\ UNCHANGED <<claimVars, createVars>>
               /\ step = "poll" => vm'[c] = "Deleting"
               /\ result \in {"gone", "notFound"} =>
                     vm' = vm /\ (~Exists(c) \/ del[k][c].result \in {"gone", "notFound"}
                                             \/ (del[k][c].step = "poll" /\ vm[c] # "Deleting"))
           Goes == \E step \in DeleteSteps \ {"idle"}, result \in Verdicts : GoesOn(step, result)
           Returns == \E result : Return(k, c, result)
<1> HIDE DEF T, O
<1> USE DEF resourceVars, claimVars, createVars, lbVars, gcVars, igVars
<1>5. del[k][c].step # "idle" /\ (Goes \/ Returns)
  <2> USE DEF DeleteSteps, Verdicts
  <2>1. CASE CheckDeleting(k, c)
    BY <2>1 DEF CheckDeleting
  <2>2. CASE GetVM(k, c)
    <3>1. GoesOn("nic", "notFound") \/ GoesOn("vm", "none") \/ Returns
      BY <2>2 DEF GetVM, resourceVars
    <3> QED
      BY <2>2, <3>1 DEF GetVM
  <2>3. CASE DeleteVM(k, c)
    <3>1. GoesOn("nic", "gone") \/ GoesOn("poll", "none") \/ GoesOn("nic", "error")
      BY <2>3 DEF DeleteVM, Types, claimVars, createVars
    <3> QED
      BY <2>3, <3>1 DEF DeleteVM
  <2>4. CASE PollDelete(k, c)
    BY <2>4 DEF PollDelete, resourceVars
  <2>5. CASE DeleteNic(k, c)
    <3>1. GoesOn("ip", del[k][c].result) \/ Returns
      BY <2>5 DEF DeleteNic
    <3> QED
      BY <1>4, <2>5, <3>1 DEF DeleteNic
  <2>6. CASE DeletePublicIP(k, c)
    BY <1>4, <2>6 DEF DeletePublicIP
  <2> QED
    BY <2>1, <2>2, <2>3, <2>4, <2>5, <2>6 DEF DeleteStep
<1>6. /\ UNCHANGED <<scenario, old, pools, lbVars, gcVars, igVars>>
      /\ vm' = vm \/ (Exists(c) /\ vm' = [vm EXCEPT ![c] = "Deleting"])
      /\ \/ UNCHANGED <<nic, ips>>
         \/ ~(nic[c].there /\ Exists(c)) /\ nic' = [nic EXCEPT ![c] = NoNic] /\ UNCHANGED ips
         \/ ~nic[c].ip /\ ips' = ips \ {c} /\ UNCHANGED nic
  <2>1. CASE CheckDeleting(k, c) \/ GetVM(k, c) \/ PollDelete(k, c)
    BY <2>1 DEF CheckDeleting, GetVM, PollDelete, resourceVars
  <2>2. CASE DeleteVM(k, c)
    BY <2>2 DEF DeleteVM
  <2>3. CASE DeleteNic(k, c)
    BY <2>3 DEF DeleteNic
  <2>4. CASE DeletePublicIP(k, c)
    BY <2>4 DEF DeletePublicIP
  <2> QED
    BY <2>1, <2>2, <2>3, <2>4 DEF DeleteStep
<1>7. CASE Returns
    BY <1>2, <1>3, <1>4, <1>5, <1>6, <1>7 DEF T, O
<1>8. ASSUME NEW step \in DeleteSteps \ {"idle"}, NEW result \in Verdicts, GoesOn(step, result)
      PROVE  T /\ O /\ del'[k][c].step = step /\ del'[k][c].result = result
    BY <1>1, <1>8
<1> QED
    BY <1>3, <1>5, <1>6, <1>7, <1>8 DEF T, O

\* One step of a create: it goes on, or fails and cleans up; the deletions of others go on as they were,
\* and only the last step gives the NodeClaim its provider ID.
LEMMA CreateEffect ==
    ASSUME Types, NEW c \in Nodes, BeginCreate(c) \/ CreateStep(c)
    PROVE  /\ (\E step \in CreateSteps \ {"cleaning"} : Goto(c, step)) \/ (pc[c] # "idle" /\ FailSync(c))
           /\ pc[c] # "cleaning"
           /\ Fault \/ UNCHANGED faults
           /\ UNCHANGED <<scenario, old, pools, born, claims, terminating, gcVars, igVars>>
           /\ UNCHANGED launched \/ CreateReturns(c)
           /\ UNCHANGED ips \/ (pc[c] = "ip" /\ ips' = ips \cup {c})
           /\ UNCHANGED vm \/ (pc[c] = "putVM" /\ nic[c].there /\ vm' = [vm EXCEPT ![c] = "Creating"])
           /\ UNCHANGED promise \/ (pc[c] = "putVM" /\ promise' = [promise EXCEPT ![c] = "polling"])
<1> USE DEF resourceVars, claimVars, createVars, lbVars, gcVars, igVars
<1>1. /\ (\E step \in CreateSteps \ {"cleaning"} : Goto(c, step)) \/ (pc[c] # "idle" /\ FailSync(c))
      /\ pc[c] # "cleaning"
  <2> USE DEF CreateSteps
  <2>1. CASE BeginCreate(c)
    BY <2>1 DEF BeginCreate
  <2>2. CASE GetExisting(c) \/ LoadBalancerBackendPools(c) \/ RefreshBackendPools(c) \/ GetNic(c)
    BY <2>2 DEF GetExisting, LoadBalancerBackendPools, RefreshBackendPools, GetNic, FirstNicStep, AfterGetNic
  <2>3. CASE PutNic(c) \/ EnsurePublicIP(c) \/ AttachPublicIP(c)
    BY <2>3 DEF PutNic, EnsurePublicIP, AttachPublicIP, HandleMissingPool, AfterPutNic
  <2>4. CASE PutVM(c) \/ CreateReturns(c)
    BY <2>4 DEF PutVM, CreateReturns
  <2> QED
    BY <2>1, <2>2, <2>3, <2>4 DEF CreateStep
<1>2. /\ Fault \/ UNCHANGED faults
      /\ UNCHANGED <<scenario, old, pools, born, claims, terminating, gcVars, igVars>>
    BY DEF BeginCreate, CreateStep, GetExisting, LoadBalancerBackendPools, RefreshBackendPools, GetNic,
       PutNic, EnsurePublicIP, AttachPublicIP, PutVM, CreateReturns
<1>3. /\ UNCHANGED launched \/ CreateReturns(c)
      /\ UNCHANGED ips \/ (pc[c] = "ip" /\ ips' = ips \cup {c})
    BY DEF BeginCreate, CreateStep, GetExisting, LoadBalancerBackendPools, RefreshBackendPools, GetNic,
       PutNic, EnsurePublicIP, AttachPublicIP, PutVM, CreateReturns
<1>4. /\ UNCHANGED vm \/ (pc[c] = "putVM" /\ nic[c].there /\ vm' = [vm EXCEPT ![c] = "Creating"])
      /\ UNCHANGED promise \/ (pc[c] = "putVM" /\ promise' = [promise EXCEPT ![c] = "polling"])
    BY DEF BeginCreate, CreateStep, GetExisting, LoadBalancerBackendPools, RefreshBackendPools, GetNic,
       PutNic, EnsurePublicIP, AttachPublicIP, PutVM, CreateReturns
<1> QED
    BY <1>1, <1>2, <1>3, <1>4

\* A step is one of these.
LEMMA StepCases ==
    ASSUME [Next]_vars
    PROVE  \/ \E c \in Nodes :
                 \/ \E k \in Callers : DeleteStep(k, c)
                 \/ BeginCreate(c) \/ CreateStep(c)
                 \/ Wait(c) \/ WaitUntilLaunched(c) \/ PromiseDeletesClaim(c)
                 \/ CreateClaim(c) \/ DeleteClaim(c) \/ Finalize(c)
                 \/ Provision(c) \/ FinishDelete(c) \/ GracePeriodEnds(c)
                 \/ CollectInstance(c)
           \/ CacheExpires \/ PoolsChange \/ Restart
           \/ NicGCStep \/ ListInstances \/ ListNodeClaims
           \/ UNCHANGED vars
<1> USE DEF Callers
<1>1. ASSUME NEW c \in Nodes, LaunchStep(c) \/ PromiseStep(c) \/ TerminateStep(c) \/ DeleteStep("instanceGC", c)
      PROVE  \/ \E k \in Callers : DeleteStep(k, c)
             \/ BeginCreate(c) \/ CreateStep(c)
             \/ Wait(c) \/ WaitUntilLaunched(c) \/ PromiseDeletesClaim(c) \/ Finalize(c)
    BY <1>1 DEF LaunchStep, PromiseStep, TerminateStep
<1> QED
    BY <1>1 DEF Next, AzureStep, InstanceGCStep

-----------------------------------------------------------------------------
(* Types.                                                                  *)

\* The bound on the faults holds after one more.
LEMMA FaultStep ==
    ASSUME Types, UNCHANGED scenario, Fault \/ UNCHANGED faults
    PROVE  faults' \in 0..scenario'.faults
BY ScenarioTypes DEF Types, Fault

\* Every step keeps the types.
LEMMA TypesStep ==
    ASSUME Types, [Next]_vars
    PROVE  Types'
<1> USE DEF resourceVars, claimVars, createVars, lbVars, deleteVars, gcVars, igVars
<1>1. ASSUME NEW c \in Nodes, NEW k \in Callers, DeleteStep(k, c)
      PROVE  Types'
  <2>1. /\ del' \in [Callers -> [Nodes -> Deletions]] /\ faults' \in 0..scenario'.faults
        /\ UNCHANGED <<scenario, pools, lbVars>>
        /\ vm' \in [Nodes -> {"absent", "Creating", "Running", "Failed", "Deleting"}]
        /\ nic' \in [Nodes -> NicRecords]
    BY <1>1, DeleteEffect DEF Types, NicRecords
  <2>2. \/ UNCHANGED createVars
        \/ \E result : Return(k, c, result)
    BY <1>1, DeleteEffect
  <2>3. /\ pc' \in [Nodes -> CreateSteps] /\ promise' \in [Nodes -> PromiseSteps]
        /\ observed' \in [Nodes -> [pools : 0..pools, generation : 0..generation]]
        /\ retried' \in [Nodes -> BOOLEAN]
    <3>1. NoPools \in [pools : 0..pools, generation : 0..generation]
      BY ScenarioTypes DEF Types, NoPools
    <3>2. ASSUME NEW result, Return(k, c, result)
          PROVE  <2>3
      <4>1. observed' = observed \/ observed' = [observed EXCEPT ![c] = NoPools]
        BY <3>2 DEF Return, Forget
      <4>2. retried' = retried \/ retried' = [retried EXCEPT ![c] = FALSE]
        BY <3>2 DEF Return, Forget
      <4>3. pc' \in [Nodes -> CreateSteps] /\ promise' \in [Nodes -> PromiseSteps]
        BY <3>2 DEF Return, Types, CreateSteps, PromiseSteps
      <4>4. observed' \in [Nodes -> [pools : 0..pools, generation : 0..generation]]
        BY <3>1, <4>1 DEF Types
      <4>5. retried' \in [Nodes -> BOOLEAN]
        BY <4>2 DEF Types
      <4> QED
        BY <4>3, <4>4, <4>5
    <3> QED
      BY <2>2, <3>2 DEF Types
  <2> QED
    BY <2>1, <2>3 DEF Types, NicRecords
<1>2. ASSUME NEW c \in Nodes, BeginCreate(c) \/ CreateStep(c)
      PROVE  Types'
  <2>1. Fault \/ UNCHANGED faults
    BY <1>2, CreateEffect
  <2>2. UNCHANGED <<scenario, pools>>
    BY <1>2, CreateEffect
  <2>3. (\E step \in CreateSteps : Goto(c, step)) \/ FailSync(c)
    BY <1>2, CreateEffect
  <2>4. pc' \in [Nodes -> CreateSteps] /\ del' \in [Callers -> [Nodes -> Deletions]]
    BY <2>3, DeletionSet DEF Types, Goto, FailSync, CreateSteps, Callers, DeleteSteps, Verdicts
  <2>5. vm' \in [Nodes -> {"absent", "Creating", "Running", "Failed", "Deleting"}] /\ promise' \in [Nodes -> PromiseSteps]
    BY <1>2 DEF Types, PromiseSteps, BeginCreate, CreateStep, GetExisting, LoadBalancerBackendPools,
           RefreshBackendPools, GetNic, PutNic, EnsurePublicIP, AttachPublicIP, PutVM, CreateReturns
  <2>6. nic' \in [Nodes -> NicRecords]
    <3>1. Nic(pools, FALSE) \in NicRecords /\ Nic(pools, TRUE) \in NicRecords
      BY ScenarioTypes DEF Types, NicRecords, Nic
    <3>2. CASE PutNic(c)
      BY <3>1, <3>2 DEF PutNic, Types
    <3>3. CASE AttachPublicIP(c)
      BY <3>1, <3>3 DEF AttachPublicIP, MissingPool, Types
    <3>4. CASE ~PutNic(c) /\ ~AttachPublicIP(c)
      BY <1>2, <3>4 DEF Types, BeginCreate, CreateStep, GetExisting, LoadBalancerBackendPools,
             RefreshBackendPools, GetNic, EnsurePublicIP, PutVM, CreateReturns
    <3> QED
      BY <3>2, <3>3, <3>4
  <2>7. /\ cached' \in {NotCached} \cup 0..pools /\ generation' \in Nat
        /\ observed' \in [Nodes -> [pools : 0..pools, generation : 0..generation']]
    <3>1. ASSUME NEW list \in {NotCached} \cup 0..pools, GetPools(c, list)
          PROVE  <2>7
      BY <3>1, ScenarioTypes DEF GetPools, Types, NotCached
    <3>2. AfterRefresh(observed[c]) \in {NotCached} \cup 0..pools /\ NoPools \in [pools : 0..pools, generation : 0..generation]
      BY ScenarioTypes DEF AfterRefresh, Types, NoPools
    <3>3. CASE LoadBalancerBackendPools(c)
      BY <3>1, <3>3 DEF LoadBalancerBackendPools, Types
    <3>4. CASE RefreshBackendPools(c)
      BY <3>1, <3>2, <3>4 DEF RefreshBackendPools, Types
    <3>5. CASE CreateReturns(c)
      BY <3>2, <3>5 DEF CreateReturns, Forget, Types
    <3>6. CASE UNCHANGED <<lbVars, observed>>
      BY <3>6 DEF Types
    <3> QED
      BY <1>2, <3>3, <3>4, <3>5, <3>6 DEF BeginCreate, CreateStep, GetExisting, GetNic, PutNic, EnsurePublicIP,
         AttachPublicIP, PutVM
  <2>8. retried' \in [Nodes -> BOOLEAN]
    BY <1>2 DEF Types, Forget, BeginCreate, CreateStep, GetExisting, LoadBalancerBackendPools,
           RefreshBackendPools, GetNic, PutNic, EnsurePublicIP, AttachPublicIP, PutVM, CreateReturns
  <2> QED
    BY <2>1, <2>2, <2>4, <2>5, <2>6, <2>7, <2>8, FaultStep DEF Types, NicRecords
<1>3. ASSUME NEW c \in Nodes, Wait(c) \/ WaitUntilLaunched(c) \/ PromiseDeletesClaim(c) \/ CreateClaim(c)
                              \/ DeleteClaim(c) \/ Finalize(c) \/ CollectInstance(c)
      PROVE  Types'
  <2>1. (Fault \/ UNCHANGED faults) /\ UNCHANGED <<scenario, vm, nic, pools, lbVars, pc, observed, retried>>
    BY <1>3 DEF Wait, WaitUntilLaunched, PromiseDeletesClaim, CreateClaim, DeleteClaim, Finalize, CollectInstance
  <2>2. promise' \in [Nodes -> PromiseSteps]
    BY <1>3 DEF Wait, WaitUntilLaunched, PromiseDeletesClaim, CreateClaim, DeleteClaim, Finalize, CollectInstance,
           PromiseAt, PromiseSteps, Types
  <2>3. UNCHANGED del \/ \E k \in Callers : DeleteAt(k, c, "check", "none")
    BY <1>3 DEF Wait, WaitUntilLaunched, PromiseDeletesClaim, CreateClaim, DeleteClaim, Finalize, CollectInstance,
           Callers
  <2>4. del' \in [Callers -> [Nodes -> Deletions]]
    BY <2>3, DeletionSet DEF Types, DeleteSteps, Verdicts
  <2> QED
    BY <2>1, <2>2, <2>4, FaultStep DEF Types, NicRecords
<1>4. ASSUME NEW c \in Nodes, Provision(c) \/ FinishDelete(c) \/ GracePeriodEnds(c)
      PROVE  Types'
  <2>1. /\ Fault \/ UNCHANGED faults
        /\ UNCHANGED <<scenario, pools, lbVars, createVars, del>>
        /\ vm' \in [Nodes -> {"absent", "Creating", "Running", "Failed", "Deleting"}]
        /\ nic' \in [Nodes -> NicRecords]
    BY <1>4 DEF Provision, FinishDelete, GracePeriodEnds, Types, NicRecords
  <2> QED
    BY <2>1, FaultStep DEF Types, NicRecords
<1>5. CASE PoolsChange
  <2>1. scenario.poolChanges \in Nat /\ pools \in Nat /\ pools' = pools + 1 /\ pools' \in 0..scenario.poolChanges
        /\ 0..pools \subseteq 0..pools'
    BY <1>5, ScenarioTypes DEF PoolsChange, Types
  <2>2. NicRecords \subseteq NicRecords'
    BY <2>1 DEF NicRecords
  <2> QED
    BY <1>5, <2>1, <2>2 DEF PoolsChange, Types
<1>6. CASE Restart
  <2>1. NoPools \in [pools : 0..pools, generation : {0}] /\ NotDeleting \in Deletions
    BY ScenarioTypes DEF Types, NoPools, NotDeleting, Deletions, DeleteSteps, Verdicts
  <2>2. pc' \in [Nodes -> CreateSteps] /\ promise' \in [Nodes -> PromiseSteps] /\ retried' \in [Nodes -> BOOLEAN]
    BY <1>6 DEF Restart, Stopped, CreateSteps, PromiseSteps
  <2>3. del' \in [Callers -> [Nodes -> Deletions]] /\ observed' \in [Nodes -> [pools : 0..pools, generation : {0}]]
    BY <1>6, <2>1 DEF Restart, Stopped
  <2>4. observed' \in [Nodes -> [pools : 0..pools', generation : 0..generation']]
    BY <1>6, <2>3 DEF Restart, Stopped
  <2>5. UNCHANGED <<scenario, vm, nic, pools>> /\ cached' = NotCached /\ generation' = 0 /\ faults' \in 0..scenario'.faults
    BY <1>6, FaultStep DEF Restart, Stopped
  <2> QED
    BY <2>2, <2>3, <2>4, <2>5 DEF Types, NicRecords
<1>7. CASE NicGCStep
  <2>1. UNCHANGED <<scenario, vm, pools, lbVars, createVars, del>> /\ (Fault \/ UNCHANGED faults)
    BY <1>7 DEF NicGCStep, ListNics, ListVMs, Protect, ListPublicIPs, CollectNic, CheckOrphan, CollectPublicIP
  <2>2. nic' = nic \/ \E c \in Nodes : nic' = [nic EXCEPT ![c] = NoNic]
    BY <1>7 DEF NicGCStep, ListNics, ListVMs, Protect, ListPublicIPs, CollectNic, CheckOrphan, CollectPublicIP
  <2>3. nic' \in [Nodes -> NicRecords]
    BY <2>2 DEF Types, NicRecords
  <2> QED
    BY <2>1, <2>3, FaultStep DEF Types, NicRecords
<1>8. CASE CacheExpires \/ ListInstances \/ ListNodeClaims \/ UNCHANGED vars
  <2>1. /\ UNCHANGED <<scenario, vm, nic, pools, generation, createVars, del>>
        /\ Fault \/ UNCHANGED faults
        /\ cached' \in {cached, NotCached}
    BY <1>8 DEF CacheExpires, ListInstances, ListNodeClaims, vars
  <2> QED
    BY <2>1, FaultStep DEF Types, NicRecords
<1> QED
    BY <1>1, <1>2, <1>3, <1>4, <1>5, <1>6, <1>7, <1>8, StepCases

-----------------------------------------------------------------------------
(* Which NodeClaims and resources there are, and who works on them.        *)

\* Every step keeps Sets.
LEMMA SetsStep ==
    ASSUME IInv, [Next]_vars
    PROVE  Sets'
<1> USE DEF resourceVars, claimVars, createVars, lbVars, deleteVars, gcVars, igVars
<1>t. Types /\ Sets /\ Exclusion /\ CreateKnows
    BY DEF IInv
<1>1. ASSUME NEW c \in Nodes, NEW k \in Callers, DeleteStep(k, c)
      PROVE  Sets'
  <2>1. /\ \/ UNCHANGED claimVars
           \/ \E result : Return(k, c, result)
        /\ UNCHANGED <<scenario, old, gcVars>>
        /\ ips' \subseteq ips
        /\ UNCHANGED vm \/ vm' = [vm EXCEPT ![c] = "Deleting"]
    BY <1>t, <1>1, DeleteEffect
  <2>2. /\ born' = born /\ claims' \subseteq claims
        /\ launched' \subseteq claims' /\ terminating' \subseteq claims'
    BY <1>t, <2>1 DEF Return, Sets
  <2>3. \A e \in Nodes : Exists(e) => Exists(e)'
    BY <1>t, <2>1 DEF Exists, Types
  <2> QED
    BY <1>t, <2>1, <2>2, <2>3 DEF Sets, PublicIP
<1>2. ASSUME NEW c \in Nodes, BeginCreate(c) \/ CreateStep(c)
      PROVE  Sets'
  <2>1. UNCHANGED <<scenario, old, born, claims, terminating, gcVars>>
    BY <1>t, <1>2, CreateEffect
  <2>2. ips' \subseteq PublicIP
    BY <1>t, <1>2, CreateEffect DEF Sets, CreateKnows
  <2>3. launched' \subseteq claims
    BY <1>t, <1>2, CreateEffect DEF CreateReturns, Sets, Exclusion
  <2>4. \A e \in Nodes : Exists(e) => Exists(e)'
    BY <1>t, <1>2, CreateEffect DEF Exists, Types
  <2> QED
    BY <1>t, <2>1, <2>2, <2>3, <2>4 DEF Sets, PublicIP
<1>3. ASSUME NEW c \in Nodes, Wait(c) \/ WaitUntilLaunched(c) \/ PromiseDeletesClaim(c) \/ CreateClaim(c)
                              \/ DeleteClaim(c) \/ Finalize(c) \/ CollectInstance(c)
      PROVE  Sets'
  <2>1. UNCHANGED <<scenario, resourceVars, gcVars>>
    BY <1>3 DEF Wait, WaitUntilLaunched, PromiseDeletesClaim, CreateClaim, DeleteClaim, Finalize, CollectInstance
  <2>2. born' \subseteq Nodes /\ claims' \subseteq born' /\ launched' \subseteq claims' /\ terminating' \subseteq claims'
    BY <1>t, <1>3 DEF Wait, WaitUntilLaunched, PromiseDeletesClaim, CreateClaim, DeleteClaim, Finalize,
           CollectInstance, Sets
  <2> QED
    BY <1>t, <2>1, <2>2 DEF Sets, PublicIP, Exists
<1>4. ASSUME NEW c \in Nodes, Provision(c) \/ FinishDelete(c) \/ GracePeriodEnds(c)
      PROVE  Sets'
  <2>1. old' \subseteq {e \in Nodes : Exists(e)'}
    BY <1>t, <1>4 DEF Provision, FinishDelete, GracePeriodEnds, Sets, Exists, Types
  <2> QED
    BY <1>t, <1>4, <2>1 DEF Provision, FinishDelete, GracePeriodEnds, Sets, PublicIP
<1>5. CASE PoolsChange \/ CacheExpires \/ ListInstances \/ ListNodeClaims \/ UNCHANGED vars
    BY <1>t, <1>5 DEF PoolsChange, CacheExpires, ListInstances, ListNodeClaims, vars, Sets, PublicIP, Exists
<1>6. CASE Restart
    BY <1>t, <1>6 DEF Restart, Stopped, Sets, PublicIP, Exists
<1>7. CASE NicGCStep
  <2>1. UNCHANGED <<scenario, vm, old, claimVars>> /\ ips' \subseteq ips
    BY <1>7 DEF NicGCStep, ListNics, ListVMs, Protect, ListPublicIPs, CollectNic, CheckOrphan, CollectPublicIP
  <2>2. gcNics' \subseteq Nodes /\ gcIPs' \subseteq PublicIP /\ gcOrphans' \subseteq PublicIP
    BY <1>t, <1>7 DEF NicGCStep, ListNics, ListVMs, Protect, ListPublicIPs, CollectNic, CheckOrphan, CollectPublicIP,
           Sets
  <2> QED
    BY <1>t, <2>1, <2>2 DEF Sets, PublicIP, Exists
<1> QED
    BY <1>1, <1>2, <1>3, <1>4, <1>5, <1>6, <1>7, StepCases

\* Every step keeps Exclusion.
LEMMA ExclusionStep ==
    ASSUME IInv, [Next]_vars
    PROVE  Exclusion'
<1> USE DEF resourceVars, claimVars, createVars, lbVars, deleteVars, gcVars, igVars
<1>t. Types /\ Sets /\ Exclusion /\ Types'
    BY TypesStep DEF IInv
<1>0. ASSUME UNCHANGED <<claimVars, pc, promise, del>>
      PROVE  Exclusion'
    BY <1>t, <1>0 DEF Exclusion
<1>1. ASSUME NEW c \in Nodes, NEW k \in Callers, DeleteStep(k, c)
      PROVE  Exclusion'
  <2>1. /\ \A m \in Callers, e \in Nodes : m # k \/ e # c => del'[m][e] = del[m][e]
        /\ del[k][c] # NotDeleting
        /\ \/ del'[k][c] # NotDeleting /\ UNCHANGED <<claimVars, pc, promise>>
           \/ del'[k][c] = NotDeleting /\ \E result : Return(k, c, result)
    BY <1>t, <1>1, DeleteEffect DEF NotDeleting
  <2>2. CASE del'[k][c] # NotDeleting /\ UNCHANGED <<claimVars, pc, promise>>
    BY <1>t, <2>1, <2>2 DEF Exclusion, Callers
  <2>3. ASSUME NEW result, del'[k][c] = NotDeleting, Return(k, c, result)
        PROVE  Exclusion'
    <3>1. CASE k = "creator"
      BY <1>t, <2>1, <2>3, <3>1 DEF Exclusion, Callers, Return, Types
    <3>2. CASE k = "promise"
      BY <1>t, <2>1, <2>3, <3>2 DEF Exclusion, Callers, Return, Types, Sets
    <3>3. CASE k = "termination"
      BY <1>t, <2>1, <2>3, <3>3 DEF Exclusion, Callers, Return, Types
    <3>4. CASE k = "instanceGC"
      BY <1>t, <2>1, <2>3, <3>4 DEF Exclusion, Callers, Return, Types
    <3> QED
      BY <3>1, <3>2, <3>3, <3>4 DEF Callers
  <2> QED
    BY <2>1, <2>2, <2>3
<1>2. ASSUME NEW c \in Nodes, BeginCreate(c) \/ CreateStep(c)
      PROVE  Exclusion'
  <2>1. /\ UNCHANGED <<born, claims, terminating>> /\ pc[c] # "cleaning"
        /\ UNCHANGED promise \/ (pc[c] = "putVM" /\ promise' = [promise EXCEPT ![c] = "polling"])
    BY <1>t, <1>2, CreateEffect
  <2>2. /\ \A m \in Callers, e \in Nodes : m # "creator" \/ e # c => del'[m][e] = del[m][e]
        /\ \A e \in Nodes : e # c => pc'[e] = pc[e]
        /\ pc'[c] = "cleaning" <=> del'["creator"][c] # NotDeleting
    <3>1. CASE pc[c] # "idle" /\ FailSync(c)
      BY <1>t, <3>1, DeletionSet DEF FailSync, Types, NotDeleting, Callers, DeleteSteps, Verdicts
    <3>2. ASSUME NEW step \in CreateSteps \ {"cleaning"}, Goto(c, step)
          PROVE  <2>2
      BY <1>t, <2>1, <3>2 DEF Goto, Types, Exclusion
    <3> QED
      BY <1>t, <1>2, <3>1, <3>2, CreateEffect
  <2>3. c \in claims /\ c \notin launched
    BY <1>t, <1>2 DEF BeginCreate, CreateStep, GetExisting, LoadBalancerBackendPools, RefreshBackendPools, GetNic,
           PutNic, EnsurePublicIP, AttachPublicIP, PutVM, CreateReturns, Exclusion
  <2>4. UNCHANGED launched \/ (launched' = launched \cup {c} /\ pc'[c] = "idle")
    BY <1>t, <1>2, CreateEffect DEF CreateReturns, Goto, Types
  <2> QED
    BY <1>t, <2>1, <2>2, <2>3, <2>4 DEF Exclusion, Callers, Types, Sets
<1>3. ASSUME NEW c \in Nodes, Wait(c) \/ WaitUntilLaunched(c) \/ PromiseDeletesClaim(c)
      PROVE  Exclusion'
  <2>1. CASE Wait(c) \/ PromiseDeletesClaim(c)
    BY <1>t, <2>1 DEF Wait, PromiseDeletesClaim, PromiseAt, Exclusion, Types
  <2>2. CASE WaitUntilLaunched(c)
    <3>1. /\ \A m \in Callers, e \in Nodes : m # "promise" \/ e # c => del'[m][e] = del[m][e]
          /\ del'["promise"][c] # NotDeleting
      BY <1>t, <2>2, DeletionSet DEF WaitUntilLaunched, NotDeleting, Callers, DeleteSteps, Verdicts
    <3> QED
      BY <1>t, <2>2, <3>1 DEF WaitUntilLaunched, PromiseAt, Exclusion, Types, Callers
  <2> QED
    BY <1>3, <2>1, <2>2
<1>4. ASSUME NEW c \in Nodes, CreateClaim(c) \/ DeleteClaim(c)
      PROVE  Exclusion'
    BY <1>t, <1>4 DEF CreateClaim, DeleteClaim, Exclusion, Sets
<1>5. ASSUME NEW c \in Nodes, Finalize(c)
      PROVE  Exclusion'
  <2>1. CASE c \in launched
    <3>1. \A m \in Callers, e \in Nodes : m # "termination" \/ e # c => del'[m][e] = del[m][e]
      BY <1>t, <1>5, <2>1, DeletionSet DEF Finalize, Callers, DeleteSteps, Verdicts
    <3> QED
      BY <1>t, <1>5, <2>1, <3>1 DEF Finalize, Exclusion, Callers
  <2>2. CASE c \notin launched
    BY <1>t, <1>5, <2>2 DEF Finalize, Exclusion
  <2> QED
    BY <2>1, <2>2
<1>6. ASSUME NEW c \in Nodes, CollectInstance(c)
      PROVE  Exclusion'
  <2>1. \A m \in Callers, e \in Nodes : m # "instanceGC" \/ e # c => del'[m][e] = del[m][e]
    BY <1>t, <1>6, DeletionSet DEF CollectInstance, Callers, DeleteSteps, Verdicts
  <2> QED
    BY <1>t, <1>6, <2>1 DEF CollectInstance, Exclusion, Callers
<1>7. CASE Restart
    BY <1>t, <1>7 DEF Restart, Stopped, Exclusion, Callers
<1>8. CASE \/ \E c \in Nodes : Provision(c) \/ FinishDelete(c) \/ GracePeriodEnds(c)
           \/ PoolsChange \/ CacheExpires \/ ListInstances \/ ListNodeClaims \/ NicGCStep \/ UNCHANGED vars
  <2>1. UNCHANGED <<claimVars, pc, promise, del>>
    BY <1>8 DEF Provision, FinishDelete, GracePeriodEnds, PoolsChange, CacheExpires, ListInstances, ListNodeClaims,
           NicGCStep, ListNics, ListVMs, Protect, ListPublicIPs, CollectNic, CheckOrphan, CollectPublicIP, vars
  <2> QED
    BY <1>0, <2>1
<1> QED
    BY <1>1, <1>2, <1>3, <1>4, <1>5, <1>6, <1>7, <1>8, StepCases

-----------------------------------------------------------------------------
(* What a create knows, and what its resources have to do with each other. *)

\* The steps that leave VMs, NICs, IPs and creates alone.
LEMMA QuietSteps ==
    ASSUME NEW c \in Nodes, Wait(c) \/ WaitUntilLaunched(c) \/ PromiseDeletesClaim(c) \/ CreateClaim(c)
                            \/ DeleteClaim(c) \/ Finalize(c) \/ GracePeriodEnds(c) \/ CollectInstance(c)
    PROVE  UNCHANGED <<scenario, vm, nic, ips, pools, lbVars, pc, observed, gcVars>>
BY DEF Wait, WaitUntilLaunched, PromiseDeletesClaim, CreateClaim, DeleteClaim, Finalize, GracePeriodEnds,
   CollectInstance, resourceVars, lbVars, createVars, gcVars

\* Every step keeps what a creation knows of its resources.
LEMMA CreateKnowsStep ==
    ASSUME IInv, [Next]_vars
    PROVE  CreateKnows'
<1> USE DEF resourceVars, claimVars, createVars, lbVars, deleteVars, gcVars, igVars
<1>t. Types /\ Exclusion /\ CreateKnows /\ Types'
    BY TypesStep DEF IInv
<1>n. NoNic.there = FALSE /\ NoNic.ip = FALSE
    BY DEF NoNic
<1>0. ASSUME UNCHANGED <<scenario, vm, nic, pc>>
      PROVE  CreateKnows'
    BY <1>t, <1>0 DEF CreateKnows, Exists, PublicIP
<1>1. ASSUME NEW c \in Nodes, NEW k \in Callers, DeleteStep(k, c)
      PROVE  CreateKnows'
  <2>1. UNCHANGED pc \/ pc' = [pc EXCEPT ![c] = "idle"]
    BY <1>t, <1>1, DeleteEffect DEF Return
  <2>2. /\ UNCHANGED scenario
        /\ vm' = vm \/ (Exists(c) /\ vm' = [vm EXCEPT ![c] = "Deleting"])
        /\ nic' = nic \/ nic' = [nic EXCEPT ![c] = NoNic]
    BY <1>t, <1>1, DeleteEffect
  <2> QED
    BY <1>t, <1>n, <2>1, <2>2 DEF CreateKnows, Exists, PublicIP, Types, BeforeVM
<1>2. ASSUME NEW c \in Nodes, BeginCreate(c) \/ CreateStep(c)
      PROVE  CreateKnows'
  <2>1. /\ UNCHANGED scenario /\ pc[c] # "cleaning"
        /\ \A e \in Nodes : e # c => pc'[e] = pc[e] /\ vm'[e] = vm[e]
    BY <1>t, <1>2, CreateEffect DEF Goto, FailSync, Types
  <2>2. \A e \in Nodes : e # c => nic'[e] = nic[e]
    BY <1>t, <1>2 DEF BeginCreate, CreateStep, GetExisting, LoadBalancerBackendPools, RefreshBackendPools, GetNic,
           PutNic, EnsurePublicIP, AttachPublicIP, PutVM, CreateReturns, Types
  <2>3. /\ pc'[c] \in BeforeVM => vm'[c] = "absent"
        /\ pc'[c] \in {"getNic", "ip", "attach"} => c \in PublicIP
        /\ pc'[c] = "putVM" /\ c \in PublicIP => nic'[c].ip
    <3> USE DEF BeforeVM, Goto
    <3>f. ASSUME FailSync(c) PROVE pc'[c] = "cleaning"
      BY <1>t, <3>f DEF FailSync, Types
    <3>1. CASE BeginCreate(c)
      BY <1>t, <3>1 DEF BeginCreate, Types
    <3>2. CASE GetExisting(c)
      BY <1>t, <3>2, <3>f DEF GetExisting, Types, Exists
    <3>3. CASE LoadBalancerBackendPools(c)
      BY <1>t, <3>3, <3>f DEF LoadBalancerBackendPools, Types, Exists, FirstNicStep, CreateKnows
    <3>4. CASE RefreshBackendPools(c)
      BY <1>t, <3>4, <3>f DEF RefreshBackendPools, Types, Exists, FirstNicStep, CreateKnows
    <3>5. CASE GetNic(c)
      BY <1>t, <3>5, <3>f DEF GetNic, Types, Exists, AfterGetNic, CreateKnows
    <3>6. CASE PutNic(c)
      BY <1>t, <3>6, <3>f DEF PutNic, HandleMissingPool, Types, Exists, AfterPutNic, CreateKnows
    <3>7. CASE EnsurePublicIP(c)
      BY <1>t, <3>7, <3>f DEF EnsurePublicIP, Types, Exists, CreateKnows
    <3>8. CASE AttachPublicIP(c)
      BY <1>t, <3>8, <3>f DEF AttachPublicIP, HandleMissingPool, Types, Exists, CreateKnows, Nic
    <3>9. CASE PutVM(c) \/ CreateReturns(c)
      BY <1>t, <3>9, <3>f DEF PutVM, CreateReturns, Types
    <3> QED
      BY <1>2, <3>1, <3>2, <3>3, <3>4, <3>5, <3>6, <3>7, <3>8, <3>9 DEF CreateStep
  <2> QED
    BY <1>t, <2>1, <2>2, <2>3 DEF CreateKnows, Exists, PublicIP
<1>3. ASSUME NEW c \in Nodes, Provision(c) \/ FinishDelete(c)
      PROVE  CreateKnows'
  <2>1. /\ UNCHANGED <<scenario, pc>>
        /\ \A e \in Nodes : ~Exists(e) => ~Exists(e)'
        /\ nic' = nic \/ nic' = [nic EXCEPT ![c] = NoNic]
    BY <1>t, <1>3 DEF Provision, FinishDelete, Types, Exists
  <2> QED
    BY <1>t, <1>n, <2>1 DEF CreateKnows, PublicIP, Types
<1>4. CASE NicGCStep
  <2>1. /\ UNCHANGED <<scenario, pc, vm>>
        /\ nic' = nic \/ \E c \in Nodes : nic' = [nic EXCEPT ![c] = NoNic]
    BY <1>4 DEF NicGCStep, ListNics, ListVMs, Protect, ListPublicIPs, CollectNic, CheckOrphan, CollectPublicIP
  <2> QED
    BY <1>t, <1>n, <2>1 DEF CreateKnows, PublicIP, Types, Exists
<1>5. CASE Restart
    BY <1>t, <1>5 DEF Restart, Stopped, CreateKnows, BeforeVM
<1>6. CASE PoolsChange \/ CacheExpires \/ ListInstances \/ ListNodeClaims \/ UNCHANGED vars
    BY <1>0, <1>6 DEF PoolsChange, CacheExpires, ListInstances, ListNodeClaims, vars
<1> QED
    BY <1>0, <1>1, <1>2, <1>3, <1>4, <1>5, <1>6, StepCases, QuietSteps

\* Every step keeps how the resources of a VM are wired.
LEMMA WiringStep ==
    ASSUME IInv, [Next]_vars
    PROVE  Wiring'
<1> USE DEF resourceVars, claimVars, createVars, lbVars, deleteVars, gcVars, igVars
<1>t. Types /\ Sets /\ Exclusion /\ CreateKnows /\ Wiring /\ Types'
    BY TypesStep DEF IInv
<1>n. NoNic.there = FALSE /\ NoNic.ip = FALSE /\ \A c \in Nodes : nic[c].ip => nic[c].there
  <2>1. NoNic.there = FALSE /\ NoNic.ip = FALSE
    BY DEF NoNic
  <2>2. ASSUME NEW c \in Nodes PROVE nic[c] = NoNic \/ nic[c].there
    BY <1>t DEF Types, NicRecords
  <2> QED
    BY <2>1, <2>2
<1>0. ASSUME UNCHANGED <<scenario, vm, nic, ips>>, born \subseteq born'
      PROVE  Wiring'
    BY <1>t, <1>0 DEF Wiring, PublicIP
<1>1. ASSUME NEW c \in Nodes, NEW k \in Callers, DeleteStep(k, c)
      PROVE  Wiring'
  <2>1. UNCHANGED <<scenario, born>> /\ (vm' = vm \/ vm' = [vm EXCEPT ![c] = "Deleting"])
    BY <1>t, <1>1, DeleteEffect DEF Return
  <2>2. \/ UNCHANGED <<nic, ips>>
        \/ ~(nic[c].there /\ Exists(c)) /\ nic' = [nic EXCEPT ![c] = NoNic] /\ UNCHANGED ips
        \/ ~nic[c].ip /\ ips' = ips \ {c} /\ UNCHANGED nic
    BY <1>t, <1>1, DeleteEffect
  <2> QED
    BY <1>t, <1>n, <2>1, <2>2 DEF Wiring, Exists, PublicIP, Types
<1>2. ASSUME NEW c \in Nodes, BeginCreate(c) \/ CreateStep(c)
      PROVE  Wiring'
  <2>1. UNCHANGED <<scenario, born>> /\ ips \subseteq ips'
    BY <1>t, <1>2, CreateEffect
  <2>2. CASE PutNic(c)
    BY <1>t, <2>1, <2>2 DEF PutNic, Wiring, Exclusion, CreateKnows, BeforeVM, Sets, PublicIP, Types, Nic, Exists
  <2>3. CASE AttachPublicIP(c)
    BY <1>t, <2>1, <2>3 DEF AttachPublicIP, Wiring, Exclusion, Sets, PublicIP, Types, Nic
  <2>4. CASE PutVM(c)
    BY <1>t, <2>1, <2>4 DEF PutVM, Wiring, CreateKnows, PublicIP, Types
  <2>5. CASE ~PutNic(c) /\ ~AttachPublicIP(c) /\ ~PutVM(c)
    <3>1. UNCHANGED <<vm, nic>>
      BY <1>2, <2>5 DEF BeginCreate, CreateStep, GetExisting, LoadBalancerBackendPools, RefreshBackendPools, GetNic,
             EnsurePublicIP, CreateReturns
    <3> QED
      BY <1>t, <2>1, <3>1 DEF Wiring, PublicIP
  <2> QED
    BY <2>2, <2>3, <2>4, <2>5
<1>3. ASSUME NEW c \in Nodes, Provision(c) \/ FinishDelete(c)
      PROVE  Wiring'
    BY <1>t, <1>n, <1>3 DEF Provision, FinishDelete, Wiring, PublicIP, Types
<1>4. CASE NicGCStep
  <2>1. CASE \E c \in Nodes : CollectNic(c)
    BY <1>t, <1>n, <2>1 DEF CollectNic, Wiring, PublicIP, Types, Exists
  <2>2. CASE \E c \in Nodes : CollectPublicIP(c)
    BY <1>t, <2>2 DEF CollectPublicIP, Wiring, PublicIP
  <2>3. CASE UNCHANGED <<scenario, vm, nic, ips, born>>
    BY <1>0, <2>3
  <2> QED
    BY <1>4, <2>1, <2>2, <2>3 DEF NicGCStep, ListNics, ListVMs, Protect, ListPublicIPs, CheckOrphan
<1>5. CASE Restart \/ PoolsChange \/ CacheExpires \/ ListInstances \/ ListNodeClaims \/ UNCHANGED vars
    BY <1>0, <1>5 DEF Restart, PoolsChange, CacheExpires, ListInstances, ListNodeClaims, vars
<1>6. ASSUME NEW c \in Nodes, Wait(c) \/ WaitUntilLaunched(c) \/ PromiseDeletesClaim(c) \/ CreateClaim(c)
                              \/ DeleteClaim(c) \/ Finalize(c) \/ GracePeriodEnds(c) \/ CollectInstance(c)
      PROVE  Wiring'
  <2>1. born \subseteq born'
    BY <1>6 DEF Wait, WaitUntilLaunched, PromiseDeletesClaim, CreateClaim, DeleteClaim, Finalize, GracePeriodEnds,
           CollectInstance
  <2> QED
    BY <1>0, <1>6, <2>1, QuietSteps
<1> QED
    BY <1>1, <1>2, <1>3, <1>4, <1>5, <1>6, StepCases

-----------------------------------------------------------------------------
(* What deleters, collectors and the owners of pools know.                 *)

\* Every step keeps what a deletion knows to be gone.
LEMMA GoneKnowsStep ==
    ASSUME IInv, [Next]_vars
    PROVE  GoneKnows'
<1> USE DEF resourceVars, claimVars, createVars, lbVars, deleteVars, gcVars, igVars
<1>t. Types /\ Exclusion /\ GoneKnows /\ Types'
    BY TypesStep DEF IInv
<1>n. NotDeleting.step = "idle" /\ NotDeleting.result = "none"
    BY DEF NotDeleting
<1>0. ASSUME UNCHANGED <<vm, del>>
      PROVE  GoneKnows'
    BY <1>t, <1>0 DEF GoneKnows, Exists
<1>1. ASSUME NEW c \in Nodes, NEW k \in Callers, DeleteStep(k, c)
      PROVE  GoneKnows'
  <2> SUFFICES ASSUME NEW m \in {"promise", "termination"}, NEW e \in Nodes
               PROVE  /\ del'[m][e].step = "poll" => vm'[e] \in {"Deleting", "absent"}
                      /\ del'[m][e].result \in {"gone", "notFound"} => vm'[e] = "absent"
    BY DEF GoneKnows, Exists
  <2>1. UNCHANGED vm \/ (Exists(c) /\ vm' = [vm EXCEPT ![c] = "Deleting"])
    BY <1>t, <1>1, DeleteEffect
  <2>2. CASE m = k /\ e = c
    <3>1. /\ del'[k][c].step = "poll" => vm'[c] = "Deleting"
          /\ del'[k][c].result \in {"gone", "notFound"} =>
                 vm' = vm /\ (~Exists(c) \/ del[k][c].result \in {"gone", "notFound"}
                                         \/ (del[k][c].step = "poll" /\ vm[c] # "Deleting"))
      BY <1>t, <1>1, DeleteEffect
    <3> QED
      BY <1>t, <2>2, <3>1 DEF GoneKnows, Exists
  <2>3. CASE m # k \/ e # c
    <3>1. del'[m][e] = del[m][e]
      BY <1>t, <1>1, <2>3, DeleteEffect DEF Callers
    <3> QED
      BY <1>t, <2>1, <3>1 DEF GoneKnows, Exists, Types
  <2> QED
    BY <2>2, <2>3
<1>2. ASSUME NEW c \in Nodes, BeginCreate(c) \/ CreateStep(c)
      PROVE  GoneKnows'
  <2>1. \A m \in {"promise", "termination"}, e \in Nodes : del'[m][e] = del[m][e]
    <3>1. CASE FailSync(c)
      BY <1>t, <3>1, DeletionSet DEF FailSync, Callers, DeleteSteps, Verdicts
    <3>2. CASE UNCHANGED del
      BY <3>2
    <3> QED
      BY <1>t, <1>2, <3>1, <3>2, CreateEffect DEF Goto
  <2>2. CASE UNCHANGED vm
    BY <1>t, <2>1, <2>2 DEF GoneKnows, Exists
  <2>3. CASE pc[c] = "putVM" /\ vm' = [vm EXCEPT ![c] = "Creating"]
    <3>1. del["promise"][c] = NotDeleting /\ del["termination"][c] = NotDeleting
      BY <1>t, <2>3 DEF Exclusion
    <3> QED
      BY <1>t, <1>n, <2>1, <2>3, <3>1 DEF GoneKnows, Exists, Types
  <2> QED
    BY <1>t, <1>2, <2>2, <2>3, CreateEffect
<1>3. ASSUME NEW c \in Nodes, Wait(c) \/ WaitUntilLaunched(c) \/ PromiseDeletesClaim(c) \/ CreateClaim(c)
                              \/ DeleteClaim(c) \/ Finalize(c) \/ GracePeriodEnds(c) \/ CollectInstance(c)
      PROVE  GoneKnows'
  <2>1. UNCHANGED del \/ \E k \in Callers : DeleteAt(k, c, "check", "none")
    BY <1>3 DEF Wait, WaitUntilLaunched, PromiseDeletesClaim, CreateClaim, DeleteClaim, Finalize, GracePeriodEnds,
           CollectInstance, Callers
  <2>2. \A m \in Callers, e \in Nodes :
           del'[m][e] = del[m][e] \/ (del'[m][e].step = "check" /\ del'[m][e].result = "none")
    BY <1>t, <2>1, DeletionSet DEF DeleteSteps, Verdicts
  <2>3. UNCHANGED vm
    BY <1>3, QuietSteps
  <2> QED
    BY <1>t, <2>2, <2>3 DEF GoneKnows, Exists, Callers
<1>4. ASSUME NEW c \in Nodes, Provision(c) \/ FinishDelete(c)
      PROVE  GoneKnows'
    BY <1>t, <1>4 DEF Provision, FinishDelete, GoneKnows, Exists, Types
<1>5. CASE Restart
    BY <1>t, <1>n, <1>5 DEF Restart, Stopped, GoneKnows, Callers
<1>6. CASE NicGCStep \/ PoolsChange \/ CacheExpires \/ ListInstances \/ ListNodeClaims \/ UNCHANGED vars
  <2>1. UNCHANGED <<vm, del>>
    BY <1>6 DEF NicGCStep, ListNics, ListVMs, Protect, ListPublicIPs, CollectNic, CheckOrphan, CollectPublicIP,
           PoolsChange, CacheExpires, ListInstances, ListNodeClaims, vars
  <2> QED
    BY <1>0, <2>1
<1> QED
    BY <1>1, <1>2, <1>3, <1>4, <1>5, <1>6, StepCases

\* Every step keeps what the garbage collection has condemned.
LEMMA CondemnedStep ==
    ASSUME IInv, [Next]_vars
    PROVE  Condemned'
<1> USE DEF resourceVars, claimVars, createVars, lbVars, deleteVars, gcVars, igVars
<1>t. Types /\ Sets /\ Wiring /\ Condemned
    BY DEF IInv
<1>0. ASSUME UNCHANGED <<gcStep, gcNics>>, born \subseteq born', claims' \subseteq claims \cup (born' \ born)
      PROVE  Condemned'
    BY <1>t, <1>0 DEF Condemned
<1>1. ASSUME NEW c \in Nodes, NEW k \in Callers, DeleteStep(k, c)
      PROVE  Condemned'
  <2>1. UNCHANGED <<gcStep, gcNics>> /\ (UNCHANGED claimVars \/ \E result : Return(k, c, result))
    BY <1>t, <1>1, DeleteEffect
  <2> QED
    BY <1>0, <2>1 DEF Return
<1>2. ASSUME NEW c \in Nodes, BeginCreate(c) \/ CreateStep(c)
      PROVE  Condemned'
    BY <1>t, <1>0, <1>2, CreateEffect
<1>3. ASSUME NEW c \in Nodes, Wait(c) \/ WaitUntilLaunched(c) \/ PromiseDeletesClaim(c) \/ CreateClaim(c)
                              \/ DeleteClaim(c) \/ Finalize(c) \/ GracePeriodEnds(c) \/ CollectInstance(c)
      PROVE  Condemned'
  <2>1. born \subseteq born' /\ claims' \subseteq claims \cup (born' \ born)
    BY <1>3 DEF Wait, WaitUntilLaunched, PromiseDeletesClaim, CreateClaim, DeleteClaim, Finalize, GracePeriodEnds,
           CollectInstance
  <2> QED
    BY <1>0, <1>3, <2>1, QuietSteps
<1>4. CASE NicGCStep
  <2>1. UNCHANGED claimVars
    BY <1>4 DEF NicGCStep, ListNics, ListVMs, Protect, ListPublicIPs, CollectNic, CheckOrphan, CollectPublicIP
  <2>2. CASE ListNics
    BY <1>t, <2>1, <2>2 DEF ListNics, Wiring, Condemned
  <2>3. CASE Protect
    BY <1>t, <2>1, <2>3 DEF Protect, Condemned
  <2>4. CASE ListVMs \/ ListPublicIPs \/ \E c \in Nodes : CollectNic(c) \/ CheckOrphan(c) \/ CollectPublicIP(c)
    BY <1>t, <2>1, <2>4 DEF ListVMs, ListPublicIPs, CollectNic, CheckOrphan, CollectPublicIP, Condemned
  <2> QED
    BY <1>4, <2>2, <2>3, <2>4 DEF NicGCStep
<1>5. CASE Restart
    BY <1>t, <1>5 DEF Restart, Stopped, Condemned
<1>6. CASE \/ \E c \in Nodes : Provision(c) \/ FinishDelete(c)
           \/ PoolsChange \/ CacheExpires \/ ListInstances \/ ListNodeClaims \/ UNCHANGED vars
    BY <1>0, <1>6 DEF Provision, FinishDelete, PoolsChange, CacheExpires, ListInstances, ListNodeClaims, vars
<1> QED
    BY <1>1, <1>2, <1>3, <1>4, <1>5, <1>6, StepCases

\* Every step keeps what is known of the backend pools.
LEMMA PoolsKnownStep ==
    ASSUME IInv, [Next]_vars
    PROVE  PoolsKnown'
<1> USE DEF resourceVars, claimVars, createVars, lbVars, deleteVars, gcVars, igVars
<1>t. Types /\ PoolsKnown /\ Types'
    BY TypesStep DEF IInv
<1>p. pools \in Nat /\ generation \in Nat
      /\ \A c \in Nodes : /\ observed[c].pools \in 0..pools /\ observed[c].generation \in 0..generation
                          /\ observed[c].generation <= generation /\ observed[c].pools <= pools
    BY <1>t, ScenarioTypes DEF Types
<1>0. ASSUME UNCHANGED <<pools, lbVars, pc, observed>>
      PROVE  PoolsKnown'
    BY <1>t, <1>0 DEF PoolsKnown
<1>1. ASSUME NEW c \in Nodes, NEW k \in Callers, DeleteStep(k, c)
      PROVE  PoolsKnown'
  <2>1. UNCHANGED <<pools, lbVars>>
    BY <1>t, <1>1, DeleteEffect
  <2>2. \/ UNCHANGED <<pc, observed>>
        \/ pc' = [pc EXCEPT ![c] = "idle"] /\ observed' = [observed EXCEPT ![c] = NoPools]
    BY <1>t, <1>1, DeleteEffect DEF Return, Forget
  <2> QED
    BY <1>t, <2>1, <2>2 DEF PoolsKnown, Types, NoPools
<1>2. ASSUME NEW c \in Nodes, BeginCreate(c) \/ CreateStep(c)
      PROVE  PoolsKnown'
  <2>1. /\ UNCHANGED pools
        /\ \A e \in Nodes : e # c => pc'[e] = pc[e]
    BY <1>t, <1>2, CreateEffect DEF Goto, FailSync, Types
  <2>2. ASSUME NEW list \in {NotCached} \cup 0..pools, GetPools(c, list), pc'[c] # "refresh",
               list = cached \/ list = NotCached
        PROVE  PoolsKnown'
    <3>1. CASE list = NotCached
      <4>1. /\ generation' = generation + 1 /\ cached' = pools
            /\ observed'[c].pools = pools
            /\ \A e \in Nodes : e # c => observed'[e] = observed[e]
        BY <1>t, <2>2, <3>1 DEF GetPools, Types
      <4> QED
        BY <1>t, <1>p, <2>1, <2>2, <4>1 DEF PoolsKnown
    <3>2. CASE list # NotCached
      <4>1. /\ generation' = generation /\ cached' = cached /\ cached # NotCached
            /\ observed'[c].pools = cached
            /\ \A e \in Nodes : e # c => observed'[e] = observed[e]
        BY <1>t, <2>2, <3>2 DEF GetPools, Types
      <4> QED
        BY <1>t, <2>1, <2>2, <4>1 DEF PoolsKnown
    <3> QED
      BY <3>1, <3>2
  <2>3. ASSUME UNCHANGED <<generation, observed>>, cached' = cached \/ cached' = NotCached,
               pc'[c] = "refresh" => observed[c].pools # pools
        PROVE  PoolsKnown'
    BY <1>t, <2>1, <2>3 DEF PoolsKnown
  <2>f. ASSUME FailSync(c) PROVE pc'[c] = "cleaning"
    BY <1>t, <2>f DEF FailSync, Types
  <2>4. CASE LoadBalancerBackendPools(c)
    BY <1>t, <2>2, <2>3, <2>4, <2>f DEF LoadBalancerBackendPools, Goto, FirstNicStep, Types
  <2>5. CASE RefreshBackendPools(c)
    <3>1. AfterRefresh(observed[c]) \in {NotCached} \cup 0..pools
          /\ (AfterRefresh(observed[c]) = cached \/ AfterRefresh(observed[c]) = NotCached)
      BY <1>t DEF AfterRefresh, Types
    <3>2. pc'[c] # "refresh"
      BY <1>t, <2>5, <2>f DEF RefreshBackendPools, Goto, FirstNicStep, Types
    <3> QED
      BY <2>2, <2>3, <2>5, <3>1, <3>2 DEF RefreshBackendPools
  <2>6. CASE PutNic(c) \/ AttachPublicIP(c)
    <3>1. pc'[c] = "refresh" => observed[c].pools # pools
      BY <1>t, <2>6, <2>f DEF PutNic, AttachPublicIP, HandleMissingPool, MissingPool, AfterPutNic, Goto, Types
    <3> QED
      BY <2>3, <2>6, <3>1 DEF PutNic, AttachPublicIP
  <2>7. CASE CreateReturns(c)
    BY <1>t, <2>1, <2>7 DEF CreateReturns, Goto, Forget, PoolsKnown, NoPools, Types
  <2>8. CASE BeginCreate(c) \/ GetExisting(c) \/ GetNic(c) \/ EnsurePublicIP(c) \/ PutVM(c)
    <3>1. pc'[c] # "refresh"
      BY <1>t, <2>8, <2>f DEF BeginCreate, GetExisting, GetNic, EnsurePublicIP, PutVM, AfterGetNic, Goto, Types
    <3> QED
      BY <2>3, <2>8, <3>1 DEF BeginCreate, GetExisting, GetNic, EnsurePublicIP, PutVM
  <2> QED
    BY <1>2, <2>4, <2>5, <2>6, <2>7, <2>8 DEF CreateStep
<1>3. CASE PoolsChange
    BY <1>t, <1>p, <1>3 DEF PoolsChange, PoolsKnown
<1>4. CASE CacheExpires
    BY <1>t, <1>4 DEF CacheExpires, PoolsKnown
<1>5. CASE Restart
    BY <1>t, <1>5 DEF Restart, Stopped, PoolsKnown
<1>6. CASE \/ \E c \in Nodes : Provision(c) \/ FinishDelete(c)
           \/ NicGCStep \/ ListInstances \/ ListNodeClaims \/ UNCHANGED vars
  <2>1. UNCHANGED <<pools, lbVars, pc, observed>>
    BY <1>6 DEF NicGCStep, ListNics, ListVMs, Protect, ListPublicIPs, CollectNic, CheckOrphan, CollectPublicIP,
           Provision, FinishDelete, ListInstances, ListNodeClaims, vars
  <2> QED
    BY <1>0, <2>1
<1> QED
    BY <1>0, <1>1, <1>2, <1>3, <1>4, <1>5, <1>6, StepCases, QuietSteps

-----------------------------------------------------------------------------
(* The theorems.                                                           *)

\* The inductive invariant holds initially.
LEMMA InitEstablishes == Init => IInv
<1> SUFFICES ASSUME Init PROVE IInv
    OBVIOUS
<1> USE DEF Init
<1>s. scenario \in Scenarios /\ scenario.leftovers \subseteq Nodes /\ scenario.faults \in Nat /\ scenario.poolChanges \in Nat
    BY ScenarioTypes
<1>n. NotDeleting \in Deletions /\ NotDeleting.step = "idle" /\ NotDeleting.result = "none"
    BY DEF NotDeleting, Deletions, DeleteSteps, Verdicts
<1>c. /\ {NoNic, Nic(0, FALSE), Nic(0, TRUE)} \subseteq NicRecords
      /\ NoPools \in [pools : 0..pools, generation : 0..generation]
    BY DEF NicRecords, Nic, NoPools
<1>1. Types
  <2>1. /\ vm \in [Nodes -> {"absent", "Creating", "Running", "Failed", "Deleting"}]
        /\ nic \in [Nodes -> NicRecords]
    BY <1>c DEF Leftovers
  <2>2. /\ pc \in [Nodes -> CreateSteps] /\ promise \in [Nodes -> PromiseSteps]
        /\ observed \in [Nodes -> [pools : 0..pools, generation : 0..generation]]
        /\ retried \in [Nodes -> BOOLEAN] /\ del \in [Callers -> [Nodes -> Deletions]]
    BY <1>n, <1>c DEF CreateSteps, PromiseSteps
  <2> QED
    BY <1>s, <2>1, <2>2 DEF Types
<1>2. Sets /\ Condemned
    BY <1>s DEF Sets, Condemned, Leftovers, PublicIP
<1>3. Exclusion /\ CreateKnows
    BY DEF Exclusion, CreateKnows, BeforeVM, Callers
<1>4. Wiring
    BY <1>s DEF Wiring, Leftovers, Exists
<1>5. GoneKnows
    BY <1>n DEF GoneKnows, Callers
<1>6. PoolsKnown
    BY DEF PoolsKnown
<1> QED
    BY <1>1, <1>2, <1>3, <1>4, <1>5, <1>6 DEF IInv

\* Every step preserves the inductive invariant.
LEMMA StepPreserves == IInv /\ [Next]_vars => IInv'
BY TypesStep, SetsStep, ExclusionStep, CreateKnowsStep, WiringStep, GoneKnowsStep, CondemnedStep, PoolsKnownStep
   DEF IInv

\* The inductive invariant holds in every state.
THEOREM InvariantHolds == Spec => []IInv
BY InitEstablishes, StepPreserves, PTL DEF Spec

\* Type correctness: a create, a cleanup of the promise and a termination have the records and the
\* NodeClaims they should, whichever calls fail and wherever the process stops.
THEOREM TypeCorrect == Spec => []TypeOK
<1>1. IInv => TypeOK
  <2> SUFFICES ASSUME IInv PROVE TypeOK
    OBVIOUS
  <2>1. \A c \in Nodes : nic[c] = NoNic \/ nic[c] \in [there : {TRUE}, pools : 0..pools, ip : BOOLEAN]
    BY DEF IInv, Types, NicRecords
  <2>2. \A c \in Nodes : pc[c] # "idle" => c \in claims
    BY DEF IInv, Exclusion
  <2>3. \A c \in Nodes : /\ pc[c] = "cleaning" <=> del["creator"][c] # NotDeleting
                         /\ promise[c] = "cleaning" <=> del["promise"][c] # NotDeleting
    BY DEF IInv, Exclusion
  <2> QED
    BY <2>1, <2>2, <2>3 DEF TypeOK, IInv, Types, Sets
<1> QED
    BY <1>1, InvariantHolds, PTL

\* deleteImpl as the promise and termination call it holds a VM for gone only if it is: quota is
\* never released for a VM that still counts.
THEOREM GoneCorrect == Spec => []GoneMeansGone
<1>1. IInv => GoneMeansGone
    BY DEF IInv, GoneKnows, GoneMeansGone
<1> QED
    BY <1>1, InvariantHolds, PTL

\* A VM of a node with a public IP is on a NIC that has it, whatever earlier attempts left behind.
THEOREM PublicIPCorrect == Spec => []VMHasPublicIP
<1>1. IInv => VMHasPublicIP
    BY ScenarioTypes DEF IInv, Types, Wiring, VMHasPublicIP, PublicIP
<1> QED
    BY <1>1, InvariantHolds, PTL

\* NetworkInterface.Reconcile takes no NIC from a NodeClaim that exists, however new it is.
THEOREM NicGCCorrect == Spec => NicGCSparesLaunches
<1>1. IInv /\ [Next]_vars => [\A c \in Nodes : CollectNic(c) /\ nic'[c] # nic[c] => c \notin claims]_vars
    BY DEF IInv, Condemned, CollectNic
<1> QED
    BY <1>1, InvariantHolds, PTL DEF Spec, NicGCSparesLaunches

\* A caller whose pools are gone drops the cached list only if it is outdated: no two callers refresh
\* the same list.
THEOREM RefreshCorrect == Spec => RefreshDropsOnlyStale
<1>1. ASSUME IInv, NEW c \in Nodes, RefreshBackendPools(c), cached # NotCached,
             generation' # generation \/ cached' = NotCached
      PROVE  cached # pools
  <2>1. CASE observed[c].generation = generation
    BY <1>1, <2>1 DEF IInv, PoolsKnown, RefreshBackendPools
  <2>2. CASE observed[c].generation # generation
    BY <1>1, <2>2 DEF RefreshBackendPools, AfterRefresh, GetPools
  <2> QED
    BY <2>1, <2>2
<1>2. IInv /\ [Next]_vars =>
         [\A c \in Nodes :
             /\ RefreshBackendPools(c) /\ cached # NotCached
             /\ generation' # generation \/ cached' = NotCached
             => cached # pools]_vars
    BY <1>1
<1> QED
    BY <1>2, InvariantHolds, PTL DEF Spec, RefreshDropsOnlyStale
=============================================================================
