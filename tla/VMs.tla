-------------------------------- MODULE VMs --------------------------------
(***************************************************************************)
(* The VM instance provider: a VM, its NIC and its public IP are separate  *)
(* Azure resources under one name, made and removed one call at a time.    *)
(* The module composes the create with the load balancer's cached backend  *)
(* pools, the promise that waits for the VM, the delete as its callers run *)
(* it side by side, and the two garbage collectors. Azure and the          *)
(* NodeClaims survive a restart, everything else is in memory.             *)
(*                                                                         *)
(* Every NodeClaim has a NodePool, so that Create does not wait for the    *)
(* VM. A get-then-delete of a NIC or a public IP is one step: deleting     *)
(* what is gone succeeds.                                                  *)
(***************************************************************************)
EXTENDS Integers, FiniteSets

CONSTANTS
    Nodes,          \* resource names, one per NodeClaim
    Scenarios       \* bounds of the model: which nodes, which with a public IP and
                    \* which with leftovers of a process that stopped, how many faults and pool
                    \* changes, whether NodeClaims are deleted and the collectors run

ASSUME VMsAssumption ==
    Scenarios \subseteq [nodes : SUBSET Nodes, publicIP : SUBSET Nodes, leftovers : SUBSET Nodes,
                         faults : Nat, poolChanges : Nat, deletions : BOOLEAN]

\* Who deletes: BeginCreate after a synchronous failure, the promise after an asynchronous one,
\* the termination of a NodeClaim, the instance garbage collector.
Callers == {"creator", "promise", "termination", "instanceGC"}

VARIABLES
    scenario, faults,
    \* Azure
    vm, old,                \* node -> provisioning state; the VMs older than the grace period
    nic, ips,               \* node -> NIC; the nodes with a public IP
    pools,                  \* how often the load balancer's backend pools changed
    \* the NodeClaims: those there ever were, those there are, with a provider ID, with a deletion timestamp
    born, claims, launched, terminating,
    \* loadbalancer.Provider
    cached, generation,
    \* beginLaunchInstance: step, the pools in hand and whether they are the refreshed ones; the promise
    pc, observed, retried, promise,
    \* deleteImpl and cleanupAzureResources of each caller
    del, deletingVMs,
    \* the garbage collectors
    gcStep, gcNics, gcProtected, gcIPs, gcOrphans,
    igStep, igVMs

resourceVars == <<vm, old, nic, ips>>
claimVars    == <<born, claims, launched, terminating>>
lbVars       == <<cached, generation>>
createVars   == <<pc, observed, retried, promise>>
deleteVars   == <<del, deletingVMs>>
gcVars       == <<gcStep, gcNics, gcProtected, gcIPs, gcOrphans>>
igVars       == <<igStep, igVMs>>
vars == <<scenario, faults, resourceVars, pools, claimVars, lbVars, createVars, deleteVars, gcVars, igVars>>

NotCached == -1
NoNic     == [there |-> FALSE, pools |-> 0, ip |-> FALSE]
Nic(p, ip) == [there |-> TRUE, pools |-> p, ip |-> ip]
NoPools   == [pools |-> 0, generation |-> 0]
NotDeleting == [step |-> "idle", result |-> "none"]

Exists(c) == vm[c] # "absent"

\* The create's local variables are gone when it returns.
Forget(c) ==
    /\ observed' = [observed EXCEPT ![c] = NoPools]
    /\ retried' = [retried EXCEPT ![c] = FALSE]

PublicIP == scenario.publicIP
Fault == faults > 0 /\ faults' = faults - 1

-----------------------------------------------------------------------------
(* cleanupAzureResources and deleteImpl.                                   *)

DeleteAt(k, c, step, result) == del' = [del EXCEPT ![k][c] = [step |-> step, result |-> result]]

\* deleteImpl returns. The promise goes on to delete the NodeClaim; termination drops the finalizer
\* once the instance is not found; the others only log the error.
Return(k, c, result) ==
    /\ del' = [del EXCEPT ![k][c] = NotDeleting]
    /\ pc' = IF k = "creator" THEN [pc EXCEPT ![c] = "idle"] ELSE pc
    /\ promise' = IF k = "promise" THEN [promise EXCEPT ![c] = "deleteClaim"] ELSE promise
    /\ LET finished == IF k = "termination" /\ result = "notFound" THEN {c} ELSE {}
       IN /\ claims' = claims \ finished
          /\ launched' = launched \ finished
          /\ terminating' = terminating \ finished
    /\ IF k = "creator" THEN Forget(c) ELSE UNCHANGED <<observed, retried>>
    /\ UNCHANGED born

\* An error of DeleteNic: only logged once the VM is deleted, an error to retry for a VM not found.
AfterNicError(result) == IF result = "notFound" THEN "leftovers" ELSE result

CheckDeleting(k, c) ==
    /\ del[k][c].step = "check"
    /\ IF c \in deletingVMs
       THEN Return(k, c, "inFlight")
       ELSE DeleteAt(k, c, "get", "none") /\ UNCHANGED <<claimVars, createVars>>
    /\ UNCHANGED <<scenario, faults, resourceVars, pools, lbVars, deletingVMs, gcVars, igVars>>

GetVM(k, c) ==
    /\ del[k][c].step = "get"
    /\ \/ /\ ~Exists(c)
          /\ DeleteAt(k, c, "nic", "notFound")
          /\ UNCHANGED <<faults, claimVars, createVars>>
       \/ vm[c] = "Deleting" /\ Return(k, c, "inFlight") /\ UNCHANGED faults
       \/ /\ Exists(c) /\ vm[c] # "Deleting"
          /\ DeleteAt(k, c, "vm", "none")
          /\ UNCHANGED <<faults, claimVars, createVars>>
       \/ Fault /\ Return(k, c, "error")
    /\ UNCHANGED <<scenario, resourceVars, pools, lbVars, deletingVMs, gcVars, igVars>>

\* deleteVirtualMachineIfExists up to the accepted delete. After an error the NIC is still tried.
DeleteVM(k, c) ==
    /\ del[k][c].step = "vm"
    /\ \/ /\ ~Exists(c)
          /\ DeleteAt(k, c, "nic", "gone")
          /\ UNCHANGED <<faults, vm, deletingVMs>>
       \/ /\ Exists(c)
          /\ vm' = [vm EXCEPT ![c] = "Deleting"]
          /\ deletingVMs' = deletingVMs \cup {c}
          /\ DeleteAt(k, c, "poll", "none")
          /\ UNCHANGED faults
       \/ Fault /\ DeleteAt(k, c, "nic", "error") /\ UNCHANGED <<vm, deletingVMs>>
    /\ UNCHANGED <<scenario, old, nic, ips, pools, claimVars, lbVars, createVars, gcVars, igVars>>

Bug_IgnoresPollError(k, c) ==
    /\ del[k][c].step = "poll"
    /\ deletingVMs' = deletingVMs \ {c}
    /\ DeleteAt(k, c, "nic", "gone")
    /\ (vm[c] # "Deleting" /\ UNCHANGED faults) \/ Fault
    /\ UNCHANGED <<scenario, resourceVars, pools, claimVars, lbVars, createVars, gcVars, igVars>>
PollDelete(k, c) ==
    /\ del[k][c].step = "poll"
    /\ deletingVMs' = deletingVMs \ {c}
    /\ \/ vm[c] # "Deleting" /\ DeleteAt(k, c, "nic", "gone") /\ UNCHANGED faults
       \/ Fault /\ DeleteAt(k, c, "nic", "error")
    /\ UNCHANGED <<scenario, resourceVars, pools, claimVars, lbVars, createVars, gcVars, igVars>>

\* Azure refuses to delete a NIC that a VM uses.
DeleteNic(k, c) ==
    /\ del[k][c].step = "nic"
    /\ \/ /\ ~(nic[c].there /\ Exists(c))
          /\ nic' = [nic EXCEPT ![c] = NoNic]
          /\ DeleteAt(k, c, "ip", del[k][c].result)
          /\ UNCHANGED <<faults, claimVars, createVars>>
       \/ /\ nic[c].there /\ Exists(c)
          /\ Return(k, c, AfterNicError(del[k][c].result))
          /\ UNCHANGED <<faults, nic>>
       \/ Fault /\ Return(k, c, AfterNicError(del[k][c].result)) /\ UNCHANGED nic
    /\ UNCHANGED <<scenario, vm, old, ips, pools, lbVars, deletingVMs, gcVars, igVars>>

\* Azure refuses to delete a public IP that a NIC uses.
DeletePublicIP(k, c) ==
    /\ del[k][c].step = "ip"
    /\ \/ ~nic[c].ip /\ ips' = ips \ {c} /\ Return(k, c, del[k][c].result) /\ UNCHANGED faults
       \/ nic[c].ip /\ Return(k, c, AfterNicError(del[k][c].result)) /\ UNCHANGED <<faults, ips>>
       \/ Fault /\ Return(k, c, AfterNicError(del[k][c].result)) /\ UNCHANGED ips
    /\ UNCHANGED <<scenario, vm, old, nic, pools, lbVars, deletingVMs, gcVars, igVars>>

DeleteStep(k, c) ==
    \/ CheckDeleting(k, c) \/ GetVM(k, c) \/ DeleteVM(k, c)
    \/ PollDelete(k, c) \/ DeleteNic(k, c) \/ DeletePublicIP(k, c)

-----------------------------------------------------------------------------
(* The load balancer's backend pools. The provider's mutex is held over    *)
(* the call to Azure, so each call is one step. A change of the pools      *)
(* removes one that older lists name.                                      *)

Bug_AlwaysRefetch(seen) == NotCached
Bug_NeverRefetch(seen) == cached
\* RefreshBackendPools drops the list that the caller saw, unless it was replaced meanwhile.
AfterRefresh(seen) == IF seen.generation = generation THEN NotCached ELSE cached

\* loadBalancerBackendPoolsLocked, where the cache holds list.
GetPools(c, list) ==
    LET fetch == list = NotCached
        gen   == IF fetch THEN generation + 1 ELSE generation
        now   == IF fetch THEN pools ELSE list
    IN /\ cached' = now
       /\ generation' = gen
       /\ observed' = [observed EXCEPT ![c] = [pools |-> now, generation |-> gen]]

CacheExpires ==
    /\ cached # NotCached /\ Fault
    /\ cached' = NotCached
    /\ UNCHANGED <<scenario, resourceVars, pools, claimVars, generation, createVars, deleteVars, gcVars, igVars>>

-----------------------------------------------------------------------------
(* BeginCreate and beginLaunchInstance.                                    *)

\* A synchronous failure: BeginCreate cleans up under the name and returns the error.
FailSync(c) ==
    /\ pc' = [pc EXCEPT ![c] = "cleaning"]
    /\ DeleteAt("creator", c, "vm", "none")
Goto(c, step) == pc' = [pc EXCEPT ![c] = step] /\ UNCHANGED del

FirstNicStep(c) == IF c \in PublicIP THEN "getNic" ELSE "putNic"

\* Core launches a NodeClaim without provider ID.
BeginCreate(c) ==
    /\ pc[c] = "idle" /\ c \in claims \ (launched \cup terminating)
    /\ Goto(c, "get")
    /\ UNCHANGED <<scenario, faults, resourceVars, pools, claimVars, lbVars, observed, retried, promise,
                   deletingVMs, gcVars, igVars>>

\* A VM that is there is adopted. Errors: the GET, a VM of another reservation group.
GetExisting(c) ==
    /\ pc[c] = "get"
    /\ \/ Goto(c, IF Exists(c) THEN "returning" ELSE "getPools") /\ UNCHANGED faults
       \/ Fault /\ FailSync(c)
    /\ UNCHANGED <<scenario, resourceVars, pools, claimVars, lbVars, observed, retried, promise, deletingVMs,
                   gcVars, igVars>>

\* Errors: nothing to allocate, no launch template, no network security group, no list.
LoadBalancerBackendPools(c) ==
    /\ pc[c] = "getPools"
    /\ \/ GetPools(c, cached) /\ Goto(c, FirstNicStep(c)) /\ UNCHANGED faults
       \/ Fault /\ FailSync(c) /\ UNCHANGED <<lbVars, observed>>
    /\ UNCHANGED <<scenario, resourceVars, pools, claimVars, retried, promise, deletingVMs, gcVars,
                   igVars>>

\* A pool in hand is missing in Azure: the list is refreshed once.
MissingPool(c) == observed[c].pools # pools
HandleMissingPool(c) == IF retried[c] THEN FailSync(c) ELSE Goto(c, "refresh")

RefreshBackendPools(c) ==
    /\ pc[c] = "refresh"
    /\ retried' = [retried EXCEPT ![c] = TRUE]
    /\ \/ GetPools(c, AfterRefresh(observed[c])) /\ Goto(c, FirstNicStep(c)) /\ UNCHANGED faults
       \/ Fault /\ FailSync(c) /\ cached' = AfterRefresh(observed[c]) /\ UNCHANGED <<generation, observed>>
    /\ UNCHANGED <<scenario, resourceVars, pools, claimVars, promise, deletingVMs, gcVars, igVars>>

Bug_KeepsNic(c) == IF nic[c].there THEN "putVM" ELSE "putNic"
\* With a public IP a NIC of an earlier attempt is kept, and its IP and pools are brought up to date.
AfterGetNic(c) == IF nic[c].there THEN "ip" ELSE "putNic"
GetNic(c) ==
    /\ pc[c] = "getNic"
    /\ \/ Goto(c, AfterGetNic(c)) /\ UNCHANGED faults
       \/ Fault /\ FailSync(c)
    /\ UNCHANGED <<scenario, resourceVars, pools, claimVars, lbVars, observed, retried, promise, deletingVMs,
                   gcVars, igVars>>

Bug_AlwaysPublicIP(c) == "ip"
AfterPutNic(c) == IF c \in PublicIP THEN "ip" ELSE "putVM"
\* An error of the PUT may come after the NIC was made.
PutNic(c) ==
    /\ pc[c] = "putNic"
    /\ \/ /\ ~MissingPool(c)
          /\ nic' = [nic EXCEPT ![c] = Nic(pools, FALSE)]
          /\ Goto(c, AfterPutNic(c))
          /\ UNCHANGED faults
       \/ MissingPool(c) /\ HandleMissingPool(c) /\ UNCHANGED <<nic, faults>>
       \/ /\ Fault /\ FailSync(c)
          /\ \/ UNCHANGED nic
             \/ ~MissingPool(c) /\ nic' = [nic EXCEPT ![c] = Nic(pools, FALSE)]
    /\ UNCHANGED <<scenario, vm, old, ips, pools, claimVars, lbVars, observed, retried, promise, deletingVMs,
                   gcVars, igVars>>

EnsurePublicIP(c) ==
    /\ pc[c] = "ip"
    /\ \/ ips' = ips \cup {c} /\ Goto(c, "attach") /\ UNCHANGED faults
       \/ Fault /\ FailSync(c) /\ ips' \in {ips, ips \cup {c}}
    /\ UNCHANGED <<scenario, vm, old, nic, pools, claimVars, lbVars, observed, retried, promise, deletingVMs,
                   gcVars, igVars>>

\* attachPublicIP: the NIC with the IP and the pools in hand, unless it has them. The PUT needs both.
AttachPublicIP(c) ==
    LET bound == Nic(observed[c].pools, TRUE)
    IN /\ pc[c] = "attach"
       /\ \/ nic[c] = bound /\ Goto(c, "putVM") /\ UNCHANGED <<nic, faults>>
          \/ /\ nic[c] # bound /\ ~MissingPool(c) /\ c \in ips
             /\ nic' = [nic EXCEPT ![c] = bound]
             /\ Goto(c, "putVM")
             /\ UNCHANGED faults
          \/ nic[c] # bound /\ c \in ips /\ MissingPool(c) /\ HandleMissingPool(c) /\ UNCHANGED <<nic, faults>>
          \/ nic[c] # bound /\ c \notin ips /\ FailSync(c) /\ UNCHANGED <<nic, faults>>
          \/ Fault /\ FailSync(c) /\ UNCHANGED nic
       /\ UNCHANGED <<scenario, vm, old, ips, pools, claimVars, lbVars, observed, retried, promise, deletingVMs,
                      gcVars, igVars>>

\* createVirtualMachine. Azure needs the NIC; an answer may be lost after the VM was accepted.
PutVM(c) ==
    /\ pc[c] = "putVM"
    /\ \/ /\ nic[c].there
          /\ vm' = [vm EXCEPT ![c] = "Creating"]
          /\ promise' = [promise EXCEPT ![c] = "polling"]
          /\ Goto(c, "returning")
          /\ UNCHANGED faults
       \/ ~nic[c].there /\ FailSync(c) /\ UNCHANGED <<vm, promise, faults>>
       \/ /\ Fault /\ FailSync(c) /\ UNCHANGED promise
          /\ UNCHANGED vm \/ (nic[c].there /\ vm' = [vm EXCEPT ![c] = "Creating"])
    /\ UNCHANGED <<scenario, old, nic, ips, pools, claimVars, lbVars, observed, retried, deletingVMs, gcVars, igVars>>

\* createVMInstance returns, and core stores the provider ID; or the VM cannot be converted, or
\* the NodeClaim cannot be written.
CreateReturns(c) ==
    /\ pc[c] = "returning"
    /\ Goto(c, "idle") /\ Forget(c)
    /\ \/ launched' = launched \cup {c} /\ UNCHANGED faults
       \/ Fault /\ UNCHANGED launched
    /\ UNCHANGED <<scenario, resourceVars, pools, born, claims, terminating, lbVars, promise, deletingVMs, gcVars,
                   igVars>>

CreateStep(c) ==
    \/ GetExisting(c) \/ LoadBalancerBackendPools(c) \/ RefreshBackendPools(c) \/ GetNic(c) \/ PutNic(c)
    \/ EnsurePublicIP(c) \/ AttachPublicIP(c) \/ PutVM(c) \/ CreateReturns(c)

-----------------------------------------------------------------------------
(* handleInstancePromise: a goroutine waits for the VM, then installs the  *)
(* extensions; after an error it waits until the NodeClaim is launched,    *)
(* cleans up and deletes the NodeClaim.                                    *)

PromiseAt(c, step) == promise' = [promise EXCEPT ![c] = step]

Wait(c) ==
    /\ promise[c] \in {"polling", "extensions"}
    /\ \/ vm[c] = "Running" /\ UNCHANGED faults
          /\ PromiseAt(c, IF promise[c] = "polling" THEN "extensions" ELSE "none")
       \/ vm[c] \notin {"Creating", "Running"} /\ PromiseAt(c, "failed") /\ UNCHANGED faults
       \/ Fault /\ PromiseAt(c, "failed")
    /\ UNCHANGED <<scenario, resourceVars, pools, claimVars, lbVars, pc, observed, retried, deleteVars, gcVars,
                   igVars>>

WaitUntilLaunched(c) ==
    /\ promise[c] = "failed" /\ (c \in launched \/ c \notin claims)
    /\ PromiseAt(c, "cleaning")
    /\ DeleteAt("promise", c, "check", "none")
    /\ UNCHANGED <<scenario, faults, resourceVars, pools, claimVars, lbVars, pc, observed, retried, deletingVMs,
                   gcVars, igVars>>

PromiseDeletesClaim(c) ==
    /\ promise[c] = "deleteClaim"
    /\ PromiseAt(c, "none")
    /\ \/ terminating' = terminating \cup ({c} \cap claims) /\ UNCHANGED faults
       \/ Fault /\ UNCHANGED terminating
    /\ UNCHANGED <<scenario, resourceVars, pools, born, claims, launched, lbVars, pc, observed, retried,
                   deleteVars, gcVars, igVars>>

-----------------------------------------------------------------------------
(* NodeClaims, as core creates, deletes and finalizes them. One NodeClaim  *)
(* is not launched and finalized at once.                                  *)

CreateClaim(c) ==
    /\ c \in scenario.nodes \ born
    /\ born' = born \cup {c} /\ claims' = claims \cup {c}
    /\ UNCHANGED <<scenario, faults, resourceVars, pools, launched, terminating, lbVars, createVars, deleteVars,
                   gcVars, igVars>>

\* Disruption, expiry, a user, or core after an error that says there is no capacity.
DeleteClaim(c) ==
    /\ c \in claims \ terminating /\ scenario.deletions
    /\ terminating' = terminating \cup {c}
    /\ UNCHANGED <<scenario, faults, resourceVars, pools, born, claims, launched, lbVars, createVars, deleteVars,
                   gcVars, igVars>>

\* Without a provider ID there is nothing that core could delete.
Finalize(c) ==
    /\ c \in terminating /\ pc[c] = "idle" /\ del["termination"][c] = NotDeleting
    /\ IF c \in launched
       THEN DeleteAt("termination", c, "check", "none") /\ UNCHANGED <<claims, terminating>>
       ELSE /\ claims' = claims \ {c} /\ terminating' = terminating \ {c}
            /\ UNCHANGED del
    /\ UNCHANGED <<scenario, faults, resourceVars, pools, born, launched, lbVars, createVars, deletingVMs,
                   gcVars, igVars>>

-----------------------------------------------------------------------------
(* The NIC garbage collector.                                              *)

ListNics ==
    /\ gcStep = "ips" /\ gcIPs = {} /\ gcOrphans = {} /\ scenario.deletions
    /\ gcStep' = "listVMs"
    /\ gcNics' = {c \in Nodes : nic[c].there}
    /\ UNCHANGED <<scenario, faults, resourceVars, pools, claimVars, lbVars, createVars, deleteVars, gcProtected,
                   gcIPs, gcOrphans, igVars>>

\* populateUnremovableInterfaces: the VMs, as the resource graph has them, and then the NodeClaims.
ListVMs ==
    /\ gcStep = "listVMs"
    /\ gcStep' = "listClaims"
    /\ \/ gcProtected' = {c \in Nodes : Exists(c)} /\ UNCHANGED faults
       \/ Fault /\ \E c \in Nodes : Exists(c) /\ gcProtected' = {d \in Nodes : Exists(d)} \ {c}
    /\ UNCHANGED <<scenario, resourceVars, pools, claimVars, lbVars, createVars, deleteVars, gcNics, gcIPs,
                   gcOrphans, igVars>>

Bug_ProtectsVMsOnly ==
    /\ gcStep = "listClaims"
    /\ gcStep' = "nics"
    /\ gcNics' = gcNics \ gcProtected
    /\ UNCHANGED <<scenario, faults, resourceVars, pools, claimVars, lbVars, createVars, deleteVars, gcProtected,
                   gcIPs, gcOrphans, igVars>>
Protect ==
    /\ gcStep = "listClaims"
    /\ gcStep' = "nics"
    /\ gcProtected' = gcProtected \cup claims
    /\ gcNics' = gcNics \ (gcProtected \cup claims)
    /\ UNCHANGED <<scenario, faults, resourceVars, pools, claimVars, lbVars, createVars, deleteVars, gcIPs,
                   gcOrphans, igVars>>

\* DeleteNic: the NIC, then its public IP; an error of either is logged.
CollectNic(c) ==
    /\ gcStep = "nics" /\ c \in gcNics
    /\ gcNics' = gcNics \ {c}
    /\ \/ /\ ~Exists(c)
          /\ nic' = [nic EXCEPT ![c] = NoNic]
          /\ \/ ips' = ips \ {c} /\ UNCHANGED faults
             \/ Fault /\ UNCHANGED ips
       \/ Exists(c) /\ UNCHANGED <<nic, ips, faults>>
       \/ Fault /\ UNCHANGED <<nic, ips>>
    /\ UNCHANGED <<scenario, vm, old, pools, claimVars, lbVars, createVars, deleteVars, gcStep, gcProtected,
                   gcIPs, gcOrphans, igVars>>

\* CleanupPublicIPs: those listed as free, of no protected node, ...
ListPublicIPs ==
    /\ gcStep = "nics" /\ gcNics = {}
    /\ gcStep' = "ips" /\ gcProtected' = {}
    /\ gcIPs' = {c \in ips \ gcProtected : ~nic[c].ip}
    /\ UNCHANGED <<scenario, faults, resourceVars, pools, claimVars, lbVars, createVars, deleteVars, gcNics,
                   gcOrphans, igVars>>

Bug_NicThere(c) == nic[c].there
\* publicIPIsOrphan: ... without a NIC of that name ...
IsOrphan(c) == ~nic[c].there
CheckOrphan(c) ==
    /\ gcStep = "ips" /\ c \in gcIPs
    /\ gcIPs' = gcIPs \ {c}
    /\ gcOrphans' = IF IsOrphan(c) THEN gcOrphans \cup {c} ELSE gcOrphans
    /\ UNCHANGED <<scenario, faults, resourceVars, pools, claimVars, lbVars, createVars, deleteVars, gcStep,
                   gcNics, gcProtected, igVars>>

\* ... are deleted.
CollectPublicIP(c) ==
    /\ gcStep = "ips" /\ c \in gcOrphans
    /\ gcOrphans' = gcOrphans \ {c}
    /\ \/ ips' = (IF nic[c].ip THEN ips ELSE ips \ {c}) /\ UNCHANGED faults
       \/ Fault /\ UNCHANGED ips
    /\ UNCHANGED <<scenario, vm, old, nic, pools, claimVars, lbVars, createVars, deleteVars, gcStep, gcNics,
                   gcProtected, gcIPs, igVars>>

NicGCStep ==
    \/ ListNics \/ ListVMs \/ Protect \/ ListPublicIPs
    \/ \E c \in Nodes : CollectNic(c) \/ CheckOrphan(c) \/ CollectPublicIP(c)

-----------------------------------------------------------------------------
(* The instance garbage collector: lists the instances before the          *)
(* NodeClaims, and deletes those past the grace period that no NodeClaim   *)
(* names by its provider ID.                                               *)

ListInstances ==
    /\ igStep = "deleting" /\ igVMs = {} /\ \A c \in Nodes : del["instanceGC"][c] = NotDeleting
    /\ scenario.deletions
    /\ igStep' = "listed"
    /\ igVMs' = {c \in Nodes : vm[c] \notin {"absent", "Deleting"}}
    /\ UNCHANGED <<scenario, faults, resourceVars, pools, claimVars, lbVars, createVars, deleteVars, gcVars>>

ListNodeClaims ==
    /\ igStep = "listed"
    /\ igStep' = "deleting"
    /\ igVMs' = {c \in igVMs \cap old : c \notin launched}
    /\ UNCHANGED <<scenario, faults, resourceVars, pools, claimVars, lbVars, createVars, deleteVars, gcVars>>

CollectInstance(c) ==
    /\ igStep = "deleting" /\ c \in igVMs
    /\ igVMs' = igVMs \ {c}
    /\ DeleteAt("instanceGC", c, "check", "none")
    /\ UNCHANGED <<scenario, faults, resourceVars, pools, claimVars, lbVars, createVars, deletingVMs, gcVars, igStep>>

InstanceGCStep ==
    ListInstances \/ ListNodeClaims \/ \E c \in Nodes : CollectInstance(c) \/ DeleteStep("instanceGC", c)

-----------------------------------------------------------------------------
(* Azure and time.                                                         *)

Provision(c) ==
    /\ vm[c] = "Creating"
    /\ \/ vm' = [vm EXCEPT ![c] = "Running"] /\ UNCHANGED faults
       \/ Fault /\ vm' = [vm EXCEPT ![c] = "Failed"]
    /\ UNCHANGED <<scenario, old, nic, ips, pools, claimVars, lbVars, createVars, deleteVars, gcVars, igVars>>

\* The NIC goes with its VM (DeleteOptionsDelete), unless that fails.
FinishDelete(c) ==
    /\ vm[c] = "Deleting"
    /\ vm' = [vm EXCEPT ![c] = "absent"]
    /\ old' = old \ {c}
    /\ \/ nic' = [nic EXCEPT ![c] = NoNic] /\ UNCHANGED faults
       \/ Fault /\ UNCHANGED nic
    /\ UNCHANGED <<scenario, ips, pools, claimVars, lbVars, createVars, deleteVars, gcVars, igVars>>

\* The grace period ends. Create returns long before, unless the process stops. The age of a VM that
\* a NodeClaim names matters to nobody.
GracePeriodEnds(c) ==
    /\ Exists(c) /\ c \notin old /\ pc[c] # "returning" /\ c \notin launched
    /\ old' = old \cup {c}
    /\ UNCHANGED <<scenario, faults, vm, nic, ips, pools, claimVars, lbVars, createVars, deleteVars, gcVars, igVars>>

PoolsChange ==
    /\ pools < scenario.poolChanges
    /\ pools' = pools + 1
    /\ UNCHANGED <<scenario, faults, resourceVars, claimVars, lbVars, createVars, deleteVars, gcVars, igVars>>

Stopped ==
    /\ cached' = NotCached /\ generation' = 0
    /\ pc' = [c \in Nodes |-> "idle"] /\ promise' = [c \in Nodes |-> "none"]
    /\ observed' = [c \in Nodes |-> NoPools] /\ retried' = [c \in Nodes |-> FALSE]
    /\ del' = [k \in Callers |-> [c \in Nodes |-> NotDeleting]] /\ deletingVMs' = {}
    /\ gcStep' = "ips" /\ gcNics' = {} /\ gcProtected' = {} /\ gcIPs' = {} /\ gcOrphans' = {}
    /\ igStep' = "deleting" /\ igVMs' = {}

Restart ==
    /\ Fault /\ Stopped
    /\ UNCHANGED <<scenario, resourceVars, pools, claimVars>>

-----------------------------------------------------------------------------
\* Where a process may stop and the next one starts: any part of what a create makes, in its order,
\* or of what a cleanup has left, with the NodeClaim or without. Elsewhere there is nothing yet.
Leftovers ==
    /\ vm \in [Nodes -> {"absent", "Creating"}]
    /\ nic \in [Nodes -> {NoNic, Nic(0, FALSE), Nic(0, TRUE)}]
    /\ ips \in SUBSET (PublicIP \cap scenario.leftovers)
    /\ claims \in SUBSET scenario.leftovers
    /\ \A c \in Nodes :
          /\ nic[c].there => c \in scenario.leftovers
          /\ nic[c].ip => c \in ips
          /\ Exists(c) => nic[c].there /\ (c \in PublicIP => nic[c].ip)

Init ==
    /\ scenario \in Scenarios /\ faults = scenario.faults
    /\ Leftovers
    /\ born = scenario.leftovers /\ launched = {} /\ terminating = {}
    /\ old = {} /\ pools = 0
    /\ cached = NotCached /\ generation = 0
    /\ pc = [c \in Nodes |-> "idle"] /\ promise = [c \in Nodes |-> "none"]
    /\ observed = [c \in Nodes |-> NoPools] /\ retried = [c \in Nodes |-> FALSE]
    /\ del = [k \in Callers |-> [c \in Nodes |-> NotDeleting]] /\ deletingVMs = {}
    /\ gcStep = "ips" /\ gcNics = {} /\ gcProtected = {} /\ gcIPs = {} /\ gcOrphans = {}
    /\ igStep = "deleting" /\ igVMs = {}

\* One step of each goroutine and controller.
LaunchStep(c)    == BeginCreate(c) \/ CreateStep(c) \/ DeleteStep("creator", c)
PromiseStep(c)   == Wait(c) \/ WaitUntilLaunched(c) \/ PromiseDeletesClaim(c) \/ DeleteStep("promise", c)
TerminateStep(c) == Finalize(c) \/ DeleteStep("termination", c)
AzureStep(c)     == Provision(c) \/ FinishDelete(c)

Next ==
    \/ \E c \in Nodes :
          \/ CreateClaim(c) \/ DeleteClaim(c)
          \/ LaunchStep(c) \/ PromiseStep(c) \/ TerminateStep(c)
          \/ AzureStep(c) \/ GracePeriodEnds(c)
    \/ CacheExpires \/ PoolsChange \/ Restart
    \/ NicGCStep \/ InstanceGCStep

Spec == Init /\ [][Next]_vars

\* Goroutines and controllers go on, failed work is requeued, Azure finishes what it accepted and time
\* passes. Nothing else has to happen: no NodeClaim, deletion, fault, change or expiry.
FairSpec ==
    /\ Spec
    /\ \A c \in Nodes :
          /\ WF_vars(LaunchStep(c)) /\ WF_vars(PromiseStep(c)) /\ WF_vars(TerminateStep(c))
          /\ WF_vars(AzureStep(c)) /\ WF_vars(GracePeriodEnds(c))
    /\ WF_vars(NicGCStep) /\ WF_vars(InstanceGCStep)

-----------------------------------------------------------------------------
\* Every variable has its type; a provider ID and a deletion timestamp are those of a NodeClaim.
TypeOK ==
    /\ faults \in 0..scenario.faults /\ pools \in 0..scenario.poolChanges
    /\ vm \in [Nodes -> {"absent", "Creating", "Running", "Failed", "Deleting"}]
    /\ old \subseteq {c \in Nodes : Exists(c)}
    /\ \A c \in Nodes : nic[c] = NoNic \/ nic[c] \in [there : {TRUE}, pools : 0..pools, ip : BOOLEAN]
    /\ ips \subseteq PublicIP
    /\ claims \subseteq born /\ launched \subseteq claims /\ terminating \subseteq claims
    /\ \A c \in Nodes : pc[c] # "idle" => c \in claims
    /\ \A c \in Nodes : pc[c] = "cleaning" <=> del["creator"][c] # NotDeleting
    /\ \A c \in Nodes : promise[c] = "cleaning" <=> del["promise"][c] # NotDeleting
    /\ gcNics \subseteq Nodes /\ gcIPs \subseteq PublicIP /\ gcOrphans \subseteq PublicIP

\* deleteImpl's first result, on which recordDelete and recordDeleteFromNodeClaim release the VM's
\* quota: from the moment the promise's cleanup or termination holds the VM for gone, it is.
GoneMeansGone ==
    \A k \in {"promise", "termination"}, c \in Nodes : del[k][c].result \in {"gone", "notFound"} => ~Exists(c)

\* createNetworkInterface: whatever an earlier attempt left behind, a VM of a node with a public IP is
\* on a NIC that has it.
VMHasPublicIP == \A c \in PublicIP : vm[c] \in {"Creating", "Running"} => nic[c].ip /\ c \in ips

\* NetworkInterface.Reconcile lists the NICs before what protects them: a NIC is never collected
\* from a NodeClaim that exists, however new it is.
NicGCSparesLaunches ==
    [][\A c \in Nodes : CollectNic(c) /\ nic'[c] # nic[c] => c \notin claims]_vars

\* generation: "to prevent multiple callers from refreshing the LB list at the same time". A caller
\* whose pools are gone drops the list only if it is outdated.
RefreshDropsOnlyStale ==
    [][\A c \in Nodes :
          /\ RefreshBackendPools(c) /\ cached # NotCached
          /\ generation' # generation \/ cached' = NotCached
          => cached # pools]_vars

\* A NodeClaim that is gone leaves no VM, no NIC and no public IP behind, whichever calls failed and
\* wherever the process stopped.
NothingLeftBehind ==
    \A c \in Nodes : (c \in born \ claims) ~> (~Exists(c) /\ ~nic[c].there /\ c \notin ips)

\* Backend pools that change under a launch delay it, and do not keep it from happening.
LaunchSurvivesPoolChange ==
    \A c \in Nodes : (c \in claims) ~> (c \in launched \cup terminating \/ c \notin claims)
=============================================================================
