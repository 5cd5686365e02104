# Verification of the Karpenter provider for Azure

TLA+ models of the parts of `pkg/` in which several goroutines, Azure calls and restarts meet, the
TLC runs that check them on small instances, and TLAPS proofs of the safety properties. `PROJECT.json` maps
every definition to the lines it models, lists the runs, the hazards of the code and the theorems.

## The system

Karpenter core asks the cloud provider for instances (`CloudProvider.Create`), deletes them, and
asks for instance types. The provider turns this into calls to Azure: AKS machines (one PUT per
machine, or several in a batch), or plain VMs. Around that sit caches that are refreshed in the
background, and controllers that repair, upgrade and collect.

| Part | State it keeps | Operations | What is hard | What makes it correct |
|---|---|---|---|---|
| Quota provider, quota controller, `quotaLifecycle` | snapshot of Azure usage, one signed adjustment per NodeClaim, totals, tombstones, generation, SeqNum | `Update`, `Reset`, `RecordCreate`, `RecordDelete`, `HasQuotaForSKUs` | the lock is released during the Azure calls; releases are reported several times; a create is counted after it was accepted | nothing is counted twice; reported releases are free; cached answers are current |
| Instance-type list | instance types per NodeClass, quota overlay | `List` | reuse decided by sequence numbers | a reused answer is what would be computed now |
| Batcher, batched creation | pending batches, wake-up token, timers, goroutines per batch, response channels | `Enqueue`, loop, `executeBatch`, drain | append and wake-up are two steps; timers reset; partial failure; shutdown | one answer per request, truthful, and it comes |
| Machine cache | machine map, freshness, one update request | `GetWithFallback`, worker, `Invalidate`, `PollUntilDone` | a list is older than what it replaces; polls read only the cache | polls end; deleted machines are not served |
| AKS machine provider, cloud provider | in-flight deletes, promises in memory | `BeginCreate`, `Wait`, `Cleanup`, `Delete` | four places delete the same machine; restarts; lost answers | "gone" means gone; nothing stays on Azure |
| VM provider, NIC and instance garbage collection | a VM, a NIC and a public IP per instance, in-flight deletes, promises in memory | `BeginCreate`, `Wait`, `Delete`, `Reconcile` | several resources, failure and restart between them; collectors list one kind after another | no orphans, no NIC taken from a launch |
| Unavailable offerings, offering error handlers | marks with TTL, family limits, SeqNum | `Mark*`, `IsUnavailable`, `InvalidateCapacityReservationGroup` | TTL ends before eviction; readers take no lock | marks hide only what the error is about; failover ends; the list follows |
| NodeClass status, hash, termination | status conditions, versions, recently used pair | reconcilers in sequence, one patch | partial failure, pins, rollback, maintenance window | versions and images match; no upgrade outside the window |
| Drift, in-place update | hash annotations, ETags | `IsDrifted`, `Reconcile` | read, patch and annotate are three steps | no update is lost or claimed |
| Load balancer, pricing, capacity recommendation | read-through caches | get, refresh | concurrent refreshes, pools that change under a create | only an outdated list is dropped; creates get through |
| Allocation strategy, image families, bootstrap, options, API types | none | pure functions | boundaries | the ranking equals its definition |

The quota provider hears of creates from `BeginCreate` and of releases from `Promise.Cleanup`,
termination and garbage collection. `BeginCreate` uses the machine cache and the batcher; the
promise polls the machine cache; every delete invalidates it. Both `BeginCreate`s hand Azure's errors
to the offering error handlers, whose marks flush the cached instance-type lists that the next
attempt chooses from. A launch needs the Kubernetes version and the images that the NodeClass status
controller resolves, and drift compares nodes with them.

## Modules

| Module | Models | State and actions |
|---|---|---|
| `Quota` | `providers/quota`, `controllers/quota`, `providers/instance/quota.go`, the overlay of `instancetypes.go` | the fields of `DefaultProvider` under their names; one action per locked section of `Update` (begin, two Azure calls, publish or fail), `Reset`, and per outcome of `RecordCreate` and `RecordDelete`; a claim's instance is begun, accepted, put again while it runs, released and reported any number of times |
| `CreateService` | abstract: what `BeginCreateWithBatch` promises | submit, accept on Azure, answer, refuse, give up |
| `Batcher` | `utils/batcher`, `azclient/aksmachinesheaderbatch` | pending batches, the token, the loop's position, goroutines with the requests they still have to answer, channels; one action per step between which another goroutine can run |
| `AKSMachines` | `instance/machinecache`, `instance/aksmachineinstance.go`, promise handling in `cloudprovider.go`, the deletes of garbage collection | Azure's view of each machine with an incarnation number, the cache and its worker, the creating thread with the `GetWithFallback` it is in, one deleting thread per caller |
| `Offerings` | `cache/unavailableofferings.go`, `instance/offerings`, the list, the offerings and the cache of `instancetypes.go`, `allocationstrategy` without the capacity recommendation | the two go-caches with the time each entry has left, the mutex, the cached lists and whether their generation is outdated; launchers that list, build SKU by SKU, allocate, launch, and mark entry by entry: read, set, read and set the family's, bump |
| `NodeClassVersions` | `nodeclass/status` (controller, Kubernetes version, images), `imagefamily/nodeimage.go`, `customimage.go`, the status accessors of the API type, version and image drift | spec and status of one NodeClass, a reconcile with its copy that goes through the two reconcilers to one patch under an optimistic lock, the image list's cache; users, galleries, control plane and window; one node |
| `VMs` | `instance/vminstance.go`, `publicip.go`, `lberrors.go`, `loadbalancer`, the promise handling of `cloudprovider.go`, both garbage collectors | VM, NIC and public IP of each node on Azure, the NodeClaims, the backend pools cached and in hand, one create, one promise and four deleters per node, the collectors' lists; one action per call to Azure |
| `QuotaProofs`, `QuotaTotalsProofs`, `BatcherProofs`, `AKSMachinesProofs`, `OfferingsProofs`, `NodeClassVersionsProofs`, `VMsProofs` | | the inductive invariant of each module, the lemmas and the theorems |
| `MCQuota`, `MCBatcher`, `MCAKSMachines`, `MCOfferings`, `MCNodeClassVersions`, `MCVMs` | | instances for TLC |

Abstractions worth knowing:

* Names, templates, errors and messages are reduced to what the control flow tells apart. An Azure
  error is a failed call, or one of the four kinds of reply `extractPerMachineErrors` distinguishes.
* `Quota`: a sum of vCPUs is the number of its units (`Total`), which the proofs can reason about. `TotalIsSum` of `MCQuota`
  has TLC compare it with a sum over the set. `BeginCreate` sends a PUT also over an instance that runs, as the code
  does when its GET fails; `reissued` (read by no action) remembers the claims for which that was accepted while
  an instance was on the books, until the next publication. A claim's releases are reported while no Create of it is in progress.
* Time is a small counter in `Quota`, where windows are compared. Elsewhere a timer is an action
  that may happen whenever it is armed.
* `AKSMachines`: marking a machine as being deleted and sending the request are one step, as are
  invalidating the cache and removing the mark; the module says why no interleaving is lost. A
  machine's `VMState` is left out, so garbage collection of a live NodeClaim's dead VM is not covered.
  The SDK poller of the non-batch path is not modelled: the promise is the one of the batch path.
  A list that ends because the pool is not found (`machinecache.go:341`) is one whose remaining pages are empty,
  which `ListPage` allows. Only the mode in which AKS machines are managed is modelled; with management
  disabled a delete answers "gone" without looking (`aksmachineinstance.go:314-322`, `378-380`). Garbage collection may
  find, of a live NodeClaim in `Leftovers`, the machine that a failed attempt left.
* `Offerings`: sequence numbers are reduced to whether the cached generation is outdated, which is all
  their comparison tells. Between the read of an entry and its set, time passes and lists are built; the
  reads of one `isUnavailable` are one step. `lapsed` (read by no action) remembers a mark that set without a bump
  an entry that had expired since its read, until the next bump. What Azure means by an error is an assumption of the model (`Implicates`):
  an error says nothing about other reservation groups, zones outside its placement, or smaller
  sizes, and outside the groups it speaks for the larger sizes of the family too, as the code's
  widening supposes. Time is counted in minutes; a refused attempt takes less than one, and the
  janitors run every ten seconds.
* `NodeClassVersions`: a condition's `observedGeneration` is a flag that an edit clears. An image is a
  definition and a version suffix. A release has one version suffix for all its definitions, and may
  lack some (`listSIG` skips what it does not find). The maintenance window is open, closed, or cannot be read.
  `ready`, `offered` and `undisturbed` are history variables that no action reads.
* `VMs`: getting and deleting a NIC or a public IP is one step, as deleting what is gone succeeds.
  Create's calls that change nothing (allocation, launch template, network security group) are one
  step that may fail. NodeClaims have a NodePool, so that Create does not wait for the VM. Failures,
  restarts and expiries of the pool list draw on one budget of faults per scenario. A NodeClaim that
  is being launched is in the informer cache the NIC collector lists from, as both run in one process.
  A second create replaces the promise of the first; in the code its goroutine goes on, and its `Cleanup` may
  delete the newer VM (`cloudprovider.go:279-322`). The public IP is attached by what the NIC is at that step; the code
  compares the NIC read before (`vminstance.go:580`), and where the two differ it fails at the VM's PUT and is repeated.
* Actions that only Azure takes, and what Karpenter core does with a NodeClaim, are marked external.
* `Bug_*` operators are mutated forms of the definition that follows them. No specification uses them.

## Runs

| Run | Shows | Bounds |
|---|---|---|
| `quota_ledger` | type correctness; during a refresh only deletes are younger than the watermark; no reported release counts as used, but for what a create over a running instance added | two claims of one family with 1 and 2 vCPUs, a category quota, room for one tombstone, two generations, three instants, one instance each, whose create may be repeated over it; states are told apart without the overlay (`VIEW`), which no other action reads |
| `quota_recreate` | a claim is counted for at most its outstanding instance, and once more for a create accepted over it; totals agree with adjustments; a reused overlay is current; repeated reports subtract once within the sliding window, across refreshes | one claim with two incarnations, Azure moving the family between its own quota and the category, four instants, Reset on staleness |
| `quota_tombstone_swallows` | finding: the tombstone of an earlier incarnation swallows the next release | one claim, two incarnations |
| `batcher` | a request is in one place; no lost wake-up; full batches noticed; refinement of `CreateService`; every caller returns | two callers, one key, batches of two; more callers and keys are left to the proofs |
| `aksmachines_safety` | marks do not outlive deletes; "gone" is true; type correctness | one standalone machine, two incarnations, one controller that deletes, leftovers of a live claim too, one restart |
| `aksmachines_progress` | polls end; deleted claims leave nothing on Azure | one pool-managed machine, one incarnation, one controller, one restart, no collection of leftovers of a live claim (it triples the states, beyond the run's time) |
| `aksmachines_stale_refresh` | finding: a refresh resurrects an invalidated machine | one machine, one incarnation |
| `offerings_marks` | no mark hides capacity Azure can serve; a list of the current generation is what a new one would be, but for marks on lapsed entries; locks and steps agree | two launchers, two sizes of a family, a zone and the regional placement, one group with a member per size; five scenarios of what Azure serves and how it refuses; TTLs of one and two minutes, one minute passing, so that an entry can expire between its read and its set, one unmatched error or group change |
| `offerings_failover` | every NodeClaim for which there is capacity is launched; outdated lists do not stay | one launcher, marks of four minutes, time without bound, four scenarios |
| `nodeclass_versions` | rollback pairs were Ready; pins are honoured; nodes stay outside the window; a new version brings its images; unpinning and rollback end | two Kubernetes versions with one and two image definitions, two releases, a custom image, FIPS without its gallery; two disturbances (edit, upgrade, failed call, restart), window and releases free |
| `nodeclass_late_image` | finding: a pin leaves an image at another version | a definition that only the second release lists, pins, one disturbance |
| `vms` | "gone" is true; a VM has its public IP; collectors spare launches; only outdated pool lists are dropped; nothing stays on Azure; launches survive pool changes | a node with a public IP found in any state a stopped process may leave, and one fault; a launch beside the collectors; a launch with two pool changes; two launches with a pool change and a fault |

The bounds are the smallest at which the interesting cases meet: two claims to share one total and
one tombstone slot, two incarnations for a name to be used again, two generations for a create to
straddle a publication, two callers for a full batch. One AKS machine is
enough there because machines interact only through the cache's page-by-page list, and each page
holds one machine. In `AKSMachines` the creating thread and one controller delete concurrently;
more controllers add interleavings of the same steps.

In `Offerings` the two sizes, placements and scopes are what a mark can reach too far in, and two
launchers what can race for the mutex and the list. In `NodeClassVersions` two disturbances are a pin
and an upgrade, a rollback and a failure, or an edit and a restart; a third repeats the pattern. In
`VMs` a second fault was tried on the safety properties for one node and changed nothing.

Deadlock is checked everywhere but in the batcher, whose process may shut down, and in `VMs`, where a
scenario without deletions and collectors ends when every node is launched. The others never stop:
lists, reports and retries repeat.

### Findings

* `quota_tombstone_swallows`. `RecordCreate` returns before it removes the tombstone of an earlier
  incarnation when a refresh is in progress. If that refresh counts the new instance and it is released
  within the window, the release is taken for a repetition, and its vCPUs stay counted until the
  next refresh, although the comments promise to err on the side of undercounting. `ReportedReleasesCorrect`
  proves that there are two causes: what a skipped create leaves behind, and a create over an
  instance on the books, which the first observation below describes.
* `aksmachines_stale_refresh`. `Invalidate` says that later reads fall back to the API. A refresh
  that listed the machine before its delete replaces the map after `Invalidate`, and for one TTL
  the fresh cache serves the deleted machine, which `BeginCreate` may adopt. `InvalidateCorrect` proves that
  only a read which Azure answered before `Invalidate` and which is stored after it does this.
* `nodeclass_late_image`. Found by the proof of `PinHonoured`, which failed at the merge of images. Outside the
  window a definition that a release lists for the first time joins the status with that release's
  version, beside older ones. When the older version is then pinned, `Reconcile` of the image reconciler
  compares only the first image with the pin, finds it there, and merges the rewritten images with
  the existing ones: the newer version comes back, and the status says pinned. The design (0014)
  says that the rewritten set is published.

### Observations

What the modelling showed and no run checks, because no text of the repository clearly says otherwise
or because it follows from reading alone:

* When the GET before a create fails with anything but "not found", `BeginCreate` goes on to the PUT
  (`aksmachineinstance.go:482-485`). Over a machine that runs, the PUT is accepted as a creation and `recordCreate` (line 266)
  counts an instance that the snapshot may already contain. It is counted twice until the next refresh; a
  release in between takes back the second count and leaves the first. The comments of `quota.go` go the
  other way (line 121: "prefers the lowest plausible usage", 402: "err on the side of undercounting than
  overcounting"). Without the term for `reissued`, `NeverOvercounts` is violated after 8 states; with it, the property and
  its theorem say that this is the only way to count a claim twice.
* A mark finds its entry alive, so that it needs no bump (`unavailableofferings.go:323`; 239, 266, 302 for the other caches); the entry
  expires; a list is built; the mark sets the entry (332; 257, 272, 303), which replaces the expired one without an
  eviction. The cached list of the current generation then shows the marked offering, although
  line 66 says "seqNum is updated on any material changes to unavailable offerings cache", until the list's
  own TTL or the eviction of the entry; launches may choose it again meanwhile. `CachedListIsCurrent` without `lapsed` is
  violated after 39 states. In the other direction it holds without exception: no list withholds what is available.
* A Kubernetes pin above the control plane makes the version condition False. When it is removed while
  the control plane has moved on, the version is published as if the NodeClass were new
  (`kubernetesversion.go`, case 2) and the images keep their Ready condition. Outside the window the
  NodeClass is Ready with the new version and the images of the old one, which case 3 and
  `designs/0014-node-image-and-k8s-version-controls.md` mean to exclude. `NewVersionBringsItsImages` is
  about a Ready NodeClass, and so leaves this path out.
* A failed image list or a refused image pin in the middle of a rollback leaves a changed version with
  the old images, and the next Ready pair that changes takes the place of the pair to roll back to.
  `RollbackCompletes` is therefore about a request after which nothing else goes wrong.
* The image list is cached per Kubernetes version. Going back to a version within the TTL returns the
  list of before, with older images than are published.
* A mark with a shorter TTL shortens the entry of a longer one (`unavailableofferings.go`, where the
  comments speak of extending it).
* Instance garbage collection deletes a VM older than the grace period whose NodeClaim has no provider
  ID yet, also while a restarted process adopts it. `GoneMeansGone` is about the callers that release
  quota, not about the collector.
* Whether a public IP is an orphan is checked before it is deleted; a launch in between loses its IP,
  fails to attach it, and is repeated. Two callers of a VM delete can both pass the in-flight check.
* A retry with backend pools that another create fetched in between can find them outdated once
  more; the next Create recovers (`LaunchSurvivesPoolChange`).

### Fairness

`batcher`: goroutines run, the idle timer expires when it is not reset, calls to Azure
return. The max timer gets strong fairness: it is not reset, so once expired its branch is ready at
every `select` of the wait. Callers' contexts end with the process; nothing is assumed of callers'
timeouts before that.

`aksmachines_progress`: goroutines run and Azure ends what it started (weak fairness); a listing, a
GET, a delete request and a delete that are retried for ever succeed at last, and a poll falls
infinitely often into the time the cache is fresh (strong fairness: the poll interval is five
seconds, the TTL thirty). The poll's own timeout is not used. Controllers come back, as their
reconcilers requeue.

`offerings_failover`: the launcher goes on and time passes (strong fairness, as each waits for the other and
`sync.Mutex` hands itself to a waiter), the janitors run (weak fairness). Launchers that compete are
in `offerings_marks` and the proofs: with two, this run is beyond its time.

`nodeclass_versions`: the reconcile is requeued after its interval or with backoff (weak fairness of its
steps together). Nothing is assumed of users, releases or the window.

`vms`: creates, promises, terminations and collectors go on, Azure finishes what it accepted and the grace
period ends (weak fairness). Faults are bounded, which stands for failed work being retried until it
succeeds.

## Proofs

Each `*Proofs` module extends the module it is about and proves its safety properties for every value of
the constants: any number of claims, callers, machines, launchers, SKUs, zones, groups, versions or
nodes, and any bound. The assumptions are the modules' `ASSUME`s, which only type the constants
and say that there are finitely many claims. A theorem that needs more says so itself: four about
`Quota`, one about `AKSMachines` and two about `NodeClassVersions`, explained below.

In each module `InvariantHolds` proves `Spec => []IInv` of an inductive invariant, from `Init => IInv` and one
step per action; the other theorems follow from it. `IInv` was checked by TLC on the module's instance
before it was proved. None of the properties but the types is inductive alone.

| Module | Theorem | Property |
|---|---|---|
| `QuotaProofs` | `TypeCorrect`, `LedgerCorrect`, `WatermarkCorrect`, `OverlayCorrect`, `DuplicatesCorrect` | `TypeOK`, `NeverOvercounts`, `OnlyDeletesPassWatermark`, `OverlayCurrent`, and the action property `DuplicatesSuppressed` |
| `QuotaTotalsProofs` | `TotalsCorrect`, `ReportedReleasesCorrect`, `ReleasedCorrect`, `SingleLaunchCorrect` | `TotalsMatchAdjustments`, `ReportedReleaseIsFree`, and `ReleasedQuotaIsFree` twice |
| `BatcherProofs` | `TypeCorrect`, `OneAnswerCorrect`, `WakeupCorrect`, `FullBatchCorrect`, `ServiceImplemented` | `TypeOK`, `ExactlyOneAnswer`, `NoLostWakeup`, `FullBatchNoticed`, `ImplementsService` |
| `AKSMachinesProofs` | `TypeCorrect`, `MarksCorrect`, `GoneCorrect`, `InvalidateCorrect` | `TypeOK`, `DeletingTracked`, `GoneMeansGone`, `InvalidatedFallsBack` |
| `VMsProofs` | `TypeCorrect`, `GoneCorrect`, `PublicIPCorrect`, `NicGCCorrect`, `RefreshCorrect` | `TypeOK`, `GoneMeansGone`, `VMHasPublicIP`, and the action properties `NicGCSparesLaunches`, `RefreshDropsOnlyStale` |
| `OfferingsProofs` | `TypeCorrect`, `UsableCapacityCorrect`, `ListCorrect` | `TypeOK`, `UsableCapacityStaysOffered`, `CachedListIsCurrent` |
| `NodeClassVersionsProofs` | `TypeCorrect`, `RecentPairCorrect`, `NewVersionCorrect`, `PinCorrect`, `UndisturbedCorrect` | `TypeOK`, `RecentPairWasReady`, the action property `NewVersionBringsItsImages`, `PinHonoured`, `UndisturbedNodeStays` |

### Quota

`NeverOvercounts` allows a claim its outstanding instance, and the same once more when a create was accepted over an
instance on the books since the last publication (`Allowance`). It needs that any other create which would be counted
now is not in the snapshot (`CountableNotCounted`: the generation it carries is that of the snapshot, so it was accepted after
that snapshot was read or during the refresh that produced it, when nothing is counted), and that whatever
the refresh has read is still outstanding or has a deletion that will survive its publication
(`FetchedIsCovered`). Those rest on the flag standing for the refresh thread's position
(`FlagMatchesThread`), on sequence numbers staying behind their counters (`NumbersBounded`), on the
shape of adjustments (`AdjustmentShape`), and on Azure charging exactly the running instances, which,
like accepted creates and recorded creations, are outstanding (`ChargedIsOutstanding`).

`DuplicatesSuppressed` needs that a report within the window still has its tombstone and that a claim whose
release was counted has no creation on the books (`ReportsKnown`). Its theorem assumes `FewClaims`: no more
claims than tombstones are kept (50000, `src/pkg/providers/quota/quota.go:56`). Beyond that number an insertion evicts
the oldest tombstone (`quota.go:510`), and a second report of that claim is counted again. The instance of
`quota_recreate` satisfies it; `quota_ledger`, with one tombstone for two claims, is there for the eviction.

`QuotaTotalsProofs` is about sums over the claims. A sum is the number of its units, so what the proofs need of
it follows from the library's facts on cardinality and no induction is necessary: a sum splits into a
claim's share and the rest (`TotalAround`), grows with its shares (`TotalMonotone`), and the sum over a union is at
most the sum of the parts (`TotalUnion`). `TotalsCorrect` then has no condition: one adjustment changes at a time and the total moves by the
difference (`SumMoves`), or all that survives a publication is added up again.

That releases are free does not hold without conditions, as `quota_tombstone_swallows` shows:

* `LeavesNoTrace`: when a create is skipped by `RecordCreate`, the claim has neither a tombstone nor a deletion left from an
  earlier release. The deletion matters as much as the tombstone: when the tombstone has expired, the next release
  finds the old deletion and changes nothing, and if that is older than the watermark of a refresh
  that has listed the new instance, publication drops it. Under this condition `Settled` is inductive, and with `NeverOvercounts` it
  gives `ReportedReleaseIsFree` for each claim without a create over its instance.
* `OneView`: Azure keeps reporting a family under one name. While that changes, a family is charged under one name and
  adjusted under another until the next refresh.

Under both `ReleasedCorrect` bounds the reported usage of each quota name: `UsageKnown` says that usage, fetched usage
and adjustments are about the same claims under the same names, and the sum of what claims contribute
is then at most the sum over those that are running or unreported, and over those whose create was repeated (`UsageBounded`). `SingleLaunchCorrect` discharges
`LeavesNoTrace` where a claim has at most one instance, with any number of PUTs over it (`LaunchedOnce`), as in `quota_ledger`: only a NodeClaim that is created again
after its instance was released, which the comment in `RecordCreate` (`quota.go:415`) describes, can break it.

### Batcher

`Places` says where a request is: pending under its own key, or a member of one batch
(`BatchesDisjoint`), with room in its channel while its answer is due (`ChannelHasRoom`), and where it can be by what
its caller does (`CallerMatchesPlace`). `NothingForgotten` extends the two wake-up properties to the loop's position
between its unlock and its next `select`. For the refinement of `CreateService`, `NotYetCreated` and
`AnswersTrue` relate the answers that goroutines and channels hold to what Azure accepted: a step that delivers
an answer is then one the service allows. `StepRefines` has one case per action. Only the safety part of
the service is refined; its liveness is `EveryCallerReturns`, which TLC checks.

### AKSMachines

A machine found gone may be created again under its name, so incarnations have to be ordered
(`Ordered`); and the creator's own delete is over before it may start another (`OneCleanup`).

`InvalidateCorrect` has the hypothesis `NothingStaleInHand`: `Invalidate` does not run while a list page or a GET of what
it invalidates has been read and is not yet stored. Without it, `aksmachines_stale_refresh` is the counterexample. With it,
what is on Azure (`AzureNewer`), in the cache or in hand (`ReadsNewer`) is always newer than what was invalidated, because
whatever a step stores was already there or is what Azure has (`ReadsAreKnown`).

### VMs

`Exclusion` says who may be at work on a node at the same time, `CreateKnows` what a create knows at each of
its steps, `Wiring` what a NIC and a public IP belong to, `GoneKnows` what a deleter that saw no VM may
conclude, `Condemned` what the NIC collector still means to delete, `PoolsKnown` what the cached backend
pools and those in a create's hand have to do with each other.

### Offerings

Two arguments. `UsableCapacityStaysOffered`: `HandleTrue` shows, handler by handler, that the marks of an error are
about nothing that Azure serves, given what Azure means by it (`Implicates`); `MarksTrue` and `EntriesTrue` carry this
from the marks to the entries, the expired ones included, and through the family limit that stays
when it is the lower one. `CachedListIsCurrent`: `ListsCurrent` says that while no change waits for its bump, a
cached list, and what a launcher has built so far, shows nothing unavailable and withholds only what
has an entry. Readers take no lock and entries expire before their eviction, so it has to speak of
partly built lists and of expired entries. `SetSingleAnswer` and `SetFamilyAnswer` are the reason that a set without a
bump changes no answer unless the entry expired since it was read, which `lapsed` records; and `KeptTrue` says of a
family limit that a launcher has read and is about to keep that it is still the entry's, if there is one, and that it
hides nothing Azure serves.

### NodeClassVersions

`CopyKnows` relates a reconcile's copy to the object while that is as it was read, `RecentKnown` the rollback
pairs to what was Ready. For the pins, `PinInv` says of the status and of the copy that their images are
one list at one version, and, when usable, those of the spec (`Sound`); for the nodes, `StaysInv` says
that status and copy still hold what the node was launched with (`Steady`).

Two theorems have hypotheses on the galleries, as without them the properties fail:

* `WholeReleases`: two image lists are equal or disjoint, so a release lists all or none of the
  definitions of a family and mode. In the code a definition is in the `DefaultImages` of one family only;
  that a release is complete is Azure's doing. `nodeclass_late_image` is the counterexample without it.
* `SameEveryRelease`, in `UndisturbedCorrect` only: releases list the same definitions. A release that no longer lists a
  definition takes its image from the status, also outside the window.

The instance of `nodeclass_versions` satisfies both, and an `ASSUME` of `MCNodeClassVersions` says so.

### Only model-checked

Every safety property of the runs is stated by a theorem. Liveness stays with TLC, as the prover has
neither fairness nor `ENABLED`: `EveryCallerReturns`, `PromiseSettles`, `DeletedClaimIsCleanedUp`, `FailoverSucceeds`,
`ExpiryReachesList`, `UnpinningRecovers`, `RollbackCompletes`, `NothingLeftBehind`, `LaunchSurvivesPoolChange`.

## Plan

Done: `Quota`, `Batcher` and `CreateService`, `AKSMachines`, `Offerings`, `NodeClassVersions` and `VMs`, each with its proofs.
Next, in this order:

1. In-place update (GET, patch with ETag, hash annotation) with the NodeClass hash and termination
   controllers.
2. Allocation by capacity recommendation against a reference definition.

## Not modelled

* In-place update, NodeClass hash and termination: small controllers of their own, see the plan.
* Subnet, static validation and local DNS status reconcilers: each sets one condition from the spec or
  one GET. Of the capacity reservation group reconciler only the invalidation of marks is modelled.
* Static-field, kubelet-identity and machine drift; Get and List of the cloud provider; repair policies.
* Standalone NodeClaims on VMs, `VMState` of AKS machines, the SDK poller of the non-batch path, and the
  GET poller.
* Pricing and capacity recommendation: read-through caches whose content is data.
* Image family tables, bootstrap templates, option parsing, API types and generated code and clients
  (the price tables alone are most of the repository's lines): data without state. Logging and metrics.
