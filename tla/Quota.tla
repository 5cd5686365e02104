------------------------------- MODULE Quota -------------------------------
(***************************************************************************)
(* In-flight vCPU quota accounting: the quota provider (snapshot of Azure  *)
(* usage plus one signed adjustment per NodeClaim), the quota controller   *)
(* that refreshes it, the instance lifecycle that reports creates and      *)
(* deletes to it, and the instance-type list that caches its answers.      *)
(*                                                                         *)
(* The refresh releases the provider's lock during the Azure calls, so     *)
(* creates, deletes and reads interleave with every step of it.            *)
(***************************************************************************)
EXTENDS Integers, FiniteSets

CONSTANTS
    Claims,                          \* NodeClaims, identified by name/UID (instanceKey)
    Skus, Sku, FamilyName, VCPU,     \* SKU of a claim's instance; family and size of a SKU
    Eligible,                        \* claims on ordinary on-demand capacity
    QuotaNames,                      \* family and category names of the usage API
    NoQuota,                         \* the empty quota name
    GeneralPurposeCategory,
    Limit,                           \* quota name -> vCPU limit
    AzureViews,                      \* what Azure may report: names with usage, family -> category
    DeleteTombstoneTTL, DeleteTombstoneCleanupInterval, MaxDeleteTombstones,
    MaxStaleness,
    MaxTime, MaxGeneration, MaxIncarnations   \* bounds of the model, not of the code

ASSUME QuotaAssumption ==
    /\ Sku \in [Claims -> Skus]
    /\ FamilyName \in [Skus -> QuotaNames]
    /\ VCPU \in [Skus -> Nat]
    /\ Eligible \subseteq Claims
    /\ NoQuota \notin QuotaNames
    /\ GeneralPurposeCategory \in QuotaNames
    /\ Limit \in [QuotaNames -> Nat]
    /\ AzureViews \subseteq [names : SUBSET QuotaNames,
                             category : [QuotaNames -> QuotaNames \cup {NoQuota}]]
    /\ DeleteTombstoneTTL \in Nat
    /\ DeleteTombstoneCleanupInterval \in Nat
    /\ MaxDeleteTombstones \in Nat \ {0}
    /\ MaxStaleness \in Nat
    /\ MaxTime \in Nat /\ MaxGeneration \in Nat /\ MaxIncarnations \in Nat

ASSUME ClaimsFinite == IsFiniteSet(Claims)

VARIABLES
    \* quota.DefaultProvider, everything behind its mu
    usages,                  \* snapshot.usages: current value, or NoUsage
    familyToQuotaName,       \* snapshot.familyToQuotaName, NoQuota where there is no entry
    initialized, snapshotGeneration, seqNum, refreshInProgress,
    adjustments, adjustmentsByQuotaName,
    deleteTombstones, lastDeleteTombstoneCleanup,
    \* the quota controller's reconcile loop, which is the only caller of Update and Reset
    refresh, adjustmentWatermark, freshUsages, freshFamilyToQuotaName, lastSuccessfulUpdate,
    \* the instance lifecycle: the create in progress of each claim, what became of its instance
    create, generation, status, incarnation,
    \* instancetype.DefaultProvider.List: the cached quota overlay
    overlay, overlaySeqNum,
    \* Azure and the clock
    azureView, charged, now,
    \* history: claims counted in the published and in the fetched usage, claims whose quota is
    \* charged or was released unacknowledged, claims whose create was accepted while they were
    \* outstanding since the last publication, and the time of the last release report the
    \* provider had a baseline for
    counted, fetched, outstanding, reissued, lastReport

snapshotVars   == <<usages, familyToQuotaName, initialized, snapshotGeneration, counted>>
adjustmentVars == <<seqNum, adjustments, adjustmentsByQuotaName>>
tombstoneVars  == <<deleteTombstones, lastDeleteTombstoneCleanup>>
refreshVars    == <<refresh, adjustmentWatermark, freshUsages, freshFamilyToQuotaName, fetched>>
lifecycleVars  == <<create, generation, status, incarnation, outstanding, reissued, lastReport>>
overlayVars    == <<overlay, overlaySeqNum>>
azureVars      == <<azureView, charged>>
providerVars   == <<snapshotVars, adjustmentVars, tombstoneVars, refreshInProgress>>
vars == <<providerVars, refreshVars, lastSuccessfulUpdate, lifecycleVars, overlayVars,
          azureVars, now>>

NoUsage  == -1
ZeroTime == 0
NoAdjustment == [quotaName |-> NoQuota, vCPUs |-> 0, seqNum |-> 0]
NoUsages   == [q \in QuotaNames |-> NoUsage]
NoMappings == [f \in QuotaNames |-> NoQuota]

Family(c) == FamilyName[Sku[c]]
VCPUs(c)  == VCPU[Sku[c]]

\* A sum over claims, counted unit by unit: claim c has the units <<c, 1>> to <<c, n[c]>>.
Units(n, S)  == UNION {{c} \X (1..n[c]) : c \in S}
Total(n, S)  == Cardinality(Units(n, S))
VCPUsOf(S)   == Total([c \in Claims |-> VCPUs(c)], S)

-----------------------------------------------------------------------------
(* Reading the snapshot.                                                   *)

QuotaNameUnder(mapping, f) == IF mapping[f] # NoQuota THEN mapping[f] ELSE f
quotaName(f) == QuotaNameUnder(familyToQuotaName, f)
hasQuotaUsage(q) == usages[q] # NoUsage

EffectiveUsage(q) ==
    LET sum == usages[q] + adjustmentsByQuotaName[q] IN IF sum < 0 THEN 0 ELSE sum
hasQuotaFor(s) ==
    LET q == quotaName(FamilyName[s])
    IN  hasQuotaUsage(q) => VCPU[s] <= Limit[q] - EffectiveUsage(q)
HasQuotaForSKUs == [s \in Skus |-> hasQuotaFor(s)]

(* Azure's side of a usage listing (external): the vCPUs charged to each   *)
(* quota it reports, and the category of a family where it has one.        *)
CategoriesOf(view) ==
    [f \in QuotaNames |->
        IF GeneralPurposeCategory \in view.names /\ view.category[f] \in view.names
        THEN view.category[f] ELSE NoQuota]
AzureUsages(view) ==
    [q \in QuotaNames |->
        IF q \in view.names
        THEN VCPUsOf({c \in charged \cap Eligible :
                          QuotaNameUnder(CategoriesOf(view), Family(c)) = q})
        ELSE NoUsage]

buildFamilyToQuotaName(view, listed) ==
    [f \in QuotaNames |->
        IF listed[GeneralPurposeCategory] # NoUsage /\ view.category[f] # NoQuota
             /\ listed[view.category[f]] # NoUsage
        THEN view.category[f] ELSE NoQuota]

-----------------------------------------------------------------------------
(* Delete tombstones.                                                      *)

Expired(t) == t # ZeroTime /\ now - t > DeleteTombstoneTTL
PruneDue ==
    \/ lastDeleteTombstoneCleanup = ZeroTime
    \/ now - lastDeleteTombstoneCleanup >= DeleteTombstoneCleanupInterval
PrunedTombstones ==
    IF PruneDue
    THEN [c \in Claims |-> IF Expired(deleteTombstones[c]) THEN ZeroTime ELSE deleteTombstones[c]]
    ELSE deleteTombstones
LastCleanupAfterPrune == IF PruneDue THEN now ELSE lastDeleteTombstoneCleanup

\* The possible results of an insertion: at the limit one of the oldest entries goes first.
Bug_TombstoneExpired(stones, c) == {[stones EXCEPT ![c] = now - DeleteTombstoneTTL - 1]}
WithDeleteTombstone(stones, c) ==
    LET live   == {k \in Claims : stones[k] # ZeroTime}
        oldest == {k \in live : \A j \in live : stones[k] <= stones[j]}
    IN  IF Cardinality(live) >= MaxDeleteTombstones
        THEN {[stones EXCEPT ![k] = ZeroTime, ![c] = now] : k \in oldest}
        ELSE {[stones EXCEPT ![c] = now]}

-----------------------------------------------------------------------------
(* The refresh: one thread, the quota controller's reconcile loop.         *)

beginRefresh ==
    /\ refresh = "idle"
    /\ snapshotGeneration < MaxGeneration
    /\ refresh' = "listing"
    /\ refreshInProgress' = TRUE
    /\ adjustmentWatermark' = seqNum
    /\ deleteTombstones' = PrunedTombstones
    /\ lastDeleteTombstoneCleanup' = LastCleanupAfterPrune
    /\ UNCHANGED <<snapshotVars, adjustmentVars, freshUsages, freshFamilyToQuotaName, fetched,
                   lastSuccessfulUpdate, lifecycleVars, overlayVars, azureVars, now>>

listUsages ==
    /\ refresh = "listing"
    /\ refresh' = "mapping"
    /\ freshUsages' = AzureUsages(azureView)
    /\ fetched' = charged \cap Eligible
    /\ UNCHANGED <<providerVars, adjustmentWatermark, freshFamilyToQuotaName,
                   lastSuccessfulUpdate, lifecycleVars, overlayVars, azureVars, now>>

listQuotaCategoryToFamilyMappings ==
    /\ refresh = "mapping"
    /\ refresh' = "publishing"
    /\ freshFamilyToQuotaName' = buildFamilyToQuotaName(azureView, freshUsages)
    /\ UNCHANGED <<providerVars, adjustmentWatermark, freshUsages, fetched,
                   lastSuccessfulUpdate, lifecycleVars, overlayVars, azureVars, now>>

\* The mappings are only requested where the listing has the general purpose category.
AzureCallFails ==
    /\ \/ refresh = "listing"
       \/ refresh = "mapping" /\ freshUsages[GeneralPurposeCategory] # NoUsage
    /\ refresh' = "failing"
    /\ UNCHANGED <<providerVars, adjustmentWatermark, freshUsages, freshFamilyToQuotaName, fetched,
                   lastSuccessfulUpdate, lifecycleVars, overlayVars, azureVars, now>>

\* The creations counted under a quota name less the deletions.
SumOf(adjs, q) ==
    LET named == {c \in Claims : adjs[c].quotaName = q}
    IN  Total([c \in Claims |-> adjs[c].vCPUs], named) - Total([c \in Claims |-> -adjs[c].vCPUs], named)

\* Only adjustments younger than the watermark outlive the new snapshot.
Bug_DropYoungDeletes(a) == NoAdjustment
Surviving(a) == IF a.seqNum <= adjustmentWatermark THEN NoAdjustment ELSE a

publishSnapshot ==
    LET surviving == [c \in Claims |-> Surviving(adjustments[c])]
    IN  /\ refresh = "publishing"
        /\ refresh' = "idle"
        /\ usages' = freshUsages
        /\ familyToQuotaName' = freshFamilyToQuotaName
        /\ counted' = fetched
        /\ initialized' = TRUE
        /\ snapshotGeneration' = snapshotGeneration + 1
        /\ seqNum' = seqNum + 1
        /\ adjustments' = surviving
        /\ adjustmentsByQuotaName' = [q \in QuotaNames |-> SumOf(surviving, q)]
        /\ refreshInProgress' = FALSE
        /\ lastSuccessfulUpdate' = now
        /\ reissued' = {}
        /\ UNCHANGED <<tombstoneVars, adjustmentWatermark, freshUsages, freshFamilyToQuotaName,
                       fetched, create, generation, status, incarnation, outstanding, lastReport,
                       overlayVars, azureVars, now>>

finishFailedRefresh ==
    /\ refresh = "failing"
    /\ refresh' = "failed"
    /\ refreshInProgress' = FALSE
    /\ UNCHANGED <<snapshotVars, adjustmentVars, tombstoneVars, adjustmentWatermark, freshUsages,
                   freshFamilyToQuotaName, fetched, lastSuccessfulUpdate, lifecycleVars,
                   overlayVars, azureVars, now>>

Stale == lastSuccessfulUpdate # ZeroTime /\ now - lastSuccessfulUpdate > MaxStaleness
NothingToReset ==
    /\ ~initialized
    /\ usages = NoUsages /\ familyToQuotaName = NoMappings
    /\ \A c \in Claims : adjustments[c] = NoAdjustment /\ deleteTombstones[c] = ZeroTime

\* The controller's error path when the cached data is not too old, or there is none.
KeepCachedQuota ==
    /\ refresh = "failed"
    /\ Stale => NothingToReset
    /\ refresh' = "idle"
    /\ UNCHANGED <<providerVars, adjustmentWatermark, freshUsages, freshFamilyToQuotaName, fetched,
                   lastSuccessfulUpdate, lifecycleVars, overlayVars, azureVars, now>>

Reset ==
    /\ refresh = "failed"
    /\ Stale /\ ~NothingToReset
    /\ refresh' = "idle"
    /\ usages' = NoUsages
    /\ familyToQuotaName' = NoMappings
    /\ counted' = {}
    /\ initialized' = FALSE
    /\ snapshotGeneration' = snapshotGeneration + 1
    /\ seqNum' = seqNum + 1
    /\ refreshInProgress' = FALSE
    /\ adjustments' = [c \in Claims |-> NoAdjustment]
    /\ adjustmentsByQuotaName' = [q \in QuotaNames |-> 0]
    /\ deleteTombstones' = [c \in Claims |-> ZeroTime]
    /\ lastDeleteTombstoneCleanup' = ZeroTime
    /\ lastReport' = [c \in Claims |-> ZeroTime]
    /\ reissued' = {}
    /\ UNCHANGED <<adjustmentWatermark, freshUsages, freshFamilyToQuotaName, fetched,
                   lastSuccessfulUpdate, create, generation, status, incarnation, outstanding,
                   overlayVars, azureVars, now>>

-----------------------------------------------------------------------------
(* The lifecycle of a claim's instance.                                    *)

\* BeginCreate reads the generation before it does anything else. The claim may have an instance
\* already: a create is tried again after a restart, or after an attempt that failed.
BeginCreate(c) ==
    /\ create[c] = "idle"
    /\ create' = [create EXCEPT ![c] = "begun"]
    /\ generation' = [generation EXCEPT ![c] = snapshotGeneration]
    /\ UNCHANGED <<providerVars, refreshVars, lastSuccessfulUpdate, status, incarnation,
                   outstanding, reissued, lastReport, overlayVars, azureVars, now>>

\* Azure accepts the create and charges its vCPUs. After a GET that failed with anything but not
\* found the PUT goes over a running machine: that machine stays, and nothing more is charged.
AcceptCreate(c) ==
    /\ create[c] = "begun"
    /\ status[c] = "running" \/ incarnation[c] < MaxIncarnations
    /\ create' = [create EXCEPT ![c] = "accepted"]
    /\ status' = [status EXCEPT ![c] = "running"]
    /\ incarnation' = [incarnation EXCEPT ![c] = IF status[c] = "running" THEN @ ELSE @ + 1]
    /\ charged' = charged \cup {c}
    /\ outstanding' = outstanding \cup {c}
    /\ reissued' = IF c \in outstanding THEN reissued \cup {c} ELSE reissued
    /\ lastReport' = [lastReport EXCEPT ![c] = ZeroTime]
    /\ UNCHANGED <<providerVars, refreshVars, lastSuccessfulUpdate, generation,
                   overlayVars, azureView, now>>

\* Synchronous failure, or an existing machine that is taken over: no create was issued, nothing is
\* recorded.
RejectCreate(c) ==
    /\ create[c] = "begun"
    /\ create' = [create EXCEPT ![c] = "idle"]
    /\ generation' = [generation EXCEPT ![c] = 0]
    /\ UNCHANGED <<providerVars, refreshVars, lastSuccessfulUpdate, status,
                   incarnation, outstanding, reissued, lastReport, overlayVars, azureVars, now>>

\* The guard of RecordCreate.
Bug_CountDuringRefresh(c) ==
    /\ initialized /\ generation[c] = snapshotGeneration /\ VCPUs(c) > 0
    /\ hasQuotaUsage(quotaName(Family(c))) /\ adjustments[c] = NoAdjustment
Bug_CountAnyGeneration(c) ==
    /\ initialized /\ ~refreshInProgress /\ VCPUs(c) > 0
    /\ hasQuotaUsage(quotaName(Family(c))) /\ adjustments[c] = NoAdjustment
CreateCountable(c) ==
    /\ initialized
    /\ ~refreshInProgress
    /\ generation[c] = snapshotGeneration
    /\ VCPUs(c) > 0
    /\ hasQuotaUsage(quotaName(Family(c)))
    /\ adjustments[c] = NoAdjustment

Creation(c) == [quotaName |-> quotaName(Family(c)), vCPUs |-> VCPUs(c), seqNum |-> seqNum + 1]
Deletion(c) == [quotaName |-> quotaName(Family(c)), vCPUs |-> -VCPUs(c), seqNum |-> seqNum + 1]

RecordCreate(c) ==
    LET q == quotaName(Family(c))
    IN  /\ create[c] = "accepted"
        /\ c \in Eligible /\ CreateCountable(c)
        /\ create' = [create EXCEPT ![c] = "idle"]
        /\ generation' = [generation EXCEPT ![c] = 0]
        /\ deleteTombstones' = [deleteTombstones EXCEPT ![c] = ZeroTime]
        /\ seqNum' = seqNum + 1
        /\ adjustments' = [adjustments EXCEPT ![c] = Creation(c)]
        /\ adjustmentsByQuotaName' = [adjustmentsByQuotaName EXCEPT ![q] = @ + VCPUs(c)]
        /\ UNCHANGED <<snapshotVars, lastDeleteTombstoneCleanup, refreshInProgress, refreshVars,
                       lastSuccessfulUpdate, status, incarnation, outstanding, reissued,
                       lastReport, overlayVars, azureVars, now>>

\* Not countable, not eligible, or an instance type that metadata cannot resolve (any claim's).
SkipRecordCreate(c) ==
    /\ create[c] = "accepted"
    /\ create' = [create EXCEPT ![c] = "idle"]
    /\ generation' = [generation EXCEPT ![c] = 0]
    /\ UNCHANGED <<providerVars, refreshVars, lastSuccessfulUpdate, status,
                   incarnation, outstanding, reissued, lastReport, overlayVars, azureVars, now>>

\* Azure releases the vCPUs: a delete completed, or the instance vanished on its own.
ReleaseInstance(c) ==
    /\ status[c] = "running"
    /\ status' = [status EXCEPT ![c] = "gone"]
    /\ charged' = charged \ {c}
    /\ UNCHANGED <<providerVars, refreshVars, lastSuccessfulUpdate, create, generation,
                   incarnation, outstanding, reissued, lastReport, overlayVars, azureView, now>>

\* The claim's instance is reported not found, any number of times, once its create has returned.
\* A report without eligible metadata does not reach the provider: the claim just stays "gone".
Gone(c) == status[c] \in {"gone", "reportedBlind", "reported"} /\ create[c] = "idle"

HasBaseline(c) == initialized /\ VCPUs(c) > 0 /\ hasQuotaUsage(quotaName(Family(c)))
Suppressed(stones, c) == stones[c] # ZeroTime /\ ~Expired(stones[c])

\* RecordDelete returns before it has a usage entry to adjust.
RecordDeleteBlind(c) ==
    /\ Gone(c) /\ c \in Eligible
    /\ ~HasBaseline(c)
    /\ deleteTombstones' = PrunedTombstones
    /\ lastDeleteTombstoneCleanup' = LastCleanupAfterPrune
    /\ status' = [status EXCEPT ![c] = IF @ = "gone" THEN "reportedBlind" ELSE @]
    /\ UNCHANGED <<snapshotVars, adjustmentVars, refreshInProgress, refreshVars,
                   lastSuccessfulUpdate, create, generation, incarnation, outstanding, reissued,
                   lastReport, overlayVars, azureVars, now>>

\* A tombstone that has not expired marks a repeated observation: its window slides.
Bug_FixedWindow(stones, c) == stones
SlidTombstones(stones, c) == [stones EXCEPT ![c] = now]
RecordDeleteSuppressed(c) ==
    /\ Gone(c) /\ c \in Eligible
    /\ HasBaseline(c)
    /\ Suppressed(PrunedTombstones, c)
    /\ deleteTombstones' = SlidTombstones(PrunedTombstones, c)
    /\ lastDeleteTombstoneCleanup' = LastCleanupAfterPrune
    /\ status' = [status EXCEPT ![c] = "reported"]
    /\ lastReport' = [lastReport EXCEPT ![c] = now]
    /\ UNCHANGED <<snapshotVars, adjustmentVars, refreshInProgress, refreshVars,
                   lastSuccessfulUpdate, create, generation, incarnation, outstanding, reissued,
                   overlayVars, azureVars, now>>

\* What RecordDelete does to the adjustments: a deletion is counted once; a creation is cancelled,
\* and turned into a deletion while a refresh may have seen the creation but not the deletion.
AdjustmentAfterDelete(c) ==
    LET existing == adjustments[c]
    IN  IF existing.vCPUs < 0 THEN existing
        ELSE IF existing.vCPUs > 0 /\ ~refreshInProgress THEN NoAdjustment
        ELSE Deletion(c)
Bug_CreationNotTakenBack(q, old, new) == IF new.quotaName = q THEN new.vCPUs ELSE 0
Moved(q, old, new) ==
    (IF new.quotaName = q THEN new.vCPUs ELSE 0) - (IF old.quotaName = q THEN old.vCPUs ELSE 0)

\* RecordDelete returns true: the release is now in the accounting.
Counts(c) == adjustments[c].vCPUs >= 0
Bug_SilentCancel(c) == IF adjustments[c].vCPUs = 0 THEN seqNum + 1 ELSE seqNum
SeqNumAfterDelete(c) == IF Counts(c) THEN seqNum + 1 ELSE seqNum

RecordDelete(c) ==
    LET after == AdjustmentAfterDelete(c)
        stones == [PrunedTombstones EXCEPT ![c] = ZeroTime]
    IN  /\ Gone(c) /\ c \in Eligible
        /\ HasBaseline(c)
        /\ ~Suppressed(PrunedTombstones, c)
        /\ deleteTombstones' \in WithDeleteTombstone(stones, c)
        /\ lastDeleteTombstoneCleanup' = LastCleanupAfterPrune
        /\ seqNum' = SeqNumAfterDelete(c)
        /\ adjustments' = [adjustments EXCEPT ![c] = after]
        /\ adjustmentsByQuotaName' =
              IF Counts(c)
              THEN [q \in QuotaNames |-> adjustmentsByQuotaName[q] + Moved(q, adjustments[c], after)]
              ELSE adjustmentsByQuotaName
        /\ outstanding' = IF Counts(c) THEN outstanding \ {c} ELSE outstanding
        /\ status' = [status EXCEPT ![c] = "reported"]
        /\ lastReport' = [lastReport EXCEPT ![c] = now]
        /\ UNCHANGED <<snapshotVars, refreshInProgress, refreshVars, lastSuccessfulUpdate, create,
                       generation, incarnation, reissued, overlayVars, azureVars, now>>

-----------------------------------------------------------------------------
(* The instance-type list reuses its quota overlay while SeqNum stands.    *)

List ==
    /\ IF overlaySeqNum = seqNum
       THEN UNCHANGED overlayVars
       ELSE overlay' = HasQuotaForSKUs /\ overlaySeqNum' = seqNum
    /\ UNCHANGED <<providerVars, refreshVars, lastSuccessfulUpdate, lifecycleVars, azureVars, now>>

ChangeAzureView ==
    /\ azureView' \in AzureViews
    /\ UNCHANGED <<providerVars, refreshVars, lastSuccessfulUpdate, lifecycleVars, overlayVars,
                   charged, now>>

Tick ==
    /\ now < MaxTime
    /\ now' = now + 1
    /\ UNCHANGED <<providerVars, refreshVars, lastSuccessfulUpdate, lifecycleVars, overlayVars,
                   azureVars>>

-----------------------------------------------------------------------------
\* The process starts beside instances of an earlier run; all provider state is in memory.
Init ==
    /\ usages = NoUsages /\ familyToQuotaName = NoMappings
    /\ initialized = FALSE /\ snapshotGeneration = 0 /\ seqNum = 0
    /\ refreshInProgress = FALSE
    /\ adjustments = [c \in Claims |-> NoAdjustment]
    /\ adjustmentsByQuotaName = [q \in QuotaNames |-> 0]
    /\ deleteTombstones = [c \in Claims |-> ZeroTime]
    /\ lastDeleteTombstoneCleanup = ZeroTime
    /\ refresh = "idle" /\ adjustmentWatermark = 0
    /\ freshUsages = NoUsages /\ freshFamilyToQuotaName = NoMappings
    /\ lastSuccessfulUpdate = ZeroTime
    /\ charged \in SUBSET Claims
    /\ create = [c \in Claims |-> "idle"]
    /\ generation = [c \in Claims |-> 0]
    /\ status = [c \in Claims |-> IF c \in charged THEN "running" ELSE "absent"]
    /\ incarnation = [c \in Claims |-> IF c \in charged THEN 1 ELSE 0]
    /\ overlay = [s \in Skus |-> TRUE] /\ overlaySeqNum = -1
    /\ azureView \in AzureViews
    /\ now = 1
    /\ counted = {} /\ fetched = {} /\ outstanding = charged /\ reissued = {}
    /\ lastReport = [c \in Claims |-> ZeroTime]

Refresh ==
    \/ beginRefresh \/ listUsages \/ listQuotaCategoryToFamilyMappings \/ AzureCallFails
    \/ publishSnapshot \/ finishFailedRefresh \/ KeepCachedQuota \/ Reset

Lifecycle(c) ==
    \/ BeginCreate(c) \/ AcceptCreate(c) \/ RejectCreate(c)
    \/ RecordCreate(c) \/ SkipRecordCreate(c) \/ ReleaseInstance(c)
    \/ RecordDeleteBlind(c) \/ RecordDeleteSuppressed(c) \/ RecordDelete(c)

Next ==
    \/ Refresh
    \/ \E c \in Claims : Lifecycle(c)
    \/ List \/ ChangeAzureView \/ Tick

Spec == Init /\ [][Next]_vars

-----------------------------------------------------------------------------
(* Properties.                                                             *)

Adjustment == [quotaName : QuotaNames \cup {NoQuota}, vCPUs : Int, seqNum : Nat]

\* Every variable has its type.
TypeOK ==
    /\ DOMAIN usages = QuotaNames /\ DOMAIN freshUsages = QuotaNames
    /\ familyToQuotaName \in [QuotaNames -> QuotaNames \cup {NoQuota}]
    /\ freshFamilyToQuotaName \in [QuotaNames -> QuotaNames \cup {NoQuota}]
    /\ initialized \in BOOLEAN /\ refreshInProgress \in BOOLEAN
    /\ snapshotGeneration \in Nat /\ seqNum \in Nat /\ adjustmentWatermark \in Nat
    /\ adjustments \in [Claims -> Adjustment]
    /\ DOMAIN adjustmentsByQuotaName = QuotaNames
    /\ deleteTombstones \in [Claims -> Nat] /\ lastReport \in [Claims -> Nat]
    /\ lastDeleteTombstoneCleanup \in Nat /\ lastSuccessfulUpdate \in Nat /\ now \in Nat
    /\ refresh \in {"idle", "listing", "mapping", "publishing", "failing", "failed"}
    /\ create \in [Claims -> {"idle", "begun", "accepted"}]
    /\ generation \in [Claims -> Nat] /\ incarnation \in [Claims -> Nat]
    /\ status \in [Claims -> {"absent", "running", "gone", "reportedBlind", "reported"}]
    /\ overlay \in [Skus -> BOOLEAN] /\ overlaySeqNum \in Nat \cup {-1}
    /\ azureView \in AzureViews
    /\ charged \subseteq Claims /\ counted \subseteq Claims /\ fetched \subseteq Claims
    /\ outstanding \subseteq Claims /\ reissued \subseteq Claims

\* What the published snapshot and the adjustments together count for a claim.
Contribution(c) == (IF c \in counted THEN VCPUs(c) ELSE 0) + adjustments[c].vCPUs

\* What may be counted for a claim: its outstanding instance, and a create accepted over it.
Allowance(c) ==
    (IF c \in outstanding THEN VCPUs(c) ELSE 0) + (IF c \in reissued THEN VCPUs(c) ELSE 0)

\* Whatever the order of creates, deletes and refreshes, a claim is never counted for more than
\* Azure charges it, except for a release RecordDelete has not accepted (quota.go: "it prefers the
\* lowest plausible usage"). A create accepted over an instance that is still on the books, such as
\* the PUT over a running machine, may be counted once more, and only until the next publication.
NeverOvercounts == \A c \in Eligible : Contribution(c) <= Allowance(c)

\* The running totals agree with the adjustments they total, per quota name.
TotalsMatchAdjustments ==
    \A q \in QuotaNames : adjustmentsByQuotaName[q] = SumOf(adjustments, q)

\* While Azure is being read, everything younger than the watermark is a delete: publishing never
\* keeps a create that the new snapshot may already contain.
OnlyDeletesPassWatermark ==
    refreshInProgress =>
        \A c \in Claims : adjustments[c].seqNum > adjustmentWatermark => adjustments[c].vCPUs < 0

\* An overlay the instance-type list would reuse is what the provider would answer now: no change
\* of quota availability leaves SeqNum alone.
OverlayCurrent == overlaySeqNum = seqNum => overlay = HasQuotaForSKUs

\* A repeated not-found report within the tombstone's sliding window never subtracts again, also
\* across refreshes.
DuplicatesSuppressed ==
    [][\A c \in Claims :
          (/\ c \notin outstanding
           /\ lastReport[c] # ZeroTime /\ now - lastReport[c] <= DeleteTombstoneTTL)
          => (adjustments'[c].vCPUs >= adjustments[c].vCPUs)]_vars

UsageWithout(q, released) ==
    VCPUsOf({c \in Eligible : status[c] \notin released /\ quotaName(Family(c)) = q})

ReissuedUsage(q) == VCPUsOf({c \in Eligible \cap reissued : quotaName(Family(c)) = q})

\* No quota is reported as used for an instance whose release was reported against a snapshot,
\* beyond one instance of each claim whose create was repeated since that snapshot: RecordDelete
\* then only takes back the second count.
ReleasedQuotaIsFree ==
    \A q \in QuotaNames :
        hasQuotaUsage(q) =>
            EffectiveUsage(q) <= UsageWithout(q, {"absent", "reported"}) + ReissuedUsage(q)

\* A release reported against a snapshot leaves nothing of its claim in the counted usage.
ReportedReleaseIsFree ==
    \A c \in Eligible \ reissued : status[c] = "reported" => Contribution(c) <= 0

=============================================================================
