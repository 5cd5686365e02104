---------------------------- MODULE QuotaProofs ----------------------------
(***************************************************************************)
(* Proofs about Quota, for any claims, SKUs, views of Azure and bounds:    *)
(* a claim is counted for its outstanding instance and for a create put    *)
(* over it, never for more, only deletes outlive a refresh, a reused quota *)
(* overlay is never out of date, and a report repeated within the          *)
(* tombstone window never subtracts again.                                 *)
(***************************************************************************)
EXTENDS Quota, FiniteSetTheorems, TLAPS

Refreshing == refresh \in {"listing", "mapping", "publishing", "failing"}

\* The flag RecordCreate and RecordDelete read stands for the refresh thread's position.
FlagMatchesThread == refreshInProgress <=> Refreshing

\* Sequence numbers and generations handed out never lie ahead of their counters.
NumbersBounded ==
    /\ adjustmentWatermark <= seqNum
    /\ overlaySeqNum <= seqNum
    /\ \A c \in Claims : adjustments[c].seqNum <= seqNum /\ generation[c] <= snapshotGeneration

\* An adjustment is the claim's own vCPU count, with a sign, of a claim that consumes quota.
AdjustmentShape ==
    \A c \in Claims :
        \/ adjustments[c] = NoAdjustment
        \/ /\ VCPUs(c) > 0
           /\ adjustments[c].vCPUs = VCPUs(c) \/ adjustments[c].vCPUs = -VCPUs(c)

\* Azure charges exactly the running instances; they, creates accepted and creations recorded are
\* outstanding, and nothing is that was never launched.
ChargedIsOutstanding ==
    \A c \in Claims :
        /\ c \in charged <=> status[c] = "running"
        /\ c \in charged \/ create[c] = "accepted" \/ adjustments[c].vCPUs > 0 => c \in outstanding
        /\ c \in outstanding => status[c] # "absent"

\* A create the provider would count now is not in the snapshot it would be added to, unless it was
\* accepted over an instance still on the books.
CountableNotCounted ==
    \A c \in Eligible \ reissued :
        (/\ create[c] = "accepted" /\ generation[c] = snapshotGeneration
         /\ adjustments[c] = NoAdjustment /\ VCPUs(c) > 0)
        => c \notin counted

\* Whatever Azure charged when it was read is still outstanding, or its release will survive
\* the publication of that reading.
FetchedIsCovered ==
    refresh \in {"mapping", "publishing"} =>
        \A c \in fetched \cap Eligible :
            \/ c \in outstanding
            \/ adjustments[c].vCPUs < 0 /\ adjustments[c].seqNum > adjustmentWatermark

IInv ==
    /\ TypeOK
    /\ FlagMatchesThread
    /\ NumbersBounded
    /\ AdjustmentShape
    /\ ChargedIsOutstanding
    /\ CountableNotCounted
    /\ FetchedIsCovered
    /\ OnlyDeletesPassWatermark
    /\ NeverOvercounts
    /\ OverlayCurrent

-----------------------------------------------------------------------------

\* The names an adjustment is booked under are quota names.
LEMMA QuotaNameType ==
    ASSUME TypeOK, NEW c \in Claims
    PROVE  quotaName(Family(c)) \in QuotaNames /\ VCPUs(c) \in Nat
BY QuotaAssumption DEF TypeOK, quotaName, QuotaNameUnder, Family, VCPUs

\* The absent adjustment and the recorded ones are records of the same type.
LEMMA AdjustmentType ==
    ASSUME TypeOK, NEW c \in Claims
    PROVE  /\ NoAdjustment \in Adjustment
           /\ Creation(c) \in Adjustment
           /\ Deletion(c) \in Adjustment
<1>1. seqNum + 1 \in Nat
    BY DEF TypeOK
<1>2. -VCPUs(c) \in Int /\ VCPUs(c) \in Int
    BY QuotaNameType
<1>3. quotaName(Family(c)) \in QuotaNames
    BY QuotaNameType
<1> QED
    BY <1>1, <1>2, <1>3 DEF NoAdjustment, Creation, Deletion, Adjustment

\* Pruning and inserting keep tombstones a function from claims to times.
LEMMA TombstoneType ==
    ASSUME TypeOK
    PROVE  /\ PrunedTombstones \in [Claims -> Nat]
           /\ LastCleanupAfterPrune \in Nat
           /\ \A stones \in [Claims -> Nat], c \in Claims :
                 WithDeleteTombstone(stones, c) \subseteq [Claims -> Nat]
<1>1. PrunedTombstones \in [Claims -> Nat]
    BY DEF TypeOK, PrunedTombstones, ZeroTime
<1>2. LastCleanupAfterPrune \in Nat
    BY DEF TypeOK, LastCleanupAfterPrune
<1>3. ASSUME NEW stones \in [Claims -> Nat], NEW c \in Claims
      PROVE  WithDeleteTombstone(stones, c) \subseteq [Claims -> Nat]
    BY DEF TypeOK, WithDeleteTombstone, ZeroTime
<1> QED
    BY <1>1, <1>2, <1>3

\* The initial state satisfies the inductive invariant.
LEMMA InitEstablishes == Init => IInv
<1> SUFFICES ASSUME Init PROVE IInv
    OBVIOUS
<1>1. TypeOK
  <2>1. adjustments \in [Claims -> Adjustment]
    BY DEF Init, NoAdjustment, Adjustment
  <2> QED
    BY <2>1, QuotaAssumption DEF Init, TypeOK, NoUsages, NoMappings, ZeroTime
<1>2. AdjustmentShape /\ NumbersBounded /\ FlagMatchesThread /\ OnlyDeletesPassWatermark
    BY DEF Init, AdjustmentShape, NumbersBounded, FlagMatchesThread, Refreshing,
           OnlyDeletesPassWatermark, NoAdjustment
<1>3. ChargedIsOutstanding /\ CountableNotCounted /\ FetchedIsCovered /\ OverlayCurrent
    BY DEF Init, NoAdjustment, ChargedIsOutstanding, CountableNotCounted, FetchedIsCovered, OverlayCurrent
<1>4. NeverOvercounts
    BY QuotaAssumption DEF Init, NeverOvercounts, Allowance, Contribution, VCPUs, NoAdjustment
<1> QED
    BY <1>1, <1>2, <1>3, <1>4 DEF IInv

\* Every step keeps the types.
LEMMA TypeStep == TypeOK /\ [Next]_vars => TypeOK'
<1> SUFFICES ASSUME TypeOK, [Next]_vars PROVE TypeOK'
    OBVIOUS
<1>1. CASE beginRefresh
    BY <1>1, TombstoneType DEF beginRefresh, TypeOK, snapshotVars, adjustmentVars, tombstoneVars,
           refreshVars, lifecycleVars, overlayVars, azureVars, providerVars, vars
<1>2. CASE listUsages
    BY <1>2, QuotaAssumption DEF listUsages, AzureUsages, TypeOK, snapshotVars, adjustmentVars,
           tombstoneVars, refreshVars, lifecycleVars, overlayVars, azureVars, providerVars, vars
<1>3. CASE listQuotaCategoryToFamilyMappings
    BY <1>3, QuotaAssumption DEF listQuotaCategoryToFamilyMappings, buildFamilyToQuotaName,
           TypeOK, snapshotVars, adjustmentVars, tombstoneVars, refreshVars, lifecycleVars,
           overlayVars, azureVars, providerVars, vars
<1>4. CASE AzureCallFails
    BY <1>4 DEF AzureCallFails, TypeOK, snapshotVars, adjustmentVars, tombstoneVars, refreshVars,
           lifecycleVars, overlayVars, azureVars, providerVars, vars
<1>5. CASE publishSnapshot
  <2>1. adjustments' \in [Claims -> Adjustment]
    BY <1>5, AdjustmentType DEF publishSnapshot, Surviving, TypeOK
  <2>2. DOMAIN adjustmentsByQuotaName' = QuotaNames
    BY <1>5 DEF publishSnapshot
  <2>3. snapshotGeneration' \in Nat /\ seqNum' \in Nat /\ counted' \subseteq Claims
    BY <1>5 DEF publishSnapshot, TypeOK
  <2> QED
    BY <1>5, <2>1, <2>2, <2>3 DEF publishSnapshot, TypeOK, snapshotVars, adjustmentVars,
           tombstoneVars, refreshVars, lifecycleVars, overlayVars, azureVars, providerVars, vars
<1>6. CASE finishFailedRefresh
    BY <1>6 DEF finishFailedRefresh, TypeOK, snapshotVars, adjustmentVars, tombstoneVars,
           refreshVars, lifecycleVars, overlayVars, azureVars, providerVars, vars
<1>7. CASE KeepCachedQuota
    BY <1>7 DEF KeepCachedQuota, TypeOK, snapshotVars, adjustmentVars, tombstoneVars,
           refreshVars, lifecycleVars, overlayVars, azureVars, providerVars, vars
<1>8. CASE Reset
  <2>1. adjustments' \in [Claims -> Adjustment]
    BY <1>8 DEF Reset, NoAdjustment, Adjustment
  <2>2. DOMAIN usages' = QuotaNames /\ DOMAIN adjustmentsByQuotaName' = QuotaNames
    BY <1>8 DEF Reset, NoUsages
  <2>3. familyToQuotaName' \in [QuotaNames -> QuotaNames \cup {NoQuota}]
    BY <1>8 DEF Reset, NoMappings
  <2>4. deleteTombstones' \in [Claims -> Nat] /\ lastReport' \in [Claims -> Nat]
    BY <1>8 DEF Reset, ZeroTime
  <2>5. snapshotGeneration' \in Nat /\ seqNum' \in Nat /\ lastDeleteTombstoneCleanup' \in Nat
    BY <1>8 DEF Reset, TypeOK, ZeroTime
  <2> QED
    BY <1>8, <2>1, <2>2, <2>3, <2>4, <2>5 DEF Reset, TypeOK, snapshotVars, adjustmentVars,
           tombstoneVars, refreshVars, lifecycleVars, overlayVars, azureVars, providerVars, vars
<1>9. CASE List
    BY <1>9 DEF List, HasQuotaForSKUs, hasQuotaFor, TypeOK, snapshotVars, adjustmentVars,
           tombstoneVars, refreshVars, lifecycleVars, overlayVars, azureVars, providerVars, vars
<1>10. CASE ChangeAzureView
    BY <1>10 DEF ChangeAzureView, TypeOK, snapshotVars, adjustmentVars, tombstoneVars,
           refreshVars, lifecycleVars, overlayVars, azureVars, providerVars, vars
<1>11. CASE Tick
    BY <1>11 DEF Tick, TypeOK, snapshotVars, adjustmentVars, tombstoneVars, refreshVars,
           lifecycleVars, overlayVars, azureVars, providerVars, vars
<1>12. ASSUME NEW c \in Claims, BeginCreate(c)
      PROVE  TypeOK'
    BY <1>12 DEF BeginCreate, TypeOK, snapshotVars, adjustmentVars, tombstoneVars, refreshVars,
           lifecycleVars, overlayVars, azureVars, providerVars, vars
<1>13. ASSUME NEW c \in Claims, AcceptCreate(c)
      PROVE  TypeOK'
    BY <1>13 DEF AcceptCreate, ZeroTime, TypeOK, snapshotVars, adjustmentVars, tombstoneVars,
           refreshVars, lifecycleVars, overlayVars, azureVars, providerVars, vars
<1>14. ASSUME NEW c \in Claims, RejectCreate(c)
      PROVE  TypeOK'
    BY <1>14 DEF RejectCreate, TypeOK, snapshotVars, adjustmentVars, tombstoneVars, refreshVars,
           lifecycleVars, overlayVars, azureVars, providerVars, vars
<1>15. ASSUME NEW c \in Claims, RecordCreate(c)
      PROVE  TypeOK'
  <2>1. adjustments' \in [Claims -> Adjustment]
    BY <1>15, AdjustmentType DEF RecordCreate, TypeOK
  <2> QED
    BY <1>15, <2>1, QuotaNameType DEF RecordCreate, ZeroTime, TypeOK, snapshotVars, adjustmentVars,
           tombstoneVars, refreshVars, lifecycleVars, overlayVars, azureVars, providerVars, vars
<1>16. ASSUME NEW c \in Claims, SkipRecordCreate(c)
      PROVE  TypeOK'
    BY <1>16 DEF SkipRecordCreate, TypeOK, snapshotVars, adjustmentVars, tombstoneVars,
           refreshVars, lifecycleVars, overlayVars, azureVars, providerVars, vars
<1>17. ASSUME NEW c \in Claims, ReleaseInstance(c)
      PROVE  TypeOK'
    BY <1>17 DEF ReleaseInstance, TypeOK, snapshotVars, adjustmentVars, tombstoneVars,
           refreshVars, lifecycleVars, overlayVars, azureVars, providerVars, vars
<1>18. ASSUME NEW c \in Claims, RecordDeleteBlind(c)
      PROVE  TypeOK'
    BY <1>18, TombstoneType DEF RecordDeleteBlind, TypeOK, snapshotVars, adjustmentVars,
           tombstoneVars, refreshVars, lifecycleVars, overlayVars, azureVars, providerVars, vars
<1>19. ASSUME NEW c \in Claims, RecordDeleteSuppressed(c)
      PROVE  TypeOK'
    BY <1>19, TombstoneType DEF RecordDeleteSuppressed, SlidTombstones, TypeOK, snapshotVars,
           adjustmentVars, tombstoneVars, refreshVars, lifecycleVars, overlayVars, azureVars,
           providerVars, vars
<1>20. ASSUME NEW c \in Claims, RecordDelete(c)
      PROVE  TypeOK'
  <2>1. adjustments' \in [Claims -> Adjustment]
    <3>1. AdjustmentAfterDelete(c) \in Adjustment
        BY AdjustmentType DEF AdjustmentAfterDelete, TypeOK
    <3> QED
        BY <1>20, <3>1 DEF RecordDelete, TypeOK
  <2>2. deleteTombstones' \in [Claims -> Nat]
    <3>1. [PrunedTombstones EXCEPT ![c] = ZeroTime] \in [Claims -> Nat]
        BY TombstoneType DEF ZeroTime
    <3> QED
        BY <1>20, <3>1, TombstoneType DEF RecordDelete
  <2> QED
    BY <1>20, <2>1, <2>2, TombstoneType DEF RecordDelete, SeqNumAfterDelete, TypeOK, snapshotVars,
           adjustmentVars, tombstoneVars, refreshVars, lifecycleVars, overlayVars, azureVars,
           providerVars, vars
<1>21. CASE UNCHANGED vars
    BY <1>21 DEF TypeOK, snapshotVars, adjustmentVars, tombstoneVars, refreshVars, lifecycleVars,
           overlayVars, azureVars, providerVars, vars
<1> QED
    BY <1>1, <1>2, <1>3, <1>4, <1>5, <1>6, <1>7, <1>8, <1>9, <1>10, <1>11, <1>12, <1>13, <1>14,
           <1>15, <1>16, <1>17, <1>18, <1>19, <1>20, <1>21 DEF Next, Refresh, Lifecycle

\* Every step of the provider, the controller, the lifecycle, the list, Azure or the clock
\* preserves the inductive invariant.
LEMMA StepPreserves == IInv /\ [Next]_vars => IInv'
<1> SUFFICES ASSUME IInv, [Next]_vars PROVE IInv'
    OBVIOUS
<1> USE DEF IInv, snapshotVars, adjustmentVars, tombstoneVars, refreshVars, lifecycleVars,
       overlayVars, azureVars, providerVars, vars
<1>0. TypeOK /\ TypeOK'
    BY TypeStep
<1>t. /\ seqNum \in Nat /\ adjustmentWatermark \in Nat /\ snapshotGeneration \in Nat
      /\ overlaySeqNum \in Int
      /\ \A d \in Claims : /\ adjustments[d].vCPUs \in Int /\ adjustments[d].seqNum \in Nat
                            /\ generation[d] \in Nat /\ VCPUs(d) \in Nat
    BY <1>0, QuotaNameType DEF TypeOK, Adjustment
<1>1. CASE beginRefresh
  <2>1. FlagMatchesThread' /\ AdjustmentShape'
    BY <1>1 DEF beginRefresh, FlagMatchesThread, AdjustmentShape, Refreshing
  <2>2. NumbersBounded'
    BY <1>1, <1>t DEF beginRefresh, NumbersBounded
  <2>3. OnlyDeletesPassWatermark'
    BY <1>1, <1>t DEF beginRefresh, NumbersBounded, OnlyDeletesPassWatermark
  <2>4. ChargedIsOutstanding' /\ CountableNotCounted'
    BY <1>1 DEF beginRefresh, ChargedIsOutstanding, CountableNotCounted
  <2>5. FetchedIsCovered' /\ NeverOvercounts'
    BY <1>1 DEF beginRefresh, FetchedIsCovered, NeverOvercounts, Allowance, Contribution
  <2>6. OverlayCurrent'
    BY <1>1 DEF beginRefresh, OverlayCurrent, HasQuotaForSKUs, hasQuotaFor, quotaName,
           hasQuotaUsage, EffectiveUsage
  <2> QED
    BY <1>0, <2>1, <2>2, <2>3, <2>4, <2>5, <2>6
<1>2. CASE listUsages
  <2>1. FlagMatchesThread' /\ NumbersBounded' /\ AdjustmentShape' /\ OnlyDeletesPassWatermark'
    BY <1>2 DEF listUsages, FlagMatchesThread, NumbersBounded, AdjustmentShape,
           OnlyDeletesPassWatermark, Refreshing
  <2>2. ChargedIsOutstanding' /\ CountableNotCounted'
    BY <1>2 DEF listUsages, ChargedIsOutstanding, CountableNotCounted
  <2>3. NeverOvercounts'
    BY <1>2 DEF listUsages, NeverOvercounts, Allowance, Contribution
  <2>4. FetchedIsCovered'
    BY <1>2, QuotaAssumption DEF listUsages, ChargedIsOutstanding, FetchedIsCovered
  <2>5. OverlayCurrent'
    BY <1>2 DEF listUsages, OverlayCurrent, HasQuotaForSKUs, hasQuotaFor, quotaName, hasQuotaUsage,
           EffectiveUsage
  <2> QED
    BY <1>0, <2>1, <2>2, <2>3, <2>4, <2>5
<1>3. CASE listQuotaCategoryToFamilyMappings
  <2>1. FlagMatchesThread' /\ NumbersBounded' /\ AdjustmentShape' /\ OnlyDeletesPassWatermark'
    BY <1>3 DEF listQuotaCategoryToFamilyMappings, FlagMatchesThread, NumbersBounded,
           AdjustmentShape, OnlyDeletesPassWatermark, Refreshing
  <2>2. ChargedIsOutstanding' /\ CountableNotCounted'
    BY <1>3 DEF listQuotaCategoryToFamilyMappings, ChargedIsOutstanding, CountableNotCounted
  <2>3. FetchedIsCovered' /\ NeverOvercounts'
    BY <1>3 DEF listQuotaCategoryToFamilyMappings, FetchedIsCovered, NeverOvercounts, Allowance, Contribution
  <2>4. OverlayCurrent'
    BY <1>3 DEF listQuotaCategoryToFamilyMappings, OverlayCurrent, HasQuotaForSKUs, hasQuotaFor,
           quotaName, hasQuotaUsage, EffectiveUsage
  <2> QED
    BY <1>0, <2>1, <2>2, <2>3, <2>4
<1>4. CASE AzureCallFails
  <2>1. FlagMatchesThread' /\ NumbersBounded' /\ AdjustmentShape' /\ OnlyDeletesPassWatermark'
    BY <1>4 DEF AzureCallFails, FlagMatchesThread, NumbersBounded, AdjustmentShape,
           OnlyDeletesPassWatermark, Refreshing
  <2>2. ChargedIsOutstanding' /\ CountableNotCounted'
    BY <1>4 DEF AzureCallFails, ChargedIsOutstanding, CountableNotCounted
  <2>3. FetchedIsCovered' /\ NeverOvercounts'
    BY <1>4 DEF AzureCallFails, FetchedIsCovered, NeverOvercounts, Allowance, Contribution
  <2>4. OverlayCurrent'
    BY <1>4 DEF AzureCallFails, OverlayCurrent, HasQuotaForSKUs, hasQuotaFor, quotaName,
           hasQuotaUsage, EffectiveUsage
  <2> QED
    BY <1>0, <2>1, <2>2, <2>3, <2>4
<1>5. CASE publishSnapshot
  <2>1. FlagMatchesThread'
    BY <1>5 DEF publishSnapshot, FlagMatchesThread, Refreshing
  <2>2. NumbersBounded'
    BY <1>5, <1>t DEF publishSnapshot, Surviving, NoAdjustment, NumbersBounded
  <2>3. AdjustmentShape'
    BY <1>5, <1>t DEF publishSnapshot, Surviving, AdjustmentShape
  <2>4. OnlyDeletesPassWatermark'
    BY <1>5 DEF publishSnapshot, OnlyDeletesPassWatermark
  <2>5. ChargedIsOutstanding'
    BY <1>5, <1>t DEF publishSnapshot, Surviving, NoAdjustment, ChargedIsOutstanding
  <2>6. CountableNotCounted'
    BY <1>5, <1>t, QuotaAssumption DEF publishSnapshot, NumbersBounded, CountableNotCounted
  <2>7. FetchedIsCovered'
    BY <1>5 DEF publishSnapshot, FetchedIsCovered
  <2>8. NeverOvercounts'
    <3>1. SUFFICES ASSUME NEW c \in Eligible
                   PROVE  (IF c \in fetched THEN VCPUs(c) ELSE 0) + Surviving(adjustments[c]).vCPUs
                            <= IF c \in outstanding THEN VCPUs(c) ELSE 0
        BY <1>5, <1>t, QuotaAssumption DEF publishSnapshot, NeverOvercounts, Allowance, Contribution
    <3>2. c \in Claims /\ VCPUs(c) \in Nat /\ adjustments[c].vCPUs \in Int
        BY <3>1, <1>t, QuotaAssumption
    <3>3. Surviving(adjustments[c]).vCPUs \in Int /\ Surviving(adjustments[c]).vCPUs <= 0
        BY <1>5, <1>t, <3>2 DEF publishSnapshot, Surviving, NoAdjustment, OnlyDeletesPassWatermark,
               FlagMatchesThread, Refreshing
    <3>4. CASE c \in outstanding
        BY <3>2, <3>3, <3>4
    <3>5. CASE c \notin outstanding /\ c \in fetched
        <4>1. adjustments[c].vCPUs < 0 /\ ~(adjustments[c].seqNum <= adjustmentWatermark)
            BY <1>5, <3>1, <3>2, <3>5, <1>t DEF publishSnapshot, FetchedIsCovered
        <4>2. adjustments[c].vCPUs = -VCPUs(c)
            BY <3>2, <4>1 DEF AdjustmentShape, NoAdjustment
        <4> QED
            BY <3>2, <3>5, <4>1, <4>2 DEF Surviving
    <3>6. CASE c \notin outstanding /\ c \notin fetched
        BY <3>2, <3>3, <3>6
    <3> QED
        BY <3>4, <3>5, <3>6
  <2>9. OverlayCurrent'
    BY <1>5, <1>t DEF publishSnapshot, OverlayCurrent, NumbersBounded
  <2> QED
    BY <1>0, <2>1, <2>2, <2>3, <2>4, <2>5, <2>6, <2>7, <2>8, <2>9
<1>6. CASE finishFailedRefresh
  <2>1. FlagMatchesThread' /\ NumbersBounded' /\ AdjustmentShape' /\ OnlyDeletesPassWatermark'
    BY <1>6 DEF finishFailedRefresh, FlagMatchesThread, NumbersBounded, AdjustmentShape,
           OnlyDeletesPassWatermark, Refreshing
  <2>2. ChargedIsOutstanding' /\ CountableNotCounted'
    BY <1>6 DEF finishFailedRefresh, ChargedIsOutstanding, CountableNotCounted
  <2>3. FetchedIsCovered' /\ NeverOvercounts'
    BY <1>6 DEF finishFailedRefresh, FetchedIsCovered, NeverOvercounts, Allowance, Contribution
  <2>4. OverlayCurrent'
    BY <1>6 DEF finishFailedRefresh, OverlayCurrent, HasQuotaForSKUs, hasQuotaFor, quotaName,
           hasQuotaUsage, EffectiveUsage
  <2> QED
    BY <1>0, <2>1, <2>2, <2>3, <2>4
<1>7. CASE KeepCachedQuota
  <2>1. FlagMatchesThread' /\ NumbersBounded' /\ AdjustmentShape' /\ OnlyDeletesPassWatermark'
    BY <1>7 DEF KeepCachedQuota, FlagMatchesThread, NumbersBounded, AdjustmentShape,
           OnlyDeletesPassWatermark, Refreshing
  <2>2. ChargedIsOutstanding' /\ CountableNotCounted'
    BY <1>7 DEF KeepCachedQuota, ChargedIsOutstanding, CountableNotCounted
  <2>3. FetchedIsCovered' /\ NeverOvercounts'
    BY <1>7 DEF KeepCachedQuota, FetchedIsCovered, NeverOvercounts, Allowance, Contribution
  <2>4. OverlayCurrent'
    BY <1>7 DEF KeepCachedQuota, OverlayCurrent, HasQuotaForSKUs, hasQuotaFor, quotaName,
           hasQuotaUsage, EffectiveUsage
  <2> QED
    BY <1>0, <2>1, <2>2, <2>3, <2>4
<1>8. CASE Reset
  <2>1. FlagMatchesThread'
    BY <1>8 DEF Reset, FlagMatchesThread, Refreshing
  <2>2. NumbersBounded'
    BY <1>8, <1>t DEF Reset, NoAdjustment, NumbersBounded
  <2>3. AdjustmentShape'
    BY <1>8 DEF Reset, AdjustmentShape
  <2>4. OnlyDeletesPassWatermark'
    BY <1>8 DEF Reset, OnlyDeletesPassWatermark
  <2>5. ChargedIsOutstanding'
    BY <1>8 DEF Reset, NoAdjustment, ChargedIsOutstanding
  <2>6. CountableNotCounted'
    BY <1>8, <1>t, QuotaAssumption DEF Reset, NumbersBounded, CountableNotCounted
  <2>7. FetchedIsCovered'
    BY <1>8 DEF Reset, FetchedIsCovered
  <2>8. NeverOvercounts'
    BY <1>8, <1>t, QuotaAssumption DEF Reset, NoAdjustment, NeverOvercounts, Allowance, Contribution
  <2>9. OverlayCurrent'
    BY <1>8, <1>t DEF Reset, OverlayCurrent, NumbersBounded
  <2> QED
    BY <1>0, <2>1, <2>2, <2>3, <2>4, <2>5, <2>6, <2>7, <2>8, <2>9
<1>9. CASE List
  <2>1. FlagMatchesThread' /\ AdjustmentShape' /\ OnlyDeletesPassWatermark'
    BY <1>9 DEF List, FlagMatchesThread, AdjustmentShape, OnlyDeletesPassWatermark, Refreshing
  <2>2. NumbersBounded'
    BY <1>9, <1>t DEF List, NumbersBounded
  <2>3. ChargedIsOutstanding' /\ CountableNotCounted'
    BY <1>9 DEF List, ChargedIsOutstanding, CountableNotCounted
  <2>4. FetchedIsCovered' /\ NeverOvercounts'
    BY <1>9 DEF List, FetchedIsCovered, NeverOvercounts, Allowance, Contribution
  <2>5. OverlayCurrent'
    BY <1>9 DEF List, OverlayCurrent, HasQuotaForSKUs, hasQuotaFor, quotaName, hasQuotaUsage,
           EffectiveUsage
  <2> QED
    BY <1>0, <2>1, <2>2, <2>3, <2>4, <2>5
<1>10. CASE ChangeAzureView
  <2>1. FlagMatchesThread' /\ NumbersBounded' /\ AdjustmentShape' /\ OnlyDeletesPassWatermark'
    BY <1>10 DEF ChangeAzureView, FlagMatchesThread, NumbersBounded, AdjustmentShape,
           OnlyDeletesPassWatermark, Refreshing
  <2>2. ChargedIsOutstanding' /\ CountableNotCounted'
    BY <1>10 DEF ChangeAzureView, ChargedIsOutstanding, CountableNotCounted
  <2>3. FetchedIsCovered' /\ NeverOvercounts'
    BY <1>10 DEF ChangeAzureView, FetchedIsCovered, NeverOvercounts, Allowance, Contribution
  <2>4. OverlayCurrent'
    BY <1>10 DEF ChangeAzureView, OverlayCurrent, HasQuotaForSKUs, hasQuotaFor, quotaName,
           hasQuotaUsage, EffectiveUsage
  <2> QED
    BY <1>0, <2>1, <2>2, <2>3, <2>4
<1>11. CASE Tick
  <2>1. FlagMatchesThread' /\ NumbersBounded' /\ AdjustmentShape' /\ OnlyDeletesPassWatermark'
    BY <1>11 DEF Tick, FlagMatchesThread, NumbersBounded, AdjustmentShape, OnlyDeletesPassWatermark,
           Refreshing
  <2>2. ChargedIsOutstanding' /\ CountableNotCounted'
    BY <1>11 DEF Tick, ChargedIsOutstanding, CountableNotCounted
  <2>3. FetchedIsCovered' /\ NeverOvercounts'
    BY <1>11 DEF Tick, FetchedIsCovered, NeverOvercounts, Allowance, Contribution
  <2>4. OverlayCurrent'
    BY <1>11 DEF Tick, OverlayCurrent, HasQuotaForSKUs, hasQuotaFor, quotaName, hasQuotaUsage,
           EffectiveUsage
  <2> QED
    BY <1>0, <2>1, <2>2, <2>3, <2>4
<1>12. ASSUME NEW c \in Claims, BeginCreate(c)
      PROVE  IInv'
  <2>1. FlagMatchesThread' /\ AdjustmentShape' /\ OnlyDeletesPassWatermark'
    BY <1>12 DEF BeginCreate, FlagMatchesThread, AdjustmentShape, OnlyDeletesPassWatermark,
           Refreshing
  <2>2. NumbersBounded'
    BY <1>12, <1>t DEF BeginCreate, NumbersBounded
  <2>3. ChargedIsOutstanding' /\ CountableNotCounted'
    BY <1>12 DEF BeginCreate, ChargedIsOutstanding, CountableNotCounted
  <2>4. FetchedIsCovered' /\ NeverOvercounts'
    BY <1>12 DEF BeginCreate, FetchedIsCovered, NeverOvercounts, Allowance, Contribution
  <2>5. OverlayCurrent'
    BY <1>12 DEF BeginCreate, OverlayCurrent, HasQuotaForSKUs, hasQuotaFor, quotaName,
           hasQuotaUsage, EffectiveUsage
  <2> QED
    BY <1>0, <2>1, <2>2, <2>3, <2>4, <2>5
<1>13. ASSUME NEW c \in Claims, AcceptCreate(c)
      PROVE  IInv'
  <2>1. FlagMatchesThread' /\ NumbersBounded' /\ AdjustmentShape' /\ OnlyDeletesPassWatermark'
    BY <1>13 DEF AcceptCreate, FlagMatchesThread, NumbersBounded, AdjustmentShape,
           OnlyDeletesPassWatermark, Refreshing
  <2>2. ChargedIsOutstanding'
    BY <1>13, <1>0 DEF AcceptCreate, TypeOK, ChargedIsOutstanding
  <2>3. CountableNotCounted'
    BY <1>13, <1>t, QuotaAssumption DEF AcceptCreate, NeverOvercounts, Allowance, Contribution, NoAdjustment,
           CountableNotCounted
  <2>4. FetchedIsCovered'
    BY <1>13, QuotaAssumption DEF AcceptCreate, FetchedIsCovered
  <2>5. NeverOvercounts'
    BY <1>13, <1>t, QuotaAssumption DEF AcceptCreate, NeverOvercounts, Allowance, Contribution
  <2>6. OverlayCurrent'
    BY <1>13 DEF AcceptCreate, OverlayCurrent, HasQuotaForSKUs, hasQuotaFor, quotaName,
           hasQuotaUsage, EffectiveUsage
  <2> QED
    BY <1>0, <2>1, <2>2, <2>3, <2>4, <2>5, <2>6
<1>14. ASSUME NEW c \in Claims, RejectCreate(c)
      PROVE  IInv'
  <2>1. FlagMatchesThread' /\ NumbersBounded' /\ AdjustmentShape' /\ OnlyDeletesPassWatermark'
    BY <1>14, <1>0, <1>t DEF RejectCreate, TypeOK, FlagMatchesThread, NumbersBounded, AdjustmentShape,
           OnlyDeletesPassWatermark, Refreshing
  <2>2. ChargedIsOutstanding' /\ CountableNotCounted'
    BY <1>14, <1>0, QuotaAssumption DEF RejectCreate, TypeOK, ChargedIsOutstanding, CountableNotCounted
  <2>3. FetchedIsCovered' /\ NeverOvercounts'
    BY <1>14 DEF RejectCreate, FetchedIsCovered, NeverOvercounts, Allowance, Contribution
  <2>4. OverlayCurrent'
    BY <1>14 DEF RejectCreate, OverlayCurrent, HasQuotaForSKUs, hasQuotaFor, quotaName,
           hasQuotaUsage, EffectiveUsage
  <2> QED
    BY <1>0, <2>1, <2>2, <2>3, <2>4
<1>15. ASSUME NEW c \in Claims, RecordCreate(c)
      PROVE  IInv'
  <2>1. FlagMatchesThread'
    BY <1>15 DEF RecordCreate, FlagMatchesThread, Refreshing
  <2>2. NumbersBounded'
    BY <1>15, <1>0, <1>t DEF RecordCreate, TypeOK, Creation, NumbersBounded
  <2>3. AdjustmentShape'
    BY <1>15, <1>t DEF RecordCreate, Creation, CreateCountable, AdjustmentShape
  <2>4. OnlyDeletesPassWatermark'
    BY <1>15 DEF RecordCreate, CreateCountable, OnlyDeletesPassWatermark
  <2>5. ChargedIsOutstanding'
    BY <1>15, <1>0 DEF RecordCreate, TypeOK, ChargedIsOutstanding
  <2>6. CountableNotCounted'
    BY <1>15, <1>0, <1>t, QuotaAssumption DEF RecordCreate, TypeOK, CountableNotCounted
  <2>7. FetchedIsCovered'
    BY <1>15 DEF RecordCreate, CreateCountable, FlagMatchesThread, Refreshing, FetchedIsCovered
  <2>8. NeverOvercounts'
    <3>1. c \notin reissued => c \notin counted
        BY <1>15 DEF RecordCreate, CreateCountable, CountableNotCounted
    <3>2. c \in outstanding
        BY <1>15 DEF RecordCreate, ChargedIsOutstanding
    <3>3. adjustments' = [adjustments EXCEPT ![c] = Creation(c)] /\ Creation(c).vCPUs = VCPUs(c)
        BY <1>15 DEF RecordCreate, Creation
    <3> QED
        BY <1>15, <1>0, <1>t, <3>1, <3>2, <3>3, QuotaAssumption
           DEF RecordCreate, NeverOvercounts, Allowance, Contribution, TypeOK
  <2>9. OverlayCurrent'
    BY <1>15, <1>t DEF RecordCreate, OverlayCurrent, NumbersBounded
  <2> QED
    BY <1>0, <2>1, <2>2, <2>3, <2>4, <2>5, <2>6, <2>7, <2>8, <2>9
<1>16. ASSUME NEW c \in Claims, SkipRecordCreate(c)
      PROVE  IInv'
  <2>1. FlagMatchesThread' /\ NumbersBounded' /\ AdjustmentShape' /\ OnlyDeletesPassWatermark'
    BY <1>16, <1>0, <1>t DEF SkipRecordCreate, TypeOK, FlagMatchesThread, NumbersBounded, AdjustmentShape,
           OnlyDeletesPassWatermark, Refreshing
  <2>2. ChargedIsOutstanding' /\ CountableNotCounted'
    BY <1>16, <1>0, QuotaAssumption DEF SkipRecordCreate, TypeOK, ChargedIsOutstanding, CountableNotCounted
  <2>3. FetchedIsCovered' /\ NeverOvercounts'
    BY <1>16 DEF SkipRecordCreate, FetchedIsCovered, NeverOvercounts, Allowance, Contribution
  <2>4. OverlayCurrent'
    BY <1>16 DEF SkipRecordCreate, OverlayCurrent, HasQuotaForSKUs, hasQuotaFor, quotaName,
           hasQuotaUsage, EffectiveUsage
  <2> QED
    BY <1>0, <2>1, <2>2, <2>3, <2>4
<1>17. ASSUME NEW c \in Claims, ReleaseInstance(c)
      PROVE  IInv'
  <2>1. FlagMatchesThread' /\ NumbersBounded' /\ AdjustmentShape' /\ OnlyDeletesPassWatermark'
    BY <1>17 DEF ReleaseInstance, FlagMatchesThread, NumbersBounded, AdjustmentShape,
           OnlyDeletesPassWatermark, Refreshing
  <2>2. CountableNotCounted'
    BY <1>17 DEF ReleaseInstance, CountableNotCounted
  <2>3. ChargedIsOutstanding'
    BY <1>17, <1>0 DEF ReleaseInstance, TypeOK, ChargedIsOutstanding
  <2>4. FetchedIsCovered' /\ NeverOvercounts'
    BY <1>17 DEF ReleaseInstance, FetchedIsCovered, NeverOvercounts, Allowance, Contribution
  <2>5. OverlayCurrent'
    BY <1>17 DEF ReleaseInstance, OverlayCurrent, HasQuotaForSKUs, hasQuotaFor, quotaName,
           hasQuotaUsage, EffectiveUsage
  <2> QED
    BY <1>0, <2>1, <2>2, <2>3, <2>4, <2>5
<1>18. ASSUME NEW c \in Claims, RecordDeleteBlind(c)
      PROVE  IInv'
  <2>1. FlagMatchesThread' /\ NumbersBounded' /\ AdjustmentShape' /\ OnlyDeletesPassWatermark'
    BY <1>18 DEF RecordDeleteBlind, FlagMatchesThread, NumbersBounded, AdjustmentShape,
           OnlyDeletesPassWatermark, Refreshing
  <2>2. ChargedIsOutstanding' /\ CountableNotCounted'
    BY <1>18 DEF RecordDeleteBlind, ChargedIsOutstanding, CountableNotCounted
  <2>3. FetchedIsCovered' /\ NeverOvercounts'
    BY <1>18 DEF RecordDeleteBlind, FetchedIsCovered, NeverOvercounts, Allowance, Contribution
  <2>4. OverlayCurrent'
    BY <1>18 DEF RecordDeleteBlind, OverlayCurrent, HasQuotaForSKUs, hasQuotaFor, quotaName,
           hasQuotaUsage, EffectiveUsage
  <2> QED
    BY <1>0, <2>1, <2>2, <2>3, <2>4
<1>19. ASSUME NEW c \in Claims, RecordDeleteSuppressed(c)
      PROVE  IInv'
  <2>1. FlagMatchesThread' /\ NumbersBounded' /\ AdjustmentShape' /\ OnlyDeletesPassWatermark'
    BY <1>19 DEF RecordDeleteSuppressed, FlagMatchesThread, NumbersBounded, AdjustmentShape,
           OnlyDeletesPassWatermark, Refreshing
  <2>2. CountableNotCounted'
    BY <1>19 DEF RecordDeleteSuppressed, CountableNotCounted
  <2>3. ChargedIsOutstanding'
    BY <1>19, <1>0 DEF RecordDeleteSuppressed, TypeOK, Gone, ChargedIsOutstanding
  <2>4. FetchedIsCovered' /\ NeverOvercounts'
    BY <1>19 DEF RecordDeleteSuppressed, FetchedIsCovered, NeverOvercounts, Allowance, Contribution
  <2>5. OverlayCurrent'
    BY <1>19 DEF RecordDeleteSuppressed, OverlayCurrent, HasQuotaForSKUs, hasQuotaFor, quotaName,
           hasQuotaUsage, EffectiveUsage
  <2> QED
    BY <1>0, <2>1, <2>2, <2>3, <2>4, <2>5
<1>20. ASSUME NEW c \in Claims, RecordDelete(c)
      PROVE  IInv'
  <2>a. \A d \in Claims : adjustments'[d] = IF d = c THEN AdjustmentAfterDelete(c)
                                                   ELSE adjustments[d]
    BY <1>20, <1>0 DEF RecordDelete, TypeOK
  <2>b. \/ ~Counts(c) /\ AdjustmentAfterDelete(c) = adjustments[c]
        \/ /\ Counts(c) /\ adjustments[c].vCPUs > 0 /\ ~refreshInProgress
           /\ AdjustmentAfterDelete(c) = NoAdjustment
        \/ Counts(c) /\ AdjustmentAfterDelete(c) = Deletion(c)
    BY <1>t DEF Counts, AdjustmentAfterDelete
  <2>1. FlagMatchesThread'
    BY <1>20 DEF RecordDelete, FlagMatchesThread, Refreshing
  <2>2. NumbersBounded'
    BY <1>20, <1>t, <2>a, <2>b DEF RecordDelete, Deletion, NoAdjustment, SeqNumAfterDelete,
           NumbersBounded
  <2>3. AdjustmentShape'
    BY <1>20, <1>t, <2>a, <2>b DEF RecordDelete, Deletion, HasBaseline, AdjustmentShape
  <2>4. OnlyDeletesPassWatermark'
    BY <1>20, <1>t, <2>a, <2>b DEF RecordDelete, Deletion, HasBaseline, OnlyDeletesPassWatermark
  <2>5. ChargedIsOutstanding'
    BY <1>20, <1>0, <1>t, <2>a, <2>b DEF RecordDelete, TypeOK, Gone, Deletion, NoAdjustment, ChargedIsOutstanding
  <2>6. CountableNotCounted'
    BY <1>20, <1>t, <2>a, QuotaAssumption DEF RecordDelete, Gone, CountableNotCounted
  <2>7. FetchedIsCovered'
    BY <1>20, <1>t, <2>a, <2>b, QuotaAssumption DEF RecordDelete, Deletion, HasBaseline,
           NumbersBounded, FlagMatchesThread, Refreshing, FetchedIsCovered
  <2>8. NeverOvercounts'
    <3>1. ASSUME c \in Eligible
          PROVE  Contribution(c)' <= Allowance(c)'
        <4>1. Contribution(c) <= Allowance(c)
            BY <3>1 DEF NeverOvercounts
        <4>2. Contribution(c)' = (IF c \in counted THEN VCPUs(c) ELSE 0)
                                   + AdjustmentAfterDelete(c).vCPUs
            BY <1>20, <2>a DEF RecordDelete, Contribution
        <4>3. Allowance(c)' = (IF c \in outstanding /\ ~Counts(c) THEN VCPUs(c) ELSE 0)
                                 + (IF c \in reissued THEN VCPUs(c) ELSE 0)
            BY <1>20 DEF RecordDelete, Allowance
        <4>4. CASE ~Counts(c) /\ AdjustmentAfterDelete(c) = adjustments[c]
            BY <1>20, <4>1, <4>2, <4>3, <4>4 DEF RecordDelete, Contribution, Allowance
        <4>5. CASE /\ Counts(c) /\ adjustments[c].vCPUs > 0 /\ ~refreshInProgress
                   /\ AdjustmentAfterDelete(c) = NoAdjustment
            <5>1. c \in counted => c \in reissued
                BY <1>t, <4>1, <4>5 DEF Contribution, Allowance, AdjustmentShape, NoAdjustment
            <5> QED
                BY <1>t, <4>2, <4>3, <4>5, <5>1 DEF NoAdjustment
        <4>6. CASE Counts(c) /\ AdjustmentAfterDelete(c) = Deletion(c)
            BY <1>t, <4>2, <4>3, <4>6 DEF Deletion
        <4> QED
            BY <2>b, <4>4, <4>5, <4>6
    <3>2. ASSUME NEW d \in Eligible, d # c
          PROVE  Contribution(d)' <= Allowance(d)'
        BY <1>20, <2>a, <3>2, QuotaAssumption DEF RecordDelete, NeverOvercounts, Allowance, Contribution
    <3> QED
        BY <3>1, <3>2 DEF NeverOvercounts
  <2>9. OverlayCurrent'
    <3>1. CASE Counts(c)
        BY <1>20, <1>t, <3>1 DEF RecordDelete, SeqNumAfterDelete, OverlayCurrent, NumbersBounded
    <3>2. CASE ~Counts(c)
        BY <1>20, <3>2 DEF RecordDelete, SeqNumAfterDelete, OverlayCurrent, HasQuotaForSKUs, hasQuotaFor,
               quotaName, hasQuotaUsage, EffectiveUsage
    <3> QED
        BY <3>1, <3>2
  <2> QED
    BY <1>0, <2>1, <2>2, <2>3, <2>4, <2>5, <2>6, <2>7, <2>8, <2>9
<1>21. CASE UNCHANGED vars
  <2>1. FlagMatchesThread' /\ NumbersBounded' /\ AdjustmentShape' /\ OnlyDeletesPassWatermark'
    BY <1>21 DEF FlagMatchesThread, NumbersBounded, AdjustmentShape, OnlyDeletesPassWatermark,
           Refreshing
  <2>2. ChargedIsOutstanding' /\ CountableNotCounted'
    BY <1>21 DEF ChargedIsOutstanding, CountableNotCounted
  <2>3. FetchedIsCovered' /\ NeverOvercounts'
    BY <1>21 DEF FetchedIsCovered, NeverOvercounts, Allowance, Contribution
  <2>4. OverlayCurrent'
    BY <1>21 DEF OverlayCurrent, HasQuotaForSKUs, hasQuotaFor, quotaName, hasQuotaUsage,
           EffectiveUsage
  <2> QED
    BY <1>0, <2>1, <2>2, <2>3, <2>4
<1> QED
    BY <1>1, <1>2, <1>3, <1>4, <1>5, <1>6, <1>7, <1>8, <1>9, <1>10, <1>11, <1>12, <1>13, <1>14,
           <1>15, <1>16, <1>17, <1>18, <1>19, <1>20, <1>21 DEF Next, Refresh, Lifecycle

\* The inductive invariant holds in every reachable state.
THEOREM InvariantHolds == Spec => []IInv
<1>1. IInv /\ [Next]_vars => IInv'
    BY StepPreserves
<1> QED
    BY <1>1, InitEstablishes, PTL DEF Spec

\* Every variable keeps its type, for any constants.
THEOREM TypeCorrect == Spec => []TypeOK
<1>1. IInv => TypeOK
    BY DEF IInv
<1> QED
    BY <1>1, InvariantHolds, PTL

\* However creates, deletes, refreshes and resets interleave, no claim is counted for more than
\* Azure charges it, or was released unacknowledged, and at most once more for a create accepted
\* over such an instance since the last publication.
THEOREM LedgerCorrect == Spec => []NeverOvercounts
<1>1. IInv => NeverOvercounts
    BY DEF IInv
<1> QED
    BY <1>1, InvariantHolds, PTL

\* Only deletes can outlive the publication of a snapshot read while they were recorded.
THEOREM WatermarkCorrect == Spec => []OnlyDeletesPassWatermark
<1>1. IInv => OnlyDeletesPassWatermark
    BY DEF IInv
<1> QED
    BY <1>1, InvariantHolds, PTL

\* A quota overlay the instance-type list reuses is what the provider would answer now.
THEOREM OverlayCorrect == Spec => []OverlayCurrent
<1>1. IInv => OverlayCurrent
    BY DEF IInv
<1> QED
    BY <1>1, InvariantHolds, PTL

-----------------------------------------------------------------------------
(* Repeated reports.                                                       *)

\* There are no more claims than tombstones are kept (50000 in the code): none is evicted early.
FewClaims == IsFiniteSet(Claims) /\ Cardinality(Claims) <= MaxDeleteTombstones

\* A report within the window has its tombstone, and a claim is reported only after its create
\* returned.
ReportsKnown ==
    \A c \in Claims :
        /\ create[c] = "accepted" => lastReport[c] = ZeroTime
        /\ lastReport[c] # ZeroTime /\ now - lastReport[c] <= DeleteTombstoneTTL =>
              deleteTombstones[c] = lastReport[c]

\* An insertion evicts nothing.
LEMMA TombstoneInserted ==
    ASSUME FewClaims, TypeOK, NEW stones \in [Claims -> Nat], NEW c \in Claims, stones[c] = ZeroTime
    PROVE  WithDeleteTombstone(stones, c) = {[stones EXCEPT ![c] = now]}
<1> DEFINE live == {k \in Claims : stones[k] # ZeroTime}
<1>1. live \subseteq Claims \ {c}
    OBVIOUS
<1>2. IsFiniteSet(Claims \ {c}) /\ Cardinality(Claims \ {c}) = Cardinality(Claims) - 1
    BY FS_RemoveElement DEF FewClaims
<1>3. IsFiniteSet(live) /\ Cardinality(live) <= Cardinality(Claims \ {c})
    BY <1>1, <1>2, FS_Subset
<1>4. Cardinality(live) \in Nat /\ Cardinality(Claims) \in Nat
    BY <1>3, FS_CardinalityType DEF FewClaims
<1>5. ~(Cardinality(live) >= MaxDeleteTombstones)
    BY <1>2, <1>3, <1>4, QuotaAssumption DEF FewClaims
<1> QED
    BY <1>5 DEF WithDeleteTombstone

\* Pruning keeps the tombstones of reports within the window.
LEMMA PruneKeepsReports ==
    ASSUME TypeOK, ReportsKnown, NEW c \in Claims,
           lastReport[c] # ZeroTime, now - lastReport[c] <= DeleteTombstoneTTL
    PROVE  PrunedTombstones[c] = lastReport[c] /\ Suppressed(PrunedTombstones, c)
<1>1. deleteTombstones[c] = lastReport[c] /\ lastReport[c] \in Nat /\ now \in Nat
    BY DEF ReportsKnown, TypeOK
<1>2. ~Expired(lastReport[c])
    BY <1>1, QuotaAssumption DEF Expired
<1>3. PrunedTombstones[c] = lastReport[c]
    BY <1>1, <1>2 DEF PrunedTombstones
<1> QED
    BY <1>2, <1>3 DEF Suppressed

\* Every step keeps ReportsKnown.
LEMMA ReportsStep ==
    ASSUME FewClaims, IInv, ReportsKnown, [Next]_vars
    PROVE  ReportsKnown'
<1> USE DEF snapshotVars, adjustmentVars, tombstoneVars, refreshVars, lifecycleVars, overlayVars, azureVars,
           providerVars
<1>0. /\ TypeOK /\ AdjustmentShape /\ ChargedIsOutstanding
      /\ lastReport \in [Claims -> Nat] /\ deleteTombstones \in [Claims -> Nat] /\ now \in Nat
      /\ adjustments \in [Claims -> Adjustment] /\ DeleteTombstoneTTL \in Nat
      /\ create \in [Claims -> {"idle", "begun", "accepted"}]
    BY QuotaAssumption DEF IInv, TypeOK
<1>1. ASSUME create' = create, lastReport' = lastReport, now' = now, deleteTombstones' = deleteTombstones,
             outstanding' = outstanding, adjustments' = adjustments
      PROVE  ReportsKnown'
    BY <1>1 DEF ReportsKnown
<1>2. ASSUME create' = create, lastReport' = lastReport, now' = now, deleteTombstones' = PrunedTombstones,
             outstanding' = outstanding, adjustments' = adjustments
      PROVE  ReportsKnown'
    BY <1>0, <1>2, PruneKeepsReports DEF ReportsKnown
<1>3. CASE publishSnapshot
    BY <1>0, <1>3 DEF publishSnapshot, Surviving, NoAdjustment, ReportsKnown
<1>4. CASE Reset
    BY <1>0, <1>4 DEF Reset, NoAdjustment, ReportsKnown, ZeroTime
<1>5. CASE Tick
    BY <1>0, <1>5 DEF Tick, ReportsKnown
<1>6. ASSUME NEW c \in Claims, BeginCreate(c) \/ RejectCreate(c) \/ SkipRecordCreate(c)
      PROVE  ReportsKnown'
    BY <1>0, <1>6 DEF BeginCreate, RejectCreate, SkipRecordCreate, ReportsKnown
<1>7. ASSUME NEW c \in Claims, AcceptCreate(c)
      PROVE  ReportsKnown'
    BY <1>0, <1>7 DEF AcceptCreate, ReportsKnown, ZeroTime
<1>8. ASSUME NEW c \in Claims, RecordCreate(c)
      PROVE  ReportsKnown'
  <2>1. c \in outstanding /\ lastReport[c] = ZeroTime
    BY <1>0, <1>8 DEF RecordCreate, ChargedIsOutstanding, ReportsKnown
  <2> QED
    BY <1>0, <1>8, <2>1 DEF RecordCreate, ReportsKnown
<1>9. ASSUME NEW c \in Claims, RecordDeleteSuppressed(c)
      PROVE  ReportsKnown'
  <2>1. PrunedTombstones \in [Claims -> Nat] /\ create[c] = "idle"
    BY <1>0, <1>9, TombstoneType DEF RecordDeleteSuppressed, Gone
  <2> QED
    BY <1>0, <1>9, <2>1, PruneKeepsReports DEF RecordDeleteSuppressed, SlidTombstones, ReportsKnown
<1>10. ASSUME NEW c \in Claims, RecordDelete(c)
       PROVE  ReportsKnown'
  <2>1. PrunedTombstones \in [Claims -> Nat] /\ create[c] = "idle" /\ create' = create /\ now' = now
    BY <1>0, <1>10, TombstoneType DEF RecordDelete, Gone
  <2>2. deleteTombstones' = [[PrunedTombstones EXCEPT ![c] = ZeroTime] EXCEPT ![c] = now]
    <3> DEFINE stones == [PrunedTombstones EXCEPT ![c] = ZeroTime]
    <3>1. stones \in [Claims -> Nat] /\ stones[c] = ZeroTime
      BY <2>1 DEF ZeroTime
    <3>2. deleteTombstones' \in WithDeleteTombstone(stones, c)
      BY <1>10 DEF RecordDelete
    <3> HIDE DEF stones
    <3>3. WithDeleteTombstone(stones, c) = {[stones EXCEPT ![c] = now]}
      BY <1>0, <3>1, TombstoneInserted
    <3>4. deleteTombstones' = [stones EXCEPT ![c] = now]
      BY <3>2, <3>3
    <3> QED
      BY <3>4 DEF stones
  <2>3. lastReport' = [lastReport EXCEPT ![c] = now]
    BY <1>10 DEF RecordDelete
  <2>4. ASSUME NEW k \in Claims
        PROVE  /\ create'[k] = "accepted" => lastReport'[k] = ZeroTime
               /\ lastReport'[k] # ZeroTime /\ now' - lastReport'[k] <= DeleteTombstoneTTL =>
                     deleteTombstones'[k] = lastReport'[k]
    BY <1>0, <2>1, <2>2, <2>3, PruneKeepsReports DEF ReportsKnown
  <2> QED
    BY <2>4 DEF ReportsKnown
<1>11. CASE beginRefresh
    BY <1>2, <1>11 DEF beginRefresh
<1>12. ASSUME NEW c \in Claims, RecordDeleteBlind(c)
       PROVE  ReportsKnown'
    BY <1>2, <1>12 DEF RecordDeleteBlind
<1>13. ASSUME NEW c \in Claims, ReleaseInstance(c)
       PROVE  ReportsKnown'
    BY <1>1, <1>13 DEF ReleaseInstance
<1>14. CASE \/ listUsages \/ listQuotaCategoryToFamilyMappings \/ AzureCallFails
            \/ finishFailedRefresh \/ KeepCachedQuota \/ List \/ ChangeAzureView
    BY <1>1, <1>14 DEF listUsages, listQuotaCategoryToFamilyMappings, AzureCallFails, finishFailedRefresh,
           KeepCachedQuota, List, ChangeAzureView
<1>15. CASE UNCHANGED vars
    BY <1>1, <1>15 DEF vars
<1> QED
    BY <1>3, <1>4, <1>5, <1>6, <1>7, <1>8, <1>9, <1>10, <1>11, <1>12, <1>13, <1>14, <1>15
    DEF Next, Refresh, Lifecycle

\* With no more claims than tombstones are kept, a not-found report that repeats within the window
\* never subtracts again, however refreshes and other claims come in between.
THEOREM DuplicatesCorrect == ASSUME FewClaims PROVE Spec => DuplicatesSuppressed
<1> DEFINE Repeated(c) == /\ c \notin outstanding
                          /\ lastReport[c] # ZeroTime /\ now - lastReport[c] <= DeleteTombstoneTTL
           Kept == \A c \in Claims : Repeated(c) => adjustments'[c].vCPUs >= adjustments[c].vCPUs
<1>1. Init => ReportsKnown
    BY DEF Init, ReportsKnown, NoAdjustment
<1>2. IInv /\ ReportsKnown /\ [Next]_vars => ReportsKnown'
    BY ReportsStep
<1>3. IInv /\ ReportsKnown /\ [Next]_vars => [Kept]_vars
  <2> SUFFICES ASSUME IInv, ReportsKnown, Next, NEW c \in Claims, Repeated(c)
               PROVE  adjustments'[c].vCPUs >= adjustments[c].vCPUs
    OBVIOUS
  <2>1. /\ TypeOK /\ adjustments \in [Claims -> Adjustment] /\ adjustments[c].vCPUs \in Int
        /\ adjustments[c].vCPUs <= 0 /\ Suppressed(PrunedTombstones, c)
    BY PruneKeepsReports DEF IInv, TypeOK, Adjustment, ChargedIsOutstanding
  <2>2. ASSUME adjustments'[c] = adjustments[c]
        PROVE  adjustments'[c].vCPUs >= adjustments[c].vCPUs
    BY <2>1, <2>2
  <2>3. CASE publishSnapshot \/ Reset
    BY <2>1, <2>3 DEF publishSnapshot, Surviving, Reset, NoAdjustment
  <2>4. ASSUME NEW k \in Claims, RecordCreate(k)
        PROVE  adjustments'[c].vCPUs >= adjustments[c].vCPUs
    BY <2>1, <2>2, <2>4, QuotaNameType DEF RecordCreate, Creation
  <2>5. ASSUME NEW k \in Claims, RecordDelete(k)
        PROVE  adjustments'[c].vCPUs >= adjustments[c].vCPUs
    <3>1. k # c
      BY <2>1, <2>5 DEF RecordDelete
    <3> QED
      BY <2>1, <2>2, <2>5, <3>1 DEF RecordDelete
  <2>6. CASE \/ beginRefresh \/ listUsages \/ listQuotaCategoryToFamilyMappings \/ AzureCallFails
             \/ finishFailedRefresh \/ KeepCachedQuota \/ List \/ ChangeAzureView \/ Tick
    BY <2>2, <2>6 DEF beginRefresh, listUsages, listQuotaCategoryToFamilyMappings, AzureCallFails,
           finishFailedRefresh, KeepCachedQuota, List, ChangeAzureView, Tick, providerVars, adjustmentVars
  <2>7. ASSUME NEW k \in Claims,
               \/ BeginCreate(k) \/ AcceptCreate(k) \/ RejectCreate(k) \/ SkipRecordCreate(k)
               \/ ReleaseInstance(k) \/ RecordDeleteBlind(k) \/ RecordDeleteSuppressed(k)
        PROVE  adjustments'[c].vCPUs >= adjustments[c].vCPUs
    BY <2>2, <2>7 DEF BeginCreate, AcceptCreate, RejectCreate, SkipRecordCreate, ReleaseInstance,
           RecordDeleteBlind, RecordDeleteSuppressed, providerVars, adjustmentVars
  <2> QED
    BY <2>3, <2>4, <2>5, <2>6, <2>7 DEF Next, Refresh, Lifecycle
<1>4. [Kept]_vars => [\A c \in Claims :
          (/\ c \notin outstanding
           /\ lastReport[c] # ZeroTime /\ now - lastReport[c] <= DeleteTombstoneTTL)
          => (adjustments'[c].vCPUs >= adjustments[c].vCPUs)]_vars
    OBVIOUS
<1> QED
    BY <1>1, <1>2, <1>3, <1>4, InvariantHolds, PTL DEF Spec, DuplicatesSuppressed

============================================================================
