------------------------- MODULE QuotaTotalsProofs -------------------------
(***************************************************************************)
(* Proofs about the sums of Quota: the running totals are the sums of the  *)
(* adjustments, and no quota is reported as used for released instances.   *)
(* A sum is a count of units (Total), so that the facts about cardinality  *)
(* replace an induction over the claims.                                   *)
(***************************************************************************)
EXTENDS QuotaProofs

-----------------------------------------------------------------------------
(* Counting.                                                               *)

\* A unit is a claim and a number within its share.
LEMMA UnitsMember ==
    ASSUME NEW n, NEW S, NEW p
    PROVE  p \in Units(n, S) <=> \E c \in S : \E i \in 1..n[c] : p = <<c, i>>
BY DEF Units

\* A share of units is as large as it says.
LEMMA ShareCounted ==
    ASSUME NEW c, NEW k \in Int
    PROVE  /\ IsFiniteSet({c} \X (1..k))
           /\ Cardinality({c} \X (1..k)) = IF k > 0 THEN k ELSE 0
<1>1. IsFiniteSet(1..k) /\ Cardinality(1..k) = IF k > 0 THEN k ELSE 0
    BY FS_Interval
<1>2. IsFiniteSet({c}) /\ Cardinality({c}) = 1
    BY FS_Singleton
<1>3. IsFiniteSet({c} \X (1..k)) /\ Cardinality({c} \X (1..k)) = Cardinality({c}) * Cardinality(1..k)
    BY <1>1, <1>2, FS_Product
<1> QED
    BY <1>1, <1>2, <1>3

\* Finitely many claims have finitely many units.
LEMMA UnitsFinite ==
    ASSUME NEW n \in [Claims -> Int], NEW S \in SUBSET Claims
    PROVE  IsFiniteSet(Units(n, S)) /\ Total(n, S) \in Nat
<1> DEFINE share == [c \in S |-> {c} \X (1..n[c])]
           shares == {{c} \X (1..n[c]) : c \in S}
<1>1. IsFiniteSet(S)
    BY ClaimsFinite, FS_Subset
<1>2. share \in Surjection(S, shares)
    BY DEF Surjection
<1>3. IsFiniteSet(shares)
    BY <1>1, <1>2, FS_Surjection
<1>4. ASSUME NEW T \in shares
      PROVE  IsFiniteSet(T)
  <2>1. PICK c \in S : T = {c} \X (1..n[c])
    OBVIOUS
  <2>2. n[c] \in Int
    OBVIOUS
  <2> QED
    BY <2>1, <2>2, ShareCounted
<1>5. IsFiniteSet(UNION shares)
    BY <1>3, <1>4, FS_UNION
<1> QED
    BY <1>5, FS_CardinalityType DEF Units, Total

\* The sum over two sets without a common claim is the sum of their sums.
LEMMA TotalSplit ==
    ASSUME NEW n \in [Claims -> Int], NEW S \in SUBSET Claims, NEW T \in SUBSET Claims, S \cap T = {}
    PROVE  Total(n, S \cup T) = Total(n, S) + Total(n, T)
<1>1. Units(n, S \cup T) = Units(n, S) \cup Units(n, T)
    BY DEF Units
<1>2. Units(n, S) \cap Units(n, T) = {}
    BY UnitsMember
<1>3. IsFiniteSet(Units(n, S)) /\ IsFiniteSet(Units(n, T)) /\ Total(n, S) \in Nat /\ Total(n, T) \in Nat
    BY UnitsFinite
<1>4. Cardinality(Units(n, S) \cup Units(n, T)) =
          Cardinality(Units(n, S)) + Cardinality(Units(n, T)) - Cardinality(Units(n, S) \cap Units(n, T))
    BY <1>3, FS_Union
<1>5. Cardinality(Units(n, S) \cap Units(n, T)) = 0
    BY <1>2, FS_EmptySet
<1>6. Total(n, S \cup T) = Cardinality(Units(n, S) \cup Units(n, T))
    BY <1>1 DEF Total
<1>7. Total(n, S) = Cardinality(Units(n, S)) /\ Total(n, T) = Cardinality(Units(n, T))
    BY DEF Total
<1> QED
    BY <1>3, <1>4, <1>5, <1>6, <1>7

\* A sum is at most the sum over a set with as many units.
LEMMA TotalMonotone ==
    ASSUME NEW n \in [Claims -> Int], NEW S \in SUBSET Claims, NEW T \in SUBSET Claims,
           \A c \in S : n[c] > 0 => c \in T
    PROVE  Total(n, S) <= Total(n, T)
<1>1. ASSUME NEW p \in Units(n, S)
      PROVE  p \in Units(n, T)
  <2>1. PICK c \in S : \E i \in 1..n[c] : p = <<c, i>>
    BY UnitsMember
  <2>2. PICK i \in 1..n[c] : p = <<c, i>>
    BY <2>1
  <2>3. c \in T
    BY <2>2
  <2> QED
    BY <2>2, <2>3, UnitsMember
<1> QED
    BY <1>1, UnitsFinite, FS_Subset DEF Total

\* The sum over one claim.
LEMMA TotalOne ==
    ASSUME NEW n \in [Claims -> Int], NEW c \in Claims
    PROVE  Total(n, {c}) = IF n[c] > 0 THEN n[c] ELSE 0
<1>1. Units(n, {c}) = {c} \X (1..n[c])
    BY DEF Units
<1> QED
    BY <1>1, ShareCounted DEF Total

\* What one claim contributes to a sum.
LEMMA TotalAround ==
    ASSUME NEW n \in [Claims -> Int], NEW S \in SUBSET Claims, NEW c \in Claims
    PROVE  Total(n, S) = Total(n, S \ {c}) + (IF c \in S /\ n[c] > 0 THEN n[c] ELSE 0)
<1>1. CASE c \in S
  <2>1. S = (S \ {c}) \cup {c} /\ (S \ {c}) \cap {c} = {}
    BY <1>1
  <2>2. Total(n, S) = Total(n, S \ {c}) + Total(n, {c})
    BY <2>1, TotalSplit
  <2> QED
    BY <1>1, <2>2, TotalOne
<1>2. CASE c \notin S
  <2>1. S \ {c} = S /\ Total(n, S) \in Nat
    BY <1>2, UnitsFinite
  <2> QED
    BY <1>2, <2>1
<1> QED
    BY <1>1, <1>2

\* Sums of equal shares are equal.
LEMMA TotalSame ==
    ASSUME NEW n, NEW m, NEW S, \A c \in S : n[c] = m[c]
    PROVE  Total(n, S) = Total(m, S)
<1>1. Units(n, S) = Units(m, S)
    BY DEF Units
<1> QED
    BY <1>1 DEF Total

\* Changing one claim's adjustment changes the sums by what is moved.
LEMMA SumMoves ==
    ASSUME NEW adjs \in [Claims -> Adjustment], NEW c \in Claims, NEW new \in Adjustment, NEW q
    PROVE  SumOf([adjs EXCEPT ![c] = new], q) = SumOf(adjs, q) + Moved(q, adjs[c], new)
<1> DEFINE after  == [adjs EXCEPT ![c] = new]
           S      == {k \in Claims : adjs[k].quotaName = q}
           T      == {k \in Claims : after[k].quotaName = q}
           rest   == S \ {c}
           up     == [k \in Claims |-> adjs[k].vCPUs]
           down   == [k \in Claims |-> -adjs[k].vCPUs]
           upT    == [k \in Claims |-> after[k].vCPUs]
           downT  == [k \in Claims |-> -after[k].vCPUs]
<1>1. /\ up \in [Claims -> Int] /\ down \in [Claims -> Int]
      /\ upT \in [Claims -> Int] /\ downT \in [Claims -> Int]
      /\ S \in SUBSET Claims /\ T \in SUBSET Claims /\ rest \in SUBSET Claims
    BY DEF Adjustment
<1>2. T \ {c} = rest /\ \A k \in rest : up[k] = upT[k] /\ down[k] = downT[k]
    OBVIOUS
<1>3. Total(upT, rest) = Total(up, rest) /\ Total(downT, rest) = Total(down, rest)
  <2> HIDE DEF up, down, upT, downT, rest
  <2> QED
    BY <1>2, TotalSame
<1>4. /\ Total(up, S) = Total(up, rest) + (IF c \in S /\ up[c] > 0 THEN up[c] ELSE 0)
      /\ Total(down, S) = Total(down, rest) + (IF c \in S /\ down[c] > 0 THEN down[c] ELSE 0)
  <2> HIDE DEF up, down, S
  <2> QED
    BY <1>1, TotalAround
<1>5. /\ Total(upT, T) = Total(upT, rest) + (IF c \in T /\ upT[c] > 0 THEN upT[c] ELSE 0)
      /\ Total(downT, T) = Total(downT, rest) + (IF c \in T /\ downT[c] > 0 THEN downT[c] ELSE 0)
  <2> HIDE DEF upT, downT, T, rest
  <2> QED
    BY <1>1, <1>2, TotalAround
<1>6. Total(up, rest) \in Nat /\ Total(down, rest) \in Nat
  <2> HIDE DEF up, down, rest
  <2> QED
    BY <1>1, UnitsFinite
<1>7. /\ c \in S <=> adjs[c].quotaName = q
      /\ c \in T <=> new.quotaName = q
      /\ up[c] = adjs[c].vCPUs /\ down[c] = -adjs[c].vCPUs /\ adjs[c].vCPUs \in Int
      /\ upT[c] = new.vCPUs /\ downT[c] = -new.vCPUs /\ new.vCPUs \in Int
    BY DEF Adjustment
<1>8. SumOf(adjs, q) = Total(up, S) - Total(down, S) /\ SumOf(after, q) = Total(upT, T) - Total(downT, T)
    BY DEF SumOf
<1> HIDE DEF up, down, upT, downT, S, T, rest, after
<1>9. SumOf(after, q) = SumOf(adjs, q) + Moved(q, adjs[c], new)
    BY <1>3, <1>4, <1>5, <1>6, <1>7, <1>8 DEF Moved
<1> QED
    BY <1>9 DEF after

\* A sum of adjustments is an integer.
LEMMA SumType ==
    ASSUME NEW adjs \in [Claims -> Adjustment], NEW q
    PROVE  SumOf(adjs, q) \in Int
<1> DEFINE S    == {k \in Claims : adjs[k].quotaName = q}
           up   == [k \in Claims |-> adjs[k].vCPUs]
           down == [k \in Claims |-> -adjs[k].vCPUs]
<1>1. up \in [Claims -> Int] /\ down \in [Claims -> Int] /\ S \in SUBSET Claims
    BY DEF Adjustment
<1>2. SumOf(adjs, q) = Total(up, S) - Total(down, S)
    BY DEF SumOf
<1> HIDE DEF S, up, down
<1> QED
    BY <1>1, <1>2, UnitsFinite

\* Without adjustments every sum is zero.
LEMMA NothingSums ==
    ASSUME NEW q \in QuotaNames
    PROVE  SumOf([c \in Claims |-> NoAdjustment], q) = 0
<1>1. {c \in Claims : [k \in Claims |-> NoAdjustment][c].quotaName = q} = {}
    BY QuotaAssumption DEF NoAdjustment
<1>2. \A n : Total(n, {}) = 0
    BY FS_EmptySet DEF Total, Units
<1> QED
    BY <1>1, <1>2 DEF SumOf

-----------------------------------------------------------------------------
(* The running totals.                                                     *)

\* Every step keeps the totals equal to the sums.
LEMMA TotalsStep ==
    ASSUME IInv, TotalsMatchAdjustments, [Next]_vars
    PROVE  TotalsMatchAdjustments'
<1> USE DEF snapshotVars, adjustmentVars, tombstoneVars, refreshVars, lifecycleVars, overlayVars, azureVars,
           providerVars
<1>0. /\ TypeOK /\ adjustments \in [Claims -> Adjustment] /\ DOMAIN adjustmentsByQuotaName = QuotaNames
      /\ NoQuota \notin QuotaNames
    BY QuotaAssumption DEF IInv, TypeOK
<1>a. ASSUME NEW q \in QuotaNames
      PROVE  adjustmentsByQuotaName[q] = SumOf(adjustments, q)
    BY DEF TotalsMatchAdjustments
<1>1. ASSUME adjustments' = adjustments, adjustmentsByQuotaName' = adjustmentsByQuotaName
      PROVE  TotalsMatchAdjustments'
    BY <1>1 DEF TotalsMatchAdjustments, SumOf
<1>2. CASE publishSnapshot
    BY <1>2 DEF publishSnapshot, TotalsMatchAdjustments
<1>3. CASE Reset
    BY <1>3, NothingSums DEF Reset, TotalsMatchAdjustments
<1>4. ASSUME NEW c \in Claims, RecordCreate(c)
      PROVE  TotalsMatchAdjustments'
  <2> SUFFICES ASSUME NEW q \in QuotaNames
               PROVE  adjustmentsByQuotaName'[q] = SumOf(adjustments', q)
    BY DEF TotalsMatchAdjustments
  <2>1. /\ adjustments[c] = NoAdjustment /\ adjustments' = [adjustments EXCEPT ![c] = Creation(c)]
        /\ adjustmentsByQuotaName' =
              [adjustmentsByQuotaName EXCEPT ![quotaName(Family(c))] = @ + VCPUs(c)]
    BY <1>4 DEF RecordCreate, CreateCountable
  <2>2. Creation(c) \in Adjustment /\ quotaName(Family(c)) \in QuotaNames /\ VCPUs(c) \in Nat
    BY <1>0, AdjustmentType, QuotaNameType
  <2>3. SumOf(adjustments', q) = SumOf(adjustments, q) + Moved(q, NoAdjustment, Creation(c))
    BY <1>0, <2>1, <2>2, SumMoves
  <2>4. Moved(q, NoAdjustment, Creation(c)) = IF q = quotaName(Family(c)) THEN VCPUs(c) ELSE 0
    BY <1>0, <2>2 DEF Moved, NoAdjustment, Creation
  <2>5. SumOf(adjustments, q) \in Int
    BY <1>0, SumType
  <2> QED
    BY <1>0, <1>a, <2>1, <2>2, <2>3, <2>4, <2>5
<1>5. ASSUME NEW c \in Claims, RecordDelete(c)
      PROVE  TotalsMatchAdjustments'
  <2> DEFINE after == AdjustmentAfterDelete(c)
  <2>1. after \in Adjustment
    BY <1>0, AdjustmentType DEF AdjustmentAfterDelete
  <2>2. adjustments' = [adjustments EXCEPT ![c] = after]
    BY <1>5 DEF RecordDelete
  <2>3. CASE Counts(c)
    <3>1. ASSUME NEW q \in QuotaNames
          PROVE  adjustmentsByQuotaName'[q] = adjustmentsByQuotaName[q] + Moved(q, adjustments[c], after)
      BY <1>5, <2>3 DEF RecordDelete
    <3>2. ASSUME NEW q \in QuotaNames
          PROVE  SumOf(adjustments', q) = SumOf(adjustments, q) + Moved(q, adjustments[c], after)
      <4> HIDE DEF after
      <4> QED
        BY <1>0, <2>1, <2>2, SumMoves
    <3> QED
      BY <1>a, <3>1, <3>2 DEF TotalsMatchAdjustments
  <2>4. CASE ~Counts(c)
    <3>1. after = adjustments[c]
      BY <1>0, <2>4 DEF Counts, AdjustmentAfterDelete, Adjustment
    <3>2. adjustments' = adjustments /\ adjustmentsByQuotaName' = adjustmentsByQuotaName
      BY <1>0, <1>5, <2>2, <2>4, <3>1 DEF RecordDelete
    <3> QED
      BY <1>1, <3>2
  <2> QED
    BY <2>3, <2>4
<1>6. CASE \/ beginRefresh \/ listUsages \/ listQuotaCategoryToFamilyMappings \/ AzureCallFails
           \/ finishFailedRefresh \/ KeepCachedQuota \/ List \/ ChangeAzureView \/ Tick
    BY <1>1, <1>6 DEF beginRefresh, listUsages, listQuotaCategoryToFamilyMappings, AzureCallFails,
           finishFailedRefresh, KeepCachedQuota, List, ChangeAzureView, Tick
<1>7. ASSUME NEW c \in Claims,
             \/ BeginCreate(c) \/ AcceptCreate(c) \/ RejectCreate(c) \/ SkipRecordCreate(c)
             \/ ReleaseInstance(c) \/ RecordDeleteBlind(c) \/ RecordDeleteSuppressed(c)
      PROVE  TotalsMatchAdjustments'
    BY <1>1, <1>7 DEF BeginCreate, AcceptCreate, RejectCreate, SkipRecordCreate, ReleaseInstance,
           RecordDeleteBlind, RecordDeleteSuppressed
<1>8. CASE UNCHANGED vars
    BY <1>1, <1>8 DEF vars
<1> QED
    BY <1>2, <1>3, <1>4, <1>5, <1>6, <1>7, <1>8 DEF Next, Refresh, Lifecycle

\* The running total of every quota name is the sum of the adjustments under it, whatever creates,
\* deletes, refreshes and resets came before.
THEOREM TotalsCorrect == Spec => []TotalsMatchAdjustments
<1>1. Init => TotalsMatchAdjustments
    BY NothingSums DEF Init, TotalsMatchAdjustments
<1>2. IInv /\ TotalsMatchAdjustments /\ [Next]_vars => TotalsMatchAdjustments'
    BY TotalsStep
<1> QED
    BY <1>1, <1>2, InvariantHolds, PTL DEF Spec

-----------------------------------------------------------------------------
(* Reported releases. RecordDelete turns a release away when it finds the  *)
(* tombstone or the deletion of the claim's previous instance.             *)

\* Nothing is left of an earlier release of the claim.
NoTrace(c) == deleteTombstones[c] = ZeroTime /\ adjustments[c].vCPUs >= 0

\* A create that is not counted leaves no trace of an earlier release behind. One that is counted
\* clears the tombstone itself.
LeavesNoTrace == \A c \in Claims : SkipRecordCreate(c) => NoTrace(c)

\* A claim whose create has returned has no trace of a release before its own is counted.
Settled ==
    \A c \in Claims :
        /\ c \in outstanding /\ create[c] # "accepted" => NoTrace(c)
        /\ status[c] = "reported" => c \notin outstanding

\* Pruning removes tombstones and changes none.
LEMMA PruneRemoves ==
    ASSUME TypeOK, NEW k \in Claims
    PROVE  PrunedTombstones[k] \in {ZeroTime, deleteTombstones[k]}
BY DEF PrunedTombstones, TypeOK

\* A delete may evict the tombstone of another claim, and changes none.
LEMMA OthersKeepTombstones ==
    ASSUME TypeOK, NEW c \in Claims, RecordDelete(c), NEW k \in Claims, k # c
    PROVE  deleteTombstones'[k] \in {ZeroTime, deleteTombstones[k]}
<1> DEFINE stones == [PrunedTombstones EXCEPT ![c] = ZeroTime]
<1>1. stones \in [Claims -> Nat] /\ stones[k] \in {ZeroTime, deleteTombstones[k]}
    BY TombstoneType, PruneRemoves DEF ZeroTime
<1>2. deleteTombstones' \in WithDeleteTombstone(stones, c)
    BY DEF RecordDelete
<1> HIDE DEF stones
<1> QED
    BY <1>1, <1>2 DEF WithDeleteTombstone

\* Every step keeps Settled, if no create that is skipped leaves a trace.
LEMMA SettledStep ==
    ASSUME IInv, Settled, [Next]_vars, [LeavesNoTrace]_vars
    PROVE  Settled'
<1> USE DEF snapshotVars, adjustmentVars, tombstoneVars, refreshVars, lifecycleVars, overlayVars, azureVars,
           providerVars
<1>0. /\ TypeOK /\ ChargedIsOutstanding /\ AdjustmentShape
      /\ deleteTombstones \in [Claims -> Nat] /\ adjustments \in [Claims -> Adjustment]
      /\ create \in [Claims -> {"idle", "begun", "accepted"}]
      /\ status \in [Claims -> {"absent", "running", "gone", "reportedBlind", "reported"}]
    BY DEF IInv, TypeOK
<1>p. /\ PrunedTombstones \in [Claims -> Nat]
      /\ \A k \in Claims : PrunedTombstones[k] \in {ZeroTime, deleteTombstones[k]}
    BY <1>0, TombstoneType, PruneRemoves
<1>1. ASSUME outstanding' = outstanding, create' = create, status' = status,
             \A k \in Claims : /\ deleteTombstones'[k] \in {ZeroTime, deleteTombstones[k]}
                               /\ adjustments'[k].vCPUs \in {0, adjustments[k].vCPUs}
      PROVE  Settled'
    BY <1>1 DEF Settled, NoTrace
<1>2. CASE publishSnapshot
    BY <1>0, <1>1, <1>2 DEF publishSnapshot, Surviving, NoAdjustment
<1>3. CASE Reset
    BY <1>0, <1>1, <1>3 DEF Reset, NoAdjustment
<1>4. CASE beginRefresh
    BY <1>1, <1>4, <1>p DEF beginRefresh
<1>5. CASE \/ listUsages \/ listQuotaCategoryToFamilyMappings \/ AzureCallFails
           \/ finishFailedRefresh \/ KeepCachedQuota \/ List \/ ChangeAzureView \/ Tick
    BY <1>1, <1>5 DEF listUsages, listQuotaCategoryToFamilyMappings, AzureCallFails,
           finishFailedRefresh, KeepCachedQuota, List, ChangeAzureView, Tick
<1>6. ASSUME NEW c \in Claims, BeginCreate(c) \/ RejectCreate(c)
      PROVE  Settled'
    BY <1>0, <1>6 DEF BeginCreate, RejectCreate, Settled, NoTrace
<1>7. ASSUME NEW c \in Claims, AcceptCreate(c)
      PROVE  Settled'
    BY <1>0, <1>7 DEF AcceptCreate, Settled, NoTrace
<1>8. ASSUME NEW c \in Claims, RecordCreate(c)
      PROVE  Settled'
  <2>1. c \in outstanding
    BY <1>0, <1>8 DEF RecordCreate, ChargedIsOutstanding
  <2>2. Creation(c).vCPUs >= 0
    BY <1>0, QuotaNameType DEF Creation
  <2> QED
    BY <1>0, <1>8, <2>1, <2>2 DEF RecordCreate, Settled, NoTrace
<1>9. ASSUME NEW c \in Claims, SkipRecordCreate(c)
      PROVE  Settled'
  <2>1. NoTrace(c)
    <3>1. create'[c] # create[c]
      BY <1>0, <1>9 DEF SkipRecordCreate
    <3> QED
      BY <1>9, <3>1 DEF LeavesNoTrace, vars
  <2>2. c \in outstanding
    BY <1>0, <1>9 DEF SkipRecordCreate, ChargedIsOutstanding
  <2> QED
    BY <1>0, <1>9, <2>1, <2>2 DEF SkipRecordCreate, Settled, NoTrace
<1>10. ASSUME NEW c \in Claims, ReleaseInstance(c)
       PROVE  Settled'
    BY <1>0, <1>10 DEF ReleaseInstance, Settled, NoTrace
<1>11. ASSUME NEW c \in Claims, RecordDeleteBlind(c)
       PROVE  Settled'
    BY <1>0, <1>11, <1>p DEF RecordDeleteBlind, Settled, NoTrace
<1>12. ASSUME NEW c \in Claims, RecordDeleteSuppressed(c)
       PROVE  Settled'
  <2>1. deleteTombstones[c] # ZeroTime /\ create[c] = "idle"
    BY <1>12, <1>p DEF RecordDeleteSuppressed, Suppressed, Gone
  <2>2. c \notin outstanding
    BY <2>1 DEF Settled, NoTrace
  <2> QED
    BY <1>0, <1>12, <1>p, <2>2 DEF RecordDeleteSuppressed, SlidTombstones, Settled, NoTrace
<1>13. ASSUME NEW c \in Claims, RecordDelete(c)
       PROVE  Settled'
  <2>1. c \notin outstanding'
    BY <1>0, <1>13 DEF RecordDelete, Counts, Gone, Settled, NoTrace, Adjustment
  <2>2. ASSUME NEW k \in Claims, k # c
        PROVE  deleteTombstones'[k] \in {ZeroTime, deleteTombstones[k]}
    BY <1>0, <1>13, <2>2, OthersKeepTombstones
  <2>3. ASSUME NEW k \in Claims, k # c
        PROVE  adjustments'[k] = adjustments[k] /\ status'[k] = status[k] /\ (k \in outstanding' <=> k \in outstanding)
    BY <1>0, <1>13, <2>3 DEF RecordDelete
  <2>4. create' = create
    BY <1>13 DEF RecordDelete
  <2> QED
    BY <1>0, <2>1, <2>2, <2>3, <2>4 DEF Settled, NoTrace
<1>14. CASE UNCHANGED vars
    BY <1>1, <1>14 DEF vars
<1> QED
    BY <1>2, <1>3, <1>4, <1>5, <1>6, <1>7, <1>8, <1>9, <1>10, <1>11, <1>12, <1>13, <1>14
    DEF Next, Refresh, Lifecycle

\* If no create that RecordCreate does not count leaves the tombstone or the deletion of an earlier
\* release behind, a release reported against a snapshot leaves nothing of its claim in the usage,
\* save for creates accepted over an instance on the books since then. So a reported release stays
\* counted for one of two causes: such a trace, or such a create.
THEOREM ReportedReleasesCorrect == Spec /\ [][LeavesNoTrace]_vars => []ReportedReleaseIsFree
<1>1. Init => Settled
    BY DEF Init, Settled, NoTrace, NoAdjustment
<1>2. IInv /\ Settled /\ [Next]_vars /\ [LeavesNoTrace]_vars => Settled'
    BY SettledStep
<1>3. IInv /\ Settled => ReportedReleaseIsFree
  <2> SUFFICES ASSUME IInv, Settled, NEW c \in Eligible \ reissued, status[c] = "reported"
               PROVE  Contribution(c) <= 0
    BY DEF ReportedReleaseIsFree
  <2>1. c \notin outstanding
    BY QuotaAssumption DEF Settled
  <2>2. Contribution(c) <= Allowance(c)
    BY DEF IInv, NeverOvercounts
  <2> QED
    BY <2>1, <2>2 DEF Allowance
<1> QED
    BY <1>1, <1>2, <1>3, InvariantHolds, PTL DEF Spec

-----------------------------------------------------------------------------
(* The reported usage. Azure's view is one throughout: while it changes,   *)
(* a family may be charged under one name and adjusted under another.      *)

OneView == \A v, w \in AzureViews : v = w

\* The quota a claim is charged to.
ChargedTo(c) == QuotaNameUnder(CategoriesOf(azureView), Family(c))
FreshUsage(q) ==
    IF q \in azureView.names THEN VCPUsOf({c \in fetched : ChargedTo(c) = q}) ELSE NoUsage

\* Usage, fetched usage and adjustments speak of the same claims under the same names.
UsageKnown ==
    /\ counted \subseteq Eligible /\ fetched \subseteq Eligible
    /\ initialized => familyToQuotaName = CategoriesOf(azureView)
    /\ \A q \in QuotaNames :
          hasQuotaUsage(q) => initialized /\ usages[q] = VCPUsOf({c \in counted : ChargedTo(c) = q})
    /\ refresh \in {"mapping", "publishing"} => \A q \in QuotaNames : freshUsages[q] = FreshUsage(q)
    /\ refresh = "publishing" => freshFamilyToQuotaName = CategoriesOf(azureView)
    /\ \A c \in Claims :
          adjustments[c] # NoAdjustment => c \in Eligible /\ adjustments[c].quotaName = ChargedTo(c)

\* The shares of the claims are natural numbers.
LEMMA SizesType ==
    [c \in Claims |-> VCPUs(c)] \in [Claims -> Int] /\ \A S \in SUBSET Claims : VCPUsOf(S) \in Nat
<1>1. [c \in Claims |-> VCPUs(c)] \in [Claims -> Int]
    BY QuotaAssumption DEF VCPUs
<1> QED
    BY <1>1, UnitsFinite DEF VCPUsOf

\* The mapping built from a listing is the one Azure charges by.
LEMMA MappingBuilt ==
    ASSUME TypeOK, fetched \subseteq Claims, \A q \in QuotaNames : freshUsages[q] = FreshUsage(q)
    PROVE  buildFamilyToQuotaName(azureView, freshUsages) = CategoriesOf(azureView)
<1>1. ASSUME NEW q \in QuotaNames
      PROVE  freshUsages[q] # NoUsage <=> q \in azureView.names
  <2> DEFINE there == {c \in fetched : ChargedTo(c) = q}
  <2>1. VCPUsOf(there) \in Nat
    <3>1. there \in SUBSET Claims
      OBVIOUS
    <3> HIDE DEF there
    <3> QED
      BY <3>1, SizesType
  <2>2. freshUsages[q] = IF q \in azureView.names THEN VCPUsOf(there) ELSE NoUsage
    BY DEF FreshUsage
  <2> HIDE DEF there
  <2> QED
    BY <2>1, <2>2 DEF NoUsage
<1>2. /\ azureView.names \in SUBSET QuotaNames /\ GeneralPurposeCategory \in QuotaNames
      /\ azureView.category \in [QuotaNames -> QuotaNames \cup {NoQuota}] /\ NoQuota \notin QuotaNames
    BY QuotaAssumption DEF TypeOK
<1> QED
    BY <1>1, <1>2 DEF buildFamilyToQuotaName, CategoriesOf

\* Every step keeps UsageKnown.
LEMMA UsageStep ==
    ASSUME OneView, IInv, UsageKnown, [Next]_vars
    PROVE  UsageKnown'
<1> USE DEF snapshotVars, adjustmentVars, tombstoneVars, refreshVars, lifecycleVars, overlayVars, azureVars,
           providerVars
<1>0. /\ TypeOK /\ adjustments \in [Claims -> Adjustment] /\ azureView \in AzureViews
      /\ charged \subseteq Claims /\ fetched \subseteq Claims
    BY DEF IInv, TypeOK
<1>v. azureView' = azureView
  <2>1. TypeOK'
    BY <1>0, TypeStep
  <2> QED
    BY <1>0, <2>1 DEF OneView, TypeOK
<1>c. \A c : ChargedTo(c)' = ChargedTo(c)
    BY <1>v DEF ChargedTo, CategoriesOf
<1>1. ASSUME UNCHANGED <<snapshotVars, adjustments, refresh, freshUsages, freshFamilyToQuotaName, fetched>>
      PROVE  UsageKnown'
    BY <1>1, <1>c, <1>v DEF UsageKnown, hasQuotaUsage, FreshUsage, VCPUsOf
<1>2. CASE beginRefresh
    BY <1>2, <1>c, <1>v DEF beginRefresh, UsageKnown, hasQuotaUsage, FreshUsage, VCPUsOf
<1>3. CASE listUsages
  <2>1. \A q \in QuotaNames : freshUsages'[q] = FreshUsage(q)'
    BY <1>3, <1>c, <1>v DEF listUsages, AzureUsages, FreshUsage, ChargedTo
  <2> QED
    BY <1>3, <1>c, <1>v, <2>1 DEF listUsages, UsageKnown, hasQuotaUsage
<1>4. CASE listQuotaCategoryToFamilyMappings
  <2>1. \A q \in QuotaNames : freshUsages[q] = FreshUsage(q)
    BY <1>4 DEF listQuotaCategoryToFamilyMappings, UsageKnown
  <2>2. freshFamilyToQuotaName' = CategoriesOf(azureView)'
    BY <1>0, <1>4, <1>v, <2>1, MappingBuilt DEF listQuotaCategoryToFamilyMappings
  <2>3. \A q \in QuotaNames : freshUsages'[q] = FreshUsage(q)'
    BY <1>4, <1>c, <1>v, <2>1 DEF listQuotaCategoryToFamilyMappings, FreshUsage
  <2> QED
    BY <1>4, <1>c, <1>v, <2>2, <2>3 DEF listQuotaCategoryToFamilyMappings, UsageKnown, hasQuotaUsage
<1>5. CASE publishSnapshot
  <2>1. \A q \in QuotaNames : hasQuotaUsage(q)' =>
              initialized' /\ usages'[q] = VCPUsOf({c \in counted' : ChargedTo(c)' = q})
    BY <1>5, <1>c DEF publishSnapshot, UsageKnown, hasQuotaUsage, FreshUsage, NoUsage
  <2>2. \A c \in Claims : adjustments'[c] # NoAdjustment => adjustments'[c] = adjustments[c]
    BY <1>5 DEF publishSnapshot, Surviving
  <2> QED
    BY <1>5, <1>c, <1>v, <2>1, <2>2 DEF publishSnapshot, UsageKnown
<1>6. CASE AzureCallFails \/ finishFailedRefresh \/ KeepCachedQuota
    BY <1>6, <1>c, <1>v DEF AzureCallFails, finishFailedRefresh, KeepCachedQuota, UsageKnown, hasQuotaUsage
<1>7. CASE Reset
  <2>1. \A q \in QuotaNames : ~hasQuotaUsage(q)'
    BY <1>7 DEF Reset, hasQuotaUsage, NoUsages
  <2> QED
    BY <1>7, <1>c, <1>v, <2>1 DEF Reset, UsageKnown
<1>8. ASSUME NEW c \in Claims, RecordCreate(c)
      PROVE  UsageKnown'
  <2>1. Creation(c).quotaName = ChargedTo(c) /\ c \in Eligible
    BY <1>8 DEF RecordCreate, CreateCountable, Creation, quotaName, ChargedTo, UsageKnown
  <2>2. \A k \in Claims : adjustments'[k] # NoAdjustment =>
                             k \in Eligible /\ adjustments'[k].quotaName = ChargedTo(k)'
    BY <1>0, <1>8, <1>c, <2>1 DEF RecordCreate, UsageKnown
  <2> QED
    BY <1>8, <1>c, <1>v, <2>2 DEF RecordCreate, UsageKnown, hasQuotaUsage, FreshUsage
<1>9. ASSUME NEW c \in Claims, RecordDelete(c)
      PROVE  UsageKnown'
  <2>1. Deletion(c).quotaName = ChargedTo(c) /\ c \in Eligible
    BY <1>9 DEF RecordDelete, HasBaseline, Deletion, quotaName, ChargedTo, UsageKnown
  <2>2. \A k \in Claims : adjustments'[k] # NoAdjustment =>
                             k \in Eligible /\ adjustments'[k].quotaName = ChargedTo(k)'
    BY <1>0, <1>9, <1>c, <2>1 DEF RecordDelete, AdjustmentAfterDelete, UsageKnown
  <2> QED
    BY <1>9, <1>c, <1>v, <2>2 DEF RecordDelete, UsageKnown, hasQuotaUsage, FreshUsage
<1>10. CASE List \/ ChangeAzureView \/ Tick
    BY <1>1, <1>10 DEF List, ChangeAzureView, Tick
<1>11. ASSUME NEW c \in Claims,
              \/ BeginCreate(c) \/ AcceptCreate(c) \/ RejectCreate(c) \/ SkipRecordCreate(c)
              \/ ReleaseInstance(c) \/ RecordDeleteBlind(c) \/ RecordDeleteSuppressed(c)
       PROVE  UsageKnown'
    BY <1>1, <1>11 DEF BeginCreate, AcceptCreate, RejectCreate, SkipRecordCreate, ReleaseInstance,
           RecordDeleteBlind, RecordDeleteSuppressed
<1>12. CASE UNCHANGED vars
    BY <1>1, <1>12 DEF vars
<1> QED
    BY <1>2, <1>3, <1>4, <1>5, <1>6, <1>7, <1>8, <1>9, <1>10, <1>11, <1>12 DEF Next, Refresh, Lifecycle

\* Only claims with units count.
LEMMA TotalPositive ==
    ASSUME NEW n \in [Claims -> Int], NEW m \in [Claims -> Int], NEW S \in SUBSET Claims, NEW T \in SUBSET Claims,
           \A c \in Claims : c \in S /\ n[c] > 0 <=> c \in T,
           \A c \in T : n[c] = m[c]
    PROVE  Total(n, S) = Total(m, T)
<1>1. Total(n, S) <= Total(n, T) /\ Total(n, T) <= Total(n, S)
    BY TotalMonotone
<1>2. Total(n, T) = Total(m, T)
    BY TotalSame
<1> QED
    BY <1>1, <1>2, UnitsFinite

\* The sum over two sets is at most the sum of their sums.
LEMMA TotalUnion ==
    ASSUME NEW n \in [Claims -> Int], NEW S \in SUBSET Claims, NEW T \in SUBSET Claims
    PROVE  Total(n, S \cup T) <= Total(n, S) + Total(n, T)
<1>1. S \cup T = S \cup (T \ S) /\ S \cap (T \ S) = {} /\ T \ S \in SUBSET Claims
    OBVIOUS
<1>2. Total(n, S \cup T) = Total(n, S) + Total(n, T \ S)
    BY <1>1, TotalSplit
<1>3. Total(n, T \ S) <= Total(n, T)
    BY <1>1, TotalMonotone
<1>4. Total(n, S) \in Nat /\ Total(n, T) \in Nat /\ Total(n, T \ S) \in Nat
    BY <1>1, UnitsFinite
<1> QED
    BY <1>2, <1>3, <1>4

\* Usage and creations together are at most the deletions, what is still to be released, and one
\* instance of each claim with a repeated create.
LEMMA UsageBounded ==
    ASSUME IInv, TotalsMatchAdjustments, Settled, UsageKnown, NEW q \in QuotaNames, hasQuotaUsage(q)
    PROVE  usages[q] + adjustmentsByQuotaName[q] <= UsageWithout(q, {"absent", "reported"}) + ReissuedUsage(q)
<1> DEFINE size      == [c \in Claims |-> VCPUs(c)]
           up        == [c \in Claims |-> adjustments[c].vCPUs]
           down      == [c \in Claims |-> -adjustments[c].vCPUs]
           named     == {c \in Claims : adjustments[c].quotaName = q}
           inUsage   == {c \in counted : ChargedTo(c) = q}
           created   == {c \in named : adjustments[c].vCPUs > 0}
           deleted   == {c \in named : adjustments[c].vCPUs < 0}
           twice     == inUsage \cap created
           once      == inUsage \ created
           left      == {c \in once : c \notin outstanding /\ c \notin deleted /\ VCPUs(c) > 0}
           remaining == {c \in Eligible : status[c] \notin {"absent", "reported"} /\ quotaName(Family(c)) = q}
           again     == {c \in Eligible \cap reissued : quotaName(Family(c)) = q}
<1>0. /\ TypeOK /\ AdjustmentShape /\ NeverOvercounts /\ ChargedIsOutstanding
      /\ adjustments \in [Claims -> Adjustment] /\ counted \subseteq Claims /\ Eligible \subseteq Claims
      /\ NoQuota \notin QuotaNames
    BY QuotaAssumption DEF IInv, TypeOK
<1>1. /\ size \in [Claims -> Int] /\ up \in [Claims -> Int] /\ down \in [Claims -> Int]
    BY <1>0, SizesType DEF Adjustment
<1>2. /\ named \in SUBSET Claims /\ inUsage \in SUBSET Claims /\ created \in SUBSET Claims
      /\ deleted \in SUBSET Claims /\ remaining \in SUBSET Claims /\ again \in SUBSET Claims
      /\ twice \in SUBSET Claims /\ once \in SUBSET Claims /\ left \in SUBSET Claims
    BY <1>0
<1>3. \A c \in Claims : /\ VCPUs(c) \in Nat /\ size[c] = VCPUs(c) /\ up[c] = adjustments[c].vCPUs
                        /\ down[c] = -adjustments[c].vCPUs /\ adjustments[c].vCPUs \in Int
    BY <1>0, QuotaNameType DEF Adjustment
<1>4. usages[q] = Total(size, inUsage)
    BY DEF UsageKnown, VCPUsOf
<1>5. UsageWithout(q, {"absent", "reported"}) = Total(size, remaining) /\ ReissuedUsage(q) = Total(size, again)
    BY DEF UsageWithout, ReissuedUsage, VCPUsOf
<1>6. adjustmentsByQuotaName[q] = Total(up, named) - Total(down, named)
    BY DEF TotalsMatchAdjustments, SumOf
<1>7. ASSUME NEW c \in named
      PROVE  /\ adjustments[c] # NoAdjustment /\ c \in Eligible /\ ChargedTo(c) = q
             /\ adjustments[c].vCPUs = VCPUs(c) \/ adjustments[c].vCPUs = -VCPUs(c)
    BY <1>0 DEF NoAdjustment, UsageKnown, AdjustmentShape
<1>8. Total(up, named) = Total(size, created)
  <2>1. \A c \in Claims : c \in named /\ up[c] > 0 <=> c \in created
    OBVIOUS
  <2>2. \A c \in created : up[c] = size[c]
    BY <1>3, <1>7
  <2> HIDE DEF up, size, named, created
  <2> QED
    BY <1>1, <1>2, <2>1, <2>2, TotalPositive
<1>9. Total(down, named) = Total(size, deleted)
  <2>1. \A c \in Claims : c \in named /\ down[c] > 0 <=> c \in deleted
    BY <1>3
  <2>2. \A c \in deleted : down[c] = size[c]
    BY <1>3, <1>7
  <2> HIDE DEF down, size, named, deleted
  <2> QED
    BY <1>1, <1>2, <2>1, <2>2, TotalPositive
<1>a. ASSUME NEW c \in inUsage \cup created
      PROVE  /\ c \in Eligible /\ c \in Claims /\ ChargedTo(c) = q /\ quotaName(Family(c)) = q
             /\ Contribution(c) = (IF c \in counted THEN VCPUs(c) ELSE 0) + adjustments[c].vCPUs
             /\ Contribution(c) <= Allowance(c)
  <2>1. c \in Eligible /\ c \in Claims /\ ChargedTo(c) = q
    BY <1>0, <1>7 DEF UsageKnown
  <2>2. quotaName(Family(c)) = q
    BY <2>1 DEF quotaName, ChargedTo, UsageKnown
  <2> QED
    BY <1>0, <2>1, <2>2 DEF NeverOvercounts, Contribution
<1>10. ASSUME NEW c \in twice
       PROVE  c \in again /\ c \in outstanding
  <2>1. adjustments[c].vCPUs = VCPUs(c) /\ VCPUs(c) > 0 /\ c \in counted
    BY <1>3, <1>7
  <2>2. c \in outstanding
    BY <1>0, <1>2, <2>1 DEF ChargedIsOutstanding
  <2>3. c \in reissued
    BY <1>3, <1>a, <2>1, <2>2 DEF Allowance
  <2> QED
    BY <1>a, <2>2, <2>3
<1>11. ASSUME NEW c \in left
       PROVE  c \in again
  <2>1. ~(adjustments[c].vCPUs < 0)
    <3> SUFFICES ASSUME adjustments[c].vCPUs < 0 PROVE FALSE
      OBVIOUS
    <3>1. adjustments[c] # NoAdjustment
      BY DEF NoAdjustment
    <3> QED
      BY <1>2, <1>a, <3>1 DEF UsageKnown
  <2>2. Contribution(c) > 0
    BY <1>2, <1>3, <1>a, <2>1
  <2>3. c \in reissued
    BY <1>3, <1>a, <2>2 DEF Allowance
  <2> QED
    BY <1>a, <2>3
<1>12. ASSUME NEW c \in once \cup created, size[c] > 0
       PROVE  c \in (deleted \cup remaining) \cup left
  <2>1. CASE c \in outstanding
    <3>1. c \in deleted \/ adjustments[c].vCPUs >= 0
      <4>1. adjustments[c].vCPUs < 0 => adjustments[c] # NoAdjustment
        BY DEF NoAdjustment
      <4> QED
        BY <1>2, <1>3, <1>a, <4>1 DEF UsageKnown
    <3>2. status[c] # "absent"
      BY <1>0, <1>2, <2>1 DEF ChargedIsOutstanding
    <3>3. status[c] # "reported"
      BY <1>2, <2>1 DEF Settled
    <3> QED
      BY <1>a, <3>2, <3>3
  <2>2. CASE c \notin outstanding
    <3>1. c \notin created
      BY <1>0, <1>2, <2>2 DEF ChargedIsOutstanding
    <3> QED
      BY <1>2, <1>3, <1>12, <2>2, <3>1
  <2> QED
    BY <2>1, <2>2
<1>13. /\ inUsage = once \cup twice /\ once \cap twice = {} /\ once \cap created = {}
       /\ left \cap twice = {} /\ left \cup twice \in SUBSET Claims
       /\ \A c \in left \cup twice : c \in again
    BY <1>2, <1>10, <1>11
<1> HIDE DEF size, up, down, named, inUsage, created, deleted, remaining, again, twice, once, left
<1>14. /\ Total(size, inUsage) = Total(size, once) + Total(size, twice)
       /\ Total(size, once \cup created) = Total(size, once) + Total(size, created)
       /\ Total(size, left \cup twice) = Total(size, left) + Total(size, twice)
    BY <1>1, <1>2, <1>13, TotalSplit
<1>15. /\ once \cup created \in SUBSET Claims /\ deleted \cup remaining \in SUBSET Claims
       /\ (deleted \cup remaining) \cup left \in SUBSET Claims
    BY <1>2
<1>16. Total(size, once \cup created) <= Total(size, (deleted \cup remaining) \cup left)
    BY <1>1, <1>12, <1>15, TotalMonotone
<1>17. Total(size, (deleted \cup remaining) \cup left) <= Total(size, deleted \cup remaining) + Total(size, left)
    BY <1>1, <1>2, <1>15, TotalUnion
<1>18. Total(size, deleted \cup remaining) <= Total(size, deleted) + Total(size, remaining)
    BY <1>1, <1>2, TotalUnion
<1>19. Total(size, left \cup twice) <= Total(size, again)
    BY <1>1, <1>2, <1>13, TotalMonotone
<1>20. /\ Total(size, inUsage) \in Nat /\ Total(size, created) \in Nat /\ Total(size, deleted) \in Nat
       /\ Total(size, remaining) \in Nat /\ Total(size, again) \in Nat /\ Total(size, once) \in Nat
       /\ Total(size, twice) \in Nat /\ Total(size, left) \in Nat
       /\ Total(size, once \cup created) \in Nat /\ Total(size, deleted \cup remaining) \in Nat
       /\ Total(size, (deleted \cup remaining) \cup left) \in Nat
    BY <1>1, <1>2, <1>15, UnitsFinite
<1> QED
    BY <1>4, <1>5, <1>6, <1>8, <1>9, <1>14, <1>16, <1>17, <1>18, <1>19, <1>20

\* The invariants together leave no quota reported as used for a released instance.
LEMMA ReleasedIsFree ==
    ASSUME IInv, TotalsMatchAdjustments, Settled, UsageKnown
    PROVE  ReleasedQuotaIsFree
<1> SUFFICES ASSUME NEW q \in QuotaNames, hasQuotaUsage(q)
             PROVE  EffectiveUsage(q) <= UsageWithout(q, {"absent", "reported"}) + ReissuedUsage(q)
    BY DEF ReleasedQuotaIsFree
<1> DEFINE remaining == {c \in Eligible : status[c] \notin {"absent", "reported"} /\ quotaName(Family(c)) = q}
           again     == {c \in Eligible \cap reissued : quotaName(Family(c)) = q}
<1>1. usages[q] + adjustmentsByQuotaName[q] <= UsageWithout(q, {"absent", "reported"}) + ReissuedUsage(q)
    BY UsageBounded
<1>2. /\ UsageWithout(q, {"absent", "reported"}) = VCPUsOf(remaining) /\ remaining \in SUBSET Claims
      /\ ReissuedUsage(q) = VCPUsOf(again) /\ again \in SUBSET Claims
    BY QuotaAssumption DEF UsageWithout, ReissuedUsage
<1> HIDE DEF remaining, again
<1>3. UsageWithout(q, {"absent", "reported"}) \in Nat /\ ReissuedUsage(q) \in Nat
    BY <1>2, SizesType
<1> QED
    BY <1>1, <1>3 DEF EffectiveUsage

\* The initial state satisfies what the released usage rests on.
LEMMA ReleasedInit == Init => Settled /\ UsageKnown
<1> SUFFICES ASSUME Init PROVE Settled /\ UsageKnown
    OBVIOUS
<1>1. Settled
    BY DEF Init, Settled, NoTrace, NoAdjustment
<1>2. UsageKnown
    BY DEF Init, UsageKnown, hasQuotaUsage, NoUsages
<1> QED
    BY <1>1, <1>2

\* With one view of Azure and no trace left by a skipped create, no quota is reported as used for
\* instances whose release was reported, in any order of creates, deletes and refreshes, beyond one
\* instance of each claim whose create was repeated since the last publication.
THEOREM ReleasedCorrect ==
    ASSUME OneView
    PROVE  Spec /\ [][LeavesNoTrace]_vars => []ReleasedQuotaIsFree
<1>1. IInv /\ Settled /\ [Next]_vars /\ [LeavesNoTrace]_vars => Settled'
    BY SettledStep
<1>2. IInv /\ UsageKnown /\ [Next]_vars => UsageKnown'
    BY UsageStep
<1>3. IInv /\ TotalsMatchAdjustments /\ Settled /\ UsageKnown => ReleasedQuotaIsFree
    BY ReleasedIsFree
<1> QED
    BY <1>1, <1>2, <1>3, ReleasedInit, InvariantHolds, TotalsCorrect, PTL DEF Spec

-----------------------------------------------------------------------------
(* Claims with one instance in their life leave no trace, however often    *)
(* their create is repeated over it.                                       *)

\* Nothing is known of a claim that has no instance yet, and no release of one that is running or
\* whose create was accepted.
LaunchedOnce ==
    \A c \in Claims :
        /\ incarnation[c] = 0 => status[c] = "absent"
        /\ status[c] = "absent" => c \notin outstanding /\ create[c] # "accepted"
        /\ status[c] \in {"absent", "running"} \/ create[c] = "accepted" => NoTrace(c)

\* Every step keeps LaunchedOnce, if no claim has a second instance.
LEMMA OnceStep ==
    ASSUME MaxIncarnations <= 1, IInv, LaunchedOnce, [Next]_vars
    PROVE  LaunchedOnce'
<1> USE DEF snapshotVars, adjustmentVars, tombstoneVars, refreshVars, lifecycleVars, overlayVars, azureVars,
           providerVars
<1>0. /\ TypeOK /\ MaxIncarnations \in Nat /\ incarnation \in [Claims -> Nat]
      /\ ChargedIsOutstanding
      /\ deleteTombstones \in [Claims -> Nat] /\ adjustments \in [Claims -> Adjustment]
      /\ create \in [Claims -> {"idle", "begun", "accepted"}]
      /\ status \in [Claims -> {"absent", "running", "gone", "reportedBlind", "reported"}]
    BY QuotaAssumption DEF IInv, TypeOK
<1>p. PrunedTombstones \in [Claims -> Nat] /\ \A k \in Claims : PrunedTombstones[k] \in {ZeroTime, deleteTombstones[k]}
    BY <1>0, TombstoneType, PruneRemoves
<1>1. ASSUME outstanding' = outstanding, create' = create, status' = status, incarnation' = incarnation,
             \A k \in Claims : /\ deleteTombstones'[k] \in {ZeroTime, deleteTombstones[k]}
                               /\ adjustments'[k].vCPUs \in {0, adjustments[k].vCPUs}
      PROVE  LaunchedOnce'
    BY <1>1 DEF LaunchedOnce, NoTrace
<1>2. CASE publishSnapshot
    BY <1>0, <1>1, <1>2 DEF publishSnapshot, Surviving, NoAdjustment
<1>3. CASE Reset
    BY <1>0, <1>1, <1>3 DEF Reset, NoAdjustment
<1>4. CASE beginRefresh
    BY <1>1, <1>4, <1>p DEF beginRefresh
<1>5. CASE \/ listUsages \/ listQuotaCategoryToFamilyMappings \/ AzureCallFails
           \/ finishFailedRefresh \/ KeepCachedQuota \/ List \/ ChangeAzureView \/ Tick
    BY <1>1, <1>5 DEF listUsages, listQuotaCategoryToFamilyMappings, AzureCallFails,
           finishFailedRefresh, KeepCachedQuota, List, ChangeAzureView, Tick
<1>6. ASSUME NEW c \in Claims, BeginCreate(c) \/ RejectCreate(c) \/ SkipRecordCreate(c)
      PROVE  LaunchedOnce'
    BY <1>0, <1>6 DEF BeginCreate, RejectCreate, SkipRecordCreate, LaunchedOnce, NoTrace
<1>7. ASSUME NEW c \in Claims, AcceptCreate(c)
      PROVE  LaunchedOnce'
  <2>1. status[c] \in {"absent", "running"}
    BY <1>0, <1>7 DEF AcceptCreate, LaunchedOnce
  <2> QED
    BY <1>0, <1>7, <2>1 DEF AcceptCreate, LaunchedOnce, NoTrace
<1>8. ASSUME NEW c \in Claims, RecordCreate(c)
      PROVE  LaunchedOnce'
  <2>1. status[c] # "absent" /\ Creation(c).vCPUs >= 0
    BY <1>0, <1>8, QuotaNameType DEF RecordCreate, Creation, ChargedIsOutstanding, LaunchedOnce
  <2> QED
    BY <1>0, <1>8, <2>1 DEF RecordCreate, LaunchedOnce, NoTrace
<1>9. ASSUME NEW c \in Claims, ReleaseInstance(c)
      PROVE  LaunchedOnce'
    BY <1>0, <1>9 DEF ReleaseInstance, LaunchedOnce, NoTrace
<1>10. ASSUME NEW c \in Claims, RecordDeleteBlind(c) \/ RecordDeleteSuppressed(c)
       PROVE  LaunchedOnce'
    BY <1>0, <1>10, <1>p DEF RecordDeleteBlind, RecordDeleteSuppressed, SlidTombstones, Gone, LaunchedOnce, NoTrace
<1>11. ASSUME NEW c \in Claims, RecordDelete(c)
       PROVE  LaunchedOnce'
  <2>1. \A k \in Claims : k # c => deleteTombstones'[k] \in {ZeroTime, deleteTombstones[k]}
    BY <1>0, <1>11, OthersKeepTombstones
  <2>2. \A k \in Claims : k # c => /\ adjustments'[k] = adjustments[k] /\ status'[k] = status[k]
                                   /\ k \in outstanding' <=> k \in outstanding
    BY <1>0, <1>11 DEF RecordDelete
  <2>3. create' = create /\ incarnation' = incarnation /\ create[c] = "idle" /\ status'[c] = "reported"
    BY <1>0, <1>11 DEF RecordDelete, Gone
  <2>4. incarnation[c] # 0
    BY <1>11 DEF RecordDelete, Gone, LaunchedOnce
  <2> QED
    BY <1>0, <2>1, <2>2, <2>3, <2>4 DEF LaunchedOnce, NoTrace
<1>12. CASE UNCHANGED vars
    BY <1>1, <1>12 DEF vars
<1> QED
    BY <1>2, <1>3, <1>4, <1>5, <1>6, <1>7, <1>8, <1>9, <1>10, <1>11, <1>12 DEF Next, Refresh, Lifecycle

\* If no claim has a second instance, and Azure's view does not change, no quota is reported as used
\* for an instance whose release was reported against a snapshot, beyond the creates repeated over a
\* running instance since that snapshot.
THEOREM SingleLaunchCorrect ==
    ASSUME OneView, MaxIncarnations <= 1
    PROVE  Spec => []ReleasedQuotaIsFree
<1>1. Init => LaunchedOnce
    BY DEF Init, LaunchedOnce, NoTrace, NoAdjustment
<1>2. IInv /\ LaunchedOnce /\ [Next]_vars => LaunchedOnce'
    BY OnceStep
<1>3. LaunchedOnce /\ [Next]_vars => [LeavesNoTrace]_vars
    BY DEF LaunchedOnce, LeavesNoTrace, SkipRecordCreate
<1>4. Spec /\ [][LeavesNoTrace]_vars => []ReleasedQuotaIsFree
    BY ReleasedCorrect
<1> QED
    BY <1>1, <1>2, <1>3, <1>4, InvariantHolds, PTL DEF Spec

============================================================================
