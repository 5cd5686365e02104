---------------------- MODULE NodeClassVersionsProofs ----------------------
(***************************************************************************)
(* Proofs about module NodeClassVersions. First what the pure operators of *)
(* the reconcilers return, then the inductive invariant of the reconcile   *)
(* and its copy, then the pins, which need that the lists of images are    *)
(* whole (WholeReleases).                                                  *)
(***************************************************************************)
EXTENDS NodeClassVersions, SequenceTheorems, TLAPS

ImageRecords == [base : Definitions \cup Custom, version : ImageVersions]

\* The goal of a list of definitions at one version is a sequence of images of the same length.
LEMMA ImagesAreImages ==
    ASSUME NEW definitions \in Seq(Definitions), NEW version \in ImageVersions
    PROVE  /\ Images(definitions, version) \in ImageSequences
           /\ DOMAIN Images(definitions, version) = DOMAIN definitions
           /\ \A i \in DOMAIN definitions :
                 /\ Images(definitions, version)[i].base = definitions[i]
                 /\ Images(definitions, version)[i].version = version
           /\ definitions # <<>> => Images(definitions, version) # <<>>
PROOF
<1> DEFINE goal == Images(definitions, version)
           n == Len(definitions)
<1>1. n \in Nat /\ DOMAIN definitions = 1..n /\ \A i \in 1..n : definitions[i] \in Definitions
  BY LenProperties, ElementOfSeq
<1>2. goal = [i \in 1..n |-> [base |-> definitions[i], version |-> version]]
  BY <1>1 DEF Images
<1>3. goal \in [1..n -> ImageRecords]
  BY <1>1, <1>2 DEF ImageRecords
<1>4. goal \in Seq(ImageRecords)
  BY <1>1, <1>3, SeqDef
<1>5. DOMAIN goal = 1..n /\ \A i \in 1..n : goal[i].base = definitions[i] /\ goal[i].version = version
  BY <1>1, <1>2
<1>6. ASSUME definitions # <<>> PROVE goal # <<>>
  <2>1. n >= 1
    BY <1>1, <1>6, EmptySeq
  <2>2. 1 \in DOMAIN goal
    BY <1>1, <1>5, <2>1
  <2>3. DOMAIN <<>> = {}
    OBVIOUS
  <2> QED
    BY <2>2, <2>3
<1> QED
  BY <1>1, <1>4, <1>5, <1>6 DEF ImageSequences, ImageRecords

\* The merge with the images of the status keeps the goal's length; an image is the goal's, or one of
\* the status for the same definition.
LEMMA KeepExistingKeeps ==
    ASSUME NEW st, st.images \in ImageSequences, NEW goal \in ImageSequences
    PROVE  /\ KeepExisting(st, goal) \in ImageSequences
           /\ DOMAIN KeepExisting(st, goal) = DOMAIN goal
           /\ \A i \in DOMAIN goal :
                 \/ /\ ~\E j \in DOMAIN st.images : st.images[j].base = goal[i].base
                    /\ KeepExisting(st, goal)[i] = goal[i]
                 \/ \E j \in DOMAIN st.images :
                       st.images[j].base = goal[i].base /\ KeepExisting(st, goal)[i] = st.images[j]
           /\ goal # <<>> => KeepExisting(st, goal) # <<>>
PROOF
<1> DEFINE kept == KeepExisting(st, goal)
           n == Len(goal)
           Existing(i, j) == st.images[j].base = goal[i].base
           Choice(i) == CHOOSE j \in DOMAIN st.images : Existing(i, j)
           Value(i) == IF \E j \in DOMAIN st.images : Existing(i, j) THEN st.images[Choice(i)] ELSE goal[i]
<1>1. /\ n \in Nat /\ DOMAIN goal = 1..n /\ \A i \in 1..n : goal[i] \in ImageRecords
      /\ \A j \in DOMAIN st.images : st.images[j] \in ImageRecords
  BY LenProperties, ElementOfSeq DEF ImageSequences, ImageRecords
<1>2. kept = [i \in 1..n |-> Value(i)]
  BY <1>1 DEF KeepExisting
<1>3. ASSUME NEW i \in 1..n
      PROVE  \/ (~\E j \in DOMAIN st.images : Existing(i, j)) /\ Value(i) = goal[i]
             \/ \E j \in DOMAIN st.images : Existing(i, j) /\ Value(i) = st.images[j]
  <2>1. CASE \E j \in DOMAIN st.images : Existing(i, j)
    <3>1. Choice(i) \in DOMAIN st.images /\ Existing(i, Choice(i))
      BY <2>1
    <3>2. Value(i) = st.images[Choice(i)]
      BY <2>1
    <3> HIDE DEF Choice
    <3> QED
      BY <3>1, <3>2
  <2>2. CASE ~\E j \in DOMAIN st.images : Existing(i, j)
    BY <2>2
  <2> QED
    BY <2>1, <2>2
<1> HIDE DEF Value
<1>4. \A i \in 1..n : Value(i) \in ImageRecords
  BY <1>1, <1>3
<1>5. kept \in [1..n -> ImageRecords]
  BY <1>2, <1>4
<1>6. kept \in Seq(ImageRecords)
  BY <1>1, <1>5, SeqDef
<1>7. DOMAIN kept = 1..n /\ \A i \in 1..n : kept[i] = Value(i)
  BY <1>2
<1>8. ASSUME goal # <<>> PROVE kept # <<>>
  <2>1. n >= 1
    BY <1>1, <1>8, EmptySeq DEF ImageSequences
  <2>2. 1 \in DOMAIN kept
    BY <1>1, <1>7, <2>1
  <2>3. DOMAIN <<>> = {}
    OBVIOUS
  <2> QED
    BY <2>2, <2>3
<1> QED
  BY <1>1, <1>3, <1>6, <1>7, <1>8 DEF ImageSequences, ImageRecords

-----------------------------------------------------------------------------
(* What the reconcilers return.                                            *)

\* The values of a condition that the sub-reconcilers write.
LEMMA ConditionTypes ==
    True \in Conditions /\ False \in Conditions /\ Unknown \in Conditions /\ Pinned \in Conditions
PROOF BY DEF Conditions, Condition, True, False, Unknown, Pinned

\* A pin that is accepted along with a change of version is of the current version, or rolls back.
PinAccepted(st, sp) == PinsCurrentOrLatest(st, sp) => RecentlyUsed(st, sp)

\* What the Kubernetes version reconciler makes of a status: the version it reports is the pinned one,
\* and a Ready status whose version it changes has its images outdated.
LEMMA KubernetesVersionResult ==
    ASSUME NEW st, WellFormed(st), NEW sp \in Specs, NEW c \in Supported
    PROVE  LET r == KubernetesVersion(st, sp, c) IN
           /\ WellFormed(r)
           /\ r.images = st.images /\ r.latest = st.latest /\ r.recent = st.recent
           /\ r.imagesReady \in {st.imagesReady, False}
           /\ Usable(r.k8sReady) /\ sp.k8s # None => r.k8s = sp.k8s
           /\ ReadyPair(st) # {} /\ r.k8s # st.k8s =>
                 /\ r.imagesReady = False
                 /\ sp.image # None => r.k8s = sp.k8s /\ PinAccepted(st, sp)
PROOF
<1> DEFINE r == KubernetesVersion(st, sp, c)
<1>1. /\ st \in Statuses /\ c \in K8sVersions /\ None \notin K8sVersions
      /\ sp.k8s \in K8sVersions \cup {None} /\ Admitted(sp)
  BY NodeClassAssumption DEF WellFormed, Specs
<1>2. \A k \in K8sVersions : \A o \in BOOLEAN :
         LET p == Publish(st, k, o) IN
         /\ p \in Statuses /\ p.k8s = k /\ p.k8sReady = True /\ p.images = st.images
         /\ p.latest = st.latest /\ p.recent = st.recent
         /\ p.imagesReady = IF o THEN False ELSE st.imagesReady
  BY <1>1, ConditionTypes DEF Publish, Statuses
<1>3. LET p == [st EXCEPT !.k8sReady = False] IN
         /\ p \in Statuses /\ p.k8s = st.k8s /\ p.k8sReady = False /\ p.images = st.images
         /\ p.latest = st.latest /\ p.recent = st.recent /\ p.imagesReady = st.imagesReady
  BY <1>1, ConditionTypes DEF Statuses
<1>4. /\ True.is = "True" /\ False.is = "False" /\ ~False.pinned
  BY DEF True, False, Condition
<1>5. ASSUME r \in Statuses, r.images = st.images, r.imagesReady \in {st.imagesReady, False},
             r.k8sReady.is = "True" => r.k8s # None
      PROVE  WellFormed(r)
  BY <1>4, <1>5 DEF WellFormed
<1> USE DEF Usable
<1>6. CASE sp.k8s # None /\ ~ValidatePinnedK8sVersion(st, sp, c)
  <2>1. r = [st EXCEPT !.k8sReady = False]
    BY <1>6 DEF KubernetesVersion
  <2> HIDE DEF r
  <2> QED
    BY <1>3, <1>4, <1>5, <2>1 DEF r
<1>7. CASE sp.k8s # None /\ ValidatePinnedK8sVersion(st, sp, c)
  <2>1. r = Publish(st, sp.k8s, sp.k8s # st.k8s) /\ sp.k8s \in K8sVersions
    BY <1>1, <1>7 DEF KubernetesVersion
  <2>2. /\ r \in Statuses /\ r.k8s = sp.k8s /\ r.k8sReady = True /\ r.images = st.images
        /\ r.latest = st.latest /\ r.recent = st.recent
        /\ r.imagesReady = IF sp.k8s # st.k8s THEN False ELSE st.imagesReady
    <3> HIDE DEF r
    <3> QED
      BY <1>2, <2>1
  <2>3. ASSUME ReadyPair(st) # {}, sp.k8s # st.k8s PROVE PinAccepted(st, sp)
    <3>1. st.k8s # None
      BY <2>3 DEF ReadyPair, WellFormed
    <3> QED
      BY <1>7, <2>3, <3>1 DEF ValidatePinnedK8sVersion, ValidateCurrentOrLatestImagePin, PinAccepted
  <2> HIDE DEF r
  <2>4. WellFormed(r)
    BY <1>5, <1>7, <2>2
  <2> QED
    BY <2>2, <2>3, <2>4 DEF r
<1>8. CASE sp.k8s = None /\ (st.k8sReady.is # "True" \/ st.k8s = None)
  <2>1. r = Publish(st, c, FALSE)
    BY <1>8 DEF KubernetesVersion
  <2>2. ReadyPair(st) = {}
    BY <1>8 DEF ReadyPair, WellFormed
  <2> HIDE DEF r
  <2>3. /\ r \in Statuses /\ r.k8s = c /\ r.k8sReady = True /\ r.images = st.images
        /\ r.latest = st.latest /\ r.recent = st.recent /\ r.imagesReady = st.imagesReady
    BY <1>1, <1>2, <2>1
  <2>4. WellFormed(r)
    BY <1>1, <1>5, <2>3
  <2> QED
    BY <1>8, <2>2, <2>3, <2>4 DEF r
<1>9. CASE sp.k8s = None /\ st.k8sReady.is = "True" /\ st.k8s # None
  <2>1. r = IF Older(st.k8s, c) THEN Publish(st, c, TRUE) ELSE Publish(st, st.k8s, FALSE)
    BY <1>9 DEF KubernetesVersion
  <2>2. st.k8s \in K8sVersions /\ sp.image = None
    BY <1>1, <1>9 DEF Statuses, Admitted
  <2> HIDE DEF r
  <2>3. CASE Older(st.k8s, c)
    <3>1. /\ r \in Statuses /\ r.k8s = c /\ r.k8sReady = True /\ r.images = st.images
          /\ r.latest = st.latest /\ r.recent = st.recent /\ r.imagesReady = False
      BY <1>1, <1>2, <2>1, <2>3
    <3>2. WellFormed(r)
      BY <1>1, <1>5, <3>1
    <3> QED
      BY <1>9, <2>2, <3>1, <3>2 DEF r
  <2>4. CASE ~Older(st.k8s, c)
    <3>1. /\ r \in Statuses /\ r.k8s = st.k8s /\ r.k8sReady = True /\ r.images = st.images
          /\ r.latest = st.latest /\ r.recent = st.recent /\ r.imagesReady = st.imagesReady
      BY <1>2, <2>1, <2>2, <2>4
    <3>2. WellFormed(r)
      BY <1>5, <1>9, <3>1
    <3> QED
      BY <1>9, <3>1, <3>2 DEF r
  <2> QED
    BY <2>3, <2>4
<1> QED
  BY <1>6, <1>7, <1>8, <1>9

\* What the image reconciler makes of a status with the list at hand: it touches the images only, and
\* a status that was not ready becomes ready with what was listed, or with the pin.
LEMMA UpdateImagesResult ==
    ASSUME NEW st, WellFormed(st), K8sUsable(st), NEW sp \in Specs,
           NEW version \in ImageVersions, NEW open \in BOOLEAN
    PROVE  LET r == UpdateImages(st, sp, version, open)
               suffix == IF sp.image = None THEN version ELSE sp.image
           IN  /\ WellFormed(r)
               /\ r.k8s = st.k8s /\ r.k8sReady = st.k8sReady /\ r.recent = st.recent
               /\ st.imagesReady.is # "True" => ReadyPair(r) \subseteq {Pair(st.k8s, suffix)}
PROOF
<1> DEFINE suffix == IF sp.image = None THEN version ELSE sp.image
           definitions == SupportedImages[sp.selector][st.k8s][version]
           pinned == Images(definitions, suffix)
           goal == IF ShouldUpdate(st, sp) \/ open THEN pinned ELSE KeepExisting(st, pinned)
           none == [st EXCEPT !.images = <<>>, !.imagesReady = False]
           some == [st EXCEPT !.images = goal, !.latest = version,
                              !.imagesReady = IF sp.image = None THEN True ELSE Pinned]
           r == UpdateImages(st, sp, version, open)
<1>1. /\ st \in Statuses /\ st.k8s \in K8sVersions /\ st.images \in ImageSequences
      /\ sp.selector \in Selectors /\ suffix \in ImageVersions
  BY DEF WellFormed, K8sUsable, Statuses, Specs
<1>2. definitions \in Seq(Definitions)
  BY <1>1, NodeClassAssumption
<1>3. r = IF definitions = <<>> THEN none ELSE some
  BY DEF UpdateImages
<1>4. /\ True.is = "True" /\ Pinned.is = "True" /\ False.is = "False" /\ ~False.pinned
  BY DEF True, Pinned, False, Condition
<1> HIDE DEF definitions, r, suffix
<1>5. CASE definitions = <<>>
  <2>1. r = none
    BY <1>3, <1>5
  <2>2. <<>> \in ImageSequences
    BY EmptySeq DEF ImageSequences
  <2>3. /\ r \in Statuses /\ r.images = <<>> /\ r.imagesReady = False
        /\ r.k8s = st.k8s /\ r.k8sReady = st.k8sReady /\ r.recent = st.recent
    BY <1>1, <2>1, <2>2, ConditionTypes DEF Statuses
  <2> QED
    BY <1>4, <2>3 DEF WellFormed, ReadyPair, r, suffix
<1>6. CASE definitions # <<>>
  <2>1. /\ pinned \in ImageSequences /\ pinned # <<>> /\ DOMAIN pinned = DOMAIN definitions
        /\ \A i \in DOMAIN definitions : pinned[i].version = suffix
    BY <1>1, <1>2, <1>6, ImagesAreImages
  <2> HIDE DEF pinned
  <2>2. goal \in ImageSequences /\ goal # <<>>
    BY <1>1, <2>1, KeepExistingKeeps
  <2>3. ASSUME st.imagesReady.is # "True" PROVE goal = pinned
    BY <2>3 DEF ShouldUpdate
  <2> HIDE DEF goal
  <2>4. r = some
    BY <1>3, <1>6
  <2>5. /\ r \in Statuses /\ r.images = goal /\ r.imagesReady \in {True, Pinned}
        /\ r.k8s = st.k8s /\ r.k8sReady = st.k8sReady /\ r.recent = st.recent
    BY <1>1, <2>2, <2>4, ConditionTypes DEF Statuses
  <2>6. WellFormed(r)
    BY <1>4, <2>2, <2>5 DEF WellFormed
  <2>7. 1 \in DOMAIN definitions
    <3>1. Len(definitions) \in Nat \ {0} /\ DOMAIN definitions = 1..Len(definitions)
      BY <1>2, <1>6, EmptySeq, LenProperties
    <3> QED
      BY <3>1
  <2>8. ASSUME st.imagesReady.is # "True" PROVE CurrentImage(r) = suffix
    BY <2>1, <2>3, <2>5, <2>7, <2>8 DEF CurrentImage
  <2>9. ASSUME st.imagesReady.is # "True" PROVE ReadyPair(r) \subseteq {Pair(st.k8s, suffix)}
    BY <2>5, <2>8, <2>9 DEF ReadyPair
  <2> QED
    BY <2>5, <2>6, <2>9 DEF r, suffix
<1> QED
  BY <1>5, <1>6

\* What a custom image makes of a status.
LEMMA CustomImageResult ==
    ASSUME NEW st, WellFormed(st), NEW sp \in Specs, sp.selector \in Custom, NEW found \in BOOLEAN
    PROVE  LET r == CustomImage(st, sp, found) IN
           /\ WellFormed(r)
           /\ r.k8s = st.k8s /\ r.k8sReady = st.k8sReady /\ r.recent = st.recent
           /\ ReadyPair(r) \subseteq {Pair(st.k8s, CustomVersion)} /\ (~found => ReadyPair(r) = {})
           /\ r.imagesReady.is = "True" => r.images = <<[base |-> sp.selector, version |-> CustomVersion]>>
           /\ r.images \in {<<>>, <<[base |-> sp.selector, version |-> CustomVersion]>>}
PROOF
<1> DEFINE image == [base |-> sp.selector, version |-> CustomVersion]
           one == <<image>>
           r == CustomImage(st, sp, found)
<1>1. st \in Statuses /\ one[1] = image /\ one # <<>> /\ DOMAIN one = 1..1
  BY DEF WellFormed
<1>2. CustomVersion \in ImageVersions
  BY NodeClassAssumption DEF CustomVersion, ImageVersions
<1>3. one \in ImageSequences
  <2>1. image \in ImageRecords
    BY <1>2 DEF ImageRecords
  <2>2. one \in Seq(ImageRecords)
    BY <2>1
  <2> QED
    BY <2>2 DEF ImageSequences, ImageRecords
<1>4. <<>> \in ImageSequences
  BY EmptySeq DEF ImageSequences
<1>5. /\ True.is = "True" /\ False.is = "False" /\ ~False.pinned /\ ~True.pinned
  BY DEF True, False, Condition
<1>6. one[1].version = CustomVersion
  OBVIOUS
<1> HIDE DEF one
<1>7. CASE found
  <2>1. r = [st EXCEPT !.images = one, !.latest = None, !.imagesReady = True]
    BY <1>7 DEF CustomImage, one
  <2>2. /\ r \in Statuses /\ r.images = one /\ r.imagesReady = True
        /\ r.k8s = st.k8s /\ r.k8sReady = st.k8sReady /\ r.recent = st.recent
    BY <1>1, <1>3, <2>1, ConditionTypes DEF Statuses
  <2> HIDE DEF r
  <2>3. WellFormed(r)
    BY <1>1, <1>5, <2>2 DEF WellFormed
  <2>4. ReadyPair(r) \subseteq {Pair(st.k8s, CustomVersion)}
    BY <1>1, <1>6, <2>2 DEF ReadyPair, CurrentImage
  <2> QED
    BY <1>7, <2>2, <2>3, <2>4 DEF r, one
<1>8. CASE ~found
  <2>1. r = [st EXCEPT !.images = <<>>, !.latest = None, !.imagesReady = False]
    BY <1>8 DEF CustomImage
  <2>2. /\ r \in Statuses /\ r.images = <<>> /\ r.imagesReady = False
        /\ r.k8s = st.k8s /\ r.k8sReady = st.k8sReady /\ r.recent = st.recent
    BY <1>1, <1>4, <2>1, ConditionTypes DEF Statuses
  <2> HIDE DEF r
  <2> QED
    BY <1>5, <2>2 DEF WellFormed, ReadyPair, r
<1> QED
  BY <1>7, <1>8

-----------------------------------------------------------------------------
(* The inductive invariant of the reconcile and its copy.                  *)

\* While the object is as the reconcile read it, the copy is of this spec. It has the images of the
\* status until the image reconciler has run; and a change of a Ready status' version outdates its
\* images, and is then repaired with what was listed for it or rolled back to.
CopyKnows ==
    pc # "idle" /\ ~conflict =>
        /\ work.spec = spec /\ work.status.recent = status.recent
        /\ pc = "kubernetesVersion" => work.status = status
        /\ pc = "nodeImage" => work.status.images = status.images /\ work.status.latest = status.latest
        /\ ReadyPair(status) # {} /\ work.status.k8s # status.k8s =>
              /\ pc = "nodeImage" =>
                    /\ work.status.imagesReady.is # "True"
                    /\ spec.image # None => work.status.k8s = spec.k8s /\ PinAccepted(status, spec)
              /\ pc = "patch" => ReadyPair(work.status) \subseteq offered \cup {status.recent}

\* Every rollback pair, of the status and of the copy, was Ready; so is what the next one would be.
RecentKnown ==
    /\ ReadyPair(status) \subseteq ready
    /\ status.recent \in ready \cup {None}
    /\ pc # "idle" => work.status.recent \in ready \cup {None}

IInv == TypeOK /\ CopyKnows /\ RecentKnown

Copies == [spec : Specs, status : Statuses]

\* A step of a reconciler replaces the status of the copy.
LEMMA CopyStatus ==
    ASSUME NEW copy \in Copies, NEW st \in Statuses
    PROVE  /\ [copy EXCEPT !.status = st] \in Copies
           /\ [copy EXCEPT !.status = st].status = st
           /\ [copy EXCEPT !.status = st].spec = copy.spec
PROOF BY DEF Copies

\* The patch adds at most the rollback pair, and that one was Ready.
LEMMA SnapshotResult ==
    ASSUME NEW old, WellFormed(old), NEW new, WellFormed(new)
    PROVE  LET r == SnapshotRecentlyUsed(old, new) IN
           /\ WellFormed(r) /\ ReadyPair(r) = ReadyPair(new)
           /\ r.k8s = new.k8s /\ r.images = new.images /\ r.latest = new.latest
           /\ r.k8sReady = new.k8sReady /\ r.imagesReady = new.imagesReady
           /\ r.recent = new.recent \/ r.recent \in ReadyPair(old)
PROOF
<1> DEFINE r == SnapshotRecentlyUsed(old, new)
           moved == /\ ReadyPair(old) # {} /\ old.k8s # None
                    /\ (CurrentImage(new) # CurrentImage(old) \/ new.k8s # old.k8s)
<1>1. old \in Statuses /\ new \in Statuses
  BY DEF WellFormed
<1>2. CASE moved
  <2> DEFINE pair == Pair(old.k8s, CurrentImage(old))
  <2>1. r = [new EXCEPT !.recent = pair]
    BY <1>2 DEF SnapshotRecentlyUsed
  <2>2. old.images # <<>> /\ ReadyPair(old) = {pair}
    BY <1>2 DEF ReadyPair
  <2>3. 1 \in DOMAIN old.images
    <3>1. old.images \in ImageSequences
      BY <1>1 DEF Statuses
    <3>2. Len(old.images) \in Nat \ {0} /\ DOMAIN old.images = 1..Len(old.images)
      BY <2>2, <3>1, EmptySeq, LenProperties DEF ImageSequences
    <3> QED
      BY <3>2
  <2>4. old.images[1] \in ImageRecords
    <3>1. old.images \in Seq(ImageRecords)
      BY <1>1 DEF Statuses, ImageSequences, ImageRecords
    <3> QED
      BY <2>3, <3>1, LenProperties, ElementOfSeq
  <2>5. pair \in K8sVersions \X ImageVersions
    BY <1>1, <1>2, <2>2, <2>4 DEF Pair, CurrentImage, ImageRecords, Statuses
  <2> HIDE DEF pair, r
  <2>6. /\ r \in Statuses /\ r.recent = pair
        /\ r.k8s = new.k8s /\ r.images = new.images /\ r.latest = new.latest
        /\ r.k8sReady = new.k8sReady /\ r.imagesReady = new.imagesReady
    BY <1>1, <2>1, <2>5 DEF Statuses
  <2> QED
    BY <2>2, <2>6 DEF WellFormed, ReadyPair, CurrentImage, r
<1>3. CASE ~moved
  <2>1. r = new
    BY <1>3 DEF SnapshotRecentlyUsed
  <2> QED
    BY <2>1
<1> QED
  BY <1>2, <1>3

\* An edit of the spec only clears the observed flags.
LEMMA EditResult ==
    ASSUME NEW st, WellFormed(st)
    PROVE  LET r == [st EXCEPT !.k8sReady.observed = FALSE, !.imagesReady.observed = FALSE] IN
           /\ WellFormed(r) /\ ReadyPair(r) = ReadyPair(st) /\ ~ImagesUsable(r) /\ ~K8sUsable(r)
           /\ r.images = st.images /\ r.recent = st.recent /\ r.k8s = st.k8s
PROOF
<1> DEFINE r == [st EXCEPT !.k8sReady.observed = FALSE, !.imagesReady.observed = FALSE]
<1>1. st \in Statuses /\ st.k8sReady \in Conditions /\ st.imagesReady \in Conditions
  BY DEF WellFormed, Statuses
<1>2. /\ r \in Statuses /\ r.k8s = st.k8s /\ r.images = st.images /\ r.recent = st.recent
      /\ r.k8sReady = [st.k8sReady EXCEPT !.observed = FALSE]
      /\ r.imagesReady = [st.imagesReady EXCEPT !.observed = FALSE]
  BY <1>1 DEF Statuses, Conditions
<1> HIDE DEF r
<1>3. /\ r.k8sReady.is = st.k8sReady.is /\ ~r.k8sReady.observed
      /\ r.imagesReady.is = st.imagesReady.is /\ ~r.imagesReady.observed
      /\ r.imagesReady.pinned = st.imagesReady.pinned
  BY <1>1, <1>2 DEF Conditions
<1> QED
  BY <1>2, <1>3 DEF WellFormed, ReadyPair, CurrentImage, ImagesUsable, K8sUsable, Usable, r

\* The processes begin with an empty status and no copy.
LEMMA InitInvariant == Init => IInv
PROOF
<1> SUFFICES ASSUME Init PROVE IInv
  OBVIOUS
<1> USE DEF Init
<1>1. NewStatus \in Statuses
  <2>1. <<>> \in ImageSequences
    BY EmptySeq DEF ImageSequences
  <2> QED
    BY <2>1, ConditionTypes DEF NewStatus, Statuses
<1>2. WellFormed(NewStatus) /\ ReadyPair(NewStatus) = {} /\ NewStatus.recent = None
  BY <1>1 DEF WellFormed, NewStatus, Unknown, Condition, ReadyPair
<1>3. spec \in Specs /\ controlPlane \in Supported
  BY NodeClassAssumption
<1>4. gallery \in ImageVersions /\ disturbances \in 0..MaxDisturbances
  BY NodeClassAssumption DEF ImageVersions
<1>5. listed \in [Selectors \X K8sVersions -> ImageVersions \cup {None}]
  OBVIOUS
<1> QED
  BY <1>2, <1>3, <1>4, <1>5 DEF IInv, TypeOK, CopyKnows, RecentKnown

-----------------------------------------------------------------------------
(* Every step preserves it. The reconcile first.                           *)

\* The start of a reconcile preserves the inductive invariant.
LEMMA BeginInvariant == IInv /\ Begin => IInv'
PROOF
<1> SUFFICES ASSUME IInv, Begin PROVE IInv'
  OBVIOUS
<1> USE DEF environment, history
<1>1. /\ TypeOK /\ RecentKnown /\ pc' = "kubernetesVersion" /\ work' = [spec |-> spec, status |-> status]
      /\ conflict' = FALSE
      /\ UNCHANGED <<spec, status, listed, environment, node, disturbances, history, undisturbed>>
  BY DEF IInv, Begin
<1>2. /\ work'.spec = spec /\ work'.status = status /\ status \in Statuses /\ spec \in Specs
  BY <1>1 DEF TypeOK, WellFormed
<1>3. work' \in Copies
  BY <1>1, <1>2 DEF Copies
<1>4. TypeOK'
  BY <1>1, <1>2, <1>3 DEF TypeOK, Copies, WellFormed
<1>5. CopyKnows'
  BY <1>1, <1>2 DEF CopyKnows
<1>6. RecentKnown'
  BY <1>1, <1>2 DEF RecentKnown, ReadyPair, CurrentImage
<1> QED
  BY <1>4, <1>5, <1>6 DEF IInv

\* The Kubernetes version sub-reconciler preserves it.
LEMMA KubernetesVersionInvariant ==
    ASSUME IInv, NEW fails \in BOOLEAN, ReconcileKubernetesVersion(fails)
    PROVE  IInv'
PROOF
<1> USE DEF environment, history
<1>1. /\ TypeOK /\ CopyKnows /\ RecentKnown /\ pc = "kubernetesVersion" /\ pc' = "nodeImage"
      /\ UNCHANGED <<spec, status, conflict, listed, environment, node, history, undisturbed>>
  BY DEF IInv, ReconcileKubernetesVersion
<1>2. work \in Copies /\ WellFormed(work.status) /\ controlPlane \in Supported
  BY <1>1 DEF TypeOK, Copies
<1>3. disturbances' \in 0..MaxDisturbances
  BY <1>1, NodeClassAssumption DEF TypeOK, ReconcileKubernetesVersion
<1>4. CASE fails
  <2>1. work' = work
    BY <1>4 DEF ReconcileKubernetesVersion
  <2>2. TypeOK'
    BY <1>1, <1>2, <1>3, <2>1 DEF TypeOK, Copies, WellFormed
  <2>3. CopyKnows'
    BY <1>1, <2>1 DEF CopyKnows
  <2>4. RecentKnown'
    BY <1>1, <2>1 DEF RecentKnown, ReadyPair, CurrentImage
  <2> QED
    BY <2>2, <2>3, <2>4 DEF IInv
<1>5. CASE ~fails
  <2> DEFINE st == work.status
             r == KubernetesVersion(st, work.spec, controlPlane)
  <2>1. work.spec \in Specs
    BY <1>2 DEF Copies
  <2>2. /\ WellFormed(r)
        /\ r.images = st.images /\ r.latest = st.latest /\ r.recent = st.recent
        /\ ReadyPair(st) # {} /\ r.k8s # st.k8s =>
              /\ r.imagesReady = False
              /\ work.spec.image # None => r.k8s = work.spec.k8s /\ PinAccepted(st, work.spec)
    BY <1>2, <2>1, KubernetesVersionResult
  <2>3. work' = [work EXCEPT !.status = r]
    BY <1>5 DEF ReconcileKubernetesVersion
  <2> HIDE DEF r
  <2>4. work' \in Copies /\ work'.status = r /\ work'.spec = work.spec
    BY <1>2, <2>2, <2>3, CopyStatus DEF WellFormed
  <2>5. TypeOK'
    <3>1. WellFormed(work'.status)
      BY <2>2, <2>4
    <3>2. WellFormed(status)'
      BY <1>1 DEF TypeOK, WellFormed
    <3>3. (IF pc = "idle" THEN work = None ELSE work \in [spec : Specs, status : Statuses] /\ WellFormed(work.status))'
      BY <1>1, <2>4, <3>1 DEF Copies
    <3> QED
      BY <1>1, <1>3, <3>2, <3>3 DEF TypeOK
  <2>6. CopyKnows'
    <3> SUFFICES ASSUME ~conflict
                 PROVE  /\ work'.spec = spec /\ work'.status.recent = status.recent
                        /\ work'.status.images = status.images /\ work'.status.latest = status.latest
                        /\ ReadyPair(status) # {} /\ work'.status.k8s # status.k8s =>
                              /\ work'.status.imagesReady.is # "True"
                              /\ spec.image # None => work'.status.k8s = spec.k8s /\ PinAccepted(status, spec)
      BY <1>1 DEF CopyKnows, ReadyPair, CurrentImage, PinAccepted, PinsCurrentOrLatest, RecentlyUsed
    <3>1. work.spec = spec /\ st = status
      BY <1>1 DEF CopyKnows
    <3>2. False.is # "True"
      BY DEF False, Condition
    <3> QED
      BY <2>2, <2>4, <3>1, <3>2
  <2>7. RecentKnown'
    BY <1>1, <2>2, <2>4 DEF RecentKnown, ReadyPair, CurrentImage
  <2> QED
    BY <2>5, <2>6, <2>7 DEF IInv
<1> QED
  BY <1>4, <1>5

\* What every way out of the image reconciler has to show.
LEMMA ImageStep ==
    ASSUME IInv, pc = "nodeImage", pc' = "patch",
           UNCHANGED <<spec, status, conflict, environment, node, ready, undisturbed>>,
           listed' \in [Selectors \X K8sVersions -> ImageVersions \cup {None}],
           disturbances' \in 0..MaxDisturbances,
           work' \in Copies, work'.spec = work.spec, WellFormed(work'.status),
           work'.status.recent = work.status.recent,
           ~conflict /\ ReadyPair(status) # {} /\ work'.status.k8s # status.k8s =>
                 ReadyPair(work'.status) \subseteq offered' \cup {status.recent}
    PROVE  IInv'
PROOF
<1> USE DEF environment
<1>1. TypeOK /\ CopyKnows /\ RecentKnown
  BY DEF IInv
<1>2. TypeOK'
  <2>1. WellFormed(status)'
    BY <1>1 DEF TypeOK, WellFormed
  <2>2. (IF pc = "idle" THEN work = None ELSE work \in [spec : Specs, status : Statuses] /\ WellFormed(work.status))'
    BY DEF Copies
  <2> QED
    BY <1>1, <2>1, <2>2 DEF TypeOK
<1>3. CopyKnows'
  BY <1>1 DEF CopyKnows, ReadyPair, CurrentImage
<1>4. RecentKnown'
  BY <1>1 DEF RecentKnown, ReadyPair, CurrentImage
<1> QED
  BY <1>2, <1>3, <1>4 DEF IInv

\* A refused image reconcile preserves it.
LEMMA RefuseInvariant == IInv /\ RefuseImages => IInv'
PROOF
<1> SUFFICES ASSUME IInv, RefuseImages PROVE IInv'
  OBVIOUS
<1> USE DEF environment, history
<1> DEFINE st == work.status
           cleared == [st EXCEPT !.images = <<>>, !.imagesReady = False]
           unready == [st EXCEPT !.imagesReady = False]
           r == work'.status
<1>1. /\ pc = "nodeImage" /\ pc' = "patch"
      /\ UNCHANGED <<spec, status, conflict, listed, environment, node, disturbances, history, undisturbed>>
      /\ \/ work' = [work EXCEPT !.status = cleared]
         \/ work' = [work EXCEPT !.status = unready]
         \/ work' = [work EXCEPT !.status = st]
  BY DEF RefuseImages, ImagesAfterRefusal
<1>2. /\ TypeOK /\ CopyKnows /\ work \in Copies /\ WellFormed(st) /\ st \in Statuses
  BY <1>1 DEF IInv, TypeOK, Copies, WellFormed
<1>3. <<>> \in ImageSequences /\ False.is = "False" /\ ~False.pinned
  BY EmptySeq DEF ImageSequences, False, Condition
<1>4. /\ cleared \in Statuses /\ cleared.images = <<>> /\ cleared.imagesReady = False
      /\ cleared.k8s = st.k8s /\ cleared.k8sReady = st.k8sReady /\ cleared.recent = st.recent
  BY <1>2, <1>3, ConditionTypes DEF Statuses
<1>5. /\ unready \in Statuses /\ unready.images = st.images /\ unready.imagesReady = False
      /\ unready.k8s = st.k8s /\ unready.k8sReady = st.k8sReady /\ unready.recent = st.recent
  BY <1>2, ConditionTypes DEF Statuses
<1>6. WellFormed(cleared) /\ WellFormed(unready)
  BY <1>2, <1>3, <1>4, <1>5 DEF WellFormed
<1>7. /\ work' \in Copies /\ work'.spec = work.spec /\ r \in {cleared, unready, st}
  <2> HIDE DEF cleared, unready
  <2> QED
    BY <1>1, <1>2, <1>4, <1>5, CopyStatus
<1> HIDE DEF cleared, unready
<1>8. WellFormed(r) /\ r.recent = st.recent /\ r.k8s = st.k8s /\ (r.imagesReady = st.imagesReady \/ r.imagesReady.is = "False")
  BY <1>2, <1>3, <1>4, <1>5, <1>6, <1>7
<1>9. ASSUME ~conflict, ReadyPair(status) # {}, r.k8s # status.k8s
      PROVE  ReadyPair(r) \subseteq offered' \cup {status.recent}
  <2>1. st.imagesReady.is # "True"
    BY <1>1, <1>2, <1>8, <1>9 DEF CopyKnows
  <2> QED
    BY <1>8, <2>1 DEF ReadyPair
<1> QED
  BY <1>1, <1>2, <1>7, <1>8, <1>9, ImageStep DEF TypeOK

\* The custom image of a NodeClass preserves it.
LEMMA CustomImageInvariant ==
    ASSUME IInv, NEW fails \in BOOLEAN, ReconcileCustomImage(fails)
    PROVE  IInv'
PROOF
<1> USE DEF environment, history
<1> DEFINE st == work.status
           found == ~fails /\ K8sUsable(st)
           r == CustomImage(st, work.spec, found)
<1>1. /\ pc = "nodeImage" /\ pc' = "patch" /\ work.spec.selector \in Custom
      /\ UNCHANGED <<spec, status, conflict, listed, environment, node, ready, undisturbed>>
      /\ work' = [work EXCEPT !.status = r]
      /\ offered' = IF found THEN offered \cup {Pair(st.k8s, CustomVersion)} ELSE offered
  BY DEF ReconcileCustomImage
<1>2. /\ TypeOK /\ work \in Copies /\ WellFormed(st) /\ work.spec \in Specs
  BY <1>1 DEF IInv, TypeOK, Copies
<1>3. disturbances' \in 0..MaxDisturbances
  BY <1>2, NodeClassAssumption DEF TypeOK, ReconcileCustomImage
<1>4. found \in BOOLEAN
  BY <1>2 DEF K8sUsable, Usable, WellFormed, Statuses, Conditions
<1>5. /\ WellFormed(r) /\ r.recent = st.recent /\ r.k8s = st.k8s
      /\ ReadyPair(r) \subseteq {Pair(st.k8s, CustomVersion)} /\ (~found => ReadyPair(r) = {})
  BY <1>1, <1>2, <1>4, CustomImageResult
<1> HIDE DEF r, found
<1>6. work' \in Copies /\ work'.status = r /\ work'.spec = work.spec
  BY <1>1, <1>2, <1>5, CopyStatus DEF WellFormed
<1>7. ReadyPair(r) \subseteq offered'
  BY <1>1, <1>5
<1> QED
  BY <1>1, <1>2, <1>3, <1>5, <1>6, <1>7, ImageStep DEF TypeOK

\* A failed image listing preserves it.
LEMMA ListFailsInvariant == IInv /\ ListFails => IInv'
PROOF
<1> SUFFICES ASSUME IInv, ListFails PROVE IInv'
  OBVIOUS
<1> USE DEF environment, history
<1>1. /\ TypeOK /\ CopyKnows /\ pc = "nodeImage" /\ pc' = "patch"
      /\ UNCHANGED <<spec, status, work, conflict, listed, environment, node, history, undisturbed>>
  BY DEF IInv, ListFails
<1>2. work \in Copies /\ WellFormed(work.status)
  BY <1>1 DEF TypeOK, Copies
<1>3. disturbances' \in 0..MaxDisturbances
  BY <1>1, NodeClassAssumption DEF TypeOK, ListFails
<1>4. ASSUME ~conflict, ReadyPair(status) # {}, work.status.k8s # status.k8s
      PROVE  ReadyPair(work.status) \subseteq offered' \cup {status.recent}
  BY <1>1, <1>4 DEF CopyKnows, ReadyPair
<1>5. WellFormed(work'.status) /\ work' = work
  BY <1>1, <1>2
<1> QED
  BY <1>1, <1>2, <1>3, <1>4, <1>5, ImageStep DEF TypeOK

\* An image reconcile that lists its images preserves it.
LEMMA ImagesInvariant ==
    ASSUME IInv, NEW windowFails \in BOOLEAN, ReconcileImages(windowFails)
    PROVE  IInv'
PROOF
<1> USE DEF environment, history
<1> DEFINE st == work.status
           sp == work.spec
           version == ListedVersion(st, sp)
           r == UpdateImages(st, sp, version, window = "open")
<1>1. /\ pc = "nodeImage" /\ pc' = "patch" /\ PassesValidation /\ K8sUsable(st)
      /\ UNCHANGED <<spec, status, conflict, environment, node, ready, undisturbed>>
      /\ listed' = [listed EXCEPT ![ListKey(st, sp)] = version]
      /\ offered' = offered \cup {Pair(st.k8s, version)}
      /\ work' = IF windowFails THEN work ELSE [work EXCEPT !.status = r]
  BY DEF ReconcileImages
<1>2. /\ TypeOK /\ CopyKnows /\ work \in Copies /\ WellFormed(st) /\ sp \in Specs
  BY <1>1 DEF IInv, TypeOK, Copies
<1>3. disturbances' \in 0..MaxDisturbances
  BY <1>2, NodeClassAssumption DEF TypeOK, ReconcileImages
<1>4. ListKey(st, sp) \in Selectors \X K8sVersions
  BY <1>1, <1>2 DEF ListKey, K8sUsable, WellFormed, Statuses, Specs
<1>5. version \in ImageVersions
  BY <1>2, <1>4 DEF ListedVersion, TypeOK
<1> HIDE DEF version
<1>6. listed' \in [Selectors \X K8sVersions -> ImageVersions \cup {None}]
  BY <1>1, <1>2, <1>4, <1>5 DEF TypeOK
<1>7. CASE windowFails
  <2>1. ASSUME ~conflict, ReadyPair(status) # {}, st.k8s # status.k8s
        PROVE  ReadyPair(st) \subseteq offered' \cup {status.recent}
    BY <1>1, <1>2, <2>1 DEF CopyKnows, ReadyPair
  <2>2. work' = work /\ WellFormed(work'.status)
    BY <1>1, <1>2, <1>7
  <2> QED
    BY <1>1, <1>2, <1>3, <1>6, <2>1, <2>2, ImageStep
<1>8. CASE ~windowFails
  <2> DEFINE suffix == IF sp.image = None THEN version ELSE sp.image
  <2>1. /\ WellFormed(r) /\ r.k8s = st.k8s /\ r.recent = st.recent
        /\ st.imagesReady.is # "True" => ReadyPair(r) \subseteq {Pair(st.k8s, suffix)}
    BY <1>1, <1>2, <1>5, UpdateImagesResult
  <2> HIDE DEF r
  <2>2. work' \in Copies /\ work'.status = r /\ work'.spec = sp
    BY <1>1, <1>2, <1>8, <2>1, CopyStatus DEF WellFormed
  <2>3. ASSUME ~conflict, ReadyPair(status) # {}, r.k8s # status.k8s
        PROVE  ReadyPair(r) \subseteq offered' \cup {status.recent}
    <3>1. /\ sp = spec /\ st.recent = status.recent /\ st.images = status.images /\ st.latest = status.latest
          /\ st.imagesReady.is # "True"
          /\ spec.image # None => st.k8s = spec.k8s /\ PinAccepted(status, spec)
      BY <1>1, <1>2, <2>1, <2>3 DEF CopyKnows
    <3>2. ASSUME spec.image # None PROVE Pair(st.k8s, spec.image) = status.recent
      <4>1. PinsCurrentOrLatest(st, spec) <=> PinsCurrentOrLatest(status, spec)
        BY <3>1 DEF PinsCurrentOrLatest, CurrentImage
      <4>2. RecentlyUsed(st, spec) <=> RecentlyUsed(status, spec)
        BY <3>1 DEF RecentlyUsed
      <4>3. RecentlyUsed(status, spec)
        BY <1>1, <3>1, <3>2, <4>1, <4>2 DEF PassesValidation, ValidatePinning, PinAccepted
      <4> QED
        BY <3>1, <3>2, <4>3 DEF RecentlyUsed
    <3> QED
      BY <1>1, <2>1, <3>1, <3>2
  <2> QED
    BY <1>1, <1>2, <1>3, <1>6, <2>1, <2>2, <2>3, ImageStep
<1> QED
  BY <1>7, <1>8

\* The status patch preserves it.
LEMMA PatchInvariant == IInv /\ Patch => IInv'
PROOF
<1> SUFFICES ASSUME IInv, Patch PROVE IInv'
  OBVIOUS
<1> USE DEF environment
<1> DEFINE r == SnapshotRecentlyUsed(status, work.status)
<1>1. /\ pc = "patch" /\ pc' = "idle" /\ work' = None /\ conflict' = FALSE
      /\ status' = status \/ status' = r
      /\ ready' = ready \cup ReadyPair(status')
      /\ UNCHANGED <<spec, listed, environment, node, disturbances, offered, undisturbed>>
  BY DEF Patch
<1>2. /\ TypeOK /\ RecentKnown /\ WellFormed(status) /\ WellFormed(work.status)
  BY <1>1 DEF IInv, TypeOK
<1>3. WellFormed(r) /\ (r.recent = work.status.recent \/ r.recent \in ReadyPair(status))
  BY <1>2, SnapshotResult
<1> HIDE DEF r
<1>4. WellFormed(status')
  BY <1>1, <1>2, <1>3
<1>5. TypeOK'
  <2>1. WellFormed(status)'
    BY <1>4 DEF WellFormed
  <2> QED
    BY <1>1, <1>2, <2>1 DEF TypeOK
<1>6. CopyKnows'
  BY <1>1 DEF CopyKnows
<1>7. RecentKnown'
  <2>1. status'.recent \in ready \cup {None}
    BY <1>1, <1>2, <1>3 DEF RecentKnown
  <2>2. ReadyPair(status)' = ReadyPair(status')
    BY DEF ReadyPair, CurrentImage
  <2> QED
    BY <1>1, <2>1, <2>2 DEF RecentKnown
<1> QED
  BY <1>5, <1>6, <1>7 DEF IInv

(* Restarts, launches, users, Azure and time.                              *)

\* A restart of the process preserves it.
LEMMA RestartInvariant == IInv /\ Restart => IInv'
PROOF
<1> SUFFICES ASSUME IInv, Restart PROVE IInv'
  OBVIOUS
<1> USE DEF environment, history
<1>1. /\ TypeOK /\ RecentKnown /\ pc' = "idle" /\ work' = None /\ conflict' = FALSE
      /\ listed' = [key \in DOMAIN listed |-> None]
      /\ UNCHANGED <<spec, status, environment, node, history, undisturbed>>
  BY DEF IInv, Restart
<1>2. disturbances' \in 0..MaxDisturbances
  BY <1>1, NodeClassAssumption DEF TypeOK, Restart
<1>3. listed' \in [Selectors \X K8sVersions -> ImageVersions \cup {None}]
  BY <1>1 DEF TypeOK
<1>4. WellFormed(status)'
  BY <1>1 DEF TypeOK, WellFormed
<1> QED
  BY <1>1, <1>2, <1>3, <1>4 DEF IInv, TypeOK, CopyKnows, RecentKnown, ReadyPair, CurrentImage

\* An edit of the NodeClass preserves it.
LEMMA EditInvariant == ASSUME IInv, NEW sp \in Requests, EditSpec(sp) PROVE IInv'
PROOF
<1> USE DEF environment, history
<1>1. /\ TypeOK /\ RecentKnown /\ spec' = sp /\ conflict' = (pc # "idle") /\ undisturbed' = FALSE
      /\ status' = [status EXCEPT !.k8sReady.observed = FALSE, !.imagesReady.observed = FALSE]
      /\ UNCHANGED <<pc, work, listed, environment, node, history>>
  BY DEF IInv, EditSpec
<1>2. disturbances' \in 0..MaxDisturbances
  BY <1>1, NodeClassAssumption DEF TypeOK, EditSpec
<1>3. sp \in Specs /\ WellFormed(status)
  BY <1>1, NodeClassAssumption DEF TypeOK
<1>4. WellFormed(status') /\ ReadyPair(status') = ReadyPair(status) /\ status'.recent = status.recent
  BY <1>1, <1>3, EditResult
<1>5. TypeOK'
  <2>1. WellFormed(status)'
    BY <1>4 DEF WellFormed
  <2>2. (IF pc = "idle" THEN work = None ELSE work \in [spec : Specs, status : Statuses] /\ WellFormed(work.status))'
    BY <1>1 DEF TypeOK, WellFormed
  <2> QED
    BY <1>1, <1>2, <1>3, <2>1, <2>2 DEF TypeOK
<1>6. CopyKnows'
  BY <1>1 DEF CopyKnows
<1>7. RecentKnown'
  <2>1. ReadyPair(status)' = ReadyPair(status')
    BY DEF ReadyPair, CurrentImage
  <2> QED
    BY <1>1, <1>4, <2>1 DEF RecentKnown
<1> QED
  BY <1>5, <1>6, <1>7 DEF IInv

\* The other steps touch neither the object nor the copy.
LEMMA ElsewhereInvariant ==
    ASSUME IInv, UNCHANGED <<spec, status, pc, work, conflict, history>>,
           listed' \in [Selectors \X K8sVersions -> ImageVersions \cup {None}],
           controlPlane' \in Supported, gallery' \in ImageVersions, window' \in {"open", "closed"},
           disturbances' \in 0..MaxDisturbances, undisturbed' \in BOOLEAN
    PROVE  IInv'
PROOF
<1> USE DEF history
<1>1. TypeOK /\ CopyKnows /\ RecentKnown
  BY DEF IInv
<1>2. TypeOK'
  BY <1>1 DEF TypeOK, WellFormed
<1>3. CopyKnows'
  BY <1>1 DEF CopyKnows, ReadyPair, CurrentImage, PinAccepted, PinsCurrentOrLatest, RecentlyUsed
<1>4. RecentKnown'
  BY <1>1 DEF RecentKnown, ReadyPair, CurrentImage
<1> QED
  BY <1>2, <1>3, <1>4 DEF IInv

\* A node launched from the status preserves it.
LEMMA LaunchInvariant == IInv /\ Launch => IInv'
PROOF
<1> SUFFICES ASSUME IInv, Launch PROVE IInv'
  OBVIOUS
<1> USE DEF environment, history
<1>1. /\ TypeOK /\ UNCHANGED <<spec, status, pc, work, conflict, listed, environment, disturbances, history>>
      /\ undisturbed' \in BOOLEAN
  BY DEF IInv, Launch
<1> QED
  BY <1>1, ElsewhereInvariant DEF TypeOK

\* The steps of Azure and the maintenance window preserve it.
LEMMA EnvironmentInvariant ==
    ASSUME IInv,
           \/ \E v \in Supported : UpgradeControlPlane(v)
           \/ ReleaseImages \/ MoveWindow
           \/ \E key \in DOMAIN listed : ExpireList(key)
    PROVE  IInv'
PROOF
<1> USE DEF environment, history
<1>1. TypeOK
  BY DEF IInv
<1>2. ASSUME NEW v \in Supported, UpgradeControlPlane(v) PROVE IInv'
  <2>1. disturbances' \in 0..MaxDisturbances
    BY <1>1, <1>2, NodeClassAssumption DEF TypeOK, UpgradeControlPlane
  <2> QED
    BY <1>1, <1>2, <2>1, ElsewhereInvariant DEF TypeOK, UpgradeControlPlane
<1>3. CASE ReleaseImages
  <2>1. gallery' \in ImageVersions
    BY <1>1, <1>3, NodeClassAssumption DEF TypeOK, ReleaseImages, ImageVersions
  <2> QED
    BY <1>1, <1>3, <2>1, ElsewhereInvariant DEF TypeOK, ReleaseImages
<1>4. CASE MoveWindow
  BY <1>1, <1>4, ElsewhereInvariant DEF TypeOK, MoveWindow
<1>5. ASSUME NEW key \in DOMAIN listed, ExpireList(key) PROVE IInv'
  <2>1. listed' \in [Selectors \X K8sVersions -> ImageVersions \cup {None}]
    BY <1>1, <1>5 DEF TypeOK, ExpireList
  <2> QED
    BY <1>1, <1>5, <2>1, ElsewhereInvariant DEF TypeOK, ExpireList
<1> QED
  BY <1>2, <1>3, <1>4, <1>5

\* Every step preserves the inductive invariant.
LEMMA NextInvariant == IInv /\ [Next]_vars => IInv'
PROOF
<1> SUFFICES ASSUME IInv, [Next]_vars PROVE IInv'
  OBVIOUS
<1>1. CASE Begin
  BY <1>1, BeginInvariant
<1>2. CASE Patch
  BY <1>2, PatchInvariant
<1>3. ASSUME NEW fails \in BOOLEAN, ReconcileKubernetesVersion(fails) PROVE IInv'
  BY <1>3, KubernetesVersionInvariant
<1>4. ASSUME NEW fails \in BOOLEAN, ReconcileCustomImage(fails) PROVE IInv'
  BY <1>4, CustomImageInvariant
<1>5. CASE RefuseImages
  BY <1>5, RefuseInvariant
<1>6. CASE ListFails
  BY <1>6, ListFailsInvariant
<1>7. ASSUME NEW fails \in BOOLEAN, ReconcileImages(fails) PROVE IInv'
  BY <1>7, ImagesInvariant
<1>8. CASE Restart
  BY <1>8, RestartInvariant
<1>9. CASE Launch
  BY <1>9, LaunchInvariant
<1>10. ASSUME NEW sp \in Requests, EditSpec(sp) PROVE IInv'
  BY <1>10, EditInvariant
<1>11. CASE \/ \E v \in Supported : UpgradeControlPlane(v)
            \/ ReleaseImages \/ MoveWindow
            \/ \E key \in DOMAIN listed : ExpireList(key)
  BY <1>11, EnvironmentInvariant
<1>12. CASE UNCHANGED vars
  <2>1. TypeOK /\ UNCHANGED <<spec, status, pc, work, conflict, history, listed, controlPlane, gallery,
                              window, disturbances, undisturbed>>
    BY <1>12 DEF IInv, vars, environment, history
  <2> QED
    BY <2>1, ElsewhereInvariant DEF TypeOK
<1> QED
  BY <1>1, <1>2, <1>3, <1>4, <1>5, <1>6, <1>7, <1>8, <1>9, <1>10, <1>11, <1>12 DEF Next, Reconcile

\* The inductive invariant holds in every reachable state.
THEOREM InvariantHolds == Spec => []IInv
PROOF BY InitInvariant, NextInvariant, PTL DEF Spec

\* Every variable of the status controller has its type, and a True condition in the status or in the
\* copy has the value it speaks of.
THEOREM TypeCorrect == Spec => []TypeOK
PROOF
<1>1. IInv => TypeOK
  BY DEF IInv
<1> QED
  BY <1>1, InvariantHolds, PTL

\* snapshotRecentlyUsed: the rollback pair in the status was Ready in the API server.
THEOREM RecentPairCorrect == Spec => []RecentPairWasReady
PROOF
<1>1. IInv => RecentPairWasReady
  BY DEF IInv, RecentKnown, RecentPairWasReady
<1> QED
  BY <1>1, InvariantHolds, PTL

\* A Ready NodeClass that changes its Kubernetes version is Ready again only with images listed for the
\* new version, or with the pair it rolls back to.
THEOREM NewVersionCorrect == Spec => NewVersionBringsItsImages
PROOF
<1> DEFINE Step == ReadyPair(status) # {} /\ status'.k8s # status.k8s => ListedOrRolledBack(ReadyPair(status'))
<1>1. IInv /\ [Next]_vars => [Step]_vars
  <2> SUFFICES ASSUME IInv, Next, ReadyPair(status) # {}, status'.k8s # status.k8s
               PROVE  ListedOrRolledBack(ReadyPair(status'))
    OBVIOUS
  <2>1. TypeOK /\ CopyKnows /\ WellFormed(status)
    BY DEF IInv, TypeOK
  <2>2. CASE Patch
    <3> DEFINE r == SnapshotRecentlyUsed(status, work.status)
    <3>1. /\ pc = "patch" /\ UNCHANGED offered /\ ~conflict /\ status' = r
      BY <2>2 DEF Patch
    <3>2. WellFormed(work.status)
      BY <2>1, <3>1 DEF TypeOK
    <3>3. r.k8s = work.status.k8s /\ ReadyPair(r) = ReadyPair(work.status)
      BY <2>1, <3>2, SnapshotResult
    <3> HIDE DEF r
    <3>4. ReadyPair(work.status) \subseteq offered \cup {status.recent}
      BY <2>1, <3>1, <3>3 DEF CopyKnows
    <3> QED
      BY <3>1, <3>3, <3>4 DEF ListedOrRolledBack
  <2>3. ASSUME NEW sp \in Requests, EditSpec(sp) PROVE FALSE
    <3>1. status'.k8s = status.k8s
      BY <2>1, <2>3, EditResult DEF EditSpec
    <3> QED
      BY <3>1
  <2>4. CASE /\ ~Patch /\ ~\E sp \in Requests : EditSpec(sp)
    <3>1. UNCHANGED status
      BY <2>4 DEF Next, Reconcile, Begin, ReconcileKubernetesVersion, ReconcileCustomImage, RefuseImages,
         ListFails, ReconcileImages, Restart, Launch, UpgradeControlPlane, ReleaseImages, MoveWindow, ExpireList
    <3> QED
      BY <3>1
  <2> QED
    BY <2>2, <2>3, <2>4
<1>2. Spec => [][Step]_vars
  BY <1>1, InvariantHolds, PTL DEF Spec
<1> QED
  BY <1>2 DEF NewVersionBringsItsImages

-----------------------------------------------------------------------------
(* Pins. A status is sound for a spec if what it claims for this spec's    *)
(* generation is so.                                                       *)

Bases(images) == {images[i].base : i \in DOMAIN images}
CustomImages(sp) == <<[base |-> sp.selector, version |-> CustomVersion]>>
Bundles == Lists \cup {{c} : c \in Custom}

\* The images of a status are one list at one version.
Whole(st) ==
    st.images = <<>> \/ (Bases(st.images) \in Bundles /\ \E v \in ImageVersions : \A i \in DOMAIN st.images : st.images[i].version = v)

\* Images that are ready for the spec are those of its selector and its Kubernetes version, at the
\* pin if there is one. Without a pin the Kubernetes version is ready with them.
ImagesFit(st, sp) ==
    /\ sp.image # None => \A i \in DOMAIN st.images : st.images[i].version = sp.image
    /\ st.imagesReady.pinned => sp.image # None
    /\ sp.k8s = None => st.k8sReady.is = "True"
    /\ sp.selector \notin FIPSWithoutSIG
    /\ IF sp.selector \in Custom
       THEN st.images = CustomImages(sp)
       ELSE \E v \in ImageVersions : Bases(st.images) = Elements(SupportedImages[sp.selector][st.k8s][v])

Sound(st, sp) ==
    /\ Usable(st.k8sReady) /\ sp.k8s # None => st.k8s = sp.k8s
    /\ Whole(st)
    /\ ImagesUsable(st) => ImagesFit(st, sp)

\* Two lists that share an image definition are the same.
LEMMA BundlesApart ==
    ASSUME WholeReleases, NEW a \in Bundles, NEW b \in Bundles, a \cap b # {}
    PROVE  a = b
PROOF BY DEF WholeReleases, Bundles, Definitions

\* The Kubernetes version sub-reconciler leaves a sound status.
LEMMA KubernetesVersionSound ==
    ASSUME NEW st, WellFormed(st), NEW sp \in Specs, NEW c \in Supported, Sound(st, sp)
    PROVE  Sound(KubernetesVersion(st, sp, c), sp)
PROOF
<1> DEFINE r == KubernetesVersion(st, sp, c)
<1>1. /\ WellFormed(r) /\ r.images = st.images
      /\ r.imagesReady \in {st.imagesReady, False}
      /\ Usable(r.k8sReady) /\ sp.k8s # None => r.k8s = sp.k8s
  BY KubernetesVersionResult
<1>2. Whole(r)
  BY <1>1 DEF Sound, Whole
<1>3. ASSUME ImagesUsable(r) PROVE ImagesFit(r, sp)
  <2>1. /\ r.imagesReady = st.imagesReady /\ ImagesUsable(st) /\ ImagesFit(st, sp) /\ st \in Statuses
        /\ True.is = "True" /\ False.is # "True"
    BY <1>1, <1>3 DEF ImagesUsable, Usable, Sound, False, True, Condition, WellFormed
  <2>2. st.imagesReady # False /\ st.imagesReady.is = "True"
    BY <2>1 DEF ImagesUsable, Usable
  <2>3. r.k8s = st.k8s /\ (sp.k8s = None => r.k8sReady.is = "True")
    <3> USE DEF Publish, Statuses
    <3>1. CASE sp.k8s # None /\ ~ValidatePinnedK8sVersion(st, sp, c)
      <4>1. r = [st EXCEPT !.k8sReady = False]
        BY <3>1 DEF KubernetesVersion
      <4> QED
        BY <2>1, <3>1, <4>1
    <3>2. CASE sp.k8s # None /\ ValidatePinnedK8sVersion(st, sp, c)
      <4>1. r = Publish(st, sp.k8s, sp.k8s # st.k8s)
        BY <3>2 DEF KubernetesVersion
      <4>2. CASE sp.k8s # st.k8s
        <5>1. r.imagesReady = False
          BY <2>1, <4>1, <4>2
        <5> QED
          BY <2>1, <2>2, <5>1
      <4>3. CASE sp.k8s = st.k8s
        BY <2>1, <3>2, <4>1, <4>3
      <4> QED
        BY <4>2, <4>3
    <3>3. CASE sp.k8s = None
      <4>1. st.k8sReady.is = "True" /\ st.k8s # None
        BY <2>1, <3>3 DEF ImagesFit, WellFormed
      <4>2. r = IF Older(st.k8s, c) THEN Publish(st, c, TRUE) ELSE Publish(st, st.k8s, FALSE)
        BY <3>3, <4>1 DEF KubernetesVersion
      <4>3. ~Older(st.k8s, c)
        <5> SUFFICES ASSUME Older(st.k8s, c) PROVE FALSE
          OBVIOUS
        <5>1. r = Publish(st, c, TRUE)
          BY <4>2
        <5>2. r.imagesReady = False
          BY <2>1, <5>1
        <5> QED
          BY <2>1, <2>2, <5>2
      <4>4. r = Publish(st, st.k8s, FALSE)
        BY <4>2, <4>3
      <4> QED
        BY <2>1, <4>4
    <3> QED
      BY <3>1, <3>2, <3>3
  <2> HIDE DEF r
  <2> QED
    BY <1>1, <2>1, <2>3 DEF ImagesFit
<1> QED
  BY <1>1, <1>2, <1>3 DEF Sound

\* A status whose images are not ready, cleared or left, stays sound.
LEMMA UnreadySound ==
    ASSUME NEW st, NEW sp, Sound(st, sp), NEW r,
           r.k8s = st.k8s, r.k8sReady = st.k8sReady, r.images \in {st.images, <<>>}, r.imagesReady = False
    PROVE  Sound(r, sp)
PROOF
<1>1. Whole(r)
  BY DEF Sound, Whole
<1>2. ~ImagesUsable(r)
  BY DEF ImagesUsable, Usable, False, Condition
<1> QED
  BY <1>1, <1>2 DEF Sound

\* A custom image leaves a sound status.
LEMMA CustomImageSound ==
    ASSUME NEW st, WellFormed(st), NEW sp \in Specs, sp.selector \in Custom, NEW found \in BOOLEAN,
           found => K8sUsable(st), Sound(st, sp)
    PROVE  Sound(CustomImage(st, sp, found), sp)
PROOF
<1> DEFINE r == CustomImage(st, sp, found)
<1>1. /\ r.k8s = st.k8s /\ r.k8sReady = st.k8sReady
      /\ r.imagesReady.is = "True" => r.images = CustomImages(sp)
      /\ r.images \in {<<>>, CustomImages(sp)}
  BY CustomImageResult DEF CustomImages
<1>2. /\ Bases(CustomImages(sp)) = {sp.selector}
      /\ \A i \in DOMAIN CustomImages(sp) : CustomImages(sp)[i].version = CustomVersion
      /\ CustomVersion \in ImageVersions /\ {sp.selector} \in Bundles
  <2>1. DOMAIN CustomImages(sp) = {1} /\ CustomImages(sp)[1] = [base |-> sp.selector, version |-> CustomVersion]
    BY DEF CustomImages
  <2>2. Bases(CustomImages(sp)) = {sp.selector}
    BY <2>1 DEF Bases
  <2>3. \A i \in DOMAIN CustomImages(sp) : CustomImages(sp)[i].version = CustomVersion
    BY <2>1
  <2>4. CustomVersion \in ImageVersions
    BY NodeClassAssumption DEF CustomVersion, ImageVersions
  <2>5. {sp.selector} \in Bundles
    BY DEF Bundles
  <2> QED
    BY <2>2, <2>3, <2>4, <2>5
<1>3. Whole(r)
  <2> HIDE DEF r
  <2>1. CASE r.images = <<>>
    BY <2>1 DEF Whole
  <2>2. CASE r.images = CustomImages(sp)
    BY <1>2, <2>2 DEF Whole
  <2> QED
    BY <1>1, <2>1, <2>2
<1>4. ASSUME ImagesUsable(r) PROVE ImagesFit(r, sp)
  <2>1. found
    BY <1>4 DEF ImagesUsable, Usable, CustomImage, False, Condition, WellFormed, Statuses
  <2>2. r = [st EXCEPT !.images = CustomImages(sp), !.latest = None, !.imagesReady = True]
    BY <2>1 DEF CustomImage, CustomImages
  <2>3. r.imagesReady = True /\ ~True.pinned
    BY <2>2 DEF WellFormed, Statuses, True, Condition
  <2>4. sp.image = None /\ sp.selector \notin FIPSWithoutSIG
    BY NodeClassAssumption DEF Specs, Admitted
  <2>5. st.k8sReady.is = "True"
    BY <2>1 DEF K8sUsable, Usable
  <2> HIDE DEF r
  <2> QED
    BY <1>1, <1>4, <2>3, <2>4, <2>5 DEF ImagesFit, ImagesUsable, Usable
<1> HIDE DEF r
<1> QED
  BY <1>1, <1>3, <1>4 DEF Sound, r

\* A list of definitions, at one version, is whole.
LEMMA ListIsWhole ==
    ASSUME NEW selector \in Selectors, NEW k8s \in K8sVersions, NEW release \in ImageVersions,
           NEW suffix \in ImageVersions
    PROVE  LET definitions == SupportedImages[selector][k8s][release]
               goal == Images(definitions, suffix)
           IN  /\ definitions \in Seq(Definitions) /\ Elements(definitions) \in Lists
               /\ goal \in ImageSequences /\ DOMAIN goal = DOMAIN definitions
               /\ Bases(goal) = Elements(definitions)
               /\ \A i \in DOMAIN goal : goal[i].version = suffix /\ goal[i].base = definitions[i]
PROOF
<1> DEFINE definitions == SupportedImages[selector][k8s][release]
           goal == Images(definitions, suffix)
<1>1. definitions \in Seq(Definitions)
  BY NodeClassAssumption
<1>2. Elements(definitions) \in Lists
  BY DEF Lists
<1>3. /\ goal \in ImageSequences /\ DOMAIN goal = DOMAIN definitions
      /\ \A i \in DOMAIN definitions : goal[i].base = definitions[i] /\ goal[i].version = suffix
  BY <1>1, ImagesAreImages
<1> HIDE DEF definitions, goal
<1>4. Bases(goal) = Elements(definitions)
  BY <1>3 DEF Bases, Elements
<1> QED
  BY <1>1, <1>2, <1>3, <1>4 DEF definitions, goal

\* The merge of a whole list with the images of a whole status is whole: it is the new list, or all
\* of the old one, and then no image of the status is lost.
Merged(st, goal, suffix) ==
    LET kept == KeepExisting(st, goal) IN
    /\ DOMAIN kept = DOMAIN goal /\ Bases(kept) = Bases(goal)
    /\ \/ \A i \in DOMAIN kept : kept[i].version = suffix
       \/ /\ st.images # <<>>
          /\ \A i \in DOMAIN kept : \A j \in DOMAIN st.images : kept[i].version = st.images[j].version
    /\ Bases(goal) = Bases(st.images) => \A j \in DOMAIN st.images : \E i \in DOMAIN kept : kept[i] = st.images[j]

\* When every release lists its images whole, the merge of such lists is whole.
LEMMA MergeIsWhole ==
    ASSUME WholeReleases, NEW st, st.images \in ImageSequences, Whole(st), NEW goal \in ImageSequences,
           Bases(goal) \in Lists, NEW suffix, \A i \in DOMAIN goal : goal[i].version = suffix
    PROVE  Merged(st, goal, suffix)
PROOF
<1> DEFINE kept == KeepExisting(st, goal)
           Has(i) == \E j \in DOMAIN st.images : st.images[j].base = goal[i].base
<1>1. /\ kept \in ImageSequences /\ DOMAIN kept = DOMAIN goal
      /\ \A i \in DOMAIN goal :
            \/ ~Has(i) /\ kept[i] = goal[i]
            \/ \E j \in DOMAIN st.images : st.images[j].base = goal[i].base /\ kept[i] = st.images[j]
  BY KeepExistingKeeps
<1> HIDE DEF kept
<1>2. Bases(kept) = Bases(goal)
  <2>1. \A i \in DOMAIN goal : kept[i].base = goal[i].base
    BY <1>1
  <2> QED
    BY <1>1, <2>1 DEF Bases
<1>r. /\ \A i \in DOMAIN kept : kept[i] \in ImageRecords
      /\ \A j \in DOMAIN st.images : st.images[j] \in ImageRecords
  <2>1. kept \in Seq(ImageRecords) /\ st.images \in Seq(ImageRecords)
    BY <1>1 DEF ImageSequences, ImageRecords
  <2> QED
    BY <2>1, LenProperties, ElementOfSeq
<1>3. CASE \A i \in DOMAIN goal : ~Has(i)
  <2>1. \A i \in DOMAIN kept : kept[i].version = suffix
    BY <1>1, <1>3
  <2>2. Bases(goal) = Bases(st.images) => DOMAIN st.images = {}
    BY <1>3 DEF Bases
  <2> QED
    BY <1>1, <1>2, <2>1, <2>2 DEF kept, Merged
<1>4. CASE \E i \in DOMAIN goal : Has(i)
  <2>1. PICK i0 \in DOMAIN goal : Has(i0)
    BY <1>4
  <2>2. Bases(st.images) \cap Bases(goal) # {} /\ st.images # <<>>
    <3>1. PICK j \in DOMAIN st.images : st.images[j].base = goal[i0].base
      BY <2>1
    <3>2. st.images[j].base \in Bases(st.images) /\ goal[i0].base \in Bases(goal)
      BY <3>1 DEF Bases
    <3>3. DOMAIN <<>> = {}
      OBVIOUS
    <3> QED
      BY <3>1, <3>2, <3>3
  <2>3. Bases(st.images) = Bases(goal)
    <3>1. Bases(st.images) \in Bundles /\ Bases(goal) \in Bundles
      BY <2>2 DEF Whole, Bundles
    <3> QED
      BY <2>2, <3>1, BundlesApart
  <2>4. PICK v \in ImageVersions : \A j \in DOMAIN st.images : st.images[j].version = v
    BY <2>2 DEF Whole
  <2>5. \A i \in DOMAIN goal : Has(i)
    BY <2>3 DEF Bases
  <2>6. \A i \in DOMAIN goal : \E j \in DOMAIN st.images : st.images[j].base = goal[i].base /\ kept[i] = st.images[j]
    BY <1>1, <2>5
  <2>7. \A i \in DOMAIN kept : kept[i].version = v
    BY <1>1, <2>4, <2>6
  <2>8. ASSUME NEW j \in DOMAIN st.images PROVE \E i \in DOMAIN kept : kept[i] = st.images[j]
    <3>1. st.images[j].base \in Bases(kept)
      BY <1>2, <2>3 DEF Bases
    <3>2. PICK i \in DOMAIN kept : kept[i].base = st.images[j].base
      BY <3>1 DEF Bases
    <3>3. kept[i].version = st.images[j].version
      BY <2>4, <2>7
    <3>4. kept[i] = st.images[j]
      BY <1>r, <3>2, <3>3 DEF ImageRecords
    <3> QED
      BY <3>4
  <2> QED
    BY <1>1, <1>2, <2>2, <2>4, <2>7, <2>8 DEF kept, Merged
<1> QED
  BY <1>3, <1>4

\* The image sub-reconciler leaves a sound status.
LEMMA UpdateImagesSound ==
    ASSUME WholeReleases, NEW st, WellFormed(st), K8sUsable(st), NEW sp \in Specs,
           sp.selector \notin Custom \cup FIPSWithoutSIG,
           NEW version \in ImageVersions, NEW open \in BOOLEAN, Sound(st, sp)
    PROVE  Sound(UpdateImages(st, sp, version, open), sp)
PROOF
<1> DEFINE suffix == IF sp.image = None THEN version ELSE sp.image
           definitions == SupportedImages[sp.selector][st.k8s][version]
           pinned == Images(definitions, suffix)
           goal == IF ShouldUpdate(st, sp) \/ open THEN pinned ELSE KeepExisting(st, pinned)
           none == [st EXCEPT !.images = <<>>, !.imagesReady = False]
           some == [st EXCEPT !.images = goal, !.latest = version,
                              !.imagesReady = IF sp.image = None THEN True ELSE Pinned]
           r == UpdateImages(st, sp, version, open)
<1>1. /\ st \in Statuses /\ st.k8s \in K8sVersions /\ st.images \in ImageSequences
      /\ sp.selector \in Selectors /\ suffix \in ImageVersions
  BY DEF WellFormed, K8sUsable, Statuses, Specs
<1>2. r = IF definitions = <<>> THEN none ELSE some
  BY DEF UpdateImages
<1>3. /\ definitions \in Seq(Definitions) /\ Elements(definitions) \in Lists
      /\ pinned \in ImageSequences /\ Bases(pinned) = Elements(definitions)
      /\ \A i \in DOMAIN pinned : pinned[i].version = suffix
  BY <1>1, ListIsWhole
<1>6. Whole(st) /\ Bases(pinned) \in Lists
  BY <1>3 DEF Sound
<1>7. LET kept == KeepExisting(st, pinned) IN
      /\ Bases(kept) = Bases(pinned)
      /\ \/ \A i \in DOMAIN kept : kept[i].version = suffix
         \/ /\ st.images # <<>>
            /\ \A i \in DOMAIN kept : \A j \in DOMAIN st.images : kept[i].version = st.images[j].version
  <2>1. Merged(st, pinned, suffix)
    <3> HIDE DEF pinned, suffix
    <3> QED
      BY <1>1, <1>3, <1>6, MergeIsWhole
  <2> HIDE DEF pinned, suffix
  <2> QED
    BY <2>1 DEF Merged
<1>4. CASE definitions = <<>>
  <2>1. r = none
    BY <1>2, <1>4
  <2>2. r.k8s = st.k8s /\ r.k8sReady = st.k8sReady /\ r.images = <<>> /\ r.imagesReady = False
    BY <1>1, <2>1 DEF Statuses
  <2> HIDE DEF r
  <2> QED
    BY <2>2, UnreadySound DEF r
<1>5. CASE definitions # <<>>
  <2> HIDE DEF definitions
  <2>1. Bases(goal) = Elements(definitions)
    <3> HIDE DEF pinned
    <3> QED
      BY <1>3, <1>7
  <2>2. /\ \E v \in ImageVersions : \A i \in DOMAIN goal : goal[i].version = v
        /\ sp.image # None => \A i \in DOMAIN goal : goal[i].version = sp.image
    <3> HIDE DEF pinned
    <3>1. CASE ShouldUpdate(st, sp) \/ open
      BY <1>1, <1>3, <3>1
    <3>2. CASE ~(ShouldUpdate(st, sp) \/ open)
      <4> DEFINE kept == KeepExisting(st, pinned)
      <4>1. goal = kept /\ (sp.image # None => CurrentImage(st) = sp.image)
        BY <3>2 DEF ShouldUpdate
      <4>2. \/ \A i \in DOMAIN kept : kept[i].version = suffix
            \/ /\ st.images # <<>>
               /\ \A i \in DOMAIN kept : \A j \in DOMAIN st.images : kept[i].version = st.images[j].version
        BY <1>7
      <4> HIDE DEF kept
      <4>3. CASE \A i \in DOMAIN kept : kept[i].version = suffix
        BY <1>1, <4>1, <4>3
      <4>4. CASE /\ st.images # <<>>
                 /\ \A i \in DOMAIN kept : \A j \in DOMAIN st.images : kept[i].version = st.images[j].version
        <5>1. 1 \in DOMAIN st.images /\ st.images[1] \in ImageRecords
          <6>1. Len(st.images) \in Nat \ {0} /\ DOMAIN st.images = 1..Len(st.images)
            BY <1>1, <4>4, EmptySeq, LenProperties DEF ImageSequences
          <6>2. st.images \in Seq(ImageRecords)
            BY <1>1 DEF ImageSequences, ImageRecords
          <6> QED
            BY <6>1, <6>2, ElementOfSeq
        <5>2. CurrentImage(st) = st.images[1].version /\ st.images[1].version \in ImageVersions
          BY <4>4, <5>1 DEF CurrentImage, ImageRecords
        <5>3. \A i \in DOMAIN kept : kept[i].version = st.images[1].version
          BY <4>4, <5>1
        <5> QED
          BY <4>1, <5>2, <5>3
      <4> QED
        BY <4>2, <4>3, <4>4
    <3> QED
      BY <3>1, <3>2
  <2> HIDE DEF goal
  <2>3. r = some
    BY <1>2, <1>5
  <2>4. /\ r.images = goal /\ r.imagesReady = (IF sp.image = None THEN True ELSE Pinned)
        /\ r.k8s = st.k8s /\ r.k8sReady = st.k8sReady
    BY <1>1, <2>3 DEF Statuses
  <2> HIDE DEF r
  <2>5. Whole(r)
    BY <1>3, <2>1, <2>2, <2>4 DEF Whole, Bundles
  <2>6. ImagesFit(r, sp)
    <3>1. r.imagesReady.pinned => sp.image # None
      BY <2>4 DEF True, Condition
    <3>2. r.k8sReady.is = "True"
      BY <2>4 DEF K8sUsable, Usable
    <3>3. Bases(r.images) = Elements(SupportedImages[sp.selector][r.k8s][version])
      BY <2>1, <2>4 DEF definitions
    <3> QED
      BY <2>2, <2>4, <3>1, <3>2, <3>3 DEF ImagesFit
  <2> QED
    BY <2>4, <2>5, <2>6 DEF Sound, r
<1> QED
  BY <1>4, <1>5

\* The status is sound for the spec, the copy for the spec it was read with.
PinInv ==
    /\ Sound(status, spec)
    /\ pc # "idle" => Sound(work.status, work.spec)

\* PinInv holds initially.
LEMMA InitSound == Init => PinInv
PROOF BY DEF Init, PinInv, Sound, Whole, NewStatus, Unknown, Condition, Usable, ImagesUsable

\* Every step preserves PinInv.
LEMMA NextSound ==
    ASSUME WholeReleases
    PROVE  IInv /\ PinInv /\ [Next]_vars => PinInv'
PROOF
<1> SUFFICES ASSUME IInv, PinInv, [Next]_vars PROVE PinInv'
  OBVIOUS
<1>t. /\ TypeOK /\ CopyKnows /\ WellFormed(status)
      /\ pc # "idle" => work \in Copies /\ WellFormed(work.status) /\ work.spec \in Specs /\ work.status \in Statuses
  BY DEF IInv, TypeOK, Copies
<1>p. ASSUME Sound(status', spec'), pc' # "idle" => Sound(work'.status, work'.spec) PROVE PinInv'
  <2>1. Sound(status, spec)' /\ (pc # "idle" => Sound(work.status, work.spec))'
    BY <1>p DEF Sound, Whole, ImagesUsable, Usable, ImagesFit
  <2> QED
    BY <2>1 DEF PinInv
<1>w. ASSUME pc # "idle", UNCHANGED <<spec, status>>, NEW r \in Statuses, Sound(r, work.spec),
             work' = [work EXCEPT !.status = r]
      PROVE  PinInv'
  <2>1. work'.status = r /\ work'.spec = work.spec
    BY <1>t, <1>w, CopyStatus
  <2>2. Sound(status', spec') /\ Sound(work'.status, work'.spec)
    BY <1>w, <2>1 DEF PinInv
  <2> QED
    BY <1>p, <2>2
<1>u. ASSUME UNCHANGED <<spec, status>>, UNCHANGED <<pc, work>> \/ pc' = "idle" \/ (pc # "idle" /\ work' = work)
      PROVE  PinInv'
  <2>1. Sound(status', spec') /\ (pc' # "idle" => Sound(work'.status, work'.spec))
    BY <1>u DEF PinInv
  <2> QED
    BY <1>p, <2>1
<1>1. CASE Begin
  <2>1. /\ work' = [spec |-> spec, status |-> status] /\ UNCHANGED <<spec, status>>
    BY <1>1 DEF Begin
  <2>2. Sound(status', spec') /\ Sound(work'.status, work'.spec)
    BY <2>1 DEF PinInv
  <2> QED
    BY <1>p, <2>2
<1>2. CASE Patch
  <2> DEFINE r == SnapshotRecentlyUsed(status, work.status)
  <2>1. pc = "patch" /\ pc' = "idle" /\ UNCHANGED spec /\ (status' = status \/ (~conflict /\ status' = r))
    BY <1>2 DEF Patch
  <2>2. CASE status' = status
    BY <1>p, <2>1, <2>2 DEF PinInv
  <2>3. CASE ~conflict /\ status' = r
    <3>1. Sound(work.status, spec)
      BY <1>t, <2>1, <2>3 DEF PinInv, CopyKnows
    <3>2. /\ r.k8s = work.status.k8s /\ r.images = work.status.images
          /\ r.k8sReady = work.status.k8sReady /\ r.imagesReady = work.status.imagesReady
      BY <1>t, <2>1, SnapshotResult
    <3> HIDE DEF r
    <3>3. Sound(r, spec)
      BY <3>1, <3>2 DEF Sound, Whole, ImagesUsable, Usable, ImagesFit
    <3> QED
      BY <1>p, <2>1, <2>3, <3>3
  <2> QED
    BY <2>1, <2>2, <2>3
<1>3. ASSUME NEW fails \in BOOLEAN, ReconcileKubernetesVersion(fails) PROVE PinInv'
  <2> DEFINE r == KubernetesVersion(work.status, work.spec, controlPlane)
  <2>1. /\ pc = "kubernetesVersion" /\ UNCHANGED <<spec, status>> /\ controlPlane \in Supported
        /\ work' = work \/ work' = [work EXCEPT !.status = r]
    BY <1>t, <1>3 DEF ReconcileKubernetesVersion, TypeOK
  <2>2. Sound(r, work.spec) /\ WellFormed(r)
    BY <1>t, <2>1, KubernetesVersionSound, KubernetesVersionResult DEF PinInv
  <2> HIDE DEF r
  <2>3. r \in Statuses
    BY <2>2 DEF WellFormed
  <2> QED
    BY <1>u, <1>w, <2>1, <2>2, <2>3
<1>4. ASSUME NEW fails \in BOOLEAN, ReconcileCustomImage(fails) PROVE PinInv'
  <2> DEFINE st == work.status
             found == ~fails /\ K8sUsable(st)
             r == CustomImage(st, work.spec, found)
  <2>1. /\ pc = "nodeImage" /\ UNCHANGED <<spec, status>> /\ work.spec.selector \in Custom
        /\ work' = [work EXCEPT !.status = r]
    BY <1>4 DEF ReconcileCustomImage
  <2>2. found \in BOOLEAN
    BY <1>t, <2>1 DEF K8sUsable, Usable, WellFormed, Statuses, Conditions
  <2>3. Sound(r, work.spec) /\ WellFormed(r)
    <3>1. Sound(st, work.spec) /\ (found => K8sUsable(st))
      BY <2>1 DEF PinInv
    <3> HIDE DEF found
    <3> QED
      BY <1>t, <2>1, <2>2, <3>1, CustomImageSound, CustomImageResult
  <2> HIDE DEF r
  <2>4. r \in Statuses
    BY <2>3 DEF WellFormed
  <2> QED
    BY <1>w, <2>1, <2>3, <2>4
<1>5. CASE RefuseImages
  <2> DEFINE st == work.status
             cleared == [st EXCEPT !.images = <<>>, !.imagesReady = False]
             unready == [st EXCEPT !.imagesReady = False]
  <2>1. /\ pc = "nodeImage" /\ UNCHANGED <<spec, status>>
        /\ \E r \in {cleared, unready, st} : work' = [work EXCEPT !.status = r]
    BY <1>5 DEF RefuseImages, ImagesAfterRefusal
  <2>2. Sound(st, work.spec)
    BY <2>1 DEF PinInv
  <2>3. <<>> \in ImageSequences /\ st \in Statuses
    BY <1>t, <2>1, EmptySeq DEF ImageSequences
  <2>4. /\ cleared \in Statuses /\ cleared.images = <<>> /\ cleared.imagesReady = False
        /\ cleared.k8s = st.k8s /\ cleared.k8sReady = st.k8sReady
    BY <2>3, ConditionTypes DEF Statuses
  <2>5. /\ unready \in Statuses /\ unready.images = st.images /\ unready.imagesReady = False
        /\ unready.k8s = st.k8s /\ unready.k8sReady = st.k8sReady
    BY <2>3, ConditionTypes DEF Statuses
  <2> HIDE DEF cleared, unready
  <2>6. Sound(cleared, work.spec) /\ Sound(unready, work.spec)
    BY <2>2, <2>4, <2>5, UnreadySound
  <2> QED
    BY <1>w, <2>1, <2>2, <2>3, <2>4, <2>5, <2>6
<1>6. CASE ListFails
  BY <1>u, <1>6 DEF ListFails
<1>7. ASSUME NEW fails \in BOOLEAN, ReconcileImages(fails) PROVE PinInv'
  <2> DEFINE st == work.status
             sp == work.spec
             version == ListedVersion(st, sp)
             r == UpdateImages(st, sp, version, window = "open")
  <2>1. /\ pc = "nodeImage" /\ UNCHANGED <<spec, status>> /\ PassesValidation /\ K8sUsable(st)
        /\ work' = work \/ work' = [work EXCEPT !.status = r]
    BY <1>7 DEF ReconcileImages
  <2>2. version \in ImageVersions
    <3>1. ListKey(st, sp) \in Selectors \X K8sVersions
      BY <1>t, <2>1 DEF ListKey, K8sUsable, WellFormed, Statuses, Specs
    <3> QED
      BY <1>t, <3>1 DEF ListedVersion, TypeOK
  <2>3. Sound(st, sp) /\ sp.selector \notin Custom \cup FIPSWithoutSIG
    BY <2>1 DEF PinInv, PassesValidation
  <2>4. Sound(r, sp) /\ WellFormed(r)
    <3> HIDE DEF version
    <3> QED
      BY <1>t, <2>1, <2>2, <2>3, UpdateImagesSound, UpdateImagesResult
  <2> HIDE DEF r
  <2>5. r \in Statuses
    BY <2>4 DEF WellFormed
  <2> QED
    BY <1>u, <1>w, <2>1, <2>4, <2>5
<1>8. CASE Restart
  BY <1>u, <1>8 DEF Restart
<1>9. CASE Launch
  BY <1>u, <1>9 DEF Launch
<1>10. ASSUME NEW sp \in Requests, EditSpec(sp) PROVE PinInv'
  <2>1. /\ status' = [status EXCEPT !.k8sReady.observed = FALSE, !.imagesReady.observed = FALSE]
        /\ UNCHANGED <<pc, work>>
    BY <1>10 DEF EditSpec
  <2>2. ~ImagesUsable(status') /\ ~K8sUsable(status') /\ status'.images = status.images /\ WellFormed(status')
    BY <1>t, <2>1, EditResult
  <2>3. ~Usable(status'.k8sReady)
    BY <2>2 DEF K8sUsable, WellFormed, Usable
  <2>4. Sound(status', spec')
    BY <2>2, <2>3 DEF PinInv, Sound, Whole
  <2> QED
    BY <1>p, <2>1, <2>4 DEF PinInv
<1>11. CASE \/ \E v \in Supported : UpgradeControlPlane(v)
            \/ ReleaseImages \/ MoveWindow
            \/ \E key \in DOMAIN listed : ExpireList(key)
  BY <1>u, <1>11 DEF UpgradeControlPlane, ReleaseImages, MoveWindow, ExpireList
<1>12. CASE UNCHANGED vars
  BY <1>u, <1>12 DEF vars
<1> QED
  BY <1>1, <1>2, <1>3, <1>4, <1>5, <1>6, <1>7, <1>8, <1>9, <1>10, <1>11, <1>12 DEF Next, Reconcile

\* A NodeClass that can launch nodes does what its spec pins, for every spec, selector and order of
\* edits, failures and restarts, if the lists of images are whole.
THEOREM PinCorrect ==
    ASSUME WholeReleases
    PROVE  Spec => []PinHonoured
PROOF
<1>1. IInv /\ PinInv => PinHonoured
  BY DEF PinInv, Sound, PinHonoured, Launchable, K8sUsable, ImagesFit
<1>2. Init => PinInv
  BY InitSound
<1>3. IInv /\ PinInv /\ [Next]_vars => PinInv'
  BY NextSound
<1> QED
  BY <1>1, <1>2, <1>3, InvariantHolds, PTL DEF Spec

-----------------------------------------------------------------------------
(* Undisturbed nodes.                                                      *)

\* What the node was launched with is what a status still says, for a spec and a control plane that
\* are as they were; a custom image can be missing for a while, but not become another.
Steady(st, sp, n, c) ==
    /\ st.k8s = n.k8s
    /\ IF sp.k8s = None THEN st.k8sReady.is = "True" /\ ~Older(st.k8s, c) ELSE st.k8s = sp.k8s
    /\ IF sp.selector \in Custom
       THEN n.image = CustomImages(sp)[1]
       ELSE ImagesUsable(st) /\ \E i \in DOMAIN st.images : st.images[i] = n.image

StaysInv ==
    /\ pc = "idle" => ~conflict
    /\ undisturbed =>
          /\ window = "closed" /\ ~conflict
          /\ Steady(status, spec, node, controlPlane)
          /\ pc # "idle" => Steady(work.status, spec, node, controlPlane)

\* The Kubernetes version sub-reconciler leaves the version steady without a disturbance.
LEMMA KubernetesVersionSteady ==
    ASSUME NEW st, WellFormed(st), NEW sp \in Specs, NEW n, NEW c \in Supported, Steady(st, sp, n, c)
    PROVE  Steady(KubernetesVersion(st, sp, c), sp, n, c)
PROOF
<1> DEFINE r == KubernetesVersion(st, sp, c)
<1>1. st \in Statuses /\ True.is = "True"
  BY DEF WellFormed, True, Condition
<1>2. /\ r.k8s = st.k8s /\ r.images = st.images /\ r.imagesReady = st.imagesReady
      /\ sp.k8s = None => r.k8sReady.is = "True"
  <2>1. CASE sp.k8s # None /\ ~ValidatePinnedK8sVersion(st, sp, c)
    <3>1. r = [st EXCEPT !.k8sReady = False]
      BY <2>1 DEF KubernetesVersion
    <3> QED
      BY <1>1, <2>1, <3>1 DEF Statuses
  <2>2. CASE sp.k8s # None /\ ValidatePinnedK8sVersion(st, sp, c)
    <3>1. r = Publish(st, sp.k8s, sp.k8s # st.k8s) /\ sp.k8s = st.k8s
      BY <2>2 DEF KubernetesVersion, Steady
    <3> QED
      BY <1>1, <2>2, <3>1 DEF Publish, Statuses
  <2>3. CASE sp.k8s = None
    <3>1. st.k8sReady.is = "True" /\ st.k8s # None /\ ~Older(st.k8s, c)
      BY <2>3 DEF Steady, WellFormed
    <3>2. r = Publish(st, st.k8s, FALSE)
      BY <2>3, <3>1 DEF KubernetesVersion
    <3> QED
      BY <1>1, <3>2 DEF Publish, Statuses
  <2> QED
    BY <2>1, <2>2, <2>3
<1> HIDE DEF r
<1> QED
  BY <1>2 DEF Steady, ImagesUsable, Usable, r

\* Outside the window, the update of a steady status keeps the node's image.
LEMMA UpdateImagesSteady ==
    ASSUME WholeReleases, SameEveryRelease, NEW st, WellFormed(st), K8sUsable(st), NEW sp \in Specs,
           sp.selector \notin Custom \cup FIPSWithoutSIG,
           NEW version \in ImageVersions, Sound(st, sp), NEW n, NEW c, Steady(st, sp, n, c)
    PROVE  Steady(UpdateImages(st, sp, version, FALSE), sp, n, c)
PROOF
<1> DEFINE suffix == IF sp.image = None THEN version ELSE sp.image
           definitions == SupportedImages[sp.selector][st.k8s][version]
           pinned == Images(definitions, suffix)
           kept == KeepExisting(st, pinned)
           some == [st EXCEPT !.images = kept, !.latest = version,
                              !.imagesReady = IF sp.image = None THEN True ELSE Pinned]
           r == UpdateImages(st, sp, version, FALSE)
<1>1. /\ st \in Statuses /\ st.k8s \in K8sVersions /\ st.images \in ImageSequences
      /\ sp.selector \in Selectors /\ suffix \in ImageVersions
  BY DEF WellFormed, K8sUsable, Statuses, Specs
<1>2. /\ ImagesUsable(st) /\ ImagesFit(st, sp) /\ st.imagesReady.is = "True" /\ st.images # <<>>
  BY DEF Steady, Sound, ImagesUsable, Usable, WellFormed
<1>3. 1 \in DOMAIN st.images
  <2>1. Len(st.images) \in Nat \ {0} /\ DOMAIN st.images = 1..Len(st.images)
    BY <1>1, <1>2, EmptySeq, LenProperties DEF ImageSequences
  <2> QED
    BY <2>1
<1>4. ~ShouldUpdate(st, sp)
  BY <1>2, <1>3 DEF ShouldUpdate, ImagesFit, CurrentImage
<1>5. /\ definitions \in Seq(Definitions) /\ Elements(definitions) \in Lists
      /\ pinned \in ImageSequences /\ Bases(pinned) = Elements(definitions)
      /\ \A i \in DOMAIN pinned : pinned[i].version = suffix
  BY <1>1, ListIsWhole
<1>6. Bases(st.images) = Elements(definitions)
  <2>1. PICK v \in ImageVersions : Bases(st.images) = Elements(SupportedImages[sp.selector][st.k8s][v])
    BY <1>2 DEF ImagesFit
  <2>2. SupportedImages[sp.selector][st.k8s][v] = definitions
    BY <1>1 DEF SameEveryRelease
  <2> QED
    BY <2>1, <2>2
<1>7. definitions # <<>>
  <2>1. st.images[1].base \in Elements(definitions)
    BY <1>3, <1>6 DEF Bases
  <2>2. DOMAIN <<>> = {}
    OBVIOUS
  <2> QED
    BY <2>1, <2>2 DEF Elements
<1>8. r = some
  BY <1>4, <1>7 DEF UpdateImages
<1>9. \A j \in DOMAIN st.images : \E i \in DOMAIN kept : kept[i] = st.images[j]
  <2>1. Whole(st) /\ Bases(pinned) \in Lists
    BY <1>5 DEF Sound
  <2> HIDE DEF pinned, suffix
  <2>2. Merged(st, pinned, suffix)
    BY <1>1, <1>5, <2>1, MergeIsWhole
  <2> QED
    BY <1>5, <1>6, <2>2 DEF Merged
<1> HIDE DEF kept
<1>10. /\ r.images = kept /\ r.imagesReady = (IF sp.image = None THEN True ELSE Pinned)
       /\ r.k8s = st.k8s /\ r.k8sReady = st.k8sReady
  BY <1>1, <1>8 DEF Statuses
<1> HIDE DEF r
<1>11. ImagesUsable(r)
  BY <1>10 DEF ImagesUsable, Usable, True, Pinned, Condition
<1>12. \E i \in DOMAIN r.images : r.images[i] = n.image
  BY <1>9, <1>10 DEF Steady
<1> QED
  BY <1>10, <1>11, <1>12 DEF Steady, r

\* StaysInv holds initially.
LEMMA InitStays == Init => StaysInv
PROOF BY DEF Init, StaysInv

\* Every step preserves StaysInv.
LEMMA NextStays ==
    ASSUME WholeReleases, SameEveryRelease
    PROVE  IInv /\ PinInv /\ StaysInv /\ [Next]_vars => StaysInv'
PROOF
<1> SUFFICES ASSUME IInv, PinInv, StaysInv, [Next]_vars PROVE StaysInv'
  OBVIOUS
<1> USE DEF environment, history
<1>t. /\ TypeOK /\ CopyKnows /\ WellFormed(status)
      /\ pc # "idle" => work \in Copies /\ WellFormed(work.status) /\ work.spec \in Specs /\ work.status \in Statuses
  BY DEF IInv, TypeOK, Copies
<1>s. ASSUME undisturbed, pc # "idle"
      PROVE  /\ work.spec = spec /\ Sound(work.status, spec) /\ window = "closed" /\ ~conflict
             /\ Steady(status, spec, node, controlPlane) /\ Steady(work.status, spec, node, controlPlane)
  BY <1>t, <1>s DEF StaysInv, CopyKnows, PinInv
<1>p. ASSUME pc' = "idle" => ~conflict',
             undisturbed' => /\ window' = "closed" /\ ~conflict'
                             /\ Steady(status', spec', node', controlPlane')
                             /\ pc' # "idle" => Steady(work'.status, spec', node', controlPlane')
      PROVE  StaysInv'
  BY <1>p DEF StaysInv, Steady, ImagesUsable, Usable, Older, CustomImages
<1>w. ASSUME pc # "idle", pc' # "idle", UNCHANGED <<spec, status, conflict, node, undisturbed>>, UNCHANGED environment,
             NEW r \in Statuses, work' = [work EXCEPT !.status = r],
             undisturbed => Steady(r, spec, node, controlPlane)
      PROVE  StaysInv'
  <2>1. work'.status = r
    BY <1>t, <1>w, CopyStatus
  <2> QED
    BY <1>p, <1>s, <1>w, <2>1
<1>u. ASSUME UNCHANGED <<spec, status, node, undisturbed, window, controlPlane>>,
             UNCHANGED <<pc, work, conflict>> \/ (pc' = "idle" /\ ~conflict') \/ (pc # "idle" /\ pc' # "idle" /\ work' = work /\ conflict' = conflict)
      PROVE  StaysInv'
  BY <1>p, <1>u DEF StaysInv
<1>1. CASE Begin
  <2>1. /\ work'.status = status /\ ~conflict' /\ pc' = "kubernetesVersion"
        /\ UNCHANGED <<spec, status, node, undisturbed, window, controlPlane>>
    BY <1>1 DEF Begin
  <2> QED
    BY <1>p, <2>1 DEF StaysInv
<1>2. CASE Patch
  <2> DEFINE r == SnapshotRecentlyUsed(status, work.status)
  <2>1. /\ pc = "patch" /\ pc' = "idle" /\ conflict' = FALSE /\ (status' = status \/ status' = r)
        /\ UNCHANGED <<spec, node, undisturbed, window, controlPlane>>
    BY <1>2 DEF Patch
  <2>2. /\ r.k8s = work.status.k8s /\ r.images = work.status.images
        /\ r.k8sReady = work.status.k8sReady /\ r.imagesReady = work.status.imagesReady
    BY <1>t, <2>1, SnapshotResult
  <2> HIDE DEF r
  <2>3. ASSUME undisturbed PROVE Steady(r, spec, node, controlPlane) /\ window = "closed"
    BY <1>s, <2>1, <2>2, <2>3 DEF Steady, ImagesUsable, Usable
  <2> QED
    BY <1>p, <1>s, <2>1, <2>3
<1>3. ASSUME NEW fails \in BOOLEAN, ReconcileKubernetesVersion(fails) PROVE StaysInv'
  <2> DEFINE r == KubernetesVersion(work.status, work.spec, controlPlane)
  <2>1. /\ pc = "kubernetesVersion" /\ pc' = "nodeImage" /\ controlPlane \in Supported
        /\ UNCHANGED <<spec, status, conflict, node, undisturbed>> /\ UNCHANGED environment
        /\ work' = work \/ work' = [work EXCEPT !.status = r]
    BY <1>t, <1>3 DEF ReconcileKubernetesVersion, TypeOK
  <2>2. WellFormed(r)
    BY <1>t, <2>1, KubernetesVersionResult
  <2>3. ASSUME undisturbed PROVE Steady(r, spec, node, controlPlane)
    BY <1>s, <1>t, <2>1, <2>3, KubernetesVersionSteady
  <2> HIDE DEF r
  <2>4. r \in Statuses
    BY <2>2 DEF WellFormed
  <2> QED
    BY <1>u, <1>w, <2>1, <2>3, <2>4
<1>4. ASSUME NEW fails \in BOOLEAN, ReconcileCustomImage(fails) PROVE StaysInv'
  <2> DEFINE st == work.status
             found == ~fails /\ K8sUsable(st)
             r == CustomImage(st, work.spec, found)
  <2>1. /\ pc = "nodeImage" /\ pc' = "patch" /\ work.spec.selector \in Custom
        /\ UNCHANGED <<spec, status, conflict, node, undisturbed>> /\ UNCHANGED environment
        /\ work' = [work EXCEPT !.status = r]
    BY <1>4 DEF ReconcileCustomImage
  <2>2. found \in BOOLEAN
    BY <1>t, <2>1 DEF K8sUsable, Usable, WellFormed, Statuses, Conditions
  <2>3. WellFormed(r) /\ r.k8s = st.k8s /\ r.k8sReady = st.k8sReady
    <3>1. WellFormed(st) /\ work.spec \in Specs /\ work.spec.selector \in Custom
      BY <1>t, <2>1
    <3> QED
      BY <2>2, <3>1, CustomImageResult
  <2> HIDE DEF r
  <2>4. r \in Statuses
    BY <2>3 DEF WellFormed
  <2>5. ASSUME undisturbed PROVE Steady(r, spec, node, controlPlane)
    BY <1>s, <2>1, <2>3, <2>5 DEF Steady
  <2> QED
    BY <1>w, <2>1, <2>4, <2>5
<1>5. CASE RefuseImages
  <2> DEFINE st == work.status
             cleared == [st EXCEPT !.images = <<>>, !.imagesReady = False]
  <2>1. /\ pc = "nodeImage" /\ pc' = "patch" /\ work.spec.selector \notin Custom
        /\ UNCHANGED <<spec, status, conflict, node, undisturbed>> /\ UNCHANGED environment
        /\ st \in Statuses /\ WellFormed(st)
    BY <1>t, <1>5 DEF RefuseImages
  <2>2. CASE undisturbed
    <3>1. /\ ImagesFit(st, spec) /\ Steady(st, spec, node, controlPlane) /\ work.spec = spec
          /\ st.images # <<>>
      BY <1>s, <2>1, <2>2 DEF Steady, Sound, WellFormed, ImagesUsable, Usable
    <3>2. spec.selector \notin FIPSWithoutSIG
      BY <3>1 DEF ImagesFit
    <3>3. spec.image # None /\ work' = [work EXCEPT !.status = ImagesAfterRefusal(st, spec)]
      BY <1>5, <3>1, <3>2 DEF RefuseImages
    <3>4. 1 \in DOMAIN st.images
      <4>1. st.images \in ImageSequences
        BY <2>1 DEF Statuses
      <4>2. Len(st.images) \in Nat \ {0} /\ DOMAIN st.images = 1..Len(st.images)
        BY <3>1, <4>1, EmptySeq, LenProperties DEF ImageSequences
      <4> QED
        BY <4>2
    <3>5. PinsCurrentOrLatest(st, spec)
      BY <3>1, <3>3, <3>4 DEF PinsCurrentOrLatest, ImagesFit, CurrentImage
    <3>6. work' = [work EXCEPT !.status = st]
      BY <3>3, <3>5 DEF ImagesAfterRefusal
    <3> QED
      BY <1>w, <2>1, <3>1, <3>6
  <2>3. CASE ~undisturbed
    BY <1>p, <2>1, <2>3
  <2> QED
    BY <2>2, <2>3
<1>6. CASE ListFails
  BY <1>u, <1>6 DEF ListFails
<1>7. ASSUME NEW fails \in BOOLEAN, ReconcileImages(fails) PROVE StaysInv'
  <2> DEFINE st == work.status
             sp == work.spec
             version == ListedVersion(st, sp)
             r == UpdateImages(st, sp, version, window = "open")
  <2>1. /\ pc = "nodeImage" /\ pc' = "patch" /\ PassesValidation /\ K8sUsable(st)
        /\ UNCHANGED <<spec, status, conflict, node, undisturbed>> /\ UNCHANGED environment
        /\ work' = work \/ work' = [work EXCEPT !.status = r]
    BY <1>7 DEF ReconcileImages
  <2>2. version \in ImageVersions
    <3>1. ListKey(st, sp) \in Selectors \X K8sVersions
      BY <1>t, <2>1 DEF ListKey, K8sUsable, WellFormed, Statuses, Specs
    <3> QED
      BY <1>t, <3>1 DEF ListedVersion, TypeOK
  <2>3. sp.selector \notin Custom \cup FIPSWithoutSIG
    BY <2>1 DEF PassesValidation
  <2>4. WellFormed(r)
    <3> HIDE DEF version
    <3> QED
      BY <1>t, <2>1, <2>2, UpdateImagesResult
  <2>5. ASSUME undisturbed PROVE Steady(r, spec, node, controlPlane)
    <3>1. (window = "open") = FALSE
      BY <1>s, <2>1, <2>5
    <3> HIDE DEF version
    <3>2. r = UpdateImages(st, sp, version, FALSE)
      BY <3>1
    <3> HIDE DEF r
    <3> QED
      BY <1>s, <1>t, <2>1, <2>2, <2>3, <2>5, <3>2, UpdateImagesSteady
  <2> HIDE DEF r
  <2>6. r \in Statuses
    BY <2>4 DEF WellFormed
  <2> QED
    BY <1>u, <1>w, <2>1, <2>5, <2>6
<1>8. CASE Restart
  BY <1>u, <1>8 DEF Restart
<1>9. CASE Launch
  <2>1. /\ UNCHANGED <<spec, status, pc, work, conflict>> /\ UNCHANGED environment /\ Launchable
        /\ undisturbed' = (window = "closed" /\ pc = "idle" /\ (spec.k8s # None \/ ~Older(status.k8s, controlPlane)))
    BY <1>9 DEF Launch
  <2>2. PICK i \in DOMAIN status.images : node' = [k8s |-> status.k8s, image |-> status.images[i]]
    BY <1>9 DEF Launch
  <2>3. /\ ImagesUsable(status) /\ K8sUsable(status) /\ ImagesFit(status, spec)
        /\ spec.k8s # None => status.k8s = spec.k8s
    BY <2>1 DEF Launchable, PinInv, Sound, K8sUsable
  <2>4. ASSUME spec.selector \in Custom PROVE node'.image = CustomImages(spec)[1]
    <3>1. status.images = CustomImages(spec) /\ DOMAIN CustomImages(spec) = {1}
      BY <2>3, <2>4 DEF ImagesFit, CustomImages
    <3> QED
      BY <2>2, <3>1
  <2>5. ASSUME undisturbed' PROVE Steady(status, spec, node', controlPlane)
    BY <2>1, <2>2, <2>3, <2>4, <2>5 DEF Steady, K8sUsable, Usable
  <2> QED
    BY <1>p, <2>1, <2>5 DEF StaysInv
<1>10. ASSUME NEW sp \in Requests, EditSpec(sp) PROVE StaysInv'
  BY <1>p, <1>10 DEF EditSpec
<1>11. ASSUME NEW v \in Supported, UpgradeControlPlane(v) PROVE StaysInv'
  BY <1>p, <1>11 DEF UpgradeControlPlane, StaysInv
<1>12. CASE MoveWindow
  BY <1>p, <1>12 DEF MoveWindow, StaysInv
<1>13. CASE ReleaseImages \/ (\E key \in DOMAIN listed : ExpireList(key))
  BY <1>u, <1>13 DEF ReleaseImages, ExpireList
<1>14. CASE UNCHANGED vars
  BY <1>u, <1>14 DEF vars
<1> QED
  BY <1>1, <1>2, <1>3, <1>4, <1>5, <1>6, <1>7, <1>8, <1>9, <1>10, <1>11, <1>12, <1>13, <1>14 DEF Next, Reconcile

\* While the maintenance window is closed and nobody edits the spec or upgrades the cluster, a launched
\* node does not drift, whatever is published, expires, fails or restarts, if every release lists the
\* same images.
THEOREM UndisturbedCorrect ==
    ASSUME WholeReleases, SameEveryRelease
    PROVE  Spec => []UndisturbedNodeStays
PROOF
<1>1. PinInv /\ StaysInv => UndisturbedNodeStays
  <2> SUFFICES ASSUME PinInv, StaysInv, undisturbed, IsDrifted PROVE FALSE
    BY DEF UndisturbedNodeStays
  <2>1. Steady(status, spec, node, controlPlane)
    BY DEF StaysInv
  <2>2. ImagesUsable(status) /\ \A i \in DOMAIN status.images : node.image # status.images[i]
    BY <2>1 DEF IsDrifted, IsK8sVersionDrifted, IsImageVersionDrifted, Steady
  <2>3. spec.selector \in Custom /\ node.image = CustomImages(spec)[1]
    BY <2>1, <2>2 DEF Steady
  <2>4. status.images = CustomImages(spec) /\ 1 \in DOMAIN CustomImages(spec)
    BY <2>2, <2>3 DEF PinInv, Sound, ImagesFit, CustomImages
  <2> QED
    BY <2>2, <2>3, <2>4
<1>2. Init => PinInv /\ StaysInv
  BY InitSound, InitStays
<1>3. IInv /\ PinInv /\ StaysInv /\ [Next]_vars => PinInv' /\ StaysInv'
  BY NextSound, NextStays
<1> QED
  BY <1>1, <1>2, <1>3, InvariantHolds, PTL DEF Spec
=============================================================================
