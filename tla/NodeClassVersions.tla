------------------------- MODULE NodeClassVersions -------------------------
(***************************************************************************)
(* The Kubernetes version and the images of one AKSNodeClass: the status   *)
(* controller with its Kubernetes version and node image reconcilers, the  *)
(* image list they read through its cache, pins, rollback pairs and        *)
(* maintenance windows, and the launch and the drift checks that use the   *)
(* status. The other status reconcilers touch none of this state.          *)
(*                                                                         *)
(* A reconcile works on a copy of the object and writes it back with one   *)
(* status patch under an optimistic lock. A condition's observedGeneration *)
(* is modelled as a flag that an edit of the spec clears.                  *)
(***************************************************************************)
EXTENDS Integers, Sequences, FiniteSets

CONSTANTS
    K8sVersions,        \* a set of <<major, minor, patch>>
    Supported,          \* the versions AKS lists for the region
    Selectors,          \* what a spec selects its images by: family, FIPS mode, image ID, ...
    Custom,             \* the selectors with an image ID
    FIPSWithoutSIG,     \* the selectors that ask for FIPS images when UseSIG is off
    SupportedImages,    \* selector -> Kubernetes version -> release -> the sequence of supported image
                        \* definitions that the gallery lists with that release
    Requests,           \* the specs that users write
    None,
    MaxReleases,        \* bound of the model: image releases
    MaxDisturbances     \* bound of the model: edits, upgrades, failures and restarts

\* Version suffixes of images: those of the gallery, and the one of the custom image.
CustomVersion == 0
ImageVersions == 0..(MaxReleases + 1)

\* The rules of admission: an image pin needs a Kubernetes pin, and no image ID beside it.
Admitted(sp) == sp.image # None => sp.k8s # None /\ sp.selector \notin Custom
Specs == {sp \in [k8s : K8sVersions \cup {None}, image : ImageVersions \cup {None}, selector : Selectors] : Admitted(sp)}

\* A list of images, by its definitions: what a selector gives for a Kubernetes version and a release.
Elements(sequence) == {sequence[i] : i \in DOMAIN sequence}
Lists == {Elements(SupportedImages[s][k][v]) : s \in Selectors, k \in K8sVersions, v \in ImageVersions}
Definitions == UNION Lists

\* An image definition belongs to one OS release and mode (the DefaultImages of the families), and a
\* release lists all or none of those. A custom image is not in the galleries of AKS.
WholeReleases ==
    /\ \A a, b \in Lists : a = b \/ a \cap b = {}
    /\ Custom \cap Definitions = {}

\* Every release lists the same definitions, whatever the selector.
SameEveryRelease ==
    \A s \in Selectors, k \in K8sVersions, v, w \in ImageVersions : SupportedImages[s][k][v] = SupportedImages[s][k][w]

ASSUME NodeClassAssumption ==
    /\ Requests \subseteq Specs
    /\ K8sVersions \subseteq Nat \X Nat \X Nat /\ Supported \subseteq K8sVersions
    /\ Custom \subseteq Selectors /\ FIPSWithoutSIG \subseteq Selectors \ Custom
    /\ SupportedImages \in [Selectors -> [K8sVersions -> [ImageVersions -> Seq(Definitions)]]]
    /\ None \notin K8sVersions /\ None \notin ImageVersions
    /\ MaxReleases \in Nat /\ MaxDisturbances \in Nat

VARIABLES
    spec,               \* spec.versions and the image selector
    status,             \* the status in the API server
    pc, work,           \* the reconcile and its copy: spec and status
    conflict,           \* the object was written since the copy was read
    listed,             \* nodeImagesCache: <<selector, Kubernetes version>> -> image version
    controlPlane,       \* the version KubeServerVersion reports
    gallery,            \* the newest image version published
    window,             \* the maintenance window: open or closed
    node,               \* a node: the Kubernetes version and image it was launched with
    disturbances,
    ready, offered,     \* history: the pairs that were Ready, the pairs that List returned
    undisturbed         \* history: no edit, upgrade or window, pending at the node's launch or since

environment == <<controlPlane, gallery, window>>
history     == <<ready, offered>>
vars == <<spec, status, pc, work, conflict, listed, environment, node, disturbances, history, undisturbed>>

Conditions == [is : {"True", "False", "Unknown"}, pinned : BOOLEAN, observed : BOOLEAN]
Condition(is, pinned) == [is |-> is, pinned |-> pinned, observed |-> TRUE]
Unknown == Condition("Unknown", FALSE)
True    == Condition("True", FALSE)
False   == Condition("False", FALSE)
Pinned  == Condition("True", TRUE)

Pair(k8s, image) == <<k8s, image>>
\* parseVersion of the first image.
CurrentImage(st) == IF st.images = <<>> THEN None ELSE st.images[1].version
ReadyPair(st) ==
    IF st.k8sReady.is = "True" /\ st.imagesReady.is = "True" /\ st.images # <<>>
    THEN {Pair(st.k8s, CurrentImage(st))} ELSE {}

Bug_AnyGeneration(condition) == condition.is = "True"
\* GetKubernetesVersion and GetImages: true, and of this generation.
Usable(condition) == condition.is = "True" /\ condition.observed
K8sUsable(st) == Usable(st.k8sReady) /\ st.k8s # None
ImagesUsable(st) == Usable(st.imagesReady)

-----------------------------------------------------------------------------
(* The Kubernetes version reconciler.                                      *)

Older(v, w) == \E i \in 1..3 : v[i] < w[i] /\ \A j \in 1..(i - 1) : v[j] = w[j]

ValidateKubernetesVersionSkew(v, c) ==
    /\ v[1] = c[1] /\ v[2] <= c[2] /\ c[2] - v[2] <= 3
    /\ v[2] = c[2] => v[3] <= c[3]

\* findRecentlyUsedPair: one pair is kept.
RecentlyUsed(st, sp) == st.recent = Pair(sp.k8s, sp.image)

PinsCurrentOrLatest(st, sp) == sp.image # None /\ sp.image \in {CurrentImage(st), st.latest}

Bug_NoWayBack(st, sp) == ~(st.k8s \notin {None, sp.k8s} /\ PinsCurrentOrLatest(st, sp))
ValidateCurrentOrLatestImagePin(st, sp) ==
    st.k8s \notin {None, sp.k8s} /\ PinsCurrentOrLatest(st, sp) => RecentlyUsed(st, sp)

ValidatePinnedK8sVersion(st, sp, c) ==
    /\ ValidateKubernetesVersionSkew(sp.k8s, c)
    /\ sp.k8s \in Supported
    /\ ValidateCurrentOrLatestImagePin(st, sp)

Bug_KeepsImages(st, k8s, outdates) == [st EXCEPT !.k8s = k8s, !.k8sReady = True]
\* The version becomes the status' version; a change of it that is noticed outdates the images.
Publish(st, k8s, outdates) ==
    [st EXCEPT !.k8s = k8s, !.k8sReady = True, !.imagesReady = IF outdates THEN False ELSE @]

Bug_StaysInvalid(st, sp, c) ==
    CASE sp.k8s # None /\ ~ValidatePinnedK8sVersion(st, sp, c) -> [st EXCEPT !.k8sReady = False]
      [] sp.k8s # None /\ ValidatePinnedK8sVersion(st, sp, c) -> Publish(st, sp.k8s, sp.k8s # st.k8s)
      [] sp.k8s = None /\ st.k8s = None -> Publish(st, c, FALSE)
      [] OTHER -> IF Older(st.k8s, c) THEN Publish(st, c, TRUE) ELSE st
KubernetesVersion(st, sp, c) ==
    CASE sp.k8s # None /\ ~ValidatePinnedK8sVersion(st, sp, c) -> [st EXCEPT !.k8sReady = False]
      [] sp.k8s # None /\ ValidatePinnedK8sVersion(st, sp, c) -> Publish(st, sp.k8s, sp.k8s # st.k8s)
      [] sp.k8s = None /\ (st.k8sReady.is # "True" \/ st.k8s = None) -> Publish(st, c, FALSE)
      [] OTHER -> IF Older(st.k8s, c) THEN Publish(st, c, TRUE) ELSE Publish(st, st.k8s, FALSE)

-----------------------------------------------------------------------------
(* The node image reconciler.                                              *)

ListKey(st, sp) == <<sp.selector, st.k8s>>

\* List through its cache: the version of what it returns. A cached list is not refreshed.
ListedVersion(st, sp) ==
    IF listed[ListKey(st, sp)] # None THEN listed[ListKey(st, sp)] ELSE gallery

Images(definitions, version) ==
    [i \in DOMAIN definitions |-> [base |-> definitions[i], version |-> version]]

\* validatePinning: whether the image pin is accepted.
ValidatePinning(st, sp) ==
    IF PinsCurrentOrLatest(st, sp) THEN st.k8sReady.is = "True" ELSE RecentlyUsed(st, sp)
ImagesAfterRefusal(st, sp) ==
    IF PinsCurrentOrLatest(st, sp) THEN st ELSE [st EXCEPT !.imagesReady = False]

\* overrideAnyGoalStateVersionsWithExisting: an image definition keeps its version.
KeepExisting(st, goal) ==
    [i \in DOMAIN goal |->
        IF \E j \in DOMAIN st.images : st.images[j].base = goal[i].base
        THEN st.images[CHOOSE j \in DOMAIN st.images : st.images[j].base = goal[i].base]
        ELSE goal[i]]

\* Whether all images move, whatever the window says.
ShouldUpdate(st, sp) ==
    \/ st.imagesReady.is # "True"
    \/ sp.image # None /\ CurrentImage(st) # sp.image
    \/ sp.image = None /\ st.imagesReady.pinned

Bug_NoWindow(st, sp, version, open) ==
    LET suffix == IF sp.image = None THEN version ELSE sp.image
    IN  [st EXCEPT !.images = Images(SupportedImages[sp.selector][st.k8s][version], suffix), !.latest = version,
                   !.imagesReady = IF sp.image = None THEN True ELSE Pinned]
\* With the list at hand: applyImagePinning, the update or the merge, the conditions.
UpdateImages(st, sp, version, open) ==
    LET definitions == SupportedImages[sp.selector][st.k8s][version]
        pinned == Images(definitions, IF sp.image = None THEN version ELSE sp.image)
        goal   == IF ShouldUpdate(st, sp) \/ open THEN pinned ELSE KeepExisting(st, pinned)
    IN  IF definitions = <<>>
        THEN [st EXCEPT !.images = <<>>, !.imagesReady = False]
        ELSE [st EXCEPT !.images = goal, !.latest = version,
                        !.imagesReady = IF sp.image = None THEN True ELSE Pinned]

Bug_KeepsReady(st, sp, found) ==
    IF found THEN [st EXCEPT !.images = <<[base |-> sp.selector, version |-> CustomVersion]>>,
                             !.latest = None, !.imagesReady = True]
             ELSE [st EXCEPT !.images = <<>>, !.latest = None]
\* reconcileCustomImage.
CustomImage(st, sp, found) ==
    IF found THEN [st EXCEPT !.images = <<[base |-> sp.selector, version |-> CustomVersion]>>,
                             !.latest = None, !.imagesReady = True]
             ELSE [st EXCEPT !.images = <<>>, !.latest = None, !.imagesReady = False]

-----------------------------------------------------------------------------
(* The status controller.                                                  *)

NewStatus == [k8s |-> None, images |-> <<>>, latest |-> None, recent |-> None,
              k8sReady |-> Unknown, imagesReady |-> Unknown]

Init ==
    /\ spec \in {sp \in Requests : sp.k8s = None}
    /\ status = NewStatus
    /\ pc = "idle" /\ work = None /\ conflict = FALSE
    /\ listed = [key \in Selectors \X K8sVersions |-> None]
    /\ controlPlane \in Supported /\ gallery = 1 /\ window \in {"open", "closed"}
    /\ node = None
    /\ disturbances = 0
    /\ ready = {} /\ offered = {} /\ undisturbed = FALSE

\* Reconcile gets the object.
Begin ==
    /\ pc = "idle"
    /\ pc' = "kubernetesVersion"
    /\ work' = [spec |-> spec, status |-> status]
    /\ conflict' = FALSE
    /\ UNCHANGED <<spec, status, listed, environment, node, disturbances, history, undisturbed>>

\* An error leaves the copy as it is, and the reconcilers after it run.
ReconcileKubernetesVersion(fails) ==
    /\ pc = "kubernetesVersion"
    /\ fails => disturbances < MaxDisturbances
    /\ disturbances' = IF fails THEN disturbances + 1 ELSE disturbances
    /\ work' = IF fails THEN work
               ELSE [work EXCEPT !.status = KubernetesVersion(@, work.spec, controlPlane)]
    /\ pc' = "nodeImage"
    /\ UNCHANGED <<spec, status, conflict, listed, environment, node, history, undisturbed>>

\* The image reconciler returns before it lists.
RefuseImages ==
    LET st == work.status
        sp == work.spec
        unsupported == sp.selector \in FIPSWithoutSIG
    IN  /\ pc = "nodeImage" /\ sp.selector \notin Custom
        /\ unsupported \/ (sp.image # None /\ ~ValidatePinning(st, sp))
        /\ work' = [work EXCEPT !.status = IF unsupported
                                           THEN [st EXCEPT !.images = <<>>, !.imagesReady = False]
                                           ELSE ImagesAfterRefusal(st, sp)]
        /\ pc' = "patch"
        /\ UNCHANGED <<spec, status, conflict, listed, environment, node, disturbances, history, undisturbed>>

ReconcileCustomImage(fails) ==
    /\ pc = "nodeImage" /\ work.spec.selector \in Custom
    /\ fails => disturbances < MaxDisturbances
    /\ disturbances' = IF fails THEN disturbances + 1 ELSE disturbances
    /\ LET found == ~fails /\ K8sUsable(work.status)
       IN  /\ work' = [work EXCEPT !.status = CustomImage(@, work.spec, found)]
           /\ offered' = IF found THEN offered \cup {Pair(work.status.k8s, CustomVersion)} ELSE offered
    /\ pc' = "patch"
    /\ UNCHANGED <<spec, status, conflict, listed, environment, node, ready, undisturbed>>

PassesValidation ==
    /\ work.spec.selector \notin Custom \cup FIPSWithoutSIG
    /\ work.spec.image # None => ValidatePinning(work.status, work.spec)

\* List fails: for want of a usable Kubernetes version, or in Azure.
ListFails ==
    /\ pc = "nodeImage" /\ PassesValidation
    /\ K8sUsable(work.status) => disturbances < MaxDisturbances
    /\ disturbances' = IF K8sUsable(work.status) THEN disturbances + 1 ELSE disturbances
    /\ pc' = "patch"
    /\ UNCHANGED <<spec, status, work, conflict, listed, environment, node, history, undisturbed>>

\* List answers. The window is only read when it decides.
ReconcileImages(windowFails) ==
    LET st == work.status
        sp == work.spec
        version == ListedVersion(st, sp)
    IN  /\ pc = "nodeImage" /\ PassesValidation /\ K8sUsable(st)
        /\ windowFails => disturbances < MaxDisturbances /\ ~ShouldUpdate(st, sp)
        /\ disturbances' = IF windowFails THEN disturbances + 1 ELSE disturbances
        /\ listed' = [listed EXCEPT ![ListKey(st, sp)] = version]
        /\ offered' = offered \cup {Pair(st.k8s, version)}
        /\ work' = IF windowFails THEN work
                   ELSE [work EXCEPT !.status = UpdateImages(st, sp, version, window = "open")]
        /\ pc' = "patch"
        /\ UNCHANGED <<spec, status, conflict, environment, node, ready, undisturbed>>

Bug_SnapshotUnready(old, new) ==
    IF old.k8s # None /\ old.images # <<>>
       /\ (CurrentImage(new) # CurrentImage(old) \/ new.k8s # old.k8s)
    THEN [new EXCEPT !.recent = Pair(old.k8s, CurrentImage(old))]
    ELSE new
\* snapshotRecentlyUsed: the pair that was Ready, once either half of it changes.
SnapshotRecentlyUsed(old, new) ==
    IF ReadyPair(old) # {} /\ old.k8s # None
       /\ (CurrentImage(new) # CurrentImage(old) \/ new.k8s # old.k8s)
    THEN [new EXCEPT !.recent = Pair(old.k8s, CurrentImage(old))]
    ELSE new

\* One patch for all reconcilers, refused when the object was written meanwhile.
Patch ==
    /\ pc = "patch"
    /\ pc' = "idle"
    /\ status' = IF conflict \/ work.status = status THEN status
                 ELSE SnapshotRecentlyUsed(status, work.status)
    /\ ready' = ready \cup ReadyPair(status')
    /\ work' = None /\ conflict' = FALSE
    /\ UNCHANGED <<spec, listed, environment, node, disturbances, offered, undisturbed>>

\* The process restarts: the copy and the cache are lost.
Restart ==
    /\ disturbances < MaxDisturbances
    /\ disturbances' = disturbances + 1
    /\ pc' = "idle" /\ work' = None /\ conflict' = FALSE
    /\ listed' = [key \in DOMAIN listed |-> None]
    /\ UNCHANGED <<spec, status, environment, node, history, undisturbed>>

-----------------------------------------------------------------------------
(* Users, Azure and time.                                                  *)

EditSpec(sp) ==
    /\ disturbances < MaxDisturbances /\ sp # spec
    /\ spec' = sp
    /\ status' = [status EXCEPT !.k8sReady.observed = FALSE, !.imagesReady.observed = FALSE]
    /\ conflict' = (pc # "idle")
    /\ disturbances' = disturbances + 1
    /\ undisturbed' = FALSE
    /\ UNCHANGED <<pc, work, listed, environment, node, history>>

\* The API server is upgraded. While its replicas differ it can also answer with the older version.
UpgradeControlPlane(v) ==
    /\ disturbances < MaxDisturbances /\ v # controlPlane
    /\ controlPlane' = v
    /\ disturbances' = disturbances + 1
    /\ undisturbed' = FALSE
    /\ UNCHANGED <<spec, status, pc, work, conflict, listed, gallery, window, node, history>>

ReleaseImages ==
    /\ gallery <= MaxReleases
    /\ gallery' = gallery + 1
    /\ UNCHANGED <<spec, status, pc, work, conflict, listed, controlPlane, window, disturbances, node, history, undisturbed>>

\* ImageExpirationInterval ends.
ExpireList(key) ==
    /\ listed[key] \notin {None, gallery}     \* before that, List answers the same
    /\ listed' = [listed EXCEPT ![key] = None]
    /\ UNCHANGED <<spec, status, pc, work, conflict, environment, node, disturbances, history, undisturbed>>

MoveWindow ==
    /\ window' = IF window = "open" THEN "closed" ELSE "open"
    /\ undisturbed' = FALSE
    /\ UNCHANGED <<spec, status, pc, work, conflict, listed, controlPlane, gallery, disturbances, node, history>>

-----------------------------------------------------------------------------
(* What the status is for.                                                 *)

\* validateNodeClass: the NodeClass is Ready, and both values are of this generation.
Launchable == K8sUsable(status) /\ ImagesUsable(status)

IsK8sVersionDrifted == K8sUsable(status) /\ node.k8s # status.k8s
IsImageVersionDrifted ==
    ImagesUsable(status) /\ \A i \in DOMAIN status.images : node.image # status.images[i]
IsDrifted == node # None /\ (IsK8sVersionDrifted \/ IsImageVersionDrifted)

\* A first node, or the replacement of one that drifted.
Launch ==
    /\ node = None \/ IsDrifted
    /\ Launchable
    /\ \E i \in DOMAIN status.images : node' = [k8s |-> status.k8s, image |-> status.images[i]]
    /\ undisturbed' = (window = "closed" /\ pc = "idle" /\ (spec.k8s # None \/ ~Older(status.k8s, controlPlane)))
    /\ UNCHANGED <<spec, status, pc, work, conflict, listed, environment, disturbances, history>>

-----------------------------------------------------------------------------
Reconcile ==
    \/ Begin \/ Patch
    \/ \E fails \in BOOLEAN : ReconcileKubernetesVersion(fails) \/ ReconcileCustomImage(fails)
    \/ RefuseImages \/ ListFails
    \/ \E fails \in BOOLEAN : ReconcileImages(fails)

Next ==
    \/ Reconcile \/ Restart \/ Launch
    \/ \E sp \in Requests : EditSpec(sp)
    \/ \E v \in Supported : UpgradeControlPlane(v)
    \/ ReleaseImages \/ MoveWindow
    \/ \E key \in DOMAIN listed : ExpireList(key)

Spec == Init /\ [][Next]_vars

\* Every reconcile is requeued: after its interval, or with backoff when it failed.
FairSpec == Spec /\ WF_vars(Reconcile)

-----------------------------------------------------------------------------
ImageSequences == Seq([base : Definitions \cup Custom, version : ImageVersions])
Statuses == [k8s : K8sVersions \cup {None}, images : ImageSequences, latest : ImageVersions \cup {None},
             recent : (K8sVersions \X ImageVersions) \cup {None},
             k8sReady : Conditions, imagesReady : Conditions]

\* Every variable has its type, and True conditions have the value they speak of.
WellFormed(st) ==
    /\ st \in Statuses
    /\ st.k8sReady.is = "True" => st.k8s # None
    /\ st.imagesReady.is = "True" => st.images # <<>>
    /\ st.imagesReady.pinned => st.imagesReady.is = "True"
TypeOK ==
    /\ spec \in Specs /\ WellFormed(status)
    /\ IF pc = "idle" THEN work = None ELSE work \in [spec : Specs, status : Statuses] /\ WellFormed(work.status)
    /\ pc \in {"idle", "kubernetesVersion", "nodeImage", "patch"}
    /\ conflict \in BOOLEAN /\ undisturbed \in BOOLEAN
    /\ listed \in [Selectors \X K8sVersions -> ImageVersions \cup {None}]
    /\ controlPlane \in Supported /\ gallery \in ImageVersions /\ window \in {"open", "closed"}
    /\ disturbances \in 0..MaxDisturbances

\* snapshotRecentlyUsed: whatever fails halfway, the rollback pair is a pair that was Ready in the API
\* server ("the Kubernetes version with which the historical image was actually used").
RecentPairWasReady == status.recent = None \/ status.recent \in ready

\* validateNodeClass and the patch: a NodeClass that can launch nodes does what its spec, as it is now,
\* pins, although reconcilers fail one by one and edits come in between.
PinHonoured ==
    Launchable =>
        /\ spec.k8s # None => status.k8s = spec.k8s
        /\ spec.image # None => \A i \in DOMAIN status.images : status.images[i].version = spec.image

\* The maintenance window, for a node: while it is closed, and nobody edits the spec or upgrades the
\* cluster, a launched node does not drift, whatever is published, expires, fails or restarts.
UndisturbedNodeStays == undisturbed => ~IsDrifted

\* Whatever pins were refused before, a spec without pins becomes launchable again.
Unpinned == spec.k8s = None /\ spec.selector \notin FIPSWithoutSIG
UnpinningRecovers == Unpinned ~> (Launchable \/ ~Unpinned)

\* A rollback request for the recorded pair, made while nothing fails any more, is carried out: the
\* reconciler's own steps do not invalidate it.
RollbackRequested ==
    /\ disturbances = MaxDisturbances /\ spec.image # None /\ spec.selector \notin FIPSWithoutSIG
    /\ spec.k8s \in Supported /\ ValidateKubernetesVersionSkew(spec.k8s, controlPlane)
    /\ RecentlyUsed(status, spec) /\ pc = "idle"
RollbackCompletes ==
    \A sp \in {r \in Requests : r.image # None} : (RollbackRequested /\ spec = sp) ~> ((Launchable /\ spec = sp) \/ spec # sp)

\* Kubernetes upgrades and pins ("we upgrade node image when there is a kubernetes upgrade"): when a Ready
\* NodeClass is Ready with another Kubernetes version after one reconcile, its images were listed for
\* that version, or the pair is the one it was asked to roll back to.
ListedOrRolledBack(pairs) == pairs \subseteq offered' \cup {status.recent}
NewVersionBringsItsImages ==
    [][ReadyPair(status) # {} /\ status'.k8s # status.k8s => ListedOrRolledBack(ReadyPair(status'))]_vars
=============================================================================
