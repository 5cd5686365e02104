------------------------ MODULE MCNodeClassVersions ------------------------
(* Instances of NodeClassVersions for TLC: a family with another OS         *)
(* release, of two image definitions, on the newer Kubernetes version, a    *)
(* custom image, and FIPS without the shared image gallery.                 *)
EXTENDS NodeClassVersions

CONSTANTS linux, custom, fips, gen1, gen2, old

V130 == <<1, 30, 4>>
V131 == <<1, 31, 2>>
MCVersions == {V130, V131}
Request(k8s, image, selector) == [k8s |-> k8s, image |-> image, selector |-> selector]
\* Follow the cluster; pin a version; pin pairs, some of which are never valid; leave the gallery.
Pins == {Request(None, None, linux), Request(V130, None, linux), Request(V130, 1, linux), Request(V131, 1, linux)}
AllRequests == Pins \cup {Request(None, None, custom), Request(None, None, fips)}
MCSupported == {V130, V131}
MCSupportedImages ==
    [s \in Selectors |-> [k \in K8sVersions |-> [v \in ImageVersions |->
        IF s \in Custom \cup FIPSWithoutSIG THEN <<>> ELSE IF k = V131 THEN <<gen2, gen1>> ELSE <<old>>]]]
\* The second release is the first to list one of the definitions.
LateSupportedImages ==
    [s \in Selectors |-> [k \in K8sVersions |-> [v \in ImageVersions |->
        IF s \in Custom \cup FIPSWithoutSIG THEN <<>> ELSE IF v > 1 THEN <<gen2, gen1>> ELSE <<gen2>>]]]

\* The first instance is one of those whose pins are honoured and whose nodes stay.
ASSUME SupportedImages = MCSupportedImages => WholeReleases /\ SameEveryRelease
============================================================================
