----------------------------- MODULE Offerings -----------------------------
(***************************************************************************)
(* The unavailable-offerings cache and the loop it serves: the cached list *)
(* of instance types, the choice of one offering, its launch, and the      *)
(* error handlers that mark what a failed launch says about other          *)
(* offerings. The quota overlay of the list is in module Quota.            *)
(*                                                                         *)
(* An entry holds the time it has left. At zero it has expired (Get no     *)
(* longer finds it) and stays until the janitor evicts it.                 *)
(***************************************************************************)
EXTENDS Integers

CONSTANTS
    Launchers,          \* NodeClaim reconciles, each launching one NodeClaim after another
    Groups,             \* capacity reservation groups
    Unreserved,         \* the scope of everything outside a group
    SKUs, Families,
    NoFamily,           \* the family name of a SKU whose data lacks one
    Family, VCPU,       \* SKU -> family, vCPUs
    SpotCapable,        \* SKUs that report LowPriorityCapable
    Name,               \* SKU -> place in name order
    Price,              \* SKU -> capacity type -> price
    Zones, Regional,    \* the zones of the region; the placement outside any zone
    ZonesOf,            \* SKU -> zones and Regional, as instanceTypeZones gives them
    Members,            \* group -> <<SKU, zone>> its eligible reservations back
    TTL,                \* kind of error -> how long its marks last
    None,               \* no launcher, list, offering or mark
    Scenarios,          \* the scope each launcher's NodeClass selects, what Azure serves
                        \* (<<scope, offering>>) and how it refuses; Azure is external
    MaxDisturbances,    \* bound of the model: errors without a mark, group changes
    MaxTicks            \* bound of the model: how often time passes, None for no bound

OnDemand == "on-demand"
Spot == "spot"
CapacityTypes == {OnDemand, Spot}
Scopes == Groups \cup {Unreserved}
Placements == Zones \cup {Regional}

\* The errors the handlers tell apart; Unmatched stands for all others.
Kinds == {"InvalidAvailabilityZone", "LowPriorityQuota", "SKUFamilyQuota", "SKUFamilyQuotaZero",
          "SKUNotAvailable", "SKUNotAvailableOnDemand", "ZonalAllocationFailure",
          "AllocationFailure", "OverconstrainedZonalAllocationFailure",
          "OverconstrainedAllocationFailure", "RegionalQuota", "VMSizeNotSupported"}
Unmatched == "Unmatched"

Offering == [sku : SKUs, zone : Placements, ct : CapacityTypes]

ASSUME OfferingsAssumption ==
    /\ None \notin Launchers /\ None \notin Nat
    /\ Unreserved \notin Groups /\ Regional \notin Zones /\ NoFamily \notin Families
    /\ Family \in [SKUs -> Families \cup {NoFamily}]
    /\ VCPU \in [SKUs -> Nat] /\ Name \in [SKUs -> Nat]
    /\ SpotCapable \subseteq SKUs
    /\ Price \in [SKUs -> [CapacityTypes -> Nat]]
    /\ ZonesOf \in [SKUs -> SUBSET Placements]
    /\ Members \in [Groups -> SUBSET (SKUs \X Placements)]
    /\ TTL \in [Kinds -> Nat \ {0}]
    /\ Scenarios \subseteq [scope : [Launchers -> Scopes], serves : SUBSET (Scopes \X Offering), errors : SUBSET Kinds]
    /\ MaxDisturbances \in Nat /\ MaxTicks \in Nat \cup {None}

VARIABLES
    \* UnavailableOfferings
    single,             \* key -> time left, for the keys in singleOfferingCache
    family,             \* key -> limit and time left, for the keys in vmFamilyCache
    mu,                 \* who holds its mutex, or Nobody
    current, kept,      \* the mark its holder makes; the limit it read and keeps, or None
    evicted,            \* entries are gone whose OnEvicted has not run yet
    \* instancetype.DefaultProvider
    outdated,           \* seqNum differs from instanceTypesCacheGeneration
    listed,             \* scope -> the offerings its cached list shows available, or NotCached
    listing,            \* who holds muInstanceTypesCache, or Nobody
    \* the launchers
    pc, view, unread,   \* the list a launcher got or builds, the SKUs it has still to build
    chosen,             \* the offering it launches
    marks,              \* the marks its error asks for
    bump,               \* whether the one being made was read to change an answer
    scenario,
    \* history: an entry read as unexpired had expired when it was set again, since the last flush
    lapsed,
    ticked,             \* time has advanced since the launcher's attempt began
    disturbances, ticksLeft

entryVars    == <<single, family>>
markVars     == <<mu, current, kept, lapsed>>
offeringVars == <<entryVars, markVars, evicted>>
listVars     == <<listed, listing>>
attemptVars  == <<view, unread, chosen>>
envVars      == <<disturbances, ticksLeft, scenario>>
vars == <<offeringVars, outdated, listVars, pc, attemptVars, marks, bump, ticked, envVars>>

Scope == scenario.scope

Nobody == None
NotCached == None
NoOffering == None

-----------------------------------------------------------------------------
(* UnavailableOfferings: keys and reads.                                   *)

SpotKey == <<"spot">>
SKUZoneKey(sku, zone) == <<"skuZone", sku, zone>>
SingleInstanceKey(scope, sku, zone, ct) == <<scope, ct, sku, zone>>
VMFamilyKey(scope, fam, zone, ct) == <<scope, fam, zone, ct>>

\* Set of either cache.
Put(entries, k, entry) == [j \in DOMAIN entries \cup {k} |-> IF j = k THEN entry ELSE entries[j]]

\* Get of either cache: an expired entry is not found.
Found(k)       == k \in DOMAIN single /\ single[k] > 0
FamilyFound(k) == k \in DOMAIN family /\ family[k].left > 0

IsFamilyUnavailable(scope, sku, zone, ct) ==
    LET k == VMFamilyKey(scope, Family[sku], zone, ct)
    IN  FamilyFound(k) /\ VCPU[sku] >= family[k].limit

IsUnavailable(scope, sku, zone, ct) ==
    \/ Found(SKUZoneKey(sku, zone))
    \/ ct = Spot /\ Found(SpotKey)
    \/ IsFamilyUnavailable(scope, sku, zone, ct)
    \/ Found(SingleInstanceKey(scope, sku, zone, ct))

-----------------------------------------------------------------------------
(* The offerings of an instance type, in the list of a scope.              *)

\* buildInstanceTypes: a group restricts a SKU to the placements its members back.
OfferingZones(scope, sku) ==
    IF scope = Unreserved THEN ZonesOf[sku]
                          ELSE {z \in ZonesOf[sku] : <<sku, z>> \in Members[scope]}

\* createOfferings: spot cannot consume a reservation.
OfferingsOf(scope, sku) ==
    [sku : {sku}, zone : OfferingZones(scope, sku),
     ct : IF scope = Unreserved THEN CapacityTypes ELSE {OnDemand}]

AvailableOfferings(scope, sku) ==
    {o \in OfferingsOf(scope, sku) :
        /\ o.ct = Spot => sku \in SpotCapable
        /\ ~IsUnavailable(scope, sku, o.zone, o.ct)}

FreshList(scope) == UNION {AvailableOfferings(scope, sku) : sku \in SKUs}

PlacementScope(zone) == IF zone = Regional THEN "regional" ELSE "zonal"

-----------------------------------------------------------------------------
(* The error handlers: what a failed launch of o in a scope marks.         *)

Bug_ShortTTL(type, zone, ct, kind) == [type |-> type, zone |-> zone, ct |-> ct, ttl |-> 1]
Mark(type, zone, ct, kind) == [type |-> type, zone |-> zone, ct |-> ct, ttl |-> TTL[kind]]
MarksOf(zones, cts, kind) == {Mark("offering", z, ct, kind) : z \in zones, ct \in cts}

\* The zones of the attempted placement scope; within a group only the attempted one.
ZonesInPlacement(scope, o) ==
    {z \in OfferingZones(scope, o.sku) :
        /\ PlacementScope(z) = PlacementScope(o.zone)
        /\ scope # Unreserved => z = o.zone}

MarkOfferingsForCapacityTypeAndPlacement(scope, o, kind) ==
    MarksOf(ZonesInPlacement(scope, o), {o.ct}, kind)

MarkOfferingsForPlacementForBothCapacityTypes(scope, o, kind) ==
    MarksOf(ZonesInPlacement(scope, o), CapacityTypes, kind)

MarkAllPlacementsForBothCapacityTypes(scope, o, kind) ==
    MarksOf(OfferingZones(scope, o.sku), CapacityTypes, kind)

HandleLowPriorityQuota(kind) == {Mark("spot", Regional, Spot, kind)}

HandleSKUFamilyQuota(scope, o, kind) ==
    MarksOf({z \in OfferingZones(scope, o.sku) : scope # Unreserved => z = o.zone}, {o.ct}, kind)

HandleInvalidAvailabilityZone(o, kind) ==
    IF o.zone = Regional THEN {} ELSE {Mark("skuZone", o.zone, o.ct, kind)}

HandleZonalAllocationFailure(o, kind) == MarksOf({o.zone}, CapacityTypes, kind)

HandleOverconstrainedZonal(o, kind) == MarksOf({o.zone}, {o.ct}, kind)

HandleRegionalQuota(scope, o, kind) ==
    IF scope = Unreserved THEN {} ELSE MarksOf({o.zone}, {o.ct}, kind)

Handle(kind, scope, o) ==
    CASE kind = "InvalidAvailabilityZone" -> HandleInvalidAvailabilityZone(o, kind)
      [] kind = "LowPriorityQuota" -> HandleLowPriorityQuota(kind)
      [] kind \in {"SKUFamilyQuota", "SKUFamilyQuotaZero"} -> HandleSKUFamilyQuota(scope, o, kind)
      [] kind \in {"SKUNotAvailable", "SKUNotAvailableOnDemand", "OverconstrainedAllocationFailure"}
            -> MarkOfferingsForCapacityTypeAndPlacement(scope, o, kind)
      [] kind = "ZonalAllocationFailure" -> HandleZonalAllocationFailure(o, kind)
      [] kind = "AllocationFailure" -> MarkOfferingsForPlacementForBothCapacityTypes(scope, o, kind)
      [] kind = "OverconstrainedZonalAllocationFailure" -> HandleOverconstrainedZonal(o, kind)
      [] kind = "RegionalQuota" -> HandleRegionalQuota(scope, o, kind)
      [] kind = "VMSizeNotSupported" -> MarkAllPlacementsForBothCapacityTypes(scope, o, kind)
      [] OTHER -> {}

\* What Azure means by an error, external: the offerings it says nothing can be launched from.
Widened(o, p) == (Family[p.sku] = Family[o.sku] /\ VCPU[p.sku] >= VCPU[o.sku]) \/ p.sku = o.sku
Reaches(kind, o, p) ==
    CASE kind \in {"ZonalAllocationFailure", "OverconstrainedZonalAllocationFailure"} -> p.zone = o.zone
      [] kind \in {"AllocationFailure", "SKUNotAvailable", "SKUNotAvailableOnDemand", "OverconstrainedAllocationFailure"}
            -> PlacementScope(p.zone) = PlacementScope(o.zone)
      [] OTHER -> TRUE
Implicates(kind, scope, o, pscope, p) ==
    CASE kind = "InvalidAvailabilityZone" -> p.sku = o.sku /\ p.zone = o.zone
      [] kind = "LowPriorityQuota" -> p.ct = Spot
      [] OTHER ->
         /\ pscope = scope
         /\ kind \notin {"ZonalAllocationFailure", "AllocationFailure", "VMSizeNotSupported"} => p.ct = o.ct
         /\ \/ kind = "RegionalQuota" /\ scope = Unreserved
            \/ kind = "VMSizeNotSupported" /\ p.sku = o.sku
            \/ scope # Unreserved /\ p.sku = o.sku /\ p.zone = o.zone
            \/ scope = Unreserved /\ Widened(o, p) /\ Reaches(kind, o, p)

\* The errors Azure can answer with, given what it can serve. It names a zone only for a zonal
\* launch, and the spot quota only for spot.
Answers(scope, o) ==
    {kind \in scenario.errors :
        /\ ~\E w \in scenario.serves : Implicates(kind, scope, o, w[1], w[2])
        /\ kind \in {"InvalidAvailabilityZone", "ZonalAllocationFailure",
                     "OverconstrainedZonalAllocationFailure"} => o.zone # Regional
        /\ kind = "LowPriorityQuota" => o.ct = Spot
        /\ kind = "SKUNotAvailableOnDemand" => o.ct = OnDemand
        /\ kind = "SKUNotAvailable" => o.ct = Spot}

-----------------------------------------------------------------------------
Init ==
    /\ single = <<>> /\ family = <<>> /\ evicted = FALSE
    /\ mu = Nobody /\ current = None /\ kept = None /\ lapsed = FALSE
    /\ outdated = FALSE
    /\ listed = [s \in Scopes |-> NotCached] /\ listing = Nobody
    /\ pc = [l \in Launchers |-> "idle"]
    /\ view = [l \in Launchers |-> {}] /\ unread = [l \in Launchers |-> {}]
    /\ chosen = [l \in Launchers |-> NoOffering]
    /\ marks = [l \in Launchers |-> {}]
    /\ bump = [l \in Launchers |-> FALSE]
    /\ ticked = [l \in Launchers |-> FALSE]
    /\ disturbances = 0 /\ ticksLeft = MaxTicks /\ scenario \in Scenarios

\* List up to the cache read: a new generation flushes every list.
List(l) ==
    /\ pc[l] = "idle" /\ listing = Nobody
    /\ ticked' = [ticked EXCEPT ![l] = FALSE]
    /\ outdated' = FALSE
    /\ lapsed' = (lapsed /\ ~outdated)
    /\ LET lists == IF outdated THEN [s \in Scopes |-> NotCached] ELSE listed
       IN  /\ listed' = lists
           /\ IF lists[Scope[l]] # NotCached
              THEN /\ view' = [view EXCEPT ![l] = lists[Scope[l]]]
                   /\ pc' = [pc EXCEPT ![l] = "listed"]
                   /\ UNCHANGED <<listing, unread>>
              ELSE /\ view' = [view EXCEPT ![l] = {}]
                   /\ unread' = [unread EXCEPT ![l] = SKUs]
                   /\ pc' = [pc EXCEPT ![l] = "building"]
                   /\ listing' = l
    /\ UNCHANGED <<entryVars, evicted, mu, current, kept, chosen, marks, bump, envVars>>

\* buildInstanceTypes, one SKU at a time in map order; the last one stores the list.
Build(l, sku) ==
    /\ pc[l] = "building" /\ sku \in unread[l]
    /\ unread' = [unread EXCEPT ![l] = @ \ {sku}]
    /\ view' = [view EXCEPT ![l] = @ \cup AvailableOfferings(Scope[l], sku)]
    /\ IF unread[l] = {sku}
       THEN /\ listed' = [listed EXCEPT ![Scope[l]] = view'[l]]
            /\ listing' = Nobody
            /\ pc' = [pc EXCEPT ![l] = "listed"]
       ELSE UNCHANGED <<listVars, pc>>
    /\ UNCHANGED <<offeringVars, outdated, chosen, marks, bump, ticked, envVars>>

\* A list leaves the cache on its own: its TTL, or UpdateInstanceTypes found other SKU data.
DropList(s) ==
    /\ listing = Nobody /\ listed[s] # NotCached
    /\ listed' = [listed EXCEPT ![s] = NotCached]
    /\ UNCHANGED <<offeringVars, outdated, listing, pc, attemptVars, marks, bump, ticked, envVars>>

\* compareOfferings, then the name of the instance type; equal offerings are shuffled.
CapacityTypeRank(o) == IF o.ct = Spot THEN 0 ELSE 1
PlacementScopeRank(o) == IF o.zone = Regional THEN 1 ELSE 0
RankOf(o) == <<Price[o.sku][o.ct], CapacityTypeRank(o), PlacementScopeRank(o), Name[o.sku]>>
Before(r, s) == \E i \in 1..4 : r[i] < s[i] /\ \A j \in 1..(i - 1) : r[j] = s[j]
Best(offers) == {o \in offers : ~\E p \in offers : Before(RankOf(p), RankOf(o))}

Allocate(l) ==
    /\ pc[l] = "listed"
    /\ \/ /\ view[l] = {}
          /\ pc' = [pc EXCEPT ![l] = "idle"]
          /\ UNCHANGED chosen
       \/ \E o \in Best(view[l]) :
             /\ chosen' = [chosen EXCEPT ![l] = o]
             /\ pc' = [pc EXCEPT ![l] = "launching"]
    /\ view' = [view EXCEPT ![l] = {}]
    /\ UNCHANGED <<offeringVars, outdated, listVars, unread, marks, bump, ticked, envVars>>

LaunchSucceeds(l) ==
    /\ pc[l] = "launching" /\ <<Scope[l], chosen[l]>> \in scenario.serves
    /\ pc' = [pc EXCEPT ![l] = "launched"]
    /\ chosen' = [chosen EXCEPT ![l] = NoOffering]
    /\ UNCHANGED <<offeringVars, outdated, listVars, view, unread, marks, bump, ticked, envVars>>

\* The error is handled: the marks to set, or none and the attempt is over.
LaunchFails(l, kind) ==
    /\ pc[l] = "launching"
    /\ <<Scope[l], chosen[l]>> \notin scenario.serves /\ kind \in Answers(Scope[l], chosen[l])
    /\ LET todo == Handle(kind, Scope[l], chosen[l])
       IN  /\ todo = {} => disturbances < MaxDisturbances
           /\ disturbances' = IF todo = {} THEN disturbances + 1 ELSE disturbances
           /\ marks' = [marks EXCEPT ![l] = todo]
           /\ pc' = [pc EXCEPT ![l] = IF todo = {} THEN "idle" ELSE "marking"]
           /\ chosen' = [chosen EXCEPT ![l] = IF todo = {} THEN NoOffering ELSE @]
    /\ UNCHANGED <<offeringVars, outdated, listVars, view, unread, bump, ticked, ticksLeft, scenario>>

\* An error no handler matches, of any launch.
LaunchFailsUnmatched(l) ==
    /\ pc[l] = "launching" /\ disturbances < MaxDisturbances
    /\ disturbances' = disturbances + 1
    /\ pc' = [pc EXCEPT ![l] = "idle"]
    /\ chosen' = [chosen EXCEPT ![l] = NoOffering]
    /\ UNCHANGED <<offeringVars, outdated, listVars, view, unread, marks, bump, ticked, ticksLeft, scenario>>

\* The next NodeClaim.
NextClaim(l) ==
    /\ pc[l] = "launched"
    /\ pc' = [pc EXCEPT ![l] = "idle"]
    /\ UNCHANGED <<offeringVars, outdated, listVars, attemptVars, marks, bump, ticked, envVars>>

-----------------------------------------------------------------------------
(* A mark under the mutex: read, set the entry, read and set the family's, *)
(* bump seqNum. The mutex stops neither time nor the janitors nor the      *)
(* readers: an entry that was read can expire, and a list can be built,    *)
(* before it is set, and another between the sets and the bump.            *)

KeyOf(l, m) ==
    CASE m.type = "spot" -> SpotKey
      [] m.type = "skuZone" -> SKUZoneKey(chosen[l].sku, m.zone)
      [] m.type = "offering" -> SingleInstanceKey(Scope[l], chosen[l].sku, m.zone, m.ct)
FamilyKeyOf(l, m) == VMFamilyKey(Scope[l], Family[chosen[l].sku], m.zone, m.ct)

\* The Get of MarkSpotUnavailableWithTTL and MarkSKUZoneUnavailableWithTTL, and the isUnavailable
\* of markUnavailableWithTTL.
WasUnavailable(l, m) ==
    IF m.type = "offering" THEN IsUnavailable(Scope[l], chosen[l].sku, m.zone, m.ct)
                           ELSE Found(KeyOf(l, m))

\* The mutex is taken and the cache is read.
ReadMark(l, m) ==
    /\ pc[l] = "marking" /\ mu = Nobody /\ m \in marks[l]
    /\ mu' = l /\ current' = m
    /\ bump' = [bump EXCEPT ![l] = ~WasUnavailable(l, m)]
    /\ marks' = [marks EXCEPT ![l] = @ \ {m}]
    /\ pc' = [pc EXCEPT ![l] = "setting"]
    /\ UNCHANGED <<entryVars, evicted, kept, lapsed, outdated, listVars, attemptVars, ticked, envVars>>

\* markUnavailableWithTTL: outside the groups the larger sizes of the family go with the offering.
Bug_WidensInGroup(l, m) == m.type = "offering"
Widens(l, m) == m.type = "offering" /\ Scope[l] = Unreserved /\ Family[chosen[l].sku] # NoFamily

SetSingle(l) ==
    /\ pc[l] = "setting"
    /\ single' = Put(single, KeyOf(l, current), current.ttl)
    /\ lapsed' = (lapsed \/ (~bump[l] /\ ~WasUnavailable(l, current)))
    /\ pc' = [pc EXCEPT ![l] = IF Widens(l, current) THEN "family" ELSE "bump"]
    /\ UNCHANGED <<family, evicted, mu, current, kept, outdated, listVars, attemptVars, marks, bump, ticked, envVars>>

\* markFamilyUnavailableAtCPUCount: the lower limit stays, the time left is the new one.
FamilyLimitStays(k, sku) == FamilyFound(k) /\ family[k].limit <= VCPU[sku]
Bug_BumpsForOfferingOnly(l, stays) == bump[l]
BumpAfterFamily(l, stays) == bump[l] \/ ~stays

ReadFamily(l) ==
    LET k     == FamilyKeyOf(l, current)
        stays == FamilyLimitStays(k, chosen[l].sku)
    IN  /\ pc[l] = "family"
        /\ kept' = IF stays THEN family[k].limit ELSE None
        /\ bump' = [bump EXCEPT ![l] = BumpAfterFamily(l, stays)]
        /\ pc' = [pc EXCEPT ![l] = "settingFamily"]
        /\ UNCHANGED <<entryVars, evicted, mu, current, lapsed, outdated, listVars, attemptVars, marks, ticked, envVars>>

SetFamily(l) ==
    LET k == FamilyKeyOf(l, current)
    IN  /\ pc[l] = "settingFamily"
        /\ family' = Put(family, k, [limit |-> IF kept = None THEN VCPU[chosen[l].sku] ELSE kept,
                                     left |-> current.ttl])
        /\ lapsed' = (lapsed \/ (kept # None /\ ~FamilyFound(k)))
        /\ pc' = [pc EXCEPT ![l] = "bump"]
        /\ UNCHANGED <<single, evicted, mu, current, kept, outdated, listVars, attemptVars, marks, bump, ticked, envVars>>

Bug_NoUnlock(l) ==
    /\ pc[l] = "bump"
    /\ outdated' = (outdated \/ bump[l])
    /\ current' = None /\ kept' = None
    /\ bump' = [bump EXCEPT ![l] = FALSE]
    /\ pc' = [pc EXCEPT ![l] = IF marks[l] = {} THEN "idle" ELSE "marking"]
    /\ chosen' = [chosen EXCEPT ![l] = IF marks[l] = {} THEN NoOffering ELSE @]
    /\ UNCHANGED <<entryVars, evicted, mu, lapsed, listVars, view, unread, marks, ticked, envVars>>
BumpSeqNum(l) ==
    /\ pc[l] = "bump"
    /\ outdated' = (outdated \/ bump[l])
    /\ mu' = Nobody /\ current' = None /\ kept' = None
    /\ bump' = [bump EXCEPT ![l] = FALSE]
    /\ pc' = [pc EXCEPT ![l] = IF marks[l] = {} THEN "idle" ELSE "marking"]
    /\ chosen' = [chosen EXCEPT ![l] = IF marks[l] = {} THEN NoOffering ELSE @]
    /\ UNCHANGED <<entryVars, evicted, lapsed, listVars, view, unread, marks, ticked, envVars>>

\* InvalidateCapacityReservationGroup, when the members of the group changed. Items() skips the
\* expired entries, Delete calls OnEvicted after the entry is gone.
InvalidateGroup(g) ==
    /\ mu = Nobody /\ disturbances < MaxDisturbances
    /\ LET gone == {k \in DOMAIN single : k[1] = g /\ single[k] > 0}
       IN  /\ gone # {}
           /\ single' = [k \in DOMAIN single \ gone |-> single[k]]
    /\ evicted' = TRUE
    /\ disturbances' = disturbances + 1
    /\ UNCHANGED <<family, markVars, outdated, listVars, pc, attemptVars, marks, bump, ticked, ticksLeft, scenario>>

-----------------------------------------------------------------------------
(* Time and the janitors of the two caches.                                *)

Less(n) == IF n > 0 THEN n - 1 ELSE 0

\* The units of time are minutes: a refused attempt takes less than one, and the janitors
\* (UnavailableOfferingsCleanupInterval, 10 seconds) have run before the next one is over.
Expired == (\E k \in DOMAIN single : single[k] = 0) \/ (\E k \in DOMAIN family : family[k].left = 0)
Tick ==
    /\ \A l \in Launchers : ~ticked[l]
    /\ ~Expired /\ ~evicted
    /\ ticksLeft # 0
    /\ ticksLeft' = IF ticksLeft = None THEN None ELSE ticksLeft - 1
    /\ single' = [k \in DOMAIN single |-> Less(single[k])]
    /\ family' = [k \in DOMAIN family |-> [family[k] EXCEPT !.left = Less(@)]]
    /\ ticked' = [l \in Launchers |-> pc[l] # "launched"]
    /\ UNCHANGED <<markVars, evicted, outdated, listVars, pc, attemptVars, marks, bump, disturbances, scenario>>

\* DeleteExpired of both caches. What it removes is no longer found: it changes no answer.
DeleteExpired ==
    /\ Expired
    /\ single' = [k \in {j \in DOMAIN single : single[j] > 0} |-> single[k]]
    /\ family' = [k \in {j \in DOMAIN family : family[j].left > 0} |-> family[k]]
    /\ evicted' = TRUE
    /\ UNCHANGED <<markVars, outdated, listVars, pc, attemptVars, marks, bump, ticked, envVars>>

Bug_NoBumpOnEviction ==
    /\ evicted
    /\ evicted' = FALSE
    /\ UNCHANGED <<entryVars, markVars, outdated, listVars, pc, attemptVars, marks, bump, ticked, envVars>>
OnEvicted ==
    /\ evicted
    /\ evicted' = FALSE
    /\ outdated' = TRUE
    /\ UNCHANGED <<entryVars, markVars, listVars, pc, attemptVars, marks, bump, ticked, envVars>>

-----------------------------------------------------------------------------
LauncherStep(l) ==
    \/ List(l) \/ Allocate(l) \/ LaunchSucceeds(l) \/ NextClaim(l)
    \/ \E sku \in SKUs : Build(l, sku)
    \/ \E kind \in Kinds : LaunchFails(l, kind)
    \/ \E m \in marks[l] : ReadMark(l, m)
    \/ SetSingle(l) \/ ReadFamily(l) \/ SetFamily(l) \/ BumpSeqNum(l)

Next ==
    \/ \E l \in Launchers : LauncherStep(l) \/ LaunchFailsUnmatched(l)
    \/ \E s \in Scopes : DropList(s)
    \/ \E g \in Groups : InvalidateGroup(g)
    \/ Tick \/ DeleteExpired \/ OnEvicted

Spec == Init /\ [][Next]_vars

\* A launcher never stops, the mutexes are fair (sync.Mutex hands over to a waiter), time passes and
\* the janitors run.
FairSpec ==
    /\ Spec
    /\ \A l \in Launchers : SF_vars(LauncherStep(l))
    /\ SF_vars(Tick) /\ WF_vars(DeleteExpired) /\ WF_vars(OnEvicted)

-----------------------------------------------------------------------------
Marks == [type : {"spot", "skuZone", "offering"}, zone : Placements, ct : CapacityTypes, ttl : Nat]

\* Where a launcher holds the mutex of the unavailable offerings.
Holding == {"setting", "family", "settingFamily", "bump"}

\* Every variable has its type, and a launcher is in a critical section exactly if it holds the lock.
TypeOK ==
    /\ \A k \in DOMAIN single : single[k] \in Nat
    /\ \A k \in DOMAIN family : family[k] \in [limit : Nat, left : Nat]
    /\ evicted \in BOOLEAN /\ outdated \in BOOLEAN
    /\ current \in Marks \cup {None} /\ kept \in Nat \cup {None} /\ lapsed \in BOOLEAN
    /\ mu \in Launchers \cup {Nobody} /\ listing \in Launchers \cup {Nobody}
    /\ listed \in [Scopes -> (SUBSET Offering) \cup {NotCached}]
    /\ pc \in [Launchers -> {"idle", "building", "listed", "launching", "marking", "launched"} \cup Holding]
    /\ view \in [Launchers -> SUBSET Offering] /\ unread \in [Launchers -> SUBSET SKUs]
    /\ chosen \in [Launchers -> Offering \cup {NoOffering}] /\ marks \in [Launchers -> SUBSET Marks]
    /\ \A l \in Launchers :
          /\ pc[l] \in Holding <=> mu = l
          /\ pc[l] = "building" <=> listing = l
    /\ bump \in [Launchers -> BOOLEAN] /\ ticked \in [Launchers -> BOOLEAN]
    /\ disturbances \in 0..MaxDisturbances

\* ForCapacityReservationGroup and the handlers: capacity that Azure can serve is never shown
\* unavailable because of what failed elsewhere. A shortage of unreserved capacity leaves a
\* reservation alone, a group member its siblings, a zonal failure the regional placement, a large
\* size the smaller ones.
UsableCapacityStaysOffered ==
    \A w \in scenario.serves : ~IsUnavailable(w[1], w[2].sku, w[2].zone, w[2].ct)

\* Nothing changes what List would answer without outdating the cached lists: once no mark is half
\* done, nothing expired waits for the janitor and no OnEvicted is due, a list of the current
\* generation withholds nothing a new one would show. Nor does it show anything a new one would
\* withhold, unless a mark found its entry alive and set it after it had expired: seqNum is not
\* bumped then ("not updated on TTL only changes").
Settled ==
    /\ mu = Nobody /\ ~evicted
    /\ \A k \in DOMAIN single : single[k] > 0
    /\ \A k \in DOMAIN family : family[k].left > 0
CachedListIsCurrent ==
    \A s \in Scopes :
        Settled /\ ~outdated /\ listed[s] # NotCached =>
            /\ FreshList(s) \subseteq listed[s]
            /\ ~lapsed => listed[s] \subseteq FreshList(s)

\* Failover ends (the concern of the LowQuotaTTL comment): a NodeClaim for which Azure has capacity is
\* launched, its marks outlive the attempts they rule out.
FailoverSucceeds ==
    \A l \in Launchers :
        (pc[l] = "idle" /\ \E w \in scenario.serves : w[1] = Scope[l]) ~> pc[l] = "launched"

\* A mark is temporary (UnavailableOfferings: "until their cache entries expire"), and an entry runs out
\* before the janitor bumps seqNum: a cached list that withholds what is available again, or shows
\* what is not, does not stay.
Stale(s) == listed[s] # NotCached /\ listed[s] # FreshList(s)
ExpiryReachesList == \A s \in Scopes : Stale(s) ~> ~Stale(s)
=============================================================================
