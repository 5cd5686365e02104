-------------------------- MODULE OfferingsProofs --------------------------
(***************************************************************************)
(* Proofs about module Offerings: the marks and the entries speak only of  *)
(* what Azure does not serve, and a list of the current generation says    *)
(* what a new one would say.                                               *)
(***************************************************************************)
EXTENDS Offerings, TLAPS

-----------------------------------------------------------------------------
(* What a mark claims, and what an entry claims, expired or not.           *)

\* Nothing that Azure serves is what the mark of a failed launch of o rules out.
MarkTrue(scope, o, m) ==
    \A w \in scenario.serves :
        /\ m.type = "spot" => w[2].ct # Spot
        /\ m.type = "skuZone" => ~(w[2].sku = o.sku /\ w[2].zone = m.zone)
        /\ m.type = "offering" /\ w[1] = scope /\ w[2].zone = m.zone /\ w[2].ct = m.ct =>
              w[2].sku # o.sku /\ (scope = Unreserved => ~Widened(o, w[2]))

\* The two caches as parameters: what Get finds in them, and what has an entry, its time left or not.
FamilyKey(scope, sku, zone, ct) == VMFamilyKey(scope, Family[sku], zone, ct)
Unavailable(one, fam, scope, sku, zone, ct) ==
    \/ SKUZoneKey(sku, zone) \in DOMAIN one /\ one[SKUZoneKey(sku, zone)] > 0
    \/ ct = Spot /\ SpotKey \in DOMAIN one /\ one[SpotKey] > 0
    \/ /\ FamilyKey(scope, sku, zone, ct) \in DOMAIN fam
       /\ fam[FamilyKey(scope, sku, zone, ct)].left > 0
       /\ VCPU[sku] >= fam[FamilyKey(scope, sku, zone, ct)].limit
    \/ /\ SingleInstanceKey(scope, sku, zone, ct) \in DOMAIN one
       /\ one[SingleInstanceKey(scope, sku, zone, ct)] > 0
Known(one, fam, scope, sku, zone, ct) ==
    \/ SKUZoneKey(sku, zone) \in DOMAIN one
    \/ ct = Spot /\ SpotKey \in DOMAIN one
    \/ /\ FamilyKey(scope, sku, zone, ct) \in DOMAIN fam
       /\ VCPU[sku] >= fam[FamilyKey(scope, sku, zone, ct)].limit
    \/ SingleInstanceKey(scope, sku, zone, ct) \in DOMAIN one

\* Unavailable is IsUnavailable of the caches, and what is unavailable has an entry.
LEMMA UnavailableIs ==
    ASSUME NEW scope, NEW sku, NEW zone, NEW ct
    PROVE  /\ IsUnavailable(scope, sku, zone, ct) <=> Unavailable(single, family, scope, sku, zone, ct)
           /\ Unavailable(single, family, scope, sku, zone, ct) => Known(single, family, scope, sku, zone, ct)
PROOF BY DEF IsUnavailable, Known, Found, IsFamilyUnavailable, FamilyFound, Unavailable, FamilyKey

\* Keys of different kinds differ, and a key tells what it is for.
LEMMA KeysDiffer ==
    ASSUME NEW s, NEW k, NEW z, NEW c, NEW t, NEW j, NEW y, NEW b
    PROVE  /\ SpotKey # SKUZoneKey(k, z) /\ SpotKey # SingleInstanceKey(s, k, z, c)
           /\ SKUZoneKey(k, z) # SingleInstanceKey(t, j, y, b)
           /\ SKUZoneKey(k, z) = SKUZoneKey(j, y) => k = j /\ z = y
           /\ SingleInstanceKey(s, k, z, c) = SingleInstanceKey(t, j, y, b) => s = t /\ k = j /\ z = y /\ c = b
           /\ VMFamilyKey(s, k, z, c) = VMFamilyKey(t, j, y, b) => s = t /\ k = j /\ z = y /\ c = b
PROOF BY DEF SpotKey, SKUZoneKey, SingleInstanceKey, VMFamilyKey

\* A Set of an entry of some type keeps the type of the entries.
LEMMA PutTyped ==
    ASSUME NEW T, NEW entries, NEW k, NEW entry \in T, \A j \in DOMAIN entries : entries[j] \in T
    PROVE  \A j \in DOMAIN Put(entries, k, entry) : Put(entries, k, entry)[j] \in T
PROOF BY DEF Put

-----------------------------------------------------------------------------
(* The handlers. An error implicates everything that its marks rule out.   *)

\* The members of a set of marks for offerings.
LEMMA MarksOfMembers ==
    ASSUME NEW zones, NEW cts, NEW kind, NEW m \in MarksOf(zones, cts, kind)
    PROVE  m.type = "offering" /\ m.zone \in zones /\ m.ct \in cts /\ m.ttl = TTL[kind]
           /\ m = Mark("offering", m.zone, m.ct, kind)
PROOF BY DEF MarksOf, Mark

\* The zones that the handlers mark are placements.
LEMMA ZonesArePlacements ==
    ASSUME NEW scope \in Scopes, NEW sku \in SKUs
    PROVE  OfferingZones(scope, sku) \subseteq Placements
PROOF BY OfferingsAssumption DEF OfferingZones, Scopes

\* What an error that Azure answers with says, for the offerings it serves.
LEMMA AnswerSays ==
    ASSUME NEW scope, NEW o, NEW kind \in Answers(scope, o), NEW w \in scenario.serves
    PROVE  ~Implicates(kind, scope, o, w[1], w[2]) /\ kind \in scenario.errors
PROOF BY DEF Answers

\* An error about an offering implicates it in its scope, and what it reaches of the family outside
\* the groups.
LEMMA OfferingImplicated ==
    ASSUME NEW kind \in Kinds \ {"InvalidAvailabilityZone", "LowPriorityQuota"}, NEW scope, NEW o, NEW p,
           kind \notin {"ZonalAllocationFailure", "AllocationFailure", "VMSizeNotSupported"} => p.ct = o.ct,
           p.sku = o.sku \/ (scope = Unreserved /\ Widened(o, p)),
           IF scope = Unreserved THEN Reaches(kind, o, p) ELSE p.zone = o.zone
    PROVE  Implicates(kind, scope, o, scope, p)
PROOF BY DEF Implicates, Widened

\* Every mark that the handler of an answered error asks for is true.
LEMMA HandleTrue ==
    ASSUME scenario \in Scenarios, NEW scope \in Scopes, NEW o \in Offering,
           NEW kind \in Answers(scope, o), NEW m \in Handle(kind, scope, o)
    PROVE  m \in Marks /\ MarkTrue(scope, o, m)
PROOF
<1>1. kind \in Kinds
  BY OfferingsAssumption DEF Answers
<1>2. TTL[kind] \in Nat /\ o.sku \in SKUs /\ o.zone \in Placements /\ o.ct \in CapacityTypes
  BY <1>1, OfferingsAssumption DEF Offering
<1>3. /\ OfferingZones(scope, o.sku) \subseteq Placements /\ Spot \in CapacityTypes /\ Regional \in Placements
  BY <1>2, ZonesArePlacements DEF CapacityTypes, Placements
<1>4. ASSUME NEW w \in scenario.serves PROVE ~Implicates(kind, scope, o, w[1], w[2])
  BY <1>4, AnswerSays
<1>5. ASSUME m.type = "offering", m \in Marks,
             \A w \in scenario.serves :
                w[1] = scope /\ w[2].zone = m.zone /\ w[2].ct = m.ct
                /\ (w[2].sku = o.sku \/ (scope = Unreserved /\ Widened(o, w[2])))
                  => Implicates(kind, scope, o, w[1], w[2])
      PROVE  m \in Marks /\ MarkTrue(scope, o, m)
  BY <1>4, <1>5 DEF MarkTrue
<1>6. ASSUME NEW zones, NEW cts, m \in MarksOf(zones, cts, kind), zones \subseteq Placements, cts \subseteq CapacityTypes
      PROVE  m.type = "offering" /\ m \in Marks /\ m.zone \in zones /\ m.ct \in cts
  <2>1. m.type = "offering" /\ m.zone \in zones /\ m.ct \in cts /\ m = Mark("offering", m.zone, m.ct, kind)
    BY <1>6, MarksOfMembers
  <2> QED
    BY <1>2, <1>6, <2>1 DEF Mark, Marks
<1> HIDE DEF MarksOf
<1>7. CASE kind = "InvalidAvailabilityZone"
  <2>1. m = Mark("skuZone", o.zone, o.ct, kind)
    BY <1>7 DEF Handle, HandleInvalidAvailabilityZone
  <2>2. m \in Marks /\ m.type = "skuZone" /\ m.zone = o.zone
    BY <1>2, <2>1 DEF Mark, Marks
  <2>3. \A w \in scenario.serves : ~(w[2].sku = o.sku /\ w[2].zone = o.zone)
    BY <1>4, <1>7 DEF Implicates
  <2> QED
    BY <2>2, <2>3 DEF MarkTrue
<1>8. CASE kind = "LowPriorityQuota"
  <2>1. m = Mark("spot", Regional, Spot, kind)
    BY <1>8 DEF Handle, HandleLowPriorityQuota
  <2>2. m \in Marks /\ m.type = "spot"
    BY <1>2, <1>3, <2>1 DEF Mark, Marks
  <2>3. \A w \in scenario.serves : w[2].ct # Spot
    BY <1>4, <1>8 DEF Implicates
  <2> QED
    BY <2>2, <2>3 DEF MarkTrue
<1>9. CASE kind \in {"SKUFamilyQuota", "SKUFamilyQuotaZero"}
  <2> DEFINE zones == {z \in OfferingZones(scope, o.sku) : scope # Unreserved => z = o.zone}
  <2>1. m \in MarksOf(zones, {o.ct}, kind)
    BY <1>9 DEF Handle, HandleSKUFamilyQuota
  <2>2. m.type = "offering" /\ m \in Marks /\ m.zone \in zones /\ m.ct = o.ct
    BY <1>2, <1>3, <1>6, <2>1
  <2>3. ASSUME NEW w \in scenario.serves, w[2].zone = m.zone
        PROVE  IF scope = Unreserved THEN Reaches(kind, o, w[2]) ELSE w[2].zone = o.zone
    BY <1>9, <2>2, <2>3 DEF Reaches
  <2> QED
    BY <1>1, <1>5, <1>9, <2>2, <2>3, OfferingImplicated
<1>10. CASE kind \in {"SKUNotAvailable", "SKUNotAvailableOnDemand", "OverconstrainedAllocationFailure"}
  <2>1. m \in MarksOf(ZonesInPlacement(scope, o), {o.ct}, kind)
    BY <1>10 DEF Handle, MarkOfferingsForCapacityTypeAndPlacement
  <2>2. m.type = "offering" /\ m \in Marks /\ m.zone \in ZonesInPlacement(scope, o) /\ m.ct = o.ct
    BY <1>2, <1>3, <1>6, <2>1 DEF ZonesInPlacement
  <2>3. ASSUME NEW w \in scenario.serves, w[2].zone = m.zone
        PROVE  IF scope = Unreserved THEN Reaches(kind, o, w[2]) ELSE w[2].zone = o.zone
    BY <1>10, <2>2, <2>3 DEF Reaches, ZonesInPlacement
  <2> QED
    BY <1>1, <1>5, <1>10, <2>2, <2>3, OfferingImplicated
<1>11. CASE kind = "ZonalAllocationFailure"
  <2>1. m \in MarksOf({o.zone}, CapacityTypes, kind)
    BY <1>11 DEF Handle, HandleZonalAllocationFailure
  <2>2. m.type = "offering" /\ m \in Marks /\ m.zone = o.zone
    BY <1>2, <1>6, <2>1
  <2>3. ASSUME NEW w \in scenario.serves, w[2].zone = m.zone
        PROVE  IF scope = Unreserved THEN Reaches(kind, o, w[2]) ELSE w[2].zone = o.zone
    BY <1>11, <2>2, <2>3 DEF Reaches
  <2> QED
    BY <1>1, <1>5, <1>11, <2>2, <2>3, OfferingImplicated
<1>12. CASE kind = "AllocationFailure"
  <2>1. m \in MarksOf(ZonesInPlacement(scope, o), CapacityTypes, kind)
    BY <1>12 DEF Handle, MarkOfferingsForPlacementForBothCapacityTypes
  <2>2. m.type = "offering" /\ m \in Marks /\ m.zone \in ZonesInPlacement(scope, o)
    BY <1>2, <1>3, <1>6, <2>1 DEF ZonesInPlacement
  <2>3. ASSUME NEW w \in scenario.serves, w[2].zone = m.zone
        PROVE  IF scope = Unreserved THEN Reaches(kind, o, w[2]) ELSE w[2].zone = o.zone
    BY <1>12, <2>2, <2>3 DEF Reaches, ZonesInPlacement
  <2> QED
    BY <1>1, <1>5, <1>12, <2>2, <2>3, OfferingImplicated
<1>13. CASE kind = "OverconstrainedZonalAllocationFailure"
  <2>1. m \in MarksOf({o.zone}, {o.ct}, kind)
    BY <1>13 DEF Handle, HandleOverconstrainedZonal
  <2>2. m.type = "offering" /\ m \in Marks /\ m.zone = o.zone /\ m.ct = o.ct
    BY <1>2, <1>6, <2>1
  <2>3. ASSUME NEW w \in scenario.serves, w[2].zone = m.zone
        PROVE  IF scope = Unreserved THEN Reaches(kind, o, w[2]) ELSE w[2].zone = o.zone
    BY <1>13, <2>2, <2>3 DEF Reaches
  <2> QED
    BY <1>1, <1>5, <1>13, <2>2, <2>3, OfferingImplicated
<1>14. CASE kind = "RegionalQuota"
  <2>1. scope # Unreserved /\ m \in MarksOf({o.zone}, {o.ct}, kind)
    BY <1>14 DEF Handle, HandleRegionalQuota
  <2>2. m.type = "offering" /\ m \in Marks /\ m.zone = o.zone /\ m.ct = o.ct
    BY <1>2, <1>6, <2>1
  <2> QED
    BY <1>5, <1>14, <2>1, <2>2 DEF Implicates
<1>15. CASE kind = "VMSizeNotSupported"
  <2>1. m \in MarksOf(OfferingZones(scope, o.sku), CapacityTypes, kind)
    BY <1>15 DEF Handle, MarkAllPlacementsForBothCapacityTypes
  <2>2. m.type = "offering" /\ m \in Marks
    BY <1>3, <1>6, <2>1
  <2>3. \A w \in scenario.serves : w[1] = scope /\ w[2].sku = o.sku => Implicates(kind, scope, o, w[1], w[2])
    BY <1>15 DEF Implicates
  <2>4. \A w \in scenario.serves :
           w[1] = scope /\ scope = Unreserved /\ Widened(o, w[2]) => Implicates(kind, scope, o, w[1], w[2])
    <3>1. \A p : Reaches(kind, o, p)
      BY <1>15 DEF Reaches
    <3> QED
      BY <1>15, <3>1 DEF Implicates
  <2> QED
    BY <1>5, <2>2, <2>3, <2>4
<1> QED
  BY <1>1, <1>7, <1>8, <1>9, <1>10, <1>11, <1>12, <1>13, <1>14, <1>15 DEF Kinds

-----------------------------------------------------------------------------
(* The inductive invariant.                                                *)

\* An attempt has an offering from the choice to the last bump, and marks from the error on. The
\* holder of the mutex has a mark in hand, and a family key only for one that widens; without a
\* bump to come it has read a limit that it keeps.
Attempts ==
    \A l \in Launchers :
        /\ pc[l] \in {"launching", "marking"} \cup Holding => chosen[l] \in Offering
        /\ pc[l] \notin {"marking"} \cup Holding => marks[l] = {}
        /\ pc[l] \in Holding => current \in Marks
        /\ pc[l] \in {"family", "settingFamily"} => Widens(l, current)
        /\ pc[l] = "settingFamily" => bump[l] \/ kept # None

\* Every mark still to be set, every entry, and a limit that was read and will be set again, is
\* about what Azure does not serve. The entry that limit was read from still has it, if it is there.
MarksTrue ==
    \A l \in Launchers :
        /\ \A m \in marks[l] : MarkTrue(Scope[l], chosen[l], m)
        /\ pc[l] \in Holding => MarkTrue(Scope[l], chosen[l], current)
EntriesTrue ==
    \A w \in scenario.serves : ~Known(single, family, w[1], w[2].sku, w[2].zone, w[2].ct)
KeptTrue ==
    \A l \in Launchers :
        pc[l] = "settingFamily" /\ kept # None =>
            /\ FamilyKeyOf(l, current) \in DOMAIN family => family[FamilyKeyOf(l, current)].limit = kept
            /\ \A w \in scenario.serves :
                  FamilyKeyOf(l, current) = FamilyKey(w[1], w[2].sku, w[2].zone, w[2].ct) =>
                      ~(VCPU[w[2].sku] >= kept)

\* A list is current for some SKUs: it shows nothing that is unavailable, unless a mark has lapsed,
\* and withholds only what has an entry, if only an expired one.
Shown(scope, o) == o \in OfferingsOf(scope, o.sku) /\ (o.ct = Spot => o.sku \in SpotCapable)
Current(list, scope, skus, one, fam, gap) ==
    /\ \A o \in list : o.sku \in skus /\ Shown(scope, o)
    /\ ~gap => \A o \in list : ~Unavailable(one, fam, scope, o.sku, o.zone, o.ct)
    /\ \A o \in Offering :
          o.sku \in skus /\ Shown(scope, o) /\ ~Known(one, fam, scope, o.sku, o.zone, o.ct) => o \in list

\* While no change of an answer waits for its bump, the cached lists are current, and so is what a
\* launcher has built so far.
Quiet == ~outdated /\ ~evicted /\ (mu # Nobody => ~bump[mu])
ListsCurrent ==
    Quiet =>
        /\ \A s \in Scopes : listed[s] # NotCached => Current(listed[s], s, SKUs, single, family, lapsed)
        /\ \A l \in Launchers :
              pc[l] = "building" => Current(view[l], Scope[l], SKUs \ unread[l], single, family, lapsed)

Types == TypeOK /\ scenario \in Scenarios /\ Attempts
IInv == Types /\ MarksTrue /\ EntriesTrue /\ KeptTrue /\ ListsCurrent

\* Every launcher has a scope; Azure serves offerings of scopes.
LEMMA ScopeIs == ASSUME Types PROVE /\ Scope \in [Launchers -> Scopes]
                                    /\ scenario.serves \subseteq Scopes \X Offering
PROOF BY OfferingsAssumption DEF Types, Scope

\* The inductive invariant holds initially.
LEMMA InitInvariant == Init => IInv
PROOF
<1> SUFFICES ASSUME Init PROVE IInv
  OBVIOUS
<1> USE DEF Init
<1>1. DOMAIN single = {} /\ DOMAIN family = {}
  OBVIOUS
<1>2. TypeOK
  <2>1. /\ \A k \in DOMAIN single : single[k] \in Nat
        /\ \A k \in DOMAIN family : family[k] \in [limit : Nat, left : Nat]
    BY <1>1
  <2>2. /\ mu \in Launchers \cup {Nobody} /\ listing \in Launchers \cup {Nobody}
        /\ \A l \in Launchers : (pc[l] \in Holding <=> mu = l) /\ (pc[l] = "building" <=> listing = l)
    BY OfferingsAssumption DEF Nobody, Holding
  <2>3. /\ listed \in [Scopes -> (SUBSET Offering) \cup {NotCached}]
        /\ chosen \in [Launchers -> Offering \cup {NoOffering}]
    BY DEF NotCached, NoOffering
  <2>4. disturbances \in 0..MaxDisturbances
    BY OfferingsAssumption
  <2>5. /\ view \in [Launchers -> SUBSET Offering] /\ unread \in [Launchers -> SUBSET SKUs]
        /\ marks \in [Launchers -> SUBSET Marks]
        /\ bump \in [Launchers -> BOOLEAN] /\ ticked \in [Launchers -> BOOLEAN]
    OBVIOUS
  <2>6. /\ evicted \in BOOLEAN /\ outdated \in BOOLEAN /\ lapsed \in BOOLEAN
        /\ current \in Marks \cup {None} /\ kept \in Nat \cup {None}
    OBVIOUS
  <2>7. pc \in [Launchers -> {"idle", "building", "listed", "launching", "marking", "launched"} \cup Holding]
    OBVIOUS
  <2> QED
    BY <2>1, <2>2, <2>3, <2>4, <2>5, <2>6, <2>7 DEF TypeOK
<1>3. Types
  BY <1>2 DEF Types, Attempts, Holding
<1>4. MarksTrue /\ EntriesTrue /\ KeptTrue
  BY <1>1 DEF MarksTrue, EntriesTrue, KeptTrue, Known, Holding
<1>5. ListsCurrent
  BY DEF ListsCurrent
<1> QED
  BY <1>3, <1>4, <1>5 DEF IInv

-----------------------------------------------------------------------------
(* The offerings of a list.                                                *)

\* createOfferings gives offerings of its SKU.
LEMMA OfferingsAreOfferings ==
    ASSUME NEW scope \in Scopes, NEW sku \in SKUs
    PROVE  /\ OfferingsOf(scope, sku) \subseteq Offering
           /\ \A o \in OfferingsOf(scope, sku) : o.sku = sku
PROOF
<1>1. OfferingZones(scope, sku) \subseteq Placements
  BY ZonesArePlacements
<1> QED
  BY <1>1 DEF OfferingsOf, Offering, CapacityTypes

\* The offerings of a SKU that a list shows, by what the caches hold.
LEMMA AvailableAre ==
    ASSUME NEW scope \in Scopes, NEW sku \in SKUs
    PROVE  AvailableOfferings(scope, sku) =
              {o \in Offering : /\ o.sku = sku /\ Shown(scope, o)
                                /\ ~Unavailable(single, family, scope, sku, o.zone, o.ct)}
PROOF
<1>1. OfferingsOf(scope, sku) \subseteq Offering /\ \A o \in OfferingsOf(scope, sku) : o.sku = sku
  BY OfferingsAreOfferings
<1>2. \A o : IsUnavailable(scope, sku, o.zone, o.ct) <=> Unavailable(single, family, scope, sku, o.zone, o.ct)
  BY UnavailableIs
<1> QED
  BY <1>1, <1>2 DEF AvailableOfferings, Shown

\* A new list, by what the caches hold.
LEMMA FreshListIs ==
    ASSUME NEW scope \in Scopes
    PROVE  FreshList(scope) =
              {o \in Offering : Shown(scope, o) /\ ~Unavailable(single, family, scope, o.sku, o.zone, o.ct)}
PROOF
<1>1. \A o \in Offering : o.sku \in SKUs
  BY DEF Offering
<1> QED
  BY <1>1, AvailableAre DEF FreshList

\* A list stays current while what has an entry keeps one and, without a lapse, nothing becomes
\* unavailable.
LEMMA CurrentStays ==
    ASSUME NEW list, NEW scope, NEW skus, NEW one, NEW fam, NEW one2, NEW fam2, NEW gap, NEW gap2,
           list \subseteq Offering, Current(list, scope, skus, one, fam, gap), gap => gap2,
           \A o \in Offering :
              /\ Unavailable(one2, fam2, scope, o.sku, o.zone, o.ct) =>
                    gap2 \/ Unavailable(one, fam, scope, o.sku, o.zone, o.ct)
              /\ Known(one, fam, scope, o.sku, o.zone, o.ct) => Known(one2, fam2, scope, o.sku, o.zone, o.ct)
    PROVE  Current(list, scope, skus, one2, fam2, gap2)
PROOF BY DEF Current

-----------------------------------------------------------------------------
(* Types: every action keeps them.                                         *)

\* The parts of TypeOK and of Attempts that the actions disturb together.
EntryTypes ==
    /\ \A k \in DOMAIN single : single[k] \in Nat
    /\ \A k \in DOMAIN family : family[k] \in [limit : Nat, left : Nat]
LockTypes ==
    /\ pc \in [Launchers -> {"idle", "building", "listed", "launching", "marking", "launched"} \cup Holding]
    /\ mu \in Launchers \cup {Nobody} /\ listing \in Launchers \cup {Nobody}
    /\ \A l \in Launchers : (pc[l] \in Holding <=> mu = l) /\ (pc[l] = "building" <=> listing = l)
ListTypes ==
    /\ listed \in [Scopes -> (SUBSET Offering) \cup {NotCached}]
    /\ view \in [Launchers -> SUBSET Offering] /\ unread \in [Launchers -> SUBSET SKUs]
AttemptTypes ==
    /\ chosen \in [Launchers -> Offering \cup {NoOffering}] /\ marks \in [Launchers -> SUBSET Marks]
    /\ current \in Marks \cup {None} /\ kept \in Nat \cup {None}
    /\ Attempts
FlagTypes ==
    /\ evicted \in BOOLEAN /\ outdated \in BOOLEAN /\ lapsed \in BOOLEAN
    /\ bump \in [Launchers -> BOOLEAN] /\ ticked \in [Launchers -> BOOLEAN]
    /\ disturbances \in 0..MaxDisturbances /\ scenario \in Scenarios

\* Types is the conjunction of its parts.
LEMMA TypesParts == Types <=> EntryTypes /\ LockTypes /\ ListTypes /\ AttemptTypes /\ FlagTypes
PROOF BY DEF Types, TypeOK, EntryTypes, LockTypes, ListTypes, AttemptTypes, FlagTypes

\* What Azure serves and what the NodeClasses select does not change.
LEMMA ScenarioStays == Next => scenario' = scenario /\ Scope' = Scope
PROOF BY DEF Next, LauncherStep, List, Build, DropList, Allocate, LaunchSucceeds, LaunchFails,
            LaunchFailsUnmatched, NextClaim, ReadMark, SetSingle, ReadFamily, SetFamily, BumpSeqNum,
            InvalidateGroup, Tick, DeleteExpired, OnEvicted, envVars, Scope

\* List keeps the types.
LEMMA ListKeepsTypes == ASSUME Types, NEW l \in Launchers, List(l) PROVE Types'
PROOF
<1>0. EntryTypes /\ LockTypes /\ ListTypes /\ AttemptTypes /\ FlagTypes
  BY TypesParts
<1>1. EntryTypes'
  BY <1>0 DEF EntryTypes, List, offeringVars, entryVars
<1>2. LockTypes'
  <2>1. /\ pc[l] = "idle" /\ listing = Nobody /\ mu' = mu
        /\ \/ pc' = [pc EXCEPT ![l] = "listed"] /\ listing' = listing
           \/ pc' = [pc EXCEPT ![l] = "building"] /\ listing' = l
    BY DEF List, offeringVars
  <2> QED
    BY <1>0, <2>1, OfferingsAssumption DEF LockTypes, Nobody, Holding
<1>3. ListTypes'
  BY <1>0, ScopeIs DEF ListTypes, List, NotCached
<1>4. AttemptTypes'
  BY <1>0 DEF AttemptTypes, Attempts, LockTypes, List, offeringVars, markVars, envVars,
       Holding, Widens, Scope
<1>5. FlagTypes'
  BY <1>0 DEF FlagTypes, List, offeringVars, envVars, markVars
<1> QED
  BY <1>1, <1>2, <1>3, <1>4, <1>5, TypesParts, PTL

\* Build keeps the types.
LEMMA BuildKeepsTypes == ASSUME Types, NEW l \in Launchers, NEW sku \in SKUs, Build(l, sku) PROVE Types'
PROOF
<1>0. EntryTypes /\ LockTypes /\ ListTypes /\ AttemptTypes /\ FlagTypes
  BY TypesParts
<1>a. AvailableOfferings(Scope[l], sku) \subseteq Offering /\ Scope[l] \in Scopes
  BY ScopeIs, AvailableAre
<1>1. EntryTypes'
  BY <1>0 DEF EntryTypes, Build, offeringVars, entryVars
<1>2. LockTypes'
  BY <1>0, OfferingsAssumption DEF LockTypes, Nobody, Build, offeringVars, listVars, markVars, Holding
<1>3. ListTypes'
  BY <1>a, <1>0, ScopeIs DEF ListTypes, Build, NotCached, listVars
<1>4. AttemptTypes'
  BY <1>0 DEF AttemptTypes, Attempts, LockTypes, Build, offeringVars, markVars, envVars,
       Holding, Widens, Scope
<1>5. FlagTypes'
  BY <1>0 DEF FlagTypes, Build, offeringVars, envVars, markVars
<1> QED
  BY <1>1, <1>2, <1>3, <1>4, <1>5, TypesParts, PTL

\* DropList keeps the types.
LEMMA DropListKeepsTypes == ASSUME Types, NEW s \in Scopes, DropList(s) PROVE Types'
PROOF
<1>0. EntryTypes /\ LockTypes /\ ListTypes /\ AttemptTypes /\ FlagTypes
  BY TypesParts
<1>1. EntryTypes'
  BY <1>0 DEF EntryTypes, DropList, offeringVars, entryVars
<1>2. LockTypes'
  BY <1>0, OfferingsAssumption DEF LockTypes, Nobody, DropList, offeringVars, markVars, Holding
<1>3. ListTypes'
  BY <1>0 DEF ListTypes, DropList, NotCached, attemptVars
<1>4. AttemptTypes'
  BY <1>0 DEF AttemptTypes, Attempts, DropList, attemptVars, offeringVars, markVars, envVars,
       Holding, Widens, Scope
<1>5. FlagTypes'
  BY <1>0 DEF FlagTypes, DropList, offeringVars, envVars, markVars
<1> QED
  BY <1>1, <1>2, <1>3, <1>4, <1>5, TypesParts, PTL

\* Allocate keeps the types.
LEMMA AllocateKeepsTypes == ASSUME Types, NEW l \in Launchers, Allocate(l) PROVE Types'
PROOF
<1>0. EntryTypes /\ LockTypes /\ ListTypes /\ AttemptTypes /\ FlagTypes
  BY TypesParts
<1>1. EntryTypes'
  BY <1>0 DEF EntryTypes, Allocate, Best, offeringVars, entryVars
<1>2. LockTypes'
  BY <1>0, OfferingsAssumption DEF LockTypes, Nobody, Allocate, Best, offeringVars, listVars, markVars, Holding
<1>3. ListTypes'
  BY <1>0 DEF ListTypes, Allocate, Best, listVars
<1>4. AttemptTypes'
  BY <1>0 DEF AttemptTypes, Attempts, ListTypes, LockTypes, Allocate, Best, offeringVars, markVars, envVars,
       Holding, Widens, Scope
<1>5. FlagTypes'
  BY <1>0 DEF FlagTypes, Allocate, Best, offeringVars, envVars, markVars
<1> QED
  BY <1>1, <1>2, <1>3, <1>4, <1>5, TypesParts, PTL

\* LaunchSucceeds keeps the types.
LEMMA LaunchSucceedsKeepsTypes == ASSUME Types, NEW l \in Launchers, LaunchSucceeds(l) PROVE Types'
PROOF
<1>0. EntryTypes /\ LockTypes /\ ListTypes /\ AttemptTypes /\ FlagTypes
  BY TypesParts
<1>1. EntryTypes'
  BY <1>0 DEF EntryTypes, LaunchSucceeds, offeringVars, entryVars
<1>2. LockTypes'
  BY <1>0, OfferingsAssumption DEF LockTypes, Nobody, LaunchSucceeds, offeringVars, listVars, markVars, Holding
<1>3. ListTypes'
  BY <1>0 DEF ListTypes, LaunchSucceeds, listVars
<1>4. AttemptTypes'
  BY <1>0 DEF AttemptTypes, Attempts, LockTypes, LaunchSucceeds, NoOffering, offeringVars, markVars, envVars,
       Holding, Widens, Scope
<1>5. FlagTypes'
  BY <1>0 DEF FlagTypes, LaunchSucceeds, offeringVars, envVars, markVars
<1> QED
  BY <1>1, <1>2, <1>3, <1>4, <1>5, TypesParts, PTL

\* LaunchFails keeps the types.
LEMMA LaunchFailsKeepsTypes == ASSUME Types, NEW l \in Launchers, NEW kind \in Kinds, LaunchFails(l, kind) PROVE Types'
PROOF
<1>0. EntryTypes /\ LockTypes /\ ListTypes /\ AttemptTypes /\ FlagTypes
  BY TypesParts
<1>a. Handle(kind, Scope[l], chosen[l]) \subseteq Marks
  BY <1>0, ScopeIs, HandleTrue DEF LaunchFails, AttemptTypes, Attempts, FlagTypes
<1>1. EntryTypes'
  BY <1>0 DEF EntryTypes, LaunchFails, offeringVars, entryVars
<1>2. LockTypes'
  BY <1>0, OfferingsAssumption DEF LockTypes, Nobody, LaunchFails, offeringVars, listVars, markVars, Holding
<1>3. ListTypes'
  BY <1>0 DEF ListTypes, LaunchFails, listVars
<1>4. AttemptTypes'
  BY <1>a, <1>0 DEF AttemptTypes, Attempts, LockTypes, LaunchFails, NoOffering, offeringVars, markVars, envVars,
       Holding, Widens, Scope
<1>5. FlagTypes'
  BY <1>0, OfferingsAssumption DEF FlagTypes, LaunchFails, offeringVars, markVars
<1> QED
  BY <1>1, <1>2, <1>3, <1>4, <1>5, TypesParts, PTL

\* LaunchFailsUnmatched keeps the types.
LEMMA LaunchFailsUnmatchedKeepsTypes == ASSUME Types, NEW l \in Launchers, LaunchFailsUnmatched(l) PROVE Types'
PROOF
<1>0. EntryTypes /\ LockTypes /\ ListTypes /\ AttemptTypes /\ FlagTypes
  BY TypesParts
<1>1. EntryTypes'
  BY <1>0 DEF EntryTypes, LaunchFailsUnmatched, offeringVars, entryVars
<1>2. LockTypes'
  BY <1>0, OfferingsAssumption DEF LockTypes, Nobody, LaunchFailsUnmatched, offeringVars, listVars, markVars, Holding
<1>3. ListTypes'
  BY <1>0 DEF ListTypes, LaunchFailsUnmatched, listVars
<1>4. AttemptTypes'
  BY <1>0 DEF AttemptTypes, Attempts, LockTypes, LaunchFailsUnmatched, NoOffering, offeringVars, markVars, envVars,
       Holding, Widens, Scope
<1>5. FlagTypes'
  BY <1>0, OfferingsAssumption DEF FlagTypes, LaunchFailsUnmatched, offeringVars, markVars
<1> QED
  BY <1>1, <1>2, <1>3, <1>4, <1>5, TypesParts, PTL

\* NextClaim keeps the types.
LEMMA NextClaimKeepsTypes == ASSUME Types, NEW l \in Launchers, NextClaim(l) PROVE Types'
PROOF
<1>0. EntryTypes /\ LockTypes /\ ListTypes /\ AttemptTypes /\ FlagTypes
  BY TypesParts
<1>1. EntryTypes'
  BY <1>0 DEF EntryTypes, NextClaim, offeringVars, entryVars
<1>2. LockTypes'
  BY <1>0, OfferingsAssumption DEF LockTypes, Nobody, NextClaim, offeringVars, listVars, markVars, Holding
<1>3. ListTypes'
  BY <1>0 DEF ListTypes, NextClaim, listVars, attemptVars
<1>4. AttemptTypes'
  BY <1>0 DEF AttemptTypes, Attempts, NextClaim, attemptVars, offeringVars, markVars, envVars,
       Holding, Widens, Scope
<1>5. FlagTypes'
  BY <1>0 DEF FlagTypes, NextClaim, offeringVars, envVars, markVars
<1> QED
  BY <1>1, <1>2, <1>3, <1>4, <1>5, TypesParts, PTL

\* The mark in the hand of the holder of the mutex, and the offering it is about.
LEMMA InHand ==
    ASSUME Types, NEW l \in Launchers, pc[l] \in Holding
    PROVE  /\ chosen[l] \in Offering /\ chosen[l].sku \in SKUs /\ VCPU[chosen[l].sku] \in Nat
           /\ current \in Marks /\ current.ttl \in Nat /\ current.type \in {"spot", "skuZone", "offering"}
           /\ mu = l /\ mu # Nobody /\ \A k \in Launchers : pc[k] \in Holding => k = l
           /\ Scope[l] \in Scopes
PROOF
<1>1. LockTypes /\ AttemptTypes
  BY TypesParts
<1>2. /\ chosen[l] \in Offering /\ current \in Marks
      /\ mu = l /\ mu # Nobody /\ \A k \in Launchers : pc[k] \in Holding => k = l
  BY <1>1, OfferingsAssumption DEF LockTypes, AttemptTypes, Attempts, Nobody
<1> QED
  BY <1>2, ScopeIs, OfferingsAssumption DEF Offering, Marks

\* ReadMark keeps the types.
LEMMA ReadMarkKeepsTypes == ASSUME Types, NEW l \in Launchers, NEW m \in marks[l], ReadMark(l, m) PROVE Types'
PROOF
<1>0. EntryTypes /\ LockTypes /\ ListTypes /\ AttemptTypes /\ FlagTypes
  BY TypesParts
<1>1. EntryTypes'
  BY <1>0 DEF EntryTypes, ReadMark, entryVars
<1>2. LockTypes'
  BY <1>0, OfferingsAssumption DEF LockTypes, Nobody, ReadMark, listVars, Holding
<1>3. ListTypes'
  BY <1>0 DEF ListTypes, ReadMark, listVars, attemptVars
<1>4. AttemptTypes'
  <2>1. /\ pc[l] = "marking" /\ mu = Nobody /\ m \in Marks /\ current' = m /\ kept' = kept
        /\ marks' = [marks EXCEPT ![l] = @ \ {m}] /\ chosen' = chosen /\ pc' = [pc EXCEPT ![l] = "setting"]
    BY <1>0 DEF ReadMark, attemptVars, AttemptTypes
  <2>2. \A k \in Launchers : pc[k] \notin Holding
    BY <1>0, <2>1, OfferingsAssumption DEF LockTypes, Nobody
  <2> QED
    BY <1>0, <2>1, <2>2 DEF AttemptTypes, Attempts, LockTypes, Holding
<1>5. FlagTypes'
  <2>1. PICK b \in BOOLEAN : bump' = [bump EXCEPT ![l] = b]
    BY DEF ReadMark
  <2> QED
    BY <1>0, <2>1 DEF FlagTypes, ReadMark, envVars
<1> QED
  BY <1>1, <1>2, <1>3, <1>4, <1>5, TypesParts, PTL

\* SetSingle keeps the types.
LEMMA SetSingleKeepsTypes == ASSUME Types, NEW l \in Launchers, SetSingle(l) PROVE Types'
PROOF
<1>0. EntryTypes /\ LockTypes /\ ListTypes /\ AttemptTypes /\ FlagTypes
  BY TypesParts
<1>a. pc[l] \in Holding /\ pc[l] = "setting"
  BY DEF SetSingle, Holding
<1>b. current.ttl \in Nat /\ \A k \in Launchers : pc[k] \in Holding => k = l
  BY <1>a, InHand
<1>1. EntryTypes'
  <2>1. \A j \in DOMAIN single' : single'[j] \in Nat
    BY <1>0, <1>b, PutTyped DEF SetSingle, EntryTypes
  <2> QED
    BY <1>0, <2>1 DEF EntryTypes, SetSingle
<1>2. LockTypes'
  BY <1>0 DEF LockTypes, SetSingle, listVars, Holding
<1>3. ListTypes'
  BY <1>0 DEF ListTypes, SetSingle, listVars, attemptVars
<1>4. AttemptTypes'
  <2>1. /\ current' = current /\ kept' = kept /\ marks' = marks /\ chosen' = chosen /\ Scope' = Scope /\ bump' = bump
        /\ pc' = [pc EXCEPT ![l] = IF Widens(l, current) THEN "family" ELSE "bump"]
    BY DEF SetSingle, attemptVars, envVars, Scope
  <2>2. \A k \in Launchers : Widens(k, current)' <=> Widens(k, current)
    BY <2>1 DEF Widens
  <2>3. Attempts'
    BY <1>0, <1>a, <1>b, <2>1, <2>2 DEF AttemptTypes, Attempts, LockTypes, Holding
  <2> QED
    BY <1>0, <2>1, <2>3 DEF AttemptTypes
<1>5. FlagTypes'
  BY <1>0 DEF FlagTypes, SetSingle, envVars
<1> QED
  BY <1>1, <1>2, <1>3, <1>4, <1>5, TypesParts, PTL

\* ReadFamily keeps the types.
LEMMA ReadFamilyKeepsTypes == ASSUME Types, NEW l \in Launchers, ReadFamily(l) PROVE Types'
PROOF
<1>0. EntryTypes /\ LockTypes /\ ListTypes /\ AttemptTypes /\ FlagTypes
  BY TypesParts
<1>a. pc[l] \in Holding /\ pc[l] = "family"
  BY DEF ReadFamily, Holding
<1>b. \A k \in Launchers : pc[k] \in Holding => k = l
  BY <1>a, InHand
<1> DEFINE stays == FamilyLimitStays(FamilyKeyOf(l, current), chosen[l].sku)
<1>c. /\ bump' = [bump EXCEPT ![l] = bump[l] \/ ~stays]
      /\ kept' = IF stays THEN family[FamilyKeyOf(l, current)].limit ELSE None
  BY DEF ReadFamily, BumpAfterFamily
<1>d. /\ kept' \in Nat \cup {None} /\ (kept' = None => ~stays)
  BY <1>0, <1>c, OfferingsAssumption DEF EntryTypes, FamilyLimitStays, FamilyFound
<1> HIDE DEF stays
<1>e. bump' \in [Launchers -> BOOLEAN] /\ (bump'[l] \/ kept' # None)
  BY <1>0, <1>c, <1>d DEF FlagTypes
<1>1. EntryTypes'
  BY <1>0 DEF EntryTypes, ReadFamily, entryVars
<1>2. LockTypes'
  BY <1>0 DEF LockTypes, ReadFamily, listVars, Holding
<1>3. ListTypes'
  BY <1>0 DEF ListTypes, ReadFamily, listVars, attemptVars
<1>4. AttemptTypes'
  <2>1. /\ current' = current /\ marks' = marks /\ chosen' = chosen /\ Scope' = Scope
        /\ pc' = [pc EXCEPT ![l] = "settingFamily"]
    BY DEF ReadFamily, attemptVars, envVars, Scope
  <2>2. \A k \in Launchers : Widens(k, current)' <=> Widens(k, current)
    BY <2>1 DEF Widens
  <2>3. Attempts'
    BY <1>0, <1>a, <1>b, <1>e, <2>1, <2>2 DEF AttemptTypes, Attempts, LockTypes, Holding
  <2> QED
    BY <1>0, <1>d, <2>1, <2>3 DEF AttemptTypes
<1>5. FlagTypes'
  BY <1>0, <1>e DEF FlagTypes, ReadFamily, envVars
<1> QED
  BY <1>1, <1>2, <1>3, <1>4, <1>5, TypesParts, PTL

\* SetFamily keeps the types.
LEMMA SetFamilyKeepsTypes == ASSUME Types, NEW l \in Launchers, SetFamily(l) PROVE Types'
PROOF
<1>0. EntryTypes /\ LockTypes /\ ListTypes /\ AttemptTypes /\ FlagTypes
  BY TypesParts
<1>a. pc[l] \in Holding /\ pc[l] = "settingFamily"
  BY DEF SetFamily, Holding
<1>b. current.ttl \in Nat /\ VCPU[chosen[l].sku] \in Nat /\ \A k \in Launchers : pc[k] \in Holding => k = l
  BY <1>a, InHand
<1>1. EntryTypes'
  <2> DEFINE entry == [limit |-> IF kept = None THEN VCPU[chosen[l].sku] ELSE kept, left |-> current.ttl]
  <2>1. entry \in [limit : Nat, left : Nat]
    BY <1>0, <1>b DEF AttemptTypes
  <2>2. family' = Put(family, FamilyKeyOf(l, current), entry) /\ single' = single
    BY DEF SetFamily
  <2> HIDE DEF entry
  <2>3. \A j \in DOMAIN family' : family'[j] \in [limit : Nat, left : Nat]
    BY <1>0, <2>1, <2>2, PutTyped DEF EntryTypes
  <2> QED
    BY <1>0, <2>2, <2>3 DEF EntryTypes
<1>2. LockTypes'
  BY <1>0 DEF LockTypes, SetFamily, listVars, Holding
<1>3. ListTypes'
  BY <1>0 DEF ListTypes, SetFamily, listVars, attemptVars
<1>4. AttemptTypes'
  BY <1>0, <1>b DEF AttemptTypes, Attempts, LockTypes, SetFamily, attemptVars, Holding
<1>5. FlagTypes'
  BY <1>0 DEF FlagTypes, SetFamily, envVars
<1> QED
  BY <1>1, <1>2, <1>3, <1>4, <1>5, TypesParts, PTL

\* BumpSeqNum keeps the types.
LEMMA BumpSeqNumKeepsTypes == ASSUME Types, NEW l \in Launchers, BumpSeqNum(l) PROVE Types'
PROOF
<1>0. EntryTypes /\ LockTypes /\ ListTypes /\ AttemptTypes /\ FlagTypes
  BY TypesParts
<1>1. EntryTypes'
  BY <1>0 DEF EntryTypes, BumpSeqNum, entryVars
<1>2. LockTypes'
  BY <1>0, OfferingsAssumption DEF LockTypes, Nobody, BumpSeqNum, listVars, markVars, Holding
<1>3. ListTypes'
  BY <1>0 DEF ListTypes, BumpSeqNum, listVars
<1>4. AttemptTypes'
  BY <1>0 DEF AttemptTypes, Attempts, LockTypes, BumpSeqNum, NoOffering, offeringVars, markVars, envVars,
       Holding, Widens, Scope
<1>5. FlagTypes'
  BY <1>0 DEF FlagTypes, BumpSeqNum, envVars, markVars
<1> QED
  BY <1>1, <1>2, <1>3, <1>4, <1>5, TypesParts, PTL

\* InvalidateGroup keeps the types.
LEMMA InvalidateGroupKeepsTypes == ASSUME Types, NEW g \in Groups, InvalidateGroup(g) PROVE Types'
PROOF
<1>0. EntryTypes /\ LockTypes /\ ListTypes /\ AttemptTypes /\ FlagTypes
  BY TypesParts
<1>1. EntryTypes'
  BY <1>0 DEF EntryTypes, InvalidateGroup, entryVars
<1>2. LockTypes'
  BY <1>0, OfferingsAssumption DEF LockTypes, Nobody, InvalidateGroup, listVars, markVars, Holding
<1>3. ListTypes'
  BY <1>0 DEF ListTypes, InvalidateGroup, listVars, attemptVars
<1>4. AttemptTypes'
  BY <1>0 DEF AttemptTypes, Attempts, InvalidateGroup, attemptVars, offeringVars, markVars, envVars,
       Holding, Widens, Scope
<1>5. FlagTypes'
  BY <1>0, OfferingsAssumption DEF FlagTypes, InvalidateGroup, markVars
<1> QED
  BY <1>1, <1>2, <1>3, <1>4, <1>5, TypesParts, PTL

\* Tick keeps the types.
LEMMA TickKeepsTypes == ASSUME Types, Tick PROVE Types'
PROOF
<1>0. EntryTypes /\ LockTypes /\ ListTypes /\ AttemptTypes /\ FlagTypes
  BY TypesParts
<1>1. EntryTypes'
  BY <1>0 DEF EntryTypes, Less, Tick, entryVars
<1>2. LockTypes'
  BY <1>0, OfferingsAssumption DEF LockTypes, Nobody, Tick, listVars, markVars, Holding
<1>3. ListTypes'
  BY <1>0 DEF ListTypes, Tick, listVars, attemptVars
<1>4. AttemptTypes'
  BY <1>0 DEF AttemptTypes, Attempts, Tick, attemptVars, offeringVars, markVars, envVars,
       Holding, Widens, Scope
<1>5. FlagTypes'
  BY <1>0 DEF FlagTypes, Tick, markVars
<1> QED
  BY <1>1, <1>2, <1>3, <1>4, <1>5, TypesParts, PTL

\* DeleteExpired keeps the types.
LEMMA DeleteExpiredKeepsTypes == ASSUME Types, DeleteExpired PROVE Types'
PROOF
<1>0. EntryTypes /\ LockTypes /\ ListTypes /\ AttemptTypes /\ FlagTypes
  BY TypesParts
<1>1. EntryTypes'
  BY <1>0 DEF EntryTypes, DeleteExpired, entryVars
<1>2. LockTypes'
  BY <1>0, OfferingsAssumption DEF LockTypes, Nobody, DeleteExpired, listVars, markVars, Holding
<1>3. ListTypes'
  BY <1>0 DEF ListTypes, DeleteExpired, listVars, attemptVars
<1>4. AttemptTypes'
  BY <1>0 DEF AttemptTypes, Attempts, DeleteExpired, attemptVars, offeringVars, markVars, envVars,
       Holding, Widens, Scope
<1>5. FlagTypes'
  BY <1>0 DEF FlagTypes, DeleteExpired, envVars, markVars
<1> QED
  BY <1>1, <1>2, <1>3, <1>4, <1>5, TypesParts, PTL

\* OnEvicted keeps the types.
LEMMA OnEvictedKeepsTypes == ASSUME Types, OnEvicted PROVE Types'
PROOF
<1>0. EntryTypes /\ LockTypes /\ ListTypes /\ AttemptTypes /\ FlagTypes
  BY TypesParts
<1>1. EntryTypes'
  BY <1>0 DEF EntryTypes, OnEvicted, entryVars
<1>2. LockTypes'
  BY <1>0, OfferingsAssumption DEF LockTypes, Nobody, OnEvicted, listVars, markVars, Holding
<1>3. ListTypes'
  BY <1>0 DEF ListTypes, OnEvicted, listVars, attemptVars
<1>4. AttemptTypes'
  BY <1>0 DEF AttemptTypes, Attempts, OnEvicted, attemptVars, offeringVars, markVars, envVars,
       Holding, Widens, Scope
<1>5. FlagTypes'
  BY <1>0 DEF FlagTypes, OnEvicted, envVars, markVars
<1> QED
  BY <1>1, <1>2, <1>3, <1>4, <1>5, TypesParts, PTL

\* A stuttering step keeps the types.
LEMMA StutterKeepsTypes == ASSUME Types, UNCHANGED vars PROVE Types'
PROOF
<1>0. EntryTypes /\ LockTypes /\ ListTypes /\ AttemptTypes /\ FlagTypes
  BY TypesParts
<1>1. EntryTypes'
  BY <1>0 DEF EntryTypes, vars, offeringVars, entryVars
<1>2. LockTypes'
  BY <1>0, OfferingsAssumption DEF LockTypes, Nobody, vars, offeringVars, listVars, markVars, Holding
<1>3. ListTypes'
  BY <1>0 DEF ListTypes, vars, listVars, attemptVars
<1>4. AttemptTypes'
  BY <1>0 DEF AttemptTypes, Attempts, vars, attemptVars, offeringVars, markVars, envVars,
       Holding, Widens, Scope
<1>5. FlagTypes'
  BY <1>0 DEF FlagTypes, vars, offeringVars, envVars, markVars
<1> QED
  BY <1>1, <1>2, <1>3, <1>4, <1>5, TypesParts, PTL

-----------------------------------------------------------------------------
(* What a new entry changes, and what a lost one.                          *)

\* What a new entry of singleOfferingCache makes known or unavailable.
LEMMA KnownPutSingle ==
    ASSUME NEW one, NEW fam, NEW k, NEW ttl, NEW scope, NEW sku, NEW zone, NEW ct
    PROVE  /\ Known(Put(one, k, ttl), fam, scope, sku, zone, ct) =>
                 \/ Known(one, fam, scope, sku, zone, ct)
                 \/ k = SKUZoneKey(sku, zone) \/ (ct = Spot /\ k = SpotKey)
                 \/ k = SingleInstanceKey(scope, sku, zone, ct)
           /\ Known(one, fam, scope, sku, zone, ct) => Known(Put(one, k, ttl), fam, scope, sku, zone, ct)
           /\ Unavailable(Put(one, k, ttl), fam, scope, sku, zone, ct) =>
                 \/ Unavailable(one, fam, scope, sku, zone, ct)
                 \/ k = SKUZoneKey(sku, zone) \/ (ct = Spot /\ k = SpotKey)
                 \/ k = SingleInstanceKey(scope, sku, zone, ct)
PROOF
<1> DEFINE new == Put(one, k, ttl)
<1>1. DOMAIN new = DOMAIN one \cup {k} /\ new[k] = ttl /\ (\A j \in DOMAIN one : j # k => new[j] = one[j])
  BY DEF Put
<1> HIDE DEF new
<1>2. \A j : (j \in DOMAIN new <=> j \in DOMAIN one \/ j = k) /\ (j \in DOMAIN one /\ j # k => new[j] = one[j])
  BY <1>1
<1>3. (Known(new, fam, scope, sku, zone, ct) => Known(one, fam, scope, sku, zone, ct)
         \/ k = SKUZoneKey(sku, zone) \/ (ct = Spot /\ k = SpotKey)
         \/ k = SingleInstanceKey(scope, sku, zone, ct))
  BY <1>1, <1>2 DEF Known
<1>4. Known(one, fam, scope, sku, zone, ct) => Known(new, fam, scope, sku, zone, ct)
  BY <1>1, <1>2 DEF Known
<1>5. (Unavailable(new, fam, scope, sku, zone, ct) => Unavailable(one, fam, scope, sku, zone, ct)
         \/ k = SKUZoneKey(sku, zone) \/ (ct = Spot /\ k = SpotKey)
         \/ k = SingleInstanceKey(scope, sku, zone, ct))
  BY <1>1, <1>2 DEF Unavailable
<1> QED
  BY <1>3, <1>4, <1>5 DEF new

\* What a new entry of vmFamilyCache makes known or unavailable.
LEMMA KnownPutFamily ==
    ASSUME NEW one, NEW fam, NEW k, NEW entry, NEW scope, NEW sku, NEW zone, NEW ct
    PROVE  /\ Known(one, Put(fam, k, entry), scope, sku, zone, ct) =>
                 \/ Known(one, fam, scope, sku, zone, ct)
                 \/ (k = FamilyKey(scope, sku, zone, ct) /\ VCPU[sku] >= entry.limit)
           /\ (k \in DOMAIN fam => entry.limit = fam[k].limit) =>
                 (Known(one, fam, scope, sku, zone, ct) => Known(one, Put(fam, k, entry), scope, sku, zone, ct))
           /\ Unavailable(one, Put(fam, k, entry), scope, sku, zone, ct) =>
                 \/ Unavailable(one, fam, scope, sku, zone, ct)
                 \/ (k = FamilyKey(scope, sku, zone, ct) /\ VCPU[sku] >= entry.limit)
PROOF
<1> DEFINE new == Put(fam, k, entry)
<1>1. DOMAIN new = DOMAIN fam \cup {k} /\ new[k] = entry /\ (\A j \in DOMAIN fam : j # k => new[j] = fam[j])
  BY DEF Put
<1> HIDE DEF new
<1>2. \A j : (j \in DOMAIN new <=> j \in DOMAIN fam \/ j = k) /\ (j \in DOMAIN fam /\ j # k => new[j] = fam[j])
  BY <1>1
<1>3. (Known(one, new, scope, sku, zone, ct) => Known(one, fam, scope, sku, zone, ct)
         \/ (k = FamilyKey(scope, sku, zone, ct) /\ VCPU[sku] >= entry.limit))
  BY <1>1, <1>2 DEF Known
<1>4. (k \in DOMAIN fam => entry.limit = fam[k].limit) =>
         (Known(one, fam, scope, sku, zone, ct) => Known(one, new, scope, sku, zone, ct))
  BY <1>1, <1>2 DEF Known
<1>5. (Unavailable(one, new, scope, sku, zone, ct) => Unavailable(one, fam, scope, sku, zone, ct)
         \/ (k = FamilyKey(scope, sku, zone, ct) /\ VCPU[sku] >= entry.limit))
  BY <1>1, <1>2 DEF Unavailable
<1> QED
  BY <1>3, <1>4, <1>5 DEF new

\* Fewer entries make nothing known.
LEMMA KnownShrinks ==
    ASSUME NEW one, NEW fam, NEW one2, NEW fam2, NEW scope, NEW sku, NEW zone, NEW ct,
           DOMAIN one2 \subseteq DOMAIN one, DOMAIN fam2 \subseteq DOMAIN fam,
           \A k \in DOMAIN fam2 : fam2[k].limit = fam[k].limit
    PROVE  Known(one2, fam2, scope, sku, zone, ct) => Known(one, fam, scope, sku, zone, ct)
PROOF BY DEF Known

-----------------------------------------------------------------------------
(* Marks, entries and kept limits stay true.                               *)

\* No step but LaunchFails gives a launcher a mark, none changes the offering under its marks, and
\* the mark in hand is one of them.
LEMMA MarksShrink ==
    ASSUME MarksTrue, scenario' = scenario,
           \A l \in Launchers :
              /\ marks'[l] \subseteq marks[l]
              /\ marks'[l] # {} \/ pc'[l] \in Holding => chosen'[l] = chosen[l]
              /\ pc'[l] \in Holding => (pc[l] \in Holding /\ current' = current) \/ current' \in marks[l]
    PROVE  MarksTrue'
PROOF BY DEF MarksTrue, MarkTrue, Scope

\* Every step keeps the marks true.
LEMMA MarksStayTrue ==
    ASSUME Types, MarksTrue, Next
    PROVE  MarksTrue'
PROOF
<1>1. scenario' = scenario /\ Scope' = Scope
  BY ScenarioStays
<1>2. /\ chosen \in [Launchers -> Offering \cup {NoOffering}] /\ marks \in [Launchers -> SUBSET Marks]
      /\ scenario \in Scenarios /\ Scope \in [Launchers -> Scopes] /\ LockTypes
      /\ \A l \in Launchers : /\ pc[l] \in {"launching", "marking"} \cup Holding => chosen[l] \in Offering
                              /\ pc[l] \notin {"marking"} \cup Holding => marks[l] = {}
  BY ScopeIs, TypesParts DEF Types, TypeOK, Attempts
<1> DEFINE Shrink ==
      \A l \in Launchers :
         /\ marks'[l] \subseteq marks[l]
         /\ marks'[l] # {} \/ pc'[l] \in Holding => chosen'[l] = chosen[l]
         /\ pc'[l] \in Holding => (pc[l] \in Holding /\ current' = current) \/ current' \in marks[l]
<1>3. ASSUME NEW l \in Launchers, NEW kind \in Kinds, LaunchFails(l, kind)
      PROVE  MarksTrue'
  <2>1. \A m \in Handle(kind, Scope[l], chosen[l]) : MarkTrue(Scope[l], chosen[l], m)
    BY <1>2, <1>3, HandleTrue DEF LaunchFails
  <2>2. /\ marks' = [marks EXCEPT ![l] = Handle(kind, Scope[l], chosen[l])]
        /\ chosen' = [chosen EXCEPT ![l] = IF Handle(kind, Scope[l], chosen[l]) = {} THEN NoOffering ELSE @]
        /\ \E p \in {"idle", "marking"} : pc' = [pc EXCEPT ![l] = p]
        /\ current' = current
    BY <1>3 DEF LaunchFails, offeringVars, markVars
  <2>3. ASSUME NEW k \in Launchers, NEW m \in marks'[k]
        PROVE  MarkTrue(Scope[k], chosen'[k], m)
    <3>1. CASE k = l
      BY <1>2, <2>1, <2>2, <2>3, <3>1
    <3>2. CASE k # l
      BY <1>2, <2>2, <2>3, <3>2 DEF MarksTrue
    <3> QED
      BY <3>1, <3>2
  <2>4. ASSUME NEW k \in Launchers, pc'[k] \in Holding
        PROVE  MarkTrue(Scope[k], chosen'[k], current')
    <3>1. k # l /\ pc[k] \in Holding /\ chosen'[k] = chosen[k]
      BY <1>2, <2>2, <2>4 DEF LockTypes, Holding
    <3> QED
      BY <2>2, <3>1 DEF MarksTrue
  <2> QED
    BY <1>1, <2>3, <2>4 DEF MarksTrue, MarkTrue
<1>4. ASSUME NEW l \in Launchers, List(l) \/ NextClaim(l) \/ (\E sku \in SKUs : Build(l, sku))
      PROVE  Shrink
  BY <1>2, <1>4 DEF List, NextClaim, Build, attemptVars, offeringVars, markVars, LockTypes, Holding
<1>5. ASSUME NEW l \in Launchers, Allocate(l) \/ LaunchSucceeds(l) \/ LaunchFailsUnmatched(l)
      PROVE  Shrink
  BY <1>2, <1>5 DEF Allocate, LaunchSucceeds, LaunchFailsUnmatched, offeringVars, markVars, LockTypes, Holding
<1>6. ASSUME NEW l \in Launchers, BumpSeqNum(l)
      PROVE  Shrink
  <2>1. \A k \in Launchers : pc[k] \in Holding => k = l
    BY <1>6, InHand DEF BumpSeqNum, Holding
  <2> QED
    BY <1>2, <1>6, <2>1 DEF BumpSeqNum, LockTypes, Holding
<1>7. ASSUME NEW l \in Launchers, NEW m \in marks[l], ReadMark(l, m)
      PROVE  Shrink
  <2>1. \A k \in Launchers : pc[k] \notin Holding
    BY <1>2, <1>7, OfferingsAssumption DEF ReadMark, LockTypes, Nobody
  <2> QED
    BY <1>2, <1>7, <2>1 DEF ReadMark, attemptVars, LockTypes
<1>8. ASSUME NEW l \in Launchers, SetSingle(l) \/ ReadFamily(l) \/ SetFamily(l)
      PROVE  Shrink
  BY <1>2, <1>8 DEF SetSingle, ReadFamily, SetFamily, attemptVars, LockTypes, Holding
<1>9. ASSUME \/ \E s \in Scopes : DropList(s)
             \/ \E g \in Groups : InvalidateGroup(g)
             \/ Tick \/ DeleteExpired \/ OnEvicted
      PROVE  Shrink
  BY <1>9 DEF DropList, InvalidateGroup, Tick, DeleteExpired, OnEvicted, attemptVars, offeringVars, markVars
<1>10. Shrink => MarksTrue'
  BY <1>1, MarksShrink
<1> QED
  BY <1>3, <1>4, <1>5, <1>6, <1>7, <1>8, <1>9, <1>10 DEF Next, LauncherStep

\* The entry of a true mark is true.
LEMMA SetSingleTrue ==
    ASSUME Types, MarksTrue, EntriesTrue, NEW l \in Launchers, SetSingle(l)
    PROVE  \A w \in scenario.serves : ~Known(single', family', w[1], w[2].sku, w[2].zone, w[2].ct)
PROOF
<1> SUFFICES ASSUME NEW w \in scenario.serves, Known(single', family', w[1], w[2].sku, w[2].zone, w[2].ct)
             PROVE  FALSE
  OBVIOUS
<1> DEFINE o == chosen[l]
           m == current
           k == KeyOf(l, m)
<1>1. pc[l] \in Holding /\ m.type \in {"spot", "skuZone", "offering"}
  BY InHand DEF SetSingle, Holding
<1>2. MarkTrue(Scope[l], o, m) /\ ~Known(single, family, w[1], w[2].sku, w[2].zone, w[2].ct)
  BY <1>1 DEF MarksTrue, EntriesTrue
<1>3. single' = Put(single, k, m.ttl) /\ family' = family
  BY DEF SetSingle
<1>4. \/ k = SKUZoneKey(w[2].sku, w[2].zone) \/ (w[2].ct = Spot /\ k = SpotKey)
      \/ k = SingleInstanceKey(w[1], w[2].sku, w[2].zone, w[2].ct)
  <2> HIDE DEF k, m
  <2> QED
    BY <1>2, <1>3, KnownPutSingle
<1>5. CASE m.type = "spot"
  BY <1>2, <1>4, <1>5, KeysDiffer DEF KeyOf, MarkTrue
<1>6. CASE m.type = "skuZone"
  BY <1>2, <1>4, <1>6, KeysDiffer DEF KeyOf, MarkTrue
<1>7. CASE m.type = "offering"
  BY <1>2, <1>4, <1>7, KeysDiffer DEF KeyOf, MarkTrue
<1> QED
  BY <1>1, <1>5, <1>6, <1>7

\* The entry of the family is true: the limit is the one of a true mark, or one kept from a true entry.
LEMMA SetFamilyTrue ==
    ASSUME Types, MarksTrue, EntriesTrue, KeptTrue, NEW l \in Launchers, SetFamily(l)
    PROVE  \A w \in scenario.serves : ~Known(single', family', w[1], w[2].sku, w[2].zone, w[2].ct)
PROOF
<1> SUFFICES ASSUME NEW w \in scenario.serves, Known(single', family', w[1], w[2].sku, w[2].zone, w[2].ct)
             PROVE  FALSE
  OBVIOUS
<1> DEFINE o == chosen[l]
           m == current
           k == FamilyKeyOf(l, m)
           n == IF kept = None THEN VCPU[o.sku] ELSE kept
<1>1. pc[l] \in Holding /\ pc[l] = "settingFamily" /\ m.type = "offering" /\ Scope[l] = Unreserved
  BY DEF SetFamily, Holding, Types, Attempts, Widens
<1>2. MarkTrue(Scope[l], o, m) /\ ~Known(single, family, w[1], w[2].sku, w[2].zone, w[2].ct)
  BY <1>1 DEF MarksTrue, EntriesTrue
<1>3. k = FamilyKey(w[1], w[2].sku, w[2].zone, w[2].ct) /\ VCPU[w[2].sku] >= n
  <2> DEFINE entry == [limit |-> n, left |-> m.ttl]
  <2>1. single' = single /\ family' = Put(family, k, entry) /\ entry.limit = n
    BY DEF SetFamily
  <2> HIDE DEF k, m, n, entry
  <2> QED
    BY <1>2, <2>1, KnownPutFamily
<1>4. kept = None
  BY <1>1, <1>3 DEF KeptTrue
<1>5. w[1] = Scope[l] /\ Family[w[2].sku] = Family[o.sku] /\ w[2].zone = m.zone /\ w[2].ct = m.ct
  BY <1>3, KeysDiffer DEF FamilyKeyOf, FamilyKey
<1>6. Widened(o, w[2])
  BY <1>3, <1>4, <1>5 DEF Widened
<1> QED
  BY <1>1, <1>2, <1>5, <1>6 DEF MarkTrue

\* Every step keeps the entries true.
LEMMA EntriesStayTrue ==
    ASSUME Types, MarksTrue, EntriesTrue, KeptTrue, Next
    PROVE  EntriesTrue'
PROOF
<1>1. scenario' = scenario
  BY ScenarioStays
<1>2. ASSUME NEW l \in Launchers, SetSingle(l) \/ SetFamily(l)
      PROVE  EntriesTrue'
  BY <1>1, <1>2, SetSingleTrue, SetFamilyTrue DEF EntriesTrue
<1>3. ASSUME DOMAIN single' \subseteq DOMAIN single, DOMAIN family' \subseteq DOMAIN family,
             \A k \in DOMAIN family' : family'[k].limit = family[k].limit
      PROVE  EntriesTrue'
  BY <1>1, <1>3, KnownShrinks DEF EntriesTrue
<1>4. ASSUME single' = single, family' = family
      PROVE  EntriesTrue'
  BY <1>3, <1>4
<1>5. ASSUME NEW g \in Groups, InvalidateGroup(g)
      PROVE  EntriesTrue'
  BY <1>3, <1>5 DEF InvalidateGroup
<1>6. ASSUME Tick
      PROVE  EntriesTrue'
  <2>1. \A k \in DOMAIN family : family[k] \in [limit : Nat, left : Nat]
    BY DEF Types, TypeOK
  <2> QED
    BY <1>3, <1>6, <2>1 DEF Tick
<1>7. ASSUME DeleteExpired
      PROVE  EntriesTrue'
  BY <1>3, <1>7 DEF DeleteExpired
<1>8. ASSUME NEW l \in Launchers,
             \/ List(l) \/ Allocate(l) \/ LaunchSucceeds(l) \/ BumpSeqNum(l) \/ NextClaim(l)
             \/ \E sku \in SKUs : Build(l, sku)
             \/ \E kind \in Kinds : LaunchFails(l, kind)
             \/ LaunchFailsUnmatched(l)
             \/ \E m \in marks[l] : ReadMark(l, m)
             \/ ReadFamily(l)
      PROVE  EntriesTrue'
  BY <1>4, <1>8 DEF List, Allocate, LaunchSucceeds, BumpSeqNum, NextClaim, Build, LaunchFails,
                    LaunchFailsUnmatched, ReadMark, ReadFamily, offeringVars, entryVars
<1>9. ASSUME (\E s \in Scopes : DropList(s)) \/ OnEvicted
      PROVE  EntriesTrue'
  BY <1>4, <1>9 DEF DropList, OnEvicted, offeringVars, entryVars
<1> QED
  BY <1>2, <1>5, <1>6, <1>7, <1>8, <1>9 DEF Next, LauncherStep

\* Every step keeps the kept limit true: entries only leave while it waits to be set.
LEMMA KeptStaysTrue ==
    ASSUME Types, EntriesTrue, KeptTrue, Next
    PROVE  KeptTrue'
PROOF
<1>1. scenario' = scenario /\ Scope' = Scope
  BY ScenarioStays
<1>2. LockTypes /\ AttemptTypes
  BY TypesParts
<1>3. ASSUME \A l \in Launchers : pc'[l] # "settingFamily" PROVE KeptTrue'
  BY <1>3 DEF KeptTrue
<1> DEFINE Same == /\ current' = current /\ kept' = kept
                   /\ \A l \in Launchers : pc'[l] = "settingFamily" => pc[l] = "settingFamily" /\ chosen'[l] = chosen[l]
<1>4. ASSUME Same, DOMAIN family' \subseteq DOMAIN family,
             \A k \in DOMAIN family' : family'[k].limit = family[k].limit
      PROVE  KeptTrue'
  <2> SUFFICES ASSUME NEW l \in Launchers, pc'[l] = "settingFamily", kept' # None
               PROVE  /\ FamilyKeyOf(l, current)' \in DOMAIN family' => family'[FamilyKeyOf(l, current)'].limit = kept'
                      /\ \A w \in scenario'.serves :
                            FamilyKeyOf(l, current)' = FamilyKey(w[1], w[2].sku, w[2].zone, w[2].ct) =>
                                ~(VCPU[w[2].sku] >= kept')
    BY DEF KeptTrue
  <2>1. FamilyKeyOf(l, current)' = FamilyKeyOf(l, current)
    BY <1>1, <1>4 DEF FamilyKeyOf
  <2> QED
    BY <1>1, <1>4, <2>1 DEF KeptTrue
<1>5. ASSUME NEW l \in Launchers, NEW m \in marks[l], ReadMark(l, m)
      PROVE  KeptTrue'
  <2>1. \A k \in Launchers : pc[k] \notin Holding
    BY <1>2, <1>5, OfferingsAssumption DEF ReadMark, LockTypes, Nobody
  <2> QED
    BY <1>2, <1>3, <1>5, <2>1 DEF ReadMark, LockTypes, Holding
<1>6. ASSUME NEW l \in Launchers, SetSingle(l) \/ SetFamily(l) \/ BumpSeqNum(l)
      PROVE  KeptTrue'
  <2>1. \A k \in Launchers : pc[k] \in Holding => k = l
    BY <1>6, InHand DEF SetSingle, SetFamily, BumpSeqNum, Holding
  <2> QED
    BY <1>2, <1>3, <1>6, <2>1 DEF SetSingle, SetFamily, BumpSeqNum, LockTypes, Holding
<1>7. ASSUME NEW l \in Launchers, ReadFamily(l)
      PROVE  KeptTrue'
  <2>1. \A k \in Launchers : pc[k] \in Holding => k = l
    BY <1>7, InHand DEF ReadFamily, Holding
  <2>2. /\ pc' = [pc EXCEPT ![l] = "settingFamily"] /\ current' = current /\ chosen' = chosen /\ family' = family
        /\ kept' = IF FamilyLimitStays(FamilyKeyOf(l, current), chosen[l].sku)
                   THEN family[FamilyKeyOf(l, current)].limit ELSE None
    BY <1>7 DEF ReadFamily, attemptVars, entryVars
  <2>3. \A k \in Launchers : pc'[k] = "settingFamily" => k = l
    BY <1>2, <2>1, <2>2 DEF LockTypes, Holding
  <2>4. FamilyKeyOf(l, current)' = FamilyKeyOf(l, current)
    BY <1>1, <2>2 DEF FamilyKeyOf
  <2>5. ASSUME kept' # None
        PROVE  /\ FamilyKeyOf(l, current) \in DOMAIN family /\ family[FamilyKeyOf(l, current)].limit = kept'
    BY <2>2, <2>5 DEF FamilyLimitStays, FamilyFound
  <2>6. ASSUME kept' # None, NEW w \in scenario.serves,
               FamilyKeyOf(l, current) = FamilyKey(w[1], w[2].sku, w[2].zone, w[2].ct)
        PROVE  ~(VCPU[w[2].sku] >= kept')
    BY <2>5, <2>6 DEF EntriesTrue, Known
  <2> QED
    BY <1>1, <2>2, <2>3, <2>4, <2>5, <2>6 DEF KeptTrue
<1>8. ASSUME NEW l \in Launchers,
             \/ List(l) \/ Allocate(l) \/ LaunchSucceeds(l) \/ NextClaim(l)
             \/ \E sku \in SKUs : Build(l, sku)
             \/ \E kind \in Kinds : LaunchFails(l, kind)
             \/ LaunchFailsUnmatched(l)
      PROVE  KeptTrue'
  <2>1. Same
    BY <1>2, <1>8 DEF List, Allocate, LaunchSucceeds, NextClaim, Build, LaunchFails, LaunchFailsUnmatched,
                      offeringVars, markVars, attemptVars, LockTypes, AttemptTypes
  <2>2. family' = family
    BY <1>8 DEF List, Allocate, LaunchSucceeds, NextClaim, Build, LaunchFails, LaunchFailsUnmatched,
                offeringVars, entryVars
  <2> QED
    BY <1>4, <2>1, <2>2
<1>9. ASSUME (\E s \in Scopes : DropList(s)) \/ OnEvicted \/ (\E g \in Groups : InvalidateGroup(g)) \/ DeleteExpired
      PROVE  KeptTrue'
  <2>1. Same /\ DOMAIN family' \subseteq DOMAIN family /\ \A k \in DOMAIN family' : family'[k].limit = family[k].limit
    BY <1>9 DEF DropList, OnEvicted, InvalidateGroup, DeleteExpired, offeringVars, markVars, entryVars, attemptVars
  <2> QED
    BY <1>4, <2>1
<1>10. ASSUME Tick
       PROVE  KeptTrue'
  <2>1. \A k \in DOMAIN family : family[k] \in [limit : Nat, left : Nat]
    BY DEF Types, TypeOK
  <2>2. Same /\ DOMAIN family' = DOMAIN family /\ \A k \in DOMAIN family' : family'[k].limit = family[k].limit
    BY <1>10, <2>1 DEF Tick, markVars, attemptVars
  <2> QED
    BY <1>4, <2>2
<1> QED
  BY <1>5, <1>6, <1>7, <1>8, <1>9, <1>10 DEF Next, LauncherStep

-----------------------------------------------------------------------------
(* The lists stay current.                                                 *)

\* An answer of a step's caches: without a lapse nothing newly unavailable, nothing that had an entry
\* without one.
Answer(one, fam, one2, fam2, gap) ==
    \A s \in Scopes : \A o \in Offering :
        /\ Unavailable(one2, fam2, s, o.sku, o.zone, o.ct) => gap \/ Unavailable(one, fam, s, o.sku, o.zone, o.ct)
        /\ Known(one, fam, s, o.sku, o.zone, o.ct) => Known(one2, fam2, s, o.sku, o.zone, o.ct)

\* A step that builds nothing keeps the lists current if no answer gets worse while all is quiet.
LEMMA ListsKept ==
    ASSUME Types, ListsCurrent, Scope' = Scope, Quiet' => Quiet /\ (lapsed => lapsed'),
           Quiet' => Answer(single, family, single', family', lapsed'),
           \A s \in Scopes : listed'[s] = listed[s] \/ listed'[s] = NotCached,
           \A l \in Launchers : pc'[l] = "building" => pc[l] = "building" /\ view'[l] = view[l] /\ unread'[l] = unread[l]
    PROVE  ListsCurrent'
PROOF
<1> SUFFICES ASSUME Quiet'
             PROVE  /\ \A s \in Scopes : listed'[s] # NotCached => Current(listed'[s], s, SKUs, single', family', lapsed')
                    /\ \A l \in Launchers :
                          pc'[l] = "building" => Current(view'[l], Scope[l], SKUs \ unread'[l], single', family', lapsed')
  BY DEF ListsCurrent
<1>1. Quiet /\ (lapsed => lapsed') /\ Answer(single, family, single', family', lapsed')
  OBVIOUS
<1>2. /\ listed \in [Scopes -> (SUBSET Offering) \cup {NotCached}]
      /\ view \in [Launchers -> SUBSET Offering] /\ Scope \in [Launchers -> Scopes]
  BY ScopeIs DEF Types, TypeOK
<1>3. ASSUME NEW s \in Scopes, listed'[s] # NotCached
      PROVE  Current(listed'[s], s, SKUs, single', family', lapsed')
  <2>1. listed'[s] = listed[s] /\ listed[s] \subseteq Offering /\ Current(listed[s], s, SKUs, single, family, lapsed)
    BY <1>1, <1>2, <1>3 DEF ListsCurrent
  <2> QED
    BY <1>1, <2>1, CurrentStays DEF Answer
<1>4. ASSUME NEW l \in Launchers, pc'[l] = "building"
      PROVE  Current(view'[l], Scope[l], SKUs \ unread'[l], single', family', lapsed')
  <2>1. /\ view'[l] = view[l] /\ unread'[l] = unread[l] /\ view[l] \subseteq Offering /\ Scope[l] \in Scopes
        /\ Current(view[l], Scope[l], SKUs \ unread[l], single, family, lapsed)
    BY <1>1, <1>2, <1>4 DEF ListsCurrent
  <2> QED
    BY <1>1, <2>1, CurrentStays DEF Answer
<1> QED
  BY <1>3, <1>4

\* Unchanged caches answer the same.
LEMMA SameAnswer == ASSUME single' = single, family' = family PROVE Answer(single, family, single', family', lapsed')
PROOF BY DEF Answer

\* Time lets entries expire, and removes none.
LEMMA TickAnswer == ASSUME Types, Tick PROVE Answer(single, family, single', family', lapsed')
PROOF
<1>1. /\ \A k \in DOMAIN single : single[k] \in Nat
      /\ \A k \in DOMAIN family : family[k] \in [limit : Nat, left : Nat]
  BY DEF Types, TypeOK
<1>2. /\ DOMAIN single' = DOMAIN single /\ DOMAIN family' = DOMAIN family
      /\ \A k \in DOMAIN single : single'[k] > 0 => single[k] > 0
      /\ \A k \in DOMAIN family : family'[k].limit = family[k].limit /\ (family'[k].left > 0 => family[k].left > 0)
  BY <1>1 DEF Tick, Less
<1>3. ASSUME NEW s, NEW o
      PROVE  /\ Unavailable(single', family', s, o.sku, o.zone, o.ct) => Unavailable(single, family, s, o.sku, o.zone, o.ct)
             /\ Known(single, family, s, o.sku, o.zone, o.ct) => Known(single', family', s, o.sku, o.zone, o.ct)
  BY <1>2 DEF Unavailable, Known
<1> QED
  BY <1>3 DEF Answer

\* An entry that is set without a bump makes nothing unavailable that was not, unless what was read
\* has lapsed.
LEMMA SetSingleAnswer ==
    ASSUME Types, NEW l \in Launchers, SetSingle(l), ~bump[l]
    PROVE  Answer(single, family, single', family', lapsed')
PROOF
<1> SUFFICES ASSUME NEW s \in Scopes, NEW p \in Offering
             PROVE  /\ Unavailable(single', family', s, p.sku, p.zone, p.ct) =>
                          lapsed' \/ Unavailable(single, family, s, p.sku, p.zone, p.ct)
                    /\ Known(single, family, s, p.sku, p.zone, p.ct) => Known(single', family', s, p.sku, p.zone, p.ct)
  BY DEF Answer
<1> DEFINE o == chosen[l]
           m == current
           k == KeyOf(l, m)
<1>1. m.type \in {"spot", "skuZone", "offering"}
  BY InHand DEF SetSingle, Holding
<1>2. single' = Put(single, k, m.ttl) /\ family' = family /\ (lapsed' \/ WasUnavailable(l, m))
  BY DEF SetSingle
<1>3. Known(single, family, s, p.sku, p.zone, p.ct) => Known(single', family', s, p.sku, p.zone, p.ct)
  <2> HIDE DEF k, m
  <2> QED
    BY <1>2, KnownPutSingle
<1>4. ASSUME Unavailable(single', family', s, p.sku, p.zone, p.ct), WasUnavailable(l, m)
      PROVE  Unavailable(single, family, s, p.sku, p.zone, p.ct)
  <2>1. \/ Unavailable(single, family, s, p.sku, p.zone, p.ct)
        \/ k = SKUZoneKey(p.sku, p.zone) \/ (p.ct = Spot /\ k = SpotKey)
        \/ k = SingleInstanceKey(s, p.sku, p.zone, p.ct)
    <3> HIDE DEF k, m
    <3> QED
      BY <1>2, <1>4, KnownPutSingle
  <2>2. CASE m.type \in {"spot", "skuZone"}
    <3>1. Found(k)
      BY <1>4, <2>2 DEF WasUnavailable
    <3> HIDE DEF k, m
    <3> QED
      BY <2>1, <3>1 DEF Found, Unavailable
  <2>3. CASE m.type = "offering"
    <3>1. k = SingleInstanceKey(Scope[l], o.sku, m.zone, m.ct)
      BY <2>3 DEF KeyOf
    <3>2. Unavailable(single, family, Scope[l], o.sku, m.zone, m.ct)
      BY <1>4, <2>3, UnavailableIs DEF WasUnavailable
    <3> HIDE DEF o, m, k
    <3> QED
      BY <2>1, <3>1, <3>2, KeysDiffer
  <2> QED
    BY <1>1, <2>2, <2>3
<1> QED
  BY <1>2, <1>3, <1>4

\* Neither does the entry of the family: the limit is the one that was read.
LEMMA SetFamilyAnswer ==
    ASSUME Types, KeptTrue, NEW l \in Launchers, SetFamily(l), ~bump[l]
    PROVE  Answer(single, family, single', family', lapsed')
PROOF
<1> SUFFICES ASSUME NEW s \in Scopes, NEW p \in Offering
             PROVE  /\ Unavailable(single', family', s, p.sku, p.zone, p.ct) =>
                          lapsed' \/ Unavailable(single, family, s, p.sku, p.zone, p.ct)
                    /\ Known(single, family, s, p.sku, p.zone, p.ct) => Known(single', family', s, p.sku, p.zone, p.ct)
  BY DEF Answer
<1> DEFINE k == FamilyKeyOf(l, current)
           entry == [limit |-> IF kept = None THEN VCPU[chosen[l].sku] ELSE kept, left |-> current.ttl]
<1>1. pc[l] = "settingFamily" /\ kept # None
  BY DEF SetFamily, Types, Attempts
<1>2. /\ single' = single /\ family' = Put(family, k, entry) /\ entry.limit = kept
      /\ lapsed' \/ FamilyFound(k)
  BY <1>1 DEF SetFamily
<1>3. k \in DOMAIN family => family[k].limit = kept
  BY <1>1 DEF KeptTrue
<1> HIDE DEF k, entry
<1>4. Known(single, family, s, p.sku, p.zone, p.ct) => Known(single', family', s, p.sku, p.zone, p.ct)
  BY <1>2, <1>3, KnownPutFamily
<1>5. ASSUME Unavailable(single', family', s, p.sku, p.zone, p.ct), FamilyFound(k)
      PROVE  Unavailable(single, family, s, p.sku, p.zone, p.ct)
  <2>1. \/ Unavailable(single, family, s, p.sku, p.zone, p.ct)
        \/ (k = FamilyKey(s, p.sku, p.zone, p.ct) /\ VCPU[p.sku] >= entry.limit)
    BY <1>2, <1>5, KnownPutFamily
  <2> QED
    BY <1>2, <1>3, <1>5, <2>1 DEF FamilyFound, Unavailable
<1> QED
  BY <1>2, <1>4, <1>5

\* The offerings of one more SKU, as a build reads them.
LEMMA CurrentGrows ==
    ASSUME NEW scope \in Scopes, NEW sku \in SKUs, NEW list, NEW skus,
           Current(list, scope, skus, single, family, lapsed)
    PROVE  Current(list \cup AvailableOfferings(scope, sku), scope, skus \cup {sku}, single, family, lapsed)
PROOF
<1>1. AvailableOfferings(scope, sku) =
        {o \in Offering : /\ o.sku = sku /\ Shown(scope, o)
                          /\ ~Unavailable(single, family, scope, sku, o.zone, o.ct)}
  BY AvailableAre
<1>2. \A o : Unavailable(single, family, scope, o.sku, o.zone, o.ct) => Known(single, family, scope, o.sku, o.zone, o.ct)
  BY UnavailableIs
<1> QED
  BY <1>1, <1>2 DEF Current

\* A flush or a hit of List keeps the lists current; a miss starts an empty, current one.
LEMMA ListKeepsCurrent ==
    ASSUME Types, ListsCurrent, NEW l \in Launchers, List(l), Scope' = Scope
    PROVE  ListsCurrent'
PROOF
<1>1. LockTypes /\ ListTypes /\ FlagTypes
  BY TypesParts
<1>2. /\ pc[l] = "idle" /\ listing = Nobody /\ ~outdated'
      /\ single' = single /\ family' = family /\ mu' = mu /\ evicted' = evicted /\ bump' = bump
      /\ lapsed' = (lapsed /\ ~outdated)
      /\ listed' = IF outdated THEN [s \in Scopes |-> NotCached] ELSE listed
      /\ \/ pc' = [pc EXCEPT ![l] = "listed"]
         \/ /\ pc' = [pc EXCEPT ![l] = "building"]
            /\ view' = [view EXCEPT ![l] = {}] /\ unread' = [unread EXCEPT ![l] = SKUs]
  BY DEF List, entryVars
<1>3. \A k \in Launchers : pc[k] # "building"
  BY <1>1, <1>2, OfferingsAssumption DEF LockTypes, Nobody
<1>4. \A k \in Launchers : pc'[k] = "building" => view'[k] = {} /\ unread'[k] = SKUs
  BY <1>1, <1>2, <1>3 DEF LockTypes, ListTypes
<1>5. ASSUME Quiet', NEW s \in Scopes, listed'[s] # NotCached
      PROVE  Current(listed'[s], s, SKUs, single', family', lapsed')
  <2>1. ~outdated /\ Quiet /\ listed' = listed
    BY <1>1, <1>2, <1>5 DEF ListTypes, Quiet
  <2>2. lapsed' = lapsed
    BY <1>1, <1>2, <2>1 DEF FlagTypes
  <2> QED
    BY <1>2, <1>5, <2>1, <2>2 DEF ListsCurrent
<1>6. ASSUME NEW k \in Launchers, pc'[k] = "building"
      PROVE  Current(view'[k], Scope'[k], SKUs \ unread'[k], single', family', lapsed')
  BY <1>4, <1>6 DEF Current
<1> QED
  BY <1>5, <1>6 DEF ListsCurrent

\* A build reads one more SKU, and stores a current list after the last.
LEMMA BuildKeepsCurrent ==
    ASSUME Types, ListsCurrent, NEW l \in Launchers, NEW sku \in SKUs, Build(l, sku), Scope' = Scope
    PROVE  ListsCurrent'
PROOF
<1>1. /\ pc[l] = "building" /\ sku \in unread[l]
      /\ single' = single /\ family' = family /\ lapsed' = lapsed /\ (Quiet' => Quiet)
      /\ unread' = [unread EXCEPT ![l] = @ \ {sku}]
      /\ view' = [view EXCEPT ![l] = @ \cup AvailableOfferings(Scope[l], sku)]
      /\ \/ /\ unread[l] = {sku} /\ listed' = [listed EXCEPT ![Scope[l]] = view'[l]]
            /\ pc' = [pc EXCEPT ![l] = "listed"]
         \/ listed' = listed /\ pc' = pc
  BY DEF Build, offeringVars, entryVars, markVars, listVars, Quiet
<1>2. LockTypes /\ ListTypes /\ Scope[l] \in Scopes
  BY TypesParts, ScopeIs
<1> SUFFICES ASSUME Quiet'
             PROVE  /\ \A s \in Scopes : listed'[s] # NotCached => Current(listed'[s], s, SKUs, single, family, lapsed)
                    /\ \A k \in Launchers :
                          pc'[k] = "building" => Current(view'[k], Scope[k], SKUs \ unread'[k], single, family, lapsed)
  BY <1>1 DEF ListsCurrent
<1>3. /\ \A s \in Scopes : listed[s] # NotCached => Current(listed[s], s, SKUs, single, family, lapsed)
      /\ \A k \in Launchers :
            pc[k] = "building" => Current(view[k], Scope[k], SKUs \ unread[k], single, family, lapsed)
  BY <1>1 DEF ListsCurrent
<1>4. Current(view'[l], Scope[l], SKUs \ unread'[l], single, family, lapsed)
  <2>1. Current(view[l] \cup AvailableOfferings(Scope[l], sku), Scope[l], (SKUs \ unread[l]) \cup {sku}, single, family, lapsed)
    BY <1>1, <1>2, <1>3, CurrentGrows
  <2>2. (SKUs \ unread[l]) \cup {sku} = SKUs \ unread'[l]
    BY <1>1, <1>2 DEF ListTypes
  <2>3. view'[l] = view[l] \cup AvailableOfferings(Scope[l], sku)
    BY <1>1, <1>2 DEF ListTypes
  <2> QED
    BY <2>1, <2>2, <2>3
<1>5. unread[l] = {sku} => SKUs \ unread'[l] = SKUs
  BY <1>1, <1>2 DEF ListTypes
<1>6. ASSUME NEW s \in Scopes, listed'[s] # NotCached
      PROVE  Current(listed'[s], s, SKUs, single, family, lapsed)
  <2>1. CASE unread[l] = {sku} /\ listed' = [listed EXCEPT ![Scope[l]] = view'[l]] /\ s = Scope[l]
    <3>1. listed'[s] = view'[l]
      BY <1>2, <2>1 DEF ListTypes
    <3> QED
      BY <1>4, <1>5, <2>1, <3>1
  <2>2. CASE listed'[s] = listed[s]
    BY <1>3, <1>6, <2>2
  <2> QED
    BY <1>1, <1>2, <2>1, <2>2 DEF ListTypes
<1>7. ASSUME NEW k \in Launchers, pc'[k] = "building"
      PROVE  Current(view'[k], Scope[k], SKUs \ unread'[k], single, family, lapsed)
  <2>1. CASE k = l
    BY <1>4, <2>1
  <2>2. CASE k # l
    BY <1>1, <1>2, <1>3, <1>7, <2>2 DEF ListTypes, LockTypes
  <2> QED
    BY <2>1, <2>2
<1> QED
  BY <1>6, <1>7

\* Every step keeps the lists current.
LEMMA ListsStayCurrent ==
    ASSUME Types, KeptTrue, ListsCurrent, Next
    PROVE  ListsCurrent'
PROOF
<1>1. Scope' = Scope
  BY ScenarioStays
<1>2. LockTypes /\ ListTypes /\ FlagTypes
  BY TypesParts
<1> DEFINE Lists == /\ \A s \in Scopes : listed'[s] = listed[s] \/ listed'[s] = NotCached
                    /\ \A l \in Launchers : pc'[l] = "building" =>
                          pc[l] = "building" /\ view'[l] = view[l] /\ unread'[l] = unread[l]
<1>3. ASSUME Lists, Quiet' => Quiet, single' = single, family' = family, lapsed' = lapsed
      PROVE  ListsCurrent'
  BY <1>1, <1>3, SameAnswer, ListsKept
<1>4. ASSUME ~Quiet' PROVE ListsCurrent'
  BY <1>4 DEF ListsCurrent
<1>5. ASSUME NEW s \in Scopes, DropList(s)
      PROVE  ListsCurrent'
  <2>1. Lists
    BY <1>2, <1>5 DEF DropList, ListTypes, attemptVars
  <2> QED
    BY <1>3, <1>5, <2>1 DEF DropList, offeringVars, entryVars, markVars, Quiet
<1>6. ASSUME NEW l \in Launchers, Allocate(l) \/ LaunchSucceeds(l) \/ LaunchFailsUnmatched(l) \/ NextClaim(l)
      PROVE  ListsCurrent'
  <2>1. Lists
    BY <1>2, <1>6 DEF Allocate, LaunchSucceeds, LaunchFailsUnmatched, NextClaim, ListTypes, LockTypes,
                      listVars, attemptVars
  <2>2. (Quiet' => Quiet) /\ single' = single /\ family' = family /\ lapsed' = lapsed
    BY <1>6 DEF Allocate, LaunchSucceeds, LaunchFailsUnmatched, NextClaim, offeringVars, entryVars, markVars, Quiet
  <2> QED
    BY <1>3, <2>1, <2>2
<1>7. ASSUME NEW l \in Launchers, NEW kind \in Kinds, LaunchFails(l, kind)
      PROVE  ListsCurrent'
  <2>1. Lists
    BY <1>2, <1>7 DEF LaunchFails, ListTypes, LockTypes, listVars
  <2>2. (Quiet' => Quiet) /\ single' = single /\ family' = family /\ lapsed' = lapsed
    BY <1>7 DEF LaunchFails, offeringVars, entryVars, markVars, Quiet
  <2> QED
    BY <1>3, <2>1, <2>2
<1>8. ASSUME NEW l \in Launchers, BumpSeqNum(l)
      PROVE  ListsCurrent'
  <2>1. Lists
    BY <1>2, <1>8 DEF BumpSeqNum, ListTypes, LockTypes, listVars
  <2>2. (Quiet' => Quiet) /\ single' = single /\ family' = family /\ lapsed' = lapsed
    BY <1>2, <1>8 DEF BumpSeqNum, LockTypes, Holding, Quiet, entryVars
  <2> QED
    BY <1>3, <2>1, <2>2
<1>9. ASSUME NEW l \in Launchers, NEW m \in marks[l], ReadMark(l, m)
      PROVE  ListsCurrent'
  <2>1. Lists
    BY <1>2, <1>9 DEF ReadMark, ListTypes, LockTypes, listVars, attemptVars
  <2>2. (Quiet' => Quiet) /\ single' = single /\ family' = family /\ lapsed' = lapsed
    BY <1>9 DEF ReadMark, Quiet, entryVars
  <2> QED
    BY <1>3, <2>1, <2>2
<1>10. ASSUME NEW l \in Launchers, ReadFamily(l)
       PROVE  ListsCurrent'
  <2>1. Lists
    BY <1>2, <1>10 DEF ReadFamily, ListTypes, LockTypes, listVars, attemptVars
  <2>2. mu = l /\ mu # Nobody
    BY <1>10, InHand DEF ReadFamily, Holding
  <2>3. (Quiet' => Quiet) /\ single' = single /\ family' = family /\ lapsed' = lapsed
    BY <1>2, <1>10, <2>2 DEF ReadFamily, BumpAfterFamily, Quiet, FlagTypes, entryVars
  <2> QED
    BY <1>3, <2>1, <2>3
<1>11. ASSUME NEW l \in Launchers, SetSingle(l) \/ SetFamily(l)
       PROVE  ListsCurrent'
  <2>1. Lists
    BY <1>2, <1>11 DEF SetSingle, SetFamily, ListTypes, LockTypes, listVars, attemptVars
  <2>2. mu = l /\ mu # Nobody
    BY <1>11, InHand DEF SetSingle, SetFamily, Holding
  <2>3. mu' = mu /\ bump' = bump /\ outdated' = outdated /\ evicted' = evicted
    BY <1>11 DEF SetSingle, SetFamily
  <2>4. Quiet' => Quiet /\ ~bump[l]
    BY <2>2, <2>3 DEF Quiet
  <2>5. lapsed => lapsed'
    BY <1>11, Zenon DEF SetSingle, SetFamily
  <2>6. Quiet' => Answer(single, family, single', family', lapsed')
    BY <1>11, <2>4, SetSingleAnswer, SetFamilyAnswer
  <2> QED
    BY <1>1, <2>1, <2>4, <2>5, <2>6, ListsKept
<1>12. ASSUME Tick
       PROVE  ListsCurrent'
  <2>1. Lists /\ (Quiet' => Quiet) /\ lapsed' = lapsed
    BY <1>12 DEF Tick, listVars, attemptVars, markVars, Quiet
  <2> QED
    BY <1>1, <1>12, <2>1, TickAnswer, ListsKept
<1>13. ASSUME (\E g \in Groups : InvalidateGroup(g)) \/ DeleteExpired \/ OnEvicted
       PROVE  ListsCurrent'
  BY <1>4, <1>13 DEF InvalidateGroup, DeleteExpired, OnEvicted, Quiet
<1> QED
  BY <1>1, <1>5, <1>6, <1>7, <1>8, <1>9, <1>10, <1>11, <1>12, <1>13, ListKeepsCurrent, BuildKeepsCurrent
  DEF Next, LauncherStep

-----------------------------------------------------------------------------
(* The theorems.                                                           *)

\* Every step keeps the types.
LEMMA TypesStay == ASSUME Types, Next PROVE Types'
PROOF BY ListKeepsTypes, BuildKeepsTypes, DropListKeepsTypes, AllocateKeepsTypes, LaunchSucceedsKeepsTypes,
        LaunchFailsKeepsTypes, LaunchFailsUnmatchedKeepsTypes, NextClaimKeepsTypes, ReadMarkKeepsTypes,
        SetSingleKeepsTypes, ReadFamilyKeepsTypes, SetFamilyKeepsTypes, BumpSeqNumKeepsTypes, InvalidateGroupKeepsTypes, TickKeepsTypes, DeleteExpiredKeepsTypes,
        OnEvictedKeepsTypes
      DEF Next, LauncherStep

\* A stuttering step preserves the inductive invariant.
LEMMA StutterKeeps == ASSUME IInv, UNCHANGED vars PROVE IInv'
PROOF
<1>1. Types'
  BY StutterKeepsTypes DEF IInv
<1>2. /\ single' = single /\ family' = family /\ mu' = mu /\ evicted' = evicted /\ outdated' = outdated
      /\ listed' = listed /\ pc' = pc /\ view' = view /\ unread' = unread /\ chosen' = chosen
      /\ marks' = marks /\ bump' = bump /\ scenario' = scenario
      /\ current' = current /\ kept' = kept /\ lapsed' = lapsed
  BY DEF vars, offeringVars, entryVars, markVars, listVars, attemptVars, envVars
<1>3. MarksTrue' /\ EntriesTrue' /\ KeptTrue'
  BY <1>2 DEF IInv, MarksTrue, MarkTrue, EntriesTrue, KeptTrue, FamilyKeyOf, Scope
<1>4. ListsCurrent'
  BY <1>2 DEF IInv, ListsCurrent, Quiet, Scope
<1> QED
  BY <1>1, <1>3, <1>4 DEF IInv

\* The inductive invariant holds in every reachable state.
THEOREM InvariantHolds == Spec => []IInv
PROOF
<1>1. Init => IInv
  BY InitInvariant
<1>2. IInv /\ [Next]_vars => IInv'
  <2>1. IInv /\ Next => IInv'
    BY TypesStay, MarksStayTrue, EntriesStayTrue, KeptStaysTrue, ListsStayCurrent DEF IInv
  <2> QED
    BY <2>1, StutterKeeps
<1> QED
  BY <1>1, <1>2, PTL DEF Spec

\* Every variable has its type, and a launcher is in a critical section (a mark of
\* UnavailableOfferings, List of the instance types) exactly if it holds the mutex.
THEOREM TypeCorrect == Spec => []TypeOK
PROOF
<1>1. IInv => TypeOK
  BY DEF IInv, Types
<1> QED
  BY <1>1, InvariantHolds, PTL

\* Whatever launchers, scopes and errors there are: an offering that Azure can serve is never shown
\* unavailable, however the handlers' marks interleave, expire and are evicted.
THEOREM UsableCapacityCorrect == Spec => []UsableCapacityStaysOffered
PROOF
<1>1. IInv => UsableCapacityStaysOffered
  BY UnavailableIs DEF IInv, EntriesTrue, UsableCapacityStaysOffered
<1> QED
  BY <1>1, InvariantHolds, PTL

\* Once no mark is half done and nothing expired waits for the janitor, a cached list of the current
\* generation withholds nothing that a new build would show; and it shows nothing that a new build
\* would withhold, unless since the last flush a mark set an entry it had read as alive and that had
\* expired in between.
THEOREM ListCorrect == Spec => []CachedListIsCurrent
PROOF
<1>1. ASSUME IInv PROVE CachedListIsCurrent
  <2> SUFFICES ASSUME NEW s \in Scopes, Settled, ~outdated, listed[s] # NotCached
               PROVE  FreshList(s) \subseteq listed[s] /\ (~lapsed => listed[s] \subseteq FreshList(s))
    BY DEF CachedListIsCurrent
  <2>1. Current(listed[s], s, SKUs, single, family, lapsed) /\ listed[s] \subseteq Offering
    BY <1>1 DEF IInv, ListsCurrent, Quiet, Settled, Types, TypeOK
  <2>2. \A o : Known(single, family, s, o.sku, o.zone, o.ct) <=> Unavailable(single, family, s, o.sku, o.zone, o.ct)
    BY DEF Settled, Known, Unavailable
  <2>3. \A o \in Offering : o.sku \in SKUs
    BY DEF Offering
  <2>4. FreshList(s) = {o \in Offering : Shown(s, o) /\ ~Unavailable(single, family, s, o.sku, o.zone, o.ct)}
    BY FreshListIs
  <2> QED
    BY <2>1, <2>2, <2>3, <2>4 DEF Current
<1> QED
  BY <1>1, InvariantHolds, PTL
=============================================================================
