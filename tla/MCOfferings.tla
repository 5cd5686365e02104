---------------------------- MODULE MCOfferings ----------------------------
(* An instance of Offerings for TLC: two sizes of one family, one zone and *)
(* the regional placement, one reservation group with a member per size.   *)
EXTENDS Offerings

CONSTANTS l1, l2, small, large, d, z1, crg

Both == [l \in Launchers |-> Unreserved]
Reserved == [l \in Launchers |-> crg]
OneReserved == [l \in Launchers |-> IF l = l1 THEN Unreserved ELSE crg]
MCFamily == [s \in SKUs |-> d]
MCVCPU == [s \in SKUs |-> IF s = small THEN 2 ELSE 4]
MCName == [s \in SKUs |-> IF s = small THEN 2 ELSE 1]
\* Preferred first: large on spot, small on demand, large on demand.
MCPrice == [s \in SKUs |-> [ct \in CapacityTypes |->
               IF ct = Spot THEN 1 ELSE IF s = small THEN 2 ELSE 3]]
MCZonesOf == [s \in SKUs |-> IF s = small THEN {z1} ELSE {z1, Regional}]
MCMembers == [g \in Groups |-> {<<small, z1>>, <<large, z1>>}]
FailoverTTL == [k \in Kinds |-> 4]
MarkTTL == [k \in Kinds |-> IF k \in {"SKUFamilyQuota", "RegionalQuota", "InvalidAvailabilityZone"} THEN 1 ELSE 2]
OnDemandIn(sku, zone) == [sku |-> sku, zone |-> zone, ct |-> OnDemand]
OnlyLarge == {<<Unreserved, OnDemandIn(large, Regional)>>, <<crg, OnDemandIn(large, z1)>>}
OnlySmall == {<<Unreserved, OnDemandIn(small, z1)>>, <<crg, OnDemandIn(small, z1)>>}
OnlyReserved == {<<crg, OnDemandIn(large, z1)>>}
Scenario(scope, serves, errors) == [scope |-> scope, serves |-> serves, errors |-> errors]
MarkScenarios ==
    {Scenario(OneReserved, OnlyLarge, {"ZonalAllocationFailure", "SKUNotAvailable"}),
     Scenario(OneReserved, OnlySmall, {"SKUFamilyQuota", "AllocationFailure", "LowPriorityQuota"}),
     Scenario(OneReserved, OnlyReserved, {"SKUFamilyQuotaZero", "RegionalQuota"}),
     Scenario(Both, OnlyLarge, {"SKUNotAvailable", "InvalidAvailabilityZone", "OverconstrainedZonalAllocationFailure"}),
     Scenario(OneReserved, OnlySmall, {"VMSizeNotSupported"})}
FailoverScenarios ==
    {Scenario(Both, OnlyLarge, {"ZonalAllocationFailure", "SKUNotAvailable"}),
     Scenario(Both, OnlySmall, {"SKUFamilyQuota", "OverconstrainedAllocationFailure"}),
     Scenario(Both, OnlySmall, {"LowPriorityQuota", "SKUNotAvailable"}),
     Scenario(Reserved, OnlyLarge, {"RegionalQuota", "SKUNotAvailableOnDemand"})}
============================================================================
