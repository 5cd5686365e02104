------------------------------ MODULE MCQuota ------------------------------
(* Instances of Quota for TLC: two claims of one family, which Azure maps to *)
(* its own quota or to the general purpose category.                         *)
EXTENDS Quota, FiniteSetsExt

CONSTANTS c1, c2, small, large, family, category, none

MCSku        == [c \in Claims |-> IF c = c1 THEN small ELSE large]
MCFamilyName == [s \in Skus |-> family]
MCVCPU       == [s \in Skus |-> IF s = small THEN 1 ELSE 2]
MCLimit      == [q \in QuotaNames |-> 3]
ByFamily     == [names |-> {family}, category |-> [f \in QuotaNames |-> none]]
ByCategory   == [names |-> {family, category},
                 category |-> [f \in QuotaNames |-> IF f = family THEN category ELSE none]]
BothViews    == {ByFamily, ByCategory}
CategoryView == {ByCategory}
FamilyView   == {ByFamily}

\* The state without the overlay, and without the history only DuplicatesSuppressed reads: no action
\* of anyone else depends on them.
WithoutOverlay ==
    <<providerVars, refreshVars, lastSuccessfulUpdate, create, generation, status, incarnation,
      outstanding, reissued, azureVars, now>>

\* Counting unit by unit is adding up.
ASSUME TotalIsSum ==
    \A n \in [Claims -> -2..3], S \in SUBSET Claims :
        MapThenSumSet(LAMBDA c : n[c], S) = Total(n, S) - Total([c \in Claims |-> -n[c]], S)
============================================================================
