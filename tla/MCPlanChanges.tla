---------------------------- MODULE MCPlanChanges ----------------------------
(* PlanChanges for TLC: three prices, and the symmetry of the requests. *)
EXTENDS PlanChanges, TLC

SoloMonthly == [planId |-> "solo", interval |-> "month"]
SoloYearly == [planId |-> "solo", interval |-> "year"]
ProMonthly == [planId |-> "pro", interval |-> "month"]

MCPrices == {SoloMonthly, SoloYearly, ProMonthly}
MCFirstPrice == SoloYearly
MCGrantedPlan == "agency"

\* The markers of a scheduled change and the third change at Paddle after the
\* purchase, which they need, only where nothing is granted: no step that writes
\* or reads the markers looks at a grant, or the other way round.
GrantsOrMarkers ==
    \/ \A g \in Grants : grant[g] = "none"
    \/ paddle.version <= 3 /\ row.scheduled = None

Symmetry == Permutations(Requests)
=============================================================================
