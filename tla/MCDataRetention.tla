---------------------------- MODULE MCDataRetention ----------------------------
(* DataRetention for TLC: one category of each kind, in the code's order, and two *)
(* plans for the scans of domains.                                                *)
EXTENDS DataRetention, TLC

MCCategories == <<"domain_scans", "deleted_accounts", "expired_entitlements",
                  "orphaned_agency_logos">>
MCKind == ("domain_scans" :> "chunks" @@ "deleted_accounts" :> "accounts" @@
           "expired_entitlements" :> "rows" @@ "orphaned_agency_logos" :> "logos")
MCPlans == [c \in CategorySet |-> IF c = "domain_scans" THEN 2 ELSE 1]
MCPlanBound == {"domain_scans"}
MCReverting == {"expired_entitlements"}
MCOwned == {"domain_scans", "expired_entitlements"}
MCWithdrawable == {"expired_entitlements"}
=============================================================================
