---------------------------- MODULE MCSavedDomains ----------------------------
(* SavedDomains for TLC: two accounts, of which the second may save one       *)
(* domain, may not import and has no monitoring.                              *)
EXTENDS SavedDomains, TLC

CONSTANTS u1, u2, o1, o2

MCLimit == (u1 :> 2 @@ u2 :> 1)
MCBatch == (u1 :> 2 @@ u2 :> 0)
MCFrequency == (u1 :> "weekly" @@ u2 :> "none")

Symmetry == Permutations(Requests) \cup Permutations(Continuations)
=============================================================================
