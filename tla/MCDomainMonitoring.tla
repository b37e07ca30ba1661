------------------------ MODULE MCDomainMonitoring -------------------------
(* Small instances of DomainMonitoring for TLC. *)
EXTENDS DomainMonitoring, TLC

CONSTANTS d1, d2, s1, s2, r1, r2, a1

FreeAndWeekly == d1 :> "none" @@ d2 :> "weekly"
AllWeekly == [d \in Domains |-> "weekly"]

\* Sweeps are interchangeable, and so are rescans.
Symmetry == Permutations(Sweeps) \cup Permutations(Rescans)
=============================================================================
