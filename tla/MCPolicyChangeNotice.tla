------------------------ MODULE MCPolicyChangeNotice -------------------------
(* Small instances of PolicyChangeNotice for TLC. *)
EXTENDS PolicyChangeNotice, TLC

CONSTANTS open, closed, j1, j2

\* Closing the site to crawlers is worth a notice, opening it again is not.
Closing == {<<open, closed>>}

\* Overlapping reconciliations are interchangeable.
Symmetry == Permutations({j1, j2})
=============================================================================
