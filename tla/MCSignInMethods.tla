--------------------------- MODULE MCSignInMethods ---------------------------
(* SignInMethods for TLC: sets of model values, and their symmetry. *)
EXTENDS SignInMethods, TLC

Symmetry ==
    Permutations(Users) \cup Permutations(Passkeys) \cup Permutations(Codes)
        \cup Permutations(Links) \cup Permutations(Requests)
=============================================================================
