\* One account with two passkeys, a Google identity and two codes in sets of one;
\* two overlapping requests of any kind.
CONSTANTS
    Users = {u1}
    Passkeys = {k1, k2}
    Subjects = {s1}
    Links = {l1}
    Codes = {c1, c2}
    None = None
    Requests = {r1, r2}
    CodeCount = 1
SPECIFICATION Spec
SYMMETRY Symmetry
INVARIANTS
    OnlyOverlapsLockOut
    CodesAreSpentOnce
    SuspensionEndsSessions
