SPECIFICATION Spec
CONSTANTS
    Permission = {p1, p2}
    Request = {r1, r2}
    Boot = Boot
SYMMETRY Symmetry
INVARIANTS
    TypeOK
    WithinAuthorityInTurn
    ReplayedInSync
    CleanReinstall
