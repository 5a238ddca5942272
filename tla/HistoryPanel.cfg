SPECIFICATION Spec
CONSTANTS
    Profile = {p1, p2}
    NoProfile = NoProfile
    Request = {q1, q2}
    Limit = 1
    ListLimit = 2
    MaxRecords = 2
SYMMETRY Symmetry
INVARIANTS
    TypeOK
    RetentionHolds
    NewestAreKept
    PanelAgrees
