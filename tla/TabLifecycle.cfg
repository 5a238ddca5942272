SPECIFICATION Spec
CONSTANTS
    Session = {s1, s2}
    Database = {d1, d2}
    Op = {o1, o2}
    None = None
SYMMETRY Symmetry
VIEW View
INVARIANTS
    TypeOK
    ResultsAreOfConnection
    BusyEnds
    AttachmentIsHeld
PROPERTIES
    DiscardIsAsked
