SPECIFICATION Spec
CONSTANTS
    Session = {s1}
    Request = {r1}
    Sweep = {w1}
    NoSession = NoSession
    IdleLimit = 2
SYMMETRY Symmetry
PROPERTIES
    KeptAliveWhileUsed
