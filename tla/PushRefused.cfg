SPECIFICATION Spec
CONSTANTS
    Connection = {c1, c2}
    NoConnection = NoConnection
    Token = {t1, t2}
    AttemptCap = 2
    MaxEvents = 0
    MaxFailures = 0
    MaxRestarts = 1
SYMMETRY Symmetry
PROPERTIES
    RefusedTokenIsNotRetried
CHECK_DEADLOCK FALSE
