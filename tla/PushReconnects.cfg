SPECIFICATION FairSpec
CONSTANTS
    Connection = {c1, c2}
    NoConnection = NoConnection
    Token = {t1, t2}
    AttemptCap = 2
    MaxEvents = 2
    MaxFailures = 2
    MaxRestarts = 1
INVARIANTS
    TypeOK
    OneConnection
    DisposedIsQuiet
    EventsInOrder
PROPERTIES
    Reattaches
CHECK_DEADLOCK FALSE
