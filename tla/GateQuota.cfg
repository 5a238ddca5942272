SPECIFICATION GateFairSpec
CONSTANTS
    alice = alice
    bob = bob
    ip = ip
    t1 = t1
    t2 = t2
    t3 = t3
    Absent = Absent
    own = own
    other = other
    Actor = {alice, bob}
    Addr = {ip}
    Key <- MCKey
    Host = {own, other}
    AllowedHost = {own}
    Token = {t1, t2, t3}
    tokens <- MCTokens
    Second = 2
    Max = 2
    WindowMs = 3
    MaxTime = 6
    MaxRequests = 4
INVARIANTS
    GateTypeOK
    RetryAfterIsEnough
PROPERTIES
    KeepsQuota
    OwnBudgetOnly
    MapDrains
CHECK_DEADLOCK FALSE
