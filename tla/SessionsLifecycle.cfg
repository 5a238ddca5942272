SPECIFICATION FairSpec
CONSTANTS
    Session = {s1, s2}
    Request = {r1, r2}
    Sweep = {w1, w2}
    NoSession = NoSession
    IdleLimit = 1
INVARIANTS
    TypeOK
    NoOrphanAttachment
    AcknowledgedCloseIsFinal
    NoSilentExpiry
PROPERTIES
    ExpiryIsAnnounced
    UnusedSessionIsReleased
