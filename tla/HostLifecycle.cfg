SPECIFICATION Spec
CONSTANTS
    Request = {r1, r2}
    Session = {s1, s2}
    NoSession = NoSession
    Entry = {e1, e2, e3}
    NoEntry = NoEntry
SYMMETRY Symmetry
INVARIANTS
    TypeOK
    RegistriesAgree
    NothingLeftInSlot
    NoForeignSessionInTurn
