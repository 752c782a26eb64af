SPECIFICATION MessagingSpec
CONSTANTS
    Users = {u1, u2}
    Codes = {c1, c2}
    Identities = {i1, i2}
    Tasks = {t1, t2}
    NoUser = NoUser
    NoCode = NoCode
    NoIdentity = NoIdentity
SYMMETRY Interchangeable
INVARIANTS
    CodeLinksOnce
    DisplacedIsToldOnce
CHECK_DEADLOCK FALSE
