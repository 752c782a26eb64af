\* One account under every handler: whole-row writes, locking, deletion and recovery in any two interleaved.
SPECIFICATION RSpec
CONSTANTS
    Users = {u1}
    Addresses = {a1, a2}
    Passwords = {p1}
    Tasks = {t1, t2}
    Links = {l1, l2}
    Sent = {"add", "verify", "finish", "forgot", "reset", "remove", "prefer", "bounce",
            "profile", "lock", "adminReset", "change", "logoutAll", "delete"}
    MaxVersion = 1
    NoUser = NoUser
    NoAddress = NoAddress
    NoPassword = NoPassword
    NoLink = NoLink
SYMMETRY MCSymmetry
INVARIANTS
    ResetGoesToProvenAddress
CHECK_DEADLOCK FALSE
