\* Passwords set and sessions ended beside an ordinary edit of the same row.
SPECIFICATION SSpec
CONSTANTS
    Users = {u1}
    Addresses = {a1}
    Passwords = {p1, p2}
    Tasks = {t1, t2}
    Links = {l1}
    Sent = {"profile", "adminReset", "change", "logoutAll"}
    MaxVersion = 2
    NoUser = NoUser
    NoAddress = NoAddress
    NoPassword = NoPassword
    NoLink = NoLink
INVARIANTS
    RevocationEndsSessions
CHECK_DEADLOCK FALSE
