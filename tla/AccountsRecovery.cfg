\* Two accounts that may share two mailboxes, two links: proving, choosing, withdrawing and removing addresses beside recoveries.
SPECIFICATION RSpec
CONSTANTS
    Users = {u1, u2}
    Addresses = {a1, a2}
    Passwords = {p1}
    Tasks = {t1, t2}
    Links = {l1, l2}
    Sent = {"add", "verify", "finish", "forgot", "reset", "remove", "prefer", "bounce"}
    MaxVersion = 1
    NoUser = NoUser
    NoAddress = NoAddress
    NoPassword = NoPassword
    NoLink = NoLink
SYMMETRY MCSymmetry
INVARIANTS
    VerifiedByItsOwner
    PreferredWasProven
    LinkAuthorisesOneUse
    ResetGoesToProvenAddress
CHECK_DEADLOCK FALSE
