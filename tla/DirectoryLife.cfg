SPECIFICATION Spec
CONSTANTS
    System = sys
    Tenants = {sys, a}
    Users = {u1, u2}
    Names = {n1, n2}
    Keys = {k1}
    Tasks = {t1, t2}
    Codes = {c1}
    Identities = {i1}
    Dependents = {"sessions"}
    Workloads <- Loads
    MaxVersion = 2
    MaxBorn = 2
    NoUser = NoUser
    NoName = NoName
    NoTenant = NoTenant
    NoKey = NoKey
    NoCode = NoCode
    NoIdentity = NoIdentity
SYMMETRY Interchangeable
INVARIANTS
    NamesAgree
    NothingOutlivesItsOwner
    LinksLeaveWithTheirUser
PROPERTIES
    NothingReturns
    EditsAreKept
    DeletedWhenEmpty
CHECK_DEADLOCK FALSE
