\* Two recipients and a user, links, rewrites, bounces, removals, firings and batches, on both backends.
SPECIFICATION Spec
CONSTANTS
    Types = {"t1"}
    Cadences = {"weekly"}
    Features = {"feature"}
    Roles = {"role:editor"}
    Tenants = {"sys", "a"}
    System = "sys"
    Marker = "is:system"
    Unset = "unset"
    Granted <- MCGranted
    Addresses = {"box"}
    Ids = {n1, n2}
    Secrets = {s1, s2}
    Tasks = {k1, k2}
    Drafts <- MCDrafts
    Workloads <- Loads
    Users = {"u1"}
    TenantOf <- MCTenantOf
    RolesOf <- MCRolesOf
    Messages <- MCMessages
    Calls = {c1}
    NoId = NoId
    NoSecret = NoSecret
    NoTenant = NoTenant
    NoAddress = NoAddress
SYMMETRY Interchangeable
INVARIANTS
    NoMailUnconfirmed
    NamedByChoice
    EveryChoiceIsServed
    PostgresKeepsItsRows
CHECK_DEADLOCK FALSE
