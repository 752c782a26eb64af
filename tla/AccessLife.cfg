\* An administrator of the system tenant and one of a customer, one key, two tokens at once.
SPECIFICATION AccessSpec
CONSTANTS
    Permissions <- AllPermissions
    NoUser = NoUser
    Features = {"feature:audit"}
    Labels = {"role:admin", "scope:importer"}
    Always = Always
    Roles = {"role:admin"}
    Scopes = {"scope:importer"}
    Tenants = {"sys", "acme"}
    System = "sys"
    Users = {"root", "ann"}
    HomeOf <- MCHomeOf
    Keys = {"k1"}
    Documents <- MCDocuments
    FirstRoles <- MCFirst
    AccessTtl = 1
    KeyTtls = {2}
    Scenes <- MCScenes
    MaxDelay = 1
    MaxTokens = 2
    MaxNow = 2
INVARIANTS
    Confined
    RightsLapse
CHECK_DEADLOCK FALSE
