\* Two instances, two requests at once, on both backends; one part of the deployment at a time.
SPECIFICATION Spec
CONSTANTS
    Parts = {"limiter", "factors", "configuration", "audit", "grants"}
    Nodes = {n1, n2}
    Handlers = {h1, h2}
    Readers = {r1}
    Nobody = Nobody
    Users = {u1, u2}
    NoUser = NoUser
    Grace = 2
    MaxSeconds = 4
    MaxDelay = 1
    MaxWins = 1
    MaxCount = 3
    MaxGuesses = 9
    Settings <- MCSettings
    Secrets = {s1, s2}
    Credentials = {c1, c2}
    Ceremonies = {k1, k2}
    NoSecret = NoSecret
    NoCredential = NoCredential
    NoCeremony = NoCeremony
    Errands <- MCErrands
    Stores = {"s3", "postgres"}
    Mishaps <- MCMishaps
    Ttl = 2
    MaxGeneration = 2
    Ids = {1, 2, 3}
    Origins <- MCOrigins
    Limits = {5}
    MaxListResults = 2
    Retention = 1
    MaxClock = 1
    Features = {"feature:base", "feature:more"}
    Labels = {"role:op"}
    Tenants = {"sys", "acme"}
    System = "sys"
    Staff = {"root", "user"}
    HomeOf <- MCHomeOf
    Documents <- MCDocuments
    Loads <- MCLoads
    MaxVersion = 3
    Always = Always
SYMMETRY Interchangeable
INVARIANTS
    ThrottlingIsJust
    FactorsAreTheHolders
    NoEditIsLost
    StaleIsBounded
    WalksAreComplete
    FeaturesHold
    SwitchLastsAsLongAsAllowed
CHECK_DEADLOCK FALSE
