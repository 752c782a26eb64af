\* Two browsers that may hold one cookie, two requests in flight, an API the user is not eligible for, answers that get lost: who keeps the session, against PostgreSQL.
SPECIFICATION Spec
CONSTANTS
    SessionIds = {s1}
    Users = {u1}
    Tenants = {"home"}
    Home <- MCHome
    Jars = {j1, j2}
    Requests = {r1, r2}
    Apis = {"console", "other"}
    Eligible = {"console"}
    Backend = "postgres"
    Sent = {"login", "refresh", "switch"}
    AnswersGetLost = TRUE
    Grace = 1
    RefreshTtl = 2
    MaxTime = 2
    MaxSecret = 3
    MaxVersion = 0
    NoSession = NoSession
SYMMETRY MCSymmetry
PROPERTIES
    ReuseRevokes
    ImplementsLifecycle
CHECK_DEADLOCK FALSE
