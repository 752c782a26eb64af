\* One browser that sends one request at a time and receives every answer.
SPECIFICATION FairSpec
CONSTANTS
    SessionIds = {s1, s2}
    Users = {u1}
    Tenants = {"home"}
    Home <- MCHome
    Jars = {j1}
    Requests = {r1}
    Apis = {"console"}
    Eligible = {"console"}
    Backend = "dynamodb"
    Sent = {"login", "refresh", "logout"}
    AnswersGetLost = FALSE
    Grace = 1
    RefreshTtl = 2
    MaxTime = 3
    MaxSecret = 4
    MaxVersion = 1
    NoSession = NoSession
INVARIANTS
    NoFalseReuse
    CookieInSync
PROPERTIES
    EveryRequestEnds
CHECK_DEADLOCK FALSE
