\* One user, one session, two requests in flight, home and a foreign tenant, answers that get lost: refreshes beside switching, revocation and every change of the account, against DynamoDB.
SPECIFICATION WSpec
CONSTANTS
    SessionIds = {s1}
    Users = {u1}
    Tenants = {"home", "away"}
    Home <- MCHome
    Jars = {j1}
    Requests = {r1, r2}
    Apis = {"console"}
    Eligible = {"console"}
    Backend = "dynamodb"
    Sent = {"login", "refresh", "logout", "switch"}
    AnswersGetLost = TRUE
    Grace = 1
    RefreshTtl = 2
    MaxTime = 2
    MaxSecret = 2
    MaxVersion = 1
    NoSession = NoSession
SYMMETRY MCSymmetry
INVARIANTS
    GrantHonoured
    GrantUnlocked
    ForeignGrantEntitled
CHECK_DEADLOCK FALSE
