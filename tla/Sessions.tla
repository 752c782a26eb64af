------------------------------ MODULE Sessions ------------------------------
(***************************************************************************)
(* Server-side login sessions behind the refresh cookie: login, refresh    *)
(* with rotation, grace window and reuse detection, logout, single-session *)
(* revocation and tenant switching.                                        *)
(*                                                                         *)
(* Every handler is an async task that talks to the store one row at a     *)
(* time, so every store call is an action of its own and anything may      *)
(* happen between two of them.  A secret is named by its generation within *)
(* its session: generate_refresh_secret never repeats one, so the n-th     *)
(* secret a session was given is the number n, and 0 stands for "no        *)
(* previous secret".                                                       *)
(***************************************************************************)
EXTENDS Naturals, FiniteSets

CONSTANTS
    SessionIds,     \* ids generate_id can draw; each is drawn at most once
    Users,
    Tenants,
    Home,           \* Home[u]: the one tenant user u belongs to
    Jars,           \* browsers, each with one cookie jar shared by its tabs
    Requests,       \* request tasks that can be in flight at once
    Apis,           \* what ?api= can name
    Eligible,       \* the APIs whose eligibility gate lets the users in
    Backend,        \* "dynamodb" or "postgres"
    Sent,           \* the kinds of request browsers send in this instance
    AnswersGetLost, \* whether the network may drop an answer
    Grace,          \* REFRESH_GRACE_SECS, in clock ticks
    RefreshTtl,     \* security.refreshTtlSecs, in clock ticks
    MaxTime,        \* bound: the clock stops here
    MaxSecret,      \* bound: secrets one session is given
    MaxVersion,     \* bound: tokenVersion
    NoSession       \* the sid of an empty cookie jar

Kinds == {"login", "refresh", "logout", "switch"}

ASSUME SessionsAssumption ==
    /\ Sent \subseteq Kinds
    /\ Home \in [Users -> Tenants]
    /\ Eligible \subseteq Apis
    /\ Backend \in {"dynamodb", "postgres"}
    /\ AnswersGetLost \in BOOLEAN
    /\ Grace \in Nat
    /\ RefreshTtl \in Nat
    /\ MaxTime \in Nat
    /\ MaxSecret \in Nat
    /\ MaxVersion \in Nat
    /\ NoSession \notin SessionIds
    /\ Users # {} /\ Tenants # {} /\ Jars # {} /\ Apis # {}

VARIABLES
    sessions,   \* the sessions table
    users,      \* the columns of the users table the handlers read
    jar,        \* jar[j]: the refresh cookie browser j holds
    req,        \* req[r]: the task serving request r
    now         \* Utc::now()

vars == <<sessions, users, jar, req, now>>

-----------------------------------------------------------------------------
(* State *)

Statuses == {"free", "live", "gone"}

SessionRow ==
    [status: Statuses, user: Users, tenant: Tenants, hash: Nat, prev: Nat,
     prevUntil: Nat, ver: 0..MaxVersion, expires: Nat]

UserRow ==
    [exists: BOOLEAN, ver: 0..MaxVersion, locked: BOOLEAN, maySwitch: BOOLEAN,
     purged: BOOLEAN]

Cookie == [sid: SessionIds \cup {NoSession}, secret: Nat]

NoCookie == [sid |-> NoSession, secret |-> 0]

Phases ==
    {"idle", "mint", "sweep", "create", "getSession", "deleteSession",
     "getUser", "rotate", "setTenant", "answer"}

\* What an answer does to the cookie jar: nothing, a new cookie, or clearing it.
CookieEffects == {"keep", "set", "clear"}

\* user, ver and tenant are the handler's own copies of what it read; current
\* is matches_current; reuse marks the reuse-detection branch; token says
\* whether the answer carries an access token, ver and tenant its claims.
Request ==
    [phase: Phases, kind: Kinds, jar: Jars, cookie: Cookie, api: Apis,
     user: Users, ver: 0..MaxVersion, tenant: Tenants, current: BOOLEAN, reuse: BOOLEAN,
     token: BOOLEAN, effect: CookieEffects, secret: Nat]

\* The contents of a row or a task that holds nothing.
NoRow ==
    [status |-> "free", user |-> CHOOSE u \in Users : TRUE,
     tenant |-> CHOOSE t \in Tenants : TRUE, hash |-> 0, prev |-> 0,
     prevUntil |-> 0, ver |-> 0, expires |-> 0]

NoTask ==
    [phase |-> "idle", kind |-> "login", jar |-> CHOOSE j \in Jars : TRUE,
     cookie |-> NoCookie, api |-> CHOOSE a \in Apis : TRUE,
     user |-> CHOOSE u \in Users : TRUE, ver |-> 0,
     tenant |-> CHOOSE t \in Tenants : TRUE, current |-> FALSE,
     reuse |-> FALSE, token |-> FALSE, effect |-> "keep", secret |-> 0]

TypeOK ==
    /\ sessions \in [SessionIds -> SessionRow]
    /\ users \in [Users -> UserRow]
    /\ jar \in [Jars -> Cookie]
    /\ req \in [Requests -> Request]
    /\ now \in Nat

-----------------------------------------------------------------------------
(* The session repository *)

Live(s) == sessions[s].status = "live"

Expired(row) == now >= row.expires

\* get_session returns this row.  PostgreSQL filters expired rows in the query;
\* DynamoDB serves them until its TTL gets round to them.
Readable(row) ==
    row.status = "live" /\ (Backend = "postgres" => ~Expired(row))

\* Mutant of Updatable: the update is sent without its condition.
AlwaysUpdatable(s) == TRUE

\* The condition of every session update: the row is there, and for PostgreSQL
\* also unexpired.
Updatable(s) == Readable(sessions[s])

\* The insert: a fresh id, the hash of the first secret, no grace window.
CreateSession(s, u, ver) ==
    /\ sessions[s].status = "free"
    /\ sessions' = [sessions EXCEPT ![s] =
         [status |-> "live", user |-> u, tenant |-> Home[u], hash |-> 1,
          prev |-> 0, prevUntil |-> 0, ver |-> ver,
          expires |-> now + RefreshTtl]]

\* Mutant of RotateRow: the statement is sent again after a lost acknowledgement.
RotateTwice(s) ==
    sessions' = [sessions EXCEPT
        ![s].prev = sessions[s].hash + 1,
        ![s].prevUntil = now + Grace,
        ![s].hash = sessions[s].hash + 2,
        ![s].expires = now + RefreshTtl]

\* rotate_session: the outgoing hash becomes the graced one in the same write
\* that installs the new hash and extends the lifetime.  An update writes the
\* row it does not find, which is why its callers condition it.
RotateRow(s) ==
    sessions' = [sessions EXCEPT
        ![s].status = "live",
        ![s].prev = sessions[s].hash,
        ![s].prevUntil = now + Grace,
        ![s].hash = sessions[s].hash + 1,
        ![s].expires = now + RefreshTtl]

\* set_active_tenant touches that one column.
SetActiveTenant(s, t) ==
    sessions' = [sessions EXCEPT ![s].status = "live", ![s].tenant = t]

Gone == [NoRow EXCEPT !.status = "gone"]

\* Deleting what is not there is no error.
DeleteRow(s) ==
    IF Live(s) THEN sessions' = [sessions EXCEPT ![s] = Gone]
               ELSE UNCHANGED sessions

DeleteRows(S) ==
    sessions' = [s \in SessionIds |-> IF s \in S THEN Gone ELSE sessions[s]]

MatchesCurrent(row, secret) == secret = row.hash

\* The previous secret is honoured until its deadline.
MatchesGrace(row, secret) ==
    /\ ~MatchesCurrent(row, secret)
    /\ secret = row.prev
    /\ now < row.prevUntil

-----------------------------------------------------------------------------
(* Tasks: how a request begins, answers and reaches the browser again *)

IdleRequest(r) == req[r].phase = "idle"

InFlight == {r \in Requests : ~IdleRequest(r)}

Goto(r, phase) == req' = [req EXCEPT ![r].phase = phase]

\* The task of a request browser j sends, with the cookie it attaches.
Task(kind, j, api) ==
    [NoTask EXCEPT !.kind = kind, !.jar = j, !.cookie = jar[j], !.api = api]

Begin(r, task, phase) ==
    /\ IdleRequest(r)
    /\ task.kind \in Sent
    /\ req' = [req EXCEPT ![r] = [task EXCEPT !.phase = phase]]

End(r) == req' = [req EXCEPT ![r] = NoTask]

\* An error answer: no token and no Set-Cookie header, whatever was written.
Refuse(r) ==
    req' = [req EXCEPT ![r] = [NoTask EXCEPT !.phase = "answer",
                                             !.kind = req[r].kind]]

\* mint_for_api: an API the subject is not eligible for, or an unknown one, is
\* an error; otherwise the token names the tenant and the version it was
\* minted for, and the answer carries the cookie decided before.
Mint(r, tenant) ==
    IF req[r].api \in Eligible
      THEN req' = [req EXCEPT ![r].phase = "answer", ![r].token = TRUE,
                              ![r].tenant = tenant]
      ELSE Refuse(r)

-----------------------------------------------------------------------------
(* POST /auth/login *)

\* Bound: every login in flight still finds an id nobody drew.
IdsLeft ==
    Cardinality({s \in SessionIds : sessions[s].status = "free"})
      > Cardinality({q \in InFlight : req[q].kind = "login"})

\* find_by_username and the credential checks.  A locked or unknown account is
\* turned away here; the user row is not read again afterwards.
LoginRead(r, j, u, api) ==
    /\ IdsLeft
    /\ users[u].exists
    /\ ~users[u].locked
    /\ Begin(r, [Task("login", j, api) EXCEPT !.user = u,
                   !.ver = users[u].ver, !.tenant = Home[u]], "mint")
    /\ UNCHANGED <<sessions, users, jar, now>>

\* issue_session mints first, so an ineligible user creates no session.
LoginMint(r) ==
    /\ req[r].phase = "mint"
    /\ req[r].kind = "login"
    /\ IF req[r].api \in Eligible
         THEN Goto(r, IF Backend = "postgres" THEN "sweep" ELSE "create")
         ELSE Refuse(r)
    /\ UNCHANGED <<sessions, users, jar, now>>

\* sweep_expired: PostgreSQL has no TTL, so a login deletes what has expired.
LoginSweep(r) ==
    /\ req[r].phase = "sweep"
    /\ DeleteRows({s \in SessionIds : Live(s) /\ Expired(sessions[s])})
    /\ Goto(r, "create")
    /\ UNCHANGED <<users, jar, now>>

LoginCreate(r) ==
    /\ req[r].phase = "create"
    /\ \E s \in SessionIds :
         /\ CreateSession(s, req[r].user, req[r].ver)
         /\ req' = [req EXCEPT ![r].phase = "answer", ![r].token = TRUE,
                      ![r].effect = "set", ![r].secret = 1,
                      ![r].cookie = [sid |-> s, secret |-> 1]]
    /\ UNCHANGED <<users, jar, now>>

-----------------------------------------------------------------------------
(* POST /auth/refresh *)

\* Secrets session s has been given or may still be given by tasks in flight.
SecretsSpoken(s) ==
    sessions[s].hash
      + Cardinality({r \in InFlight :
            req[r].kind = "refresh" /\ req[r].cookie.sid = s})

StartRefresh(r, j, api) ==
    LET s == jar[j].sid IN
    /\ jar[j].sid # NoSession
    /\ SecretsSpoken(s) < MaxSecret
    /\ Begin(r, Task("refresh", j, api), "getSession")
    /\ UNCHANGED <<sessions, users, jar, now>>

\* What get_session returned is judged: the secret first, the expiry after it.
RefreshGetSession(r, row) ==
    LET secret == req[r].cookie.secret
        current == MatchesCurrent(row, secret)
        accepted == current \/ MatchesGrace(row, secret)
    IN
    /\ req[r].phase = "getSession"
    /\ req[r].kind = "refresh"
    /\ \/ /\ ~Readable(row)
          /\ Refuse(r)
       \/ /\ Readable(row)
          /\ ~accepted
          /\ req' = [req EXCEPT ![r].phase = "deleteSession",
                                ![r].reuse = TRUE]
       \/ /\ Readable(row)
          /\ accepted
          /\ Expired(row)
          /\ Goto(r, "deleteSession")
       \/ /\ Readable(row)
          /\ accepted
          /\ ~Expired(row)
          /\ req' = [req EXCEPT ![r].phase = "getUser",
                       ![r].current = current, ![r].user = row.user,
                       ![r].ver = row.ver, ![r].tenant = row.tenant]
    /\ UNCHANGED <<sessions, users, jar, now>>

\* Mutants of Active: the version, the lock is not compared.
ActiveAtAnyVersion(u, ver) == users[u].exists /\ ~users[u].locked

ActiveEvenIfLocked(u, ver) == users[u].exists /\ users[u].ver = ver

\* Whether the loaded user still stands behind a session of this version.
Active(u, ver) == users[u].exists /\ ~users[u].locked /\ users[u].ver = ver

\* Mutant of ClaimedTenant: a switch stays in force whatever became of the user.
SwitchedTenant(u, active) == active

\* A session scoped to a foreign tenant falls back to the home tenant when the
\* user may no longer switch.
ClaimedTenant(u, active) == IF users[u].maySwitch THEN active ELSE Home[u]

\* may_switch_tenant is decided from the user row loaded here, so the tenant
\* the token will name is settled in this step.
RefreshGetUser(r) ==
    LET u == req[r].user IN
    /\ req[r].phase = "getUser"
    /\ req[r].kind = "refresh"
    /\ IF Active(u, req[r].ver)
         THEN req' = [req EXCEPT
                ![r].phase = IF req[r].current THEN "rotate" ELSE "mint",
                ![r].tenant = ClaimedTenant(u, req[r].tenant)]
         ELSE Goto(r, "deleteSession")
    /\ UNCHANGED <<sessions, users, jar, now>>

\* The handler after a rotation that went through: the new secret is answered.
Rotated(r) ==
    req' = [req EXCEPT ![r].phase = "mint", ![r].effect = "set",
                       ![r].secret = sessions[req[r].cookie.sid].hash + 1]

\* Mutant of RefreshRotate: the new secret never makes it into the answer.
RotateWithoutCookie(r) ==
    LET s == req[r].cookie.sid IN
    /\ req[r].phase = "rotate"
    /\ Updatable(s)
    /\ RotateRow(s)
    /\ Goto(r, "mint")
    /\ UNCHANGED <<users, jar, now>>

\* Mutant of RefreshRotate: a failed condition is retried instead of reported.
RotateOrRetry(r) ==
    LET s == req[r].cookie.sid IN
    /\ req[r].phase = "rotate"
    /\ Updatable(s)
    /\ RotateRow(s)
    /\ Rotated(r)
    /\ UNCHANGED <<users, jar, now>>

\* Only a current secret rotates; the update fails if the row is gone.  It is
\* conditional on the row alone, never on the hash the handler judged.
RefreshRotate(r) ==
    LET s == req[r].cookie.sid IN
    /\ req[r].phase = "rotate"
    /\ \/ Updatable(s) /\ RotateRow(s) /\ Rotated(r)
       \/ ~Updatable(s) /\ Refuse(r) /\ UNCHANGED sessions
    /\ UNCHANGED <<users, jar, now>>

RefreshMint(r) ==
    /\ req[r].phase = "mint"
    /\ req[r].kind = "refresh"
    /\ Mint(r, req[r].tenant)
    /\ UNCHANGED <<sessions, users, jar, now>>

\* Mutant of DeleteSession: a replayed secret is turned away and nothing more.
RejectOnly(r) ==
    /\ req[r].phase = "deleteSession"
    /\ IF req[r].reuse THEN UNCHANGED sessions
                       ELSE DeleteRow(req[r].cookie.sid)
    /\ IF req[r].kind = "logout"
         THEN req' = [req EXCEPT ![r].phase = "answer", ![r].effect = "clear"]
         ELSE Refuse(r)
    /\ UNCHANGED <<users, jar, now>>

\* delete_session, then the 401 of the branch that asked for it, or the
\* cleared cookie of a logout.
DeleteSession(r) ==
    /\ req[r].phase = "deleteSession"
    /\ DeleteRow(req[r].cookie.sid)
    /\ IF req[r].kind = "logout"
         THEN req' = [req EXCEPT ![r].phase = "answer", ![r].effect = "clear"]
         ELSE Refuse(r)
    /\ UNCHANGED <<users, jar, now>>

-----------------------------------------------------------------------------
(* POST /auth/logout, DELETE /auth/sessions/{id} *)

\* The secret is not looked at: holding the id is enough to end a session.
StartLogout(r, j) ==
    /\ jar[j].sid # NoSession
    /\ Begin(r, Task("logout", j, NoTask.api), "deleteSession")
    /\ UNCHANGED <<sessions, users, jar, now>>

\* The caller's own session, looked up and deleted by id.
RevokeSession(u, s) ==
    /\ Readable(sessions[s])
    /\ sessions[s].user = u
    /\ DeleteRow(s)
    /\ UNCHANGED <<users, jar, req, now>>

-----------------------------------------------------------------------------
(* POST /auth/switch-tenant *)

\* The bearer token proves the permission and was minted some time ago, so the
\* user row read here decides nothing but whether the account is usable.
StartSwitch(r, j, u, t, api) ==
    /\ jar[j].sid # NoSession
    /\ users[u].exists
    /\ ~users[u].locked
    /\ Begin(r, [Task("switch", j, api) EXCEPT !.user = u,
                   !.ver = users[u].ver, !.tenant = t], "getSession")
    /\ UNCHANGED <<sessions, users, jar, now>>

SwitchGetSession(r, row) ==
    /\ req[r].phase = "getSession"
    /\ req[r].kind = "switch"
    /\ IF Readable(row) /\ ~Expired(row) /\ row.user = req[r].user
         THEN Goto(r, "setTenant")
         ELSE Refuse(r)
    /\ UNCHANGED <<sessions, users, jar, now>>

\* A session deleted in between is not resurrected.
SwitchSetTenant(r) ==
    LET s == req[r].cookie.sid IN
    /\ req[r].phase = "setTenant"
    /\ \/ /\ Updatable(s)
          /\ SetActiveTenant(s, req[r].tenant)
          /\ Goto(r, "mint")
       \/ /\ ~Updatable(s)
          /\ Refuse(r)
          /\ UNCHANGED sessions
    /\ UNCHANGED <<users, jar, now>>

SwitchMint(r) ==
    /\ req[r].phase = "mint"
    /\ req[r].kind = "switch"
    /\ Mint(r, req[r].tenant)
    /\ UNCHANGED <<sessions, users, jar, now>>

-----------------------------------------------------------------------------
(* The way back: the browser applies Set-Cookie, or never sees the answer *)

Deliver(r) ==
    LET j == req[r].jar IN
    /\ req[r].phase = "answer"
    /\ jar' = [jar EXCEPT ![j] =
         CASE req[r].effect = "keep"  -> jar[j]
           [] req[r].effect = "clear" -> NoCookie
           [] req[r].effect = "set"   ->
                [sid |-> req[r].cookie.sid, secret |-> req[r].secret]]
    /\ End(r)
    /\ UNCHANGED <<sessions, users, now>>

LoseAnswer(r) ==
    /\ AnswersGetLost
    /\ req[r].phase = "answer"
    /\ End(r)
    /\ UNCHANGED <<sessions, users, jar, now>>

\* A browser profile restored or copied from another one: two jars hold the
\* same cookie, which is the situation reuse detection exists for.
CopyCookie(i, j) ==
    /\ i # j
    /\ jar[i].sid # NoSession
    /\ jar' = [jar EXCEPT ![j] = jar[i]]
    /\ UNCHANGED <<sessions, users, req, now>>

-----------------------------------------------------------------------------
(* The account, as other handlers change it: what they do to the row, not how
   they come to do it, which is the subject of Accounts. *)

\* bump_token_version, the global "log out everywhere" lever.
BumpVersion(u) ==
    /\ users[u].exists
    /\ users[u].ver < MaxVersion
    /\ users' = [users EXCEPT ![u].ver = users[u].ver + 1]
    /\ UNCHANGED <<sessions, jar, req, now>>

\* Where there is no other tenant, the entitlement to switch makes no difference.
Entitlements(u) == IF Tenants = {Home[u]} THEN {FALSE} ELSE BOOLEAN

\* put_user: a handler that read the row at any earlier moment writes its copy
\* back whole.  It may have changed the lock or the roles; the version is one
\* the row has shown before, and a row deleted since is there again.
PutUser(u) ==
    /\ \E ver \in 0..users[u].ver, locked \in BOOLEAN, may \in Entitlements(u) :
         users' = [users EXCEPT ![u] =
            [exists |-> TRUE, ver |-> ver, locked |-> locked,
             maySwitch |-> may, purged |-> users[u].purged]]
    /\ UNCHANGED <<sessions, jar, req, now>>

\* delete_user clears the sessions first.  PostgreSQL does it in one
\* statement; DynamoDB lists them through an eventually consistent index and
\* deletes the ones it saw.
PurgeSessions(u) ==
    LET own == {s \in SessionIds : Live(s) /\ sessions[s].user = u} IN
    /\ users[u].exists
    /\ \E listed \in IF Backend = "postgres" THEN {own} ELSE SUBSET own :
         DeleteRows(listed)
    /\ users' = [users EXCEPT ![u].purged = TRUE]
    /\ UNCHANGED <<jar, req, now>>

DeleteUser(u) ==
    /\ users[u].exists
    /\ users[u].purged
    /\ users' = [users EXCEPT ![u].exists = FALSE, ![u].purged = FALSE]
    /\ UNCHANGED <<sessions, jar, req, now>>

\* DynamoDB removes an expired row at a time of its own choosing.
TtlDelete(s) ==
    /\ Backend = "dynamodb"
    /\ Live(s)
    /\ Expired(sessions[s])
    /\ DeleteRow(s)
    /\ UNCHANGED <<users, jar, req, now>>

Tick ==
    /\ now < MaxTime
    /\ now' = now + 1
    /\ UNCHANGED <<sessions, users, jar, req>>

-----------------------------------------------------------------------------
(* Specification *)

Init ==
    /\ sessions = [s \in SessionIds |-> NoRow]
    /\ \E may \in [Users -> BOOLEAN] :
         /\ \A u \in Users : may[u] \in Entitlements(u)
         /\ users = [u \in Users |->
              [exists |-> TRUE, ver |-> 0, locked |-> FALSE,
               maySwitch |-> may[u], purged |-> FALSE]]
    /\ jar = [j \in Jars |-> NoCookie]
    /\ req = [r \in Requests |-> NoTask]
    /\ now = 0

\* The steps a task takes once it has begun; row is what get_session returns.
ServerStep(r, row) ==
    \/ LoginMint(r) \/ LoginSweep(r) \/ LoginCreate(r)
    \/ RefreshGetSession(r, row)
    \/ RefreshGetUser(r)
    \/ RefreshRotate(r)
    \/ RefreshMint(r)
    \/ DeleteSession(r)
    \/ SwitchGetSession(r, row)
    \/ SwitchSetTenant(r)
    \/ SwitchMint(r)

\* The row a request's cookie names; a request without one reads no session.
RowOf(r) ==
    IF req[r].cookie.sid = NoSession THEN NoRow ELSE sessions[req[r].cookie.sid]

Work(r) == ServerStep(r, RowOf(r))

Arrival(r) ==
    \E j \in Jars :
        \/ StartLogout(r, j)
        \/ \E api \in Apis :
              \/ StartRefresh(r, j, api)
              \/ \E u \in Users :
                    \/ LoginRead(r, j, u, api)
                    \/ \E t \in Tenants : StartSwitch(r, j, u, t, api)

Reply(r) == Deliver(r) \/ LoseAnswer(r)

\* What happens around the requests without touching the users table.
Surroundings ==
    \/ \E i, j \in Jars : CopyCookie(i, j)
    \/ \E u \in Users, s \in SessionIds : RevokeSession(u, s)
    \/ \E s \in SessionIds : TtlDelete(s)
    \/ Tick

AccountStep ==
    \E u \in Users :
        \/ BumpVersion(u)
        \/ PutUser(u)
        \/ PurgeSessions(u)
        \/ DeleteUser(u)

Next ==
    \/ \E r \in Requests : Arrival(r) \/ Work(r) \/ Reply(r)
    \/ Surroundings
    \/ AccountStep

Spec == Init /\ [][Next]_vars

\* The runtime keeps polling a task that is ready, and an answer that was
\* produced leaves the server; nothing makes a client send or the clock move.
Fairness == \A r \in Requests : WF_vars(Work(r)) /\ WF_vars(Reply(r))

FairSpec == Spec /\ Fairness

=============================================================================
