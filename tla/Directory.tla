----------------------------- MODULE Directory -----------------------------
(***************************************************************************)
(* Tenants, the accounts in them, the names accounts log in with, and the  *)
(* API keys of both.                                                       *)
(*                                                                         *)
(* A login name is a row of its own (the guard): reserving it is the only  *)
(* conditional write about names; a user row is written whole and          *)
(* unconditionally.  DynamoDB writes guard and row one after the other,    *)
(* PostgreSQL in one transaction.  Tenants carry a version and are         *)
(* replaced only at the version that was read.  Deleting an account first  *)
(* clears, table by table, what only the account leads to; deleting a      *)
(* tenant first looks whether anything lives in it.                        *)
(*                                                                         *)
(* Callers act by access tokens, which outlive the account, the tenant and *)
(* the permissions they were minted for; a request is therefore about any  *)
(* id that ever existed.  Every store call is an action; a handler may     *)
(* stop between two of them.                                               *)
(***************************************************************************)
EXTENDS Naturals

CONSTANTS
    Tenants, System,    \* tenant ids; the system tenant, there from the start
    Users,              \* account ids the store can draw
    Names,              \* normalised login names
    Keys,               \* API key ids the store can draw
    Tasks,              \* handlers that can be in flight at once
    Workloads,          \* sets of request kinds; an instance serves one of them
    Dependents,         \* the tables a user delete clears, in the model
    MaxVersion,         \* bound: writes of one tenant row
    MaxBorn,            \* bound: times one tenant id is created
    NoUser, NoName, NoTenant, NoKey

\* The requests that change state, with the permission their routes ask for.
TenantRoutes ==
    [createTenant |-> "manage:tenants", patchTenant |-> "manage:tenants",
     deleteTenant |-> "manage:tenants"]

UserRoutes ==
    [createUser |-> "manage:users", patchUser |-> "manage:users",
     deleteUser |-> "manage:users"]

KeyRoutes ==
    [createKey |-> "manage:service-keys", deleteKey |-> "manage:service-keys",
     createPat |-> "manage:personal-tokens", deletePat |-> "manage:personal-tokens",
     exchange |-> "public"]

Kinds == (DOMAIN TenantRoutes) \cup (DOMAIN UserRoutes) \cup (DOMAIN KeyRoutes)

\* What delete_user clears before the account, in this order.
Cascade == <<"contacts", "links", "sessions", "passkeys", "tokens">>

Clearing == {Cascade[n] : n \in 1..5}

ASSUME DirectoryAssumption ==
    /\ System \in Tenants
    /\ Dependents \subseteq Clearing \ {"tokens"}
    /\ MaxVersion \in Nat /\ MaxBorn \in Nat \ {0}
    /\ NoUser \notin Users /\ NoName \notin Names
    /\ NoTenant \notin Tenants /\ NoKey \notin Keys
    /\ Users \cap Tenants = {}

VARIABLES
    store,      \* which backend this deployment runs on
    load,       \* the kinds of request sent in this behaviour
    tenants,    \* the tenants table
    users,      \* the users table
    guards,     \* user-usernames: the account a name is reserved for
    keys,       \* the api-keys table
    rows,       \* <<owner, table>>: rows of other tables kept for an owner
    late,       \* history: rows written after a delete had cleared that table
    broken,     \* history: accounts whose renames were cut short or overlapped
    task        \* the handlers in flight

directoryVars ==
    <<store, load, tenants, users, guards, keys, rows, late, broken, task>>

-----------------------------------------------------------------------------
(* State *)

Stores == {"dynamodb", "postgres"}

Life == {"unborn", "live", "gone"}

\* edits are the changes the content of the row has absorbed; born tells the
\* tenants apart that were created one after the other under one id.
TenantRow ==
    [exists: BOOLEAN, ver: 0..MaxVersion, edits: SUBSET Tasks, born: 0..MaxBorn]

\* listed: the by-tenant index shows the row.
UserRow ==
    [life: Life, tenant: Tenants \cup {NoTenant}, name: Names \cup {NoName},
     listed: BOOLEAN]

\* user is NoUser for a service key.  missed is history: a token whose user's
\* delete could not have found it.
KeyRow ==
    [life: Life, tenant: Tenants \cup {NoTenant}, user: Users \cup {NoUser},
     listed: BOOLEAN, missed: BOOLEAN]

Owned == (Users \X Dependents) \cup (Tenants \X {"recipients"})

Phases ==
    {"idle", "insertTenant", "putTenant", "lookUsers", "lookKeys", "recipients",
     "dropTenant", "reserve", "insertUser", "release", "put", "dropUser",
     "dropGuard", "dropTokens", "dropKey", "subject", "actIn", "touch"} \cup Clearing

\* name is the login name asked for; row and copy are what was read of the
\* user and the tenant; left the tokens listed and yet to be deleted; unseen
\* the users and keys that came after the look or were not listed at it.
Task ==
    [kind: Kinds, phase: Phases, tenant: Tenants \cup {NoTenant},
     user: Users \cup {NoUser}, name: Names \cup {NoName}, key: Keys \cup {NoKey},
     row: UserRow, copy: TenantRow, left: SUBSET Keys, unseen: SUBSET (Users \cup Keys)]

NoTenantRow == [exists |-> FALSE, ver |-> 0, edits |-> {}, born |-> 0]
NoUserRow == [life |-> "unborn", tenant |-> NoTenant, name |-> NoName, listed |-> FALSE]
NoKeyRow ==
    [life |-> "unborn", tenant |-> NoTenant, user |-> NoUser, listed |-> FALSE,
     missed |-> FALSE]

Idle ==
    [kind |-> "exchange", phase |-> "idle", tenant |-> NoTenant, user |-> NoUser,
     name |-> NoName, key |-> NoKey, row |-> NoUserRow, copy |-> NoTenantRow,
     left |-> {}, unseen |-> {}]

DirectoryTypeOK ==
    /\ store \in Stores /\ load \in Workloads
    /\ tenants \in [Tenants -> TenantRow]
    /\ users \in [Users -> UserRow]
    /\ guards \in [Names -> Users \cup {NoUser}]
    /\ keys \in [Keys -> KeyRow]
    /\ rows \subseteq Owned /\ late \subseteq Owned
    /\ broken \subseteq Users
    /\ task \in [Tasks -> Task]

FreshTenant(born) == [exists |-> TRUE, ver |-> 0, edits |-> {}, born |-> born]

DirectoryInit ==
    /\ store \in Stores /\ load \in Workloads
    /\ tenants = [id \in Tenants |-> IF id = System THEN FreshTenant(1) ELSE NoTenantRow]
    /\ users = [u \in Users |-> NoUserRow]
    /\ guards = [n \in Names |-> NoUser]
    /\ keys = [k \in Keys |-> NoKeyRow]
    /\ rows = {} /\ late = {} /\ broken = {}
    /\ task = [t \in Tasks |-> Idle]

-----------------------------------------------------------------------------
(* Handlers *)

Starts(t, kind, r) ==
    /\ task[t] = Idle
    /\ kind \in load
    /\ task' = [task EXCEPT ![t] = [r EXCEPT !.kind = kind]]

Goes(t, phase) == task' = [task EXCEPT ![t].phase = phase]
Ends(t) == task' = [task EXCEPT ![t] = Idle]
At(t, phase) == task[t].phase = phase

WasTenant(id) == tenants[id].born > 0
Live(u) == users[u].life = "live"

\* An id no other handler has drawn.
Unborn(u) ==
    users[u].life = "unborn" /\ u \notin broken /\ \A t \in Tasks : task[t].user # u

-----------------------------------------------------------------------------
(* Tenants *)

\* create_tenant with the id and, if n is a name, the owner it asks for (u is
\* the id the owner will get).  An id in use is refused here with 409.
CreateTenant(t, id, n, u) ==
    /\ ~tenants[id].exists
    /\ IF n = NoName THEN u = NoUser ELSE u \in Users /\ Unborn(u)
    /\ Starts(t, "createTenant",
         [Idle EXCEPT !.phase = "insertTenant", !.tenant = id, !.name = n, !.user = u])
    /\ UNCHANGED <<store, load, tenants, users, guards, keys, rows, late, broken>>

\* create_tenant_with_id: conditional on the id, so a race for it has one
\* winner.  Custom fields, when there are any, are put on top at version 0.
InsertTenant(t) ==
    LET id == task[t].tenant
        fresh == FreshTenant(tenants[id].born + 1)
        next == IF task[t].name = NoName THEN "idle" ELSE "reserve"
    IN /\ At(t, "insertTenant")
       /\ IF tenants[id].exists \/ tenants[id].born = MaxBorn
          THEN Ends(t) /\ UNCHANGED tenants
          ELSE /\ tenants' = [tenants EXCEPT ![id] = fresh]
               /\ \/ task' = [task EXCEPT ![t].phase = "putTenant", ![t].copy = fresh]
                  \/ IF next = "idle" THEN Ends(t) ELSE Goes(t, next)
       /\ UNCHANGED <<store, load, users, guards, keys, rows, late, broken>>

PatchTenant(t, id) ==
    /\ tenants[id].exists /\ tenants[id].ver < MaxVersion
    /\ Starts(t, "patchTenant",
         [Idle EXCEPT !.phase = "putTenant", !.tenant = id, !.copy = tenants[id]])
    /\ UNCHANGED <<store, load, tenants, users, guards, keys, rows, late, broken>>

\* Mutant of PutTenant: the version is not compared.
PutTenantBlindly(t) ==
    LET id == task[t].tenant
    IN /\ At(t, "putTenant")
       /\ tenants' = [tenants EXCEPT ![id] =
            [task[t].copy EXCEPT !.ver = @ + 1, !.edits = @ \cup {t}, !.born = tenants[id].born]]
       /\ Ends(t)
       /\ UNCHANGED <<store, load, users, guards, keys, rows, late, broken>>

\* put_tenant: the row is replaced only at the version that was read; a
\* mismatch, or no row, is a 409.
PutTenant(t) ==
    LET id == task[t].tenant
        copy == task[t].copy
        owner == task[t].kind = "createTenant" /\ task[t].name # NoName
    IN /\ At(t, "putTenant")
       /\ IF tenants[id].exists /\ tenants[id].ver = copy.ver
          THEN /\ tenants' = [tenants EXCEPT ![id] =
                    [copy EXCEPT !.ver = @ + 1, !.edits = @ \cup {t}, !.born = tenants[id].born]]
               /\ IF owner THEN Goes(t, "reserve") ELSE Ends(t)
          ELSE Ends(t) /\ UNCHANGED tenants
       /\ UNCHANGED <<store, load, users, guards, keys, rows, late, broken>>

\* delete_tenant: never the system tenant; refused while it has users or keys.
DeleteTenant(t, id) ==
    /\ id # System /\ tenants[id].exists
    /\ Starts(t, "deleteTenant", [Idle EXCEPT !.phase = "lookUsers", !.tenant = id])
    /\ UNCHANGED <<store, load, tenants, users, guards, keys, rows, late, broken>>

LivingIn(id) == {u \in Users : Live(u) /\ users[u].tenant = id}
KeysOf(id) == {k \in Keys : keys[k].life = "live" /\ keys[k].tenant = id}

\* Mutant of LookUsers: the answer of the look is not read.
LookUsersIgnored(t) ==
    /\ At(t, "lookUsers")
    /\ Goes(t, "lookKeys")
    /\ UNCHANGED <<store, load, tenants, users, guards, keys, rows, late, broken>>

LookUsers(t) ==
    LET here == LivingIn(task[t].tenant)
    IN /\ At(t, "lookUsers")
       /\ IF \E u \in here : users[u].listed THEN Ends(t)
          ELSE task' = [task EXCEPT ![t].phase = "lookKeys", ![t].unseen = here]
       /\ UNCHANGED <<store, load, tenants, users, guards, keys, rows, late, broken>>

LookKeys(t) ==
    LET here == KeysOf(task[t].tenant)
    IN /\ At(t, "lookKeys")
       /\ IF \E k \in here : keys[k].listed THEN Ends(t)
          ELSE task' = [task EXCEPT ![t].phase = "recipients", ![t].unseen = @ \cup here]
       /\ UNCHANGED <<store, load, tenants, users, guards, keys, rows, late, broken>>

ClearRecipients(t) ==
    /\ At(t, "recipients")
    /\ rows' = rows \ {<<task[t].tenant, "recipients">>}
    /\ Goes(t, "dropTenant")
    /\ UNCHANGED <<store, load, tenants, users, guards, keys, late, broken>>

DropTenant(t) ==
    /\ At(t, "dropTenant")
    /\ tenants' = [tenants EXCEPT ![task[t].tenant].exists = FALSE]
    /\ Ends(t)
    /\ UNCHANGED <<store, load, users, guards, keys, rows, late, broken>>

-----------------------------------------------------------------------------
(* Accounts and their names *)

\* create_user, up to the insert: the caller's tenant may be gone by now.
CreateUser(t, u, id, n) ==
    /\ WasTenant(id) /\ Unborn(u)
    /\ Starts(t, "createUser",
         [Idle EXCEPT !.phase = "reserve", !.tenant = id, !.user = u, !.name = n])
    /\ UNCHANGED <<store, load, tenants, users, guards, keys, rows, late, broken>>

Busy(u) ==
    \E t \in Tasks : task[t].user = u /\ task[t].kind \in {"patchUser", "deleteUser"}

Overlaps(u) == broken' = IF Busy(u) THEN broken \cup {u} ELSE broken

\* patch_user of a user of the caller's tenant; n is NoName or the name it has
\* already when the login name stays.
PatchUser(t, u, n) ==
    /\ Live(u)
    /\ Starts(t, "patchUser",
         [Idle EXCEPT !.phase = IF n \in {NoName, users[u].name} THEN "put" ELSE "reserve",
                      !.user = u, !.name = IF n = NoName THEN users[u].name ELSE n,
                      !.row = users[u]])
    /\ Overlaps(u)
    /\ UNCHANGED <<store, load, tenants, users, guards, keys, rows, late>>

\* Rows that appear in a tenant while its deletion is under way.
Arrives(x, id) ==
    [t \in Tasks |->
        IF task[t].kind = "deleteTenant" /\ task[t].tenant = id
        THEN [task[t] EXCEPT !.unseen = @ \cup {x}] ELSE task[t]]

Born(t) ==
    [life |-> "live", tenant |-> task[t].tenant, name |-> task[t].name,
     listed |-> store = "postgres"]

\* Mutant of NameIsFree: the guard is put whoever holds the name.
NameIsWanted(t) == At(t, "reserve") /\ guards[task[t].name] \in Users \cup {NoUser}

NameIsFree(t) == At(t, "reserve") /\ guards[task[t].name] = NoUser

\* The insert of the guard fails: 409.
NameTaken(t) ==
    /\ At(t, "reserve")
    /\ guards[task[t].name] # NoUser
    /\ Ends(t)
    /\ UNCHANGED <<store, load, tenants, users, guards, keys, rows, late, broken>>

\* DynamoDB puts the guard of the new name if absent, and goes on from there.
ReserveName(t) ==
    /\ NameIsFree(t) /\ store = "dynamodb"
    /\ guards' = [guards EXCEPT ![task[t].name] = task[t].user]
    /\ Goes(t, IF task[t].kind = "patchUser" THEN "release" ELSE "insertUser")
    /\ UNCHANGED <<store, load, tenants, users, keys, rows, late, broken>>

\* PostgreSQL commits the guard with the rest of the repository call: here the
\* end of the old guard.
RenameAtOnce(t) ==
    /\ NameIsFree(t) /\ store = "postgres" /\ task[t].kind = "patchUser"
    /\ guards' = [guards EXCEPT ![task[t].name] = task[t].user,
                                ![task[t].row.name] = NoUser]
    /\ Goes(t, "put")
    /\ UNCHANGED <<store, load, tenants, users, keys, rows, late, broken>>

\* And here the row of the new account.
CreateAtOnce(t) ==
    LET u == task[t].user
    IN /\ NameIsFree(t) /\ store = "postgres" /\ task[t].kind # "patchUser"
       /\ guards' = [guards EXCEPT ![task[t].name] = u]
       /\ users' = [users EXCEPT ![u] = Born(t)]
       /\ task' = [Arrives(u, task[t].tenant) EXCEPT ![t] = Idle]
       /\ UNCHANGED <<store, load, tenants, keys, rows, late, broken>>

InsertUser(t) ==
    /\ At(t, "insertUser")
    /\ users' = [users EXCEPT ![task[t].user] = Born(t)]
    /\ task' = [Arrives(task[t].user, task[t].tenant) EXCEPT ![t] = Idle]
    /\ UNCHANGED <<store, load, tenants, guards, keys, rows, late, broken>>

\* The guard of the old name is deleted, whoever it belongs to.
Release(t) ==
    /\ At(t, "release")
    /\ guards' = [guards EXCEPT ![task[t].row.name] = NoUser]
    /\ Goes(t, "put")
    /\ UNCHANGED <<store, load, tenants, users, keys, rows, late, broken>>

\* validate_roles and validate_custom_fields come after the rename: a refused
\* role leaves the guard moved and the row as it was.
RefusePatch(t) ==
    /\ At(t, "put")
    /\ broken' = IF task[t].name = task[t].row.name THEN broken
                 ELSE broken \cup {task[t].user}
    /\ Ends(t)
    /\ UNCHANGED <<store, load, tenants, users, guards, keys, rows, late>>

\* put_user: the whole row, there or not.
PutUser(t) ==
    LET u == task[t].user
        row == [task[t].row EXCEPT !.name = task[t].name]
    IN /\ At(t, "put")
       /\ users' = [users EXCEPT ![u] = row]
       /\ task' = [(IF Live(u) THEN task ELSE Arrives(u, row.tenant)) EXCEPT ![t] = Idle]
       /\ UNCHANGED <<store, load, tenants, guards, keys, rows, late, broken>>

-----------------------------------------------------------------------------
(* Deleting an account *)

\* Mutant of DeleteUser: the account goes first, what hangs on it afterwards.
DeleteUserFirst(t, u) ==
    /\ Live(u)
    /\ Starts(t, "deleteUser",
         [Idle EXCEPT !.phase = Cascade[1], !.user = u, !.row = users[u],
                      !.name = users[u].name])
    /\ users' = [users EXCEPT ![u].life = "gone"]
    /\ Overlaps(u)
    /\ UNCHANGED <<store, load, tenants, guards, keys, rows, late>>

DeleteUser(t, u) ==
    /\ Live(u)
    /\ Starts(t, "deleteUser",
         [Idle EXCEPT !.phase = Cascade[1], !.user = u, !.row = users[u],
                      !.name = users[u].name])
    /\ Overlaps(u)
    /\ UNCHANGED <<store, load, tenants, users, guards, keys, rows, late>>

Index(table) == CHOOSE n \in 1..5 : Cascade[n] = table

\* Each table but the last is cleared by one repository call.
ClearTable(t) ==
    LET n == Index(task[t].phase)
    IN /\ task[t].phase \in Clearing \ {"tokens"}
       /\ rows' = rows \ {<<task[t].user, task[t].phase>>}
       /\ Goes(t, Cascade[n + 1])
       /\ UNCHANGED <<store, load, tenants, users, guards, keys, late, broken>>

TokensOf(u) == {k \in Keys : keys[k].life = "live" /\ keys[k].user = u}

Missed(S) == [k \in Keys |-> IF k \in S THEN [keys[k] EXCEPT !.missed = TRUE] ELSE keys[k]]
Revoked(S) == [k \in Keys |-> IF k \in S THEN [keys[k] EXCEPT !.life = "gone"] ELSE keys[k]]

\* The user's tokens in the user's tenant: PostgreSQL deletes them at once.
ClearTokensAtOnce(t) ==
    LET u == task[t].user
        home == {k \in TokensOf(u) : keys[k].tenant = task[t].row.tenant}
    IN /\ At(t, "tokens") /\ store = "postgres"
       /\ keys' = [k \in Keys |-> IF k \in home THEN Revoked(home)[k]
                                  ELSE Missed(TokensOf(u))[k]]
       /\ Goes(t, "dropUser")
       /\ UNCHANGED <<store, load, tenants, users, guards, rows, late, broken>>

\* DynamoDB lists them from an index and deletes one by one.
ListTokens(t) ==
    LET u == task[t].user
        seen == {k \in TokensOf(u) : keys[k].tenant = task[t].row.tenant /\ keys[k].listed}
    IN /\ At(t, "tokens") /\ store = "dynamodb"
       /\ keys' = Missed(TokensOf(u) \ seen)
       /\ task' = [task EXCEPT ![t].left = seen,
                    ![t].phase = IF seen = {} THEN "dropUser" ELSE "dropTokens"]
       /\ UNCHANGED <<store, load, tenants, users, guards, rows, late, broken>>

DropToken(t, k) ==
    /\ At(t, "dropTokens") /\ k \in task[t].left
    /\ keys' = Revoked({k})
    /\ task' = [task EXCEPT ![t].left = @ \ {k},
                 ![t].phase = IF task[t].left = {k} THEN "dropUser" ELSE @]
    /\ UNCHANGED <<store, load, tenants, users, guards, rows, late, broken>>

\* delete_user of the repository: PostgreSQL deletes the row and the guard of
\* the name that was read together, whoever the guard belongs to by now.
DropUserAtOnce(t) ==
    /\ At(t, "dropUser") /\ store = "postgres"
    /\ users' = [users EXCEPT ![task[t].user].life = "gone"]
    /\ guards' = [guards EXCEPT ![task[t].name] = NoUser]
    /\ Ends(t)
    /\ UNCHANGED <<store, load, tenants, keys, rows, late, broken>>

\* DynamoDB deletes the row and then the guard, whoever it belongs to by then.
DropUser(t) ==
    /\ At(t, "dropUser") /\ store = "dynamodb"
    /\ users' = [users EXCEPT ![task[t].user].life = "gone"]
    /\ Goes(t, "dropGuard")
    /\ UNCHANGED <<store, load, tenants, guards, keys, rows, late, broken>>

DropGuard(t) ==
    /\ At(t, "dropGuard")
    /\ guards' = [guards EXCEPT ![task[t].name] = NoUser]
    /\ Ends(t)
    /\ UNCHANGED <<store, load, tenants, users, keys, rows, late, broken>>
=============================================================================
