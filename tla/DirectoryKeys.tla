--------------------------- MODULE DirectoryKeys ---------------------------
(***************************************************************************)
(* API keys over the directory: service keys belong to a tenant, personal  *)
(* access tokens to a user and are stored under the tenant the user was    *)
(* acting in when it made them.  A key is exchanged for a short-lived      *)
(* access token.  With them the rest of the directory's world: rows other  *)
(* parts write for an account or a tenant, indexes that catch up, and      *)
(* handlers that stop half-way.                                            *)
(***************************************************************************)
EXTENDS Directory

-----------------------------------------------------------------------------
(* Keys *)

\* A service key of the tenant the caller acts in.
CreateApiKey(k, id) ==
    /\ "createKey" \in load
    /\ keys[k].life = "unborn" /\ WasTenant(id)
    /\ keys' = [keys EXCEPT ![k] =
         [life |-> "live", tenant |-> id, user |-> NoUser,
          listed |-> store = "postgres", missed |-> FALSE]]
    /\ task' = Arrives(k, id)
    /\ UNCHANGED <<store, load, tenants, users, guards, rows, late, broken>>

\* The user's delete has been over the tokens, or over.
TokensPassed(u) ==
    \/ users[u].life = "gone"
    \/ \E t \in Tasks : /\ task[t].user = u /\ task[t].kind = "deleteUser"
                        /\ task[t].phase \in {"dropTokens", "dropUser", "dropGuard"}

\* A user acts at home, and one of the system tenant anywhere it switched to.
MayActIn(u, id) == users[u].tenant = id \/ (users[u].tenant = System /\ WasTenant(id))

CreateMyPat(k, u, id) ==
    /\ "createPat" \in load
    /\ keys[k].life = "unborn" /\ users[u].life # "unborn" /\ MayActIn(u, id)
    /\ keys' = [keys EXCEPT ![k] =
         [life |-> "live", tenant |-> id, user |-> u,
          listed |-> store = "postgres", missed |-> TokensPassed(u)]]
    /\ task' = Arrives(k, id)
    /\ UNCHANGED <<store, load, tenants, users, guards, rows, late, broken>>

\* delete_api_key of a service key in the caller's tenant, delete_my_pat of
\* one's own token: the key is read, judged, and deleted by a second call.
DeleteApiKey(t, k) ==
    /\ keys[k].life = "live"
    /\ Starts(t, IF keys[k].user = NoUser THEN "deleteKey" ELSE "deletePat",
         [Idle EXCEPT !.phase = "dropKey", !.key = k])
    /\ UNCHANGED <<store, load, tenants, users, guards, keys, rows, late, broken>>

DropKey(t) ==
    /\ At(t, "dropKey")
    /\ keys' = Revoked({task[t].key})
    /\ Ends(t)
    /\ UNCHANGED <<store, load, tenants, users, guards, rows, late, broken>>

-----------------------------------------------------------------------------
(* The exchange *)

\* The key is read once; the request proved possession, is within its limits
\* and comes from an allowed origin, or it ended here.
Exchange(t, k, id) ==
    /\ keys[k].life = "live"
    /\ Starts(t, "exchange",
         [Idle EXCEPT !.phase = IF keys[k].user = NoUser THEN "actIn" ELSE "subject",
                      !.key = k, !.tenant = id, !.user = keys[k].user])
    /\ UNCHANGED <<store, load, tenants, users, guards, keys, rows, late, broken>>

ExchangeSubject(t) ==
    LET u == task[t].user
    IN /\ At(t, "subject")
       /\ IF Live(u) THEN task' = [task EXCEPT ![t].phase = "actIn", ![t].row = users[u]]
          ELSE Ends(t)
       /\ UNCHANGED <<store, load, tenants, users, guards, keys, rows, late, broken>>

\* Another tenant is open to subjects of the system tenant only, and must be
\* there; one's own is not looked at.
ExchangeTenant(t) ==
    LET id == task[t].tenant
        home == IF task[t].user = NoUser THEN keys[task[t].key].tenant ELSE task[t].row.tenant
    IN /\ At(t, "actIn")
       /\ IF id = home \/ (home = System /\ tenants[id].exists)
          THEN Goes(t, "touch") ELSE Ends(t)
       /\ UNCHANGED <<store, load, tenants, users, guards, keys, rows, late, broken>>

\* Mutant of TouchKey: the stamp is written whether or not the row is there.
TouchKeyBlindly(t) ==
    /\ At(t, "touch")
    /\ keys' = [keys EXCEPT ![task[t].key].life = "live"]
    /\ Ends(t)
    /\ UNCHANGED <<store, load, tenants, users, guards, rows, late, broken>>

\* touch_last_used and touch_last_active change a row that exists, and only its
\* stamp.
TouchKey(t) ==
    /\ At(t, "touch")
    /\ Ends(t)
    /\ UNCHANGED <<store, load, tenants, users, guards, keys, rows, late, broken>>

-----------------------------------------------------------------------------
(* The world around *)

\* A delete has been over this table of the owner's rows, or is over.
Passed(o, table) ==
    IF o \in Users
    THEN \/ users[o].life = "gone"
         \/ \E t \in Tasks :
              /\ task[t].user = o /\ task[t].kind = "deleteUser"
              /\ task[t].phase \in Clearing => Index(task[t].phase) > Index(table)
    ELSE \/ ~tenants[o].exists
         \/ \E t \in Tasks : /\ task[t].tenant = o /\ task[t].kind = "deleteTenant"
                             /\ task[t].phase = "dropTenant"

\* An address, a session, a passkey, a recipient: written by a handler that
\* knows the owner's id from a token.
WriteRow(o, table) ==
    /\ "rows" \in load
    /\ <<o, table>> \in Owned \ rows
    /\ IF o \in Users THEN users[o].life # "unborn" ELSE WasTenant(o)
    /\ rows' = rows \cup {<<o, table>>}
    /\ late' = IF Passed(o, table) THEN late \cup {<<o, table>>} ELSE late \ {<<o, table>>}
    /\ UNCHANGED <<store, load, tenants, users, guards, keys, broken, task>>

IndexUser(u) ==
    /\ Live(u) /\ ~users[u].listed
    /\ users' = [users EXCEPT ![u].listed = TRUE]
    /\ UNCHANGED <<store, load, tenants, guards, keys, rows, late, broken, task>>

IndexKey(k) ==
    /\ keys[k].life = "live" /\ ~keys[k].listed
    /\ keys' = [keys EXCEPT ![k].listed = TRUE]
    /\ UNCHANGED <<store, load, tenants, users, guards, rows, late, broken, task>>

\* Stopped here, a handler leaves names that do not agree.
LeavesNamesTorn(r) ==
    \/ r.phase \in {"release", "insertUser", "dropGuard"}
    \/ r.phase = "put" /\ r.name # r.row.name

\* A handler's future is dropped, or its next store call fails.
Stop(t) ==
    /\ "stop" \in load
    /\ task[t] # Idle
    /\ broken' = IF LeavesNamesTorn(task[t]) THEN broken \cup {task[t].user} ELSE broken
    /\ Ends(t)
    /\ UNCHANGED <<store, load, tenants, users, guards, keys, rows, late>>

-----------------------------------------------------------------------------

DirectoryRequest(t) ==
    \/ \E id \in Tenants :
        \/ PatchTenant(t, id) \/ DeleteTenant(t, id)
        \/ \E n \in Names \cup {NoName}, u \in Users \cup {NoUser} : CreateTenant(t, id, n, u)
        \/ \E u \in Users, n \in Names : CreateUser(t, u, id, n)
        \/ \E k \in Keys : Exchange(t, k, id)
    \/ \E u \in Users :
        \/ DeleteUser(t, u)
        \/ \E n \in Names \cup {NoName} : PatchUser(t, u, n)
    \/ \E k \in Keys : DeleteApiKey(t, k)

DirectoryStep(t) ==
    \/ InsertTenant(t) \/ PutTenant(t)
    \/ LookUsers(t) \/ LookKeys(t) \/ ClearRecipients(t) \/ DropTenant(t)
    \/ NameTaken(t) \/ ReserveName(t) \/ RenameAtOnce(t) \/ CreateAtOnce(t)
    \/ InsertUser(t) \/ Release(t) \/ RefusePatch(t) \/ PutUser(t)
    \/ ClearTokensAtOnce(t) \/ ListTokens(t)
    \/ DropUserAtOnce(t) \/ DropUser(t) \/ DropGuard(t)
    \/ \E k \in Keys : DropToken(t, k)
    \/ DropKey(t) \/ ExchangeSubject(t) \/ ExchangeTenant(t) \/ TouchKey(t)

DirectoryWorld ==
    \/ \E k \in Keys, id \in Tenants : CreateApiKey(k, id)
    \/ \E k \in Keys, id \in Tenants, u \in Users : CreateMyPat(k, u, id)
    \/ \E o \in Users \cup Tenants, table \in Clearing \cup {"recipients"} : WriteRow(o, table)
    \/ \E u \in Users : IndexUser(u)
    \/ \E k \in Keys : IndexKey(k)

DirectoryNext ==
    \/ \E t \in Tasks : DirectoryRequest(t) \/ DirectoryStep(t) \/ ClearTable(t) \/ Stop(t)
    \/ DirectoryWorld

DirectorySpec == DirectoryInit /\ [][DirectoryNext]_directoryVars

-----------------------------------------------------------------------------
(* Properties *)

Renaming(u) ==
    \E t \in Tasks : /\ task[t].user = u /\ task[t].phase \in {"release", "put"}
                     /\ task[t].name # task[t].row.name

(***************************************************************************)
(* Login names and accounts agree as long as no rename, creation or        *)
(* deletion was cut short or refused half-way and no two changes of one    *)
(* account overlapped: a settled account owns the guard of its name, and a *)
(* guard leads to an account of that name or to one being written.  (So    *)
(* two settled accounts never share a name, and no name is lost.)          *)
(***************************************************************************)
NamesAgree ==
    broken = {} =>
        /\ \A u \in Users : Live(u) /\ ~Renaming(u) => guards[users[u].name] = u
        /\ \A n \in Names : guards[n] # NoUser =>
             \/ Live(guards[n]) /\ users[guards[n]].name = n
             \/ \E t \in Tasks :
                  /\ task[t].user = guards[n]
                  /\ task[t].phase \in {"insertUser", "release", "put", "dropGuard"}

(***************************************************************************)
(* Nothing outlives its owner but what came too late: a deleted account    *)
(* has no rows and no tokens, a deleted tenant no recipients, except those *)
(* written after the delete had been over their table.  (A token stored    *)
(* under a foreign tenant, or not yet indexed, is one the delete missed.)  *)
(***************************************************************************)
NothingOutlivesItsOwner ==
    /\ \A p \in rows : p \notin late =>
         IF p[1] \in Users THEN users[p[1]].life # "gone" ELSE tenants[p[1]].exists
    /\ \A k \in Keys : keys[k].life = "live" /\ keys[k].user # NoUser =>
         users[keys[k].user].life # "gone" \/ keys[k].missed

(***************************************************************************)
(* What is deleted stays deleted: a late touch, put or revocation brings   *)
(* back no key and no tenant, and no account unless a patch overlapped its *)
(* deletion.  A tenant comes (back) by being created.                      *)
(***************************************************************************)
NothingReturns ==
    [][/\ \A k \in Keys : keys[k].life = "gone" => keys'[k].life = "gone"
       /\ \A id \in Tenants : ~tenants[id].exists /\ tenants'[id].exists =>
            tenants'[id].born = tenants[id].born + 1
       /\ \A u \in Users : users[u].life = "gone" /\ users'[u].life = "live" =>
            u \in broken]_directoryVars

(***************************************************************************)
(* Edits of a tenant are never lost while it lives: whoever replaces the   *)
(* row has seen every edit it absorbed.  Only an edit begun before the id  *)
(* was deleted and created again may overwrite: versions restart at 0.     *)
(***************************************************************************)
EditsAreKept ==
    [][\A id \in Tenants :
        tenants[id].exists /\ tenants'[id].exists =>
            \/ tenants[id].edits \subseteq tenants'[id].edits
            \/ \E t \in Tasks : /\ At(t, "putTenant") /\ task'[t] # task[t]
                                /\ task[t].tenant = id
                                /\ task[t].copy.born < tenants[id].born]_directoryVars

(***************************************************************************)
(* A tenant is deleted with nobody in it but those who came, or became     *)
(* visible to the index, after the deletion had looked.                    *)
(***************************************************************************)
DeletedWhenEmpty ==
    [][\A t \in Tasks : task[t].phase = "dropTenant" /\ task'[t] # task[t] =>
        LET id == task[t].tenant
        IN ~tenants'[id].exists /\ tenants[id].exists =>
             (LivingIn(id) \cup KeysOf(id)) \subseteq task[t].unseen]_directoryVars
=============================================================================
