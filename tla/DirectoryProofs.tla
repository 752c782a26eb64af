-------------------------- MODULE DirectoryProofs --------------------------
(***************************************************************************)
(* What holds of tenants, accounts, names and keys for any number of them  *)
(* and of handlers.  Each handler carries what it has read; the invariant  *)
(* says what of it is still true: that an account to be created is not     *)
(* there, that a row to be put back is the stored one unless two changes   *)
(* of the account overlapped, that a tenant's copy is no newer than the    *)
(* tenant, that a deletion has left nothing behind in what it has cleared. *)
(* The chat links come last, on the theorems about their purge.            *)
(***************************************************************************)
EXTENDS DirectoryMessaging, TLAPS

\* A tenant's row and what a handler carries, without the bounds of a run.
AnyTenantRow == [exists: BOOLEAN, ver: Nat, edits: SUBSET Tasks, born: Nat]

Record ==
    [kind: Kinds, phase: Phases, tenant: Tenants \cup {NoTenant},
     user: Users \cup {NoUser}, name: Names \cup {NoName}, key: Keys \cup {NoKey},
     row: UserRow, copy: AnyTenantRow, left: SUBSET Keys, unseen: SUBSET (Users \cup Keys)]

Creates(k) == k.kind \in {"createUser", "createTenant"} /\ k.user # NoUser
Changes(k) == k.kind \in {"patchUser", "deleteUser"}

\* The phases each kind of handler goes through.
InOrder(k) ==
    \/ k.phase = "idle" /\ k = Idle
    \/ k.kind = "createTenant" /\ k.phase \in {"insertTenant", "putTenant", "reserve", "insertUser"}
    \/ k.kind = "patchTenant" /\ k.phase = "putTenant"
    \/ k.kind = "deleteTenant" /\ k.phase \in {"lookUsers", "lookKeys", "recipients", "dropTenant"}
    \/ k.kind = "createUser" /\ k.phase \in {"reserve", "insertUser"}
    \/ k.kind = "patchUser" /\ k.phase \in {"reserve", "release", "put"}
    \/ k.kind = "deleteUser" /\ k.phase \in Clearing \cup {"dropTokens", "dropUser", "dropGuard"}
    \/ k.kind \in {"deleteKey", "deletePat"} /\ k.phase = "dropKey"
    \/ k.kind = "exchange" /\ k.phase \in {"subject", "actIn", "touch"}

\* What each kind of handler carries.
Equipped(k) ==
    /\ k.kind \in {"createTenant", "patchTenant", "deleteTenant", "createUser"} => k.tenant \in Tenants
    /\ k.kind = "createUser" \/ k.phase \in {"reserve", "insertUser"} =>
           k.user \in Users /\ k.name \in Names
    /\ k.kind = "createTenant" => k.user \in Users \/ k.name = NoName
    /\ Changes(k) =>
           /\ k.user \in Users /\ k.name \in Names
           /\ k.row.life = "live" /\ k.row.name \in Names /\ k.row.tenant \in Tenants
    /\ k.kind = "patchUser" /\ k.phase # "put" => k.name # k.row.name
    /\ k.kind = "deleteUser" => k.name = k.row.name
    /\ k.phase \in {"dropKey", "subject", "actIn", "touch"} => k.key \in Keys
    /\ k.phase = "subject" => k.user \in Users

Shape(k) == k \in Record /\ InOrder(k) /\ Equipped(k)

\* An account to be created is not there; one to be changed is, and is what
\* was read of it unless another change overlapped.
UsersFine(k) ==
    /\ Creates(k) => users[k.user].life = "unborn"
    /\ k.kind = "exchange" /\ k.user # NoUser => users[k.user].life # "unborn"
    /\ Changes(k) =>
           /\ users[k.user].life # "unborn" /\ users[k.user].tenant = k.row.tenant
           /\ k.user \notin broken =>
                  IF k.phase = "dropGuard" THEN users[k.user].life = "gone"
                  ELSE Live(k.user) /\ users[k.user].name = k.row.name

\* A copy of a tenant is an earlier incarnation, an earlier version, or the row.
CopyFine(k) ==
    k.phase = "putTenant" =>
        LET row == tenants[k.tenant] IN
        /\ k.copy.exists /\ k.copy.born <= row.born
        /\ k.copy.born = row.born =>
               k.copy.ver <= row.ver /\ (k.copy.ver = row.ver => k.copy.edits = row.edits)

\* Who is in a tenant that was looked at came, or was listed, later.
UnseenFine(k) ==
    k.kind = "deleteTenant" =>
        /\ k.phase \in {"lookKeys", "recipients", "dropTenant"} => LivingIn(k.tenant) \subseteq k.unseen
        /\ k.phase \in {"recipients", "dropTenant"} => KeysOf(k.tenant) \subseteq k.unseen

PassedBy(k, table) == k.phase \in Clearing => Index(k.phase) > Index(table)

\* What is in a table that was cleared came later.
RowsFine(k) ==
    /\ k.kind = "deleteUser" =>
           \A table \in Dependents :
               PassedBy(k, table) /\ <<k.user, table>> \in rows => <<k.user, table>> \in late
    /\ k.phase = "dropTenant" /\ <<k.tenant, "recipients">> \in rows =>
           <<k.tenant, "recipients">> \in late

\* A token that is left was missed, or is listed for deletion.
TokensFine(k) ==
    k.kind = "deleteUser" /\ k.phase \in {"dropTokens", "dropUser", "dropGuard"} =>
        \A key \in TokensOf(k.user) :
            keys[key].missed \/ (k.phase = "dropTokens" /\ key \in k.left)

TaskFine(k) ==
    /\ Shape(k) /\ UsersFine(k) /\ CopyFine(k)
    /\ UnseenFine(k) /\ RowsFine(k) /\ TokensFine(k)

Typed ==
    /\ store \in Stores
    /\ tenants \in [Tenants -> AnyTenantRow]
    /\ users \in [Users -> UserRow]
    /\ guards \in [Names -> Users \cup {NoUser}]
    /\ keys \in [Keys -> KeyRow]
    /\ rows \subseteq Owned /\ broken \subseteq Users
    /\ task \in [Tasks -> Record]

\* An account that was born has a name and a home; a token a user that was born.
Settled ==
    /\ \A u \in Users : users[u].life # "unborn" =>
           users[u].name \in Names /\ users[u].tenant \in Tenants
    /\ \A k \in Keys : keys[k].user # NoUser => users[keys[k].user].life # "unborn"

\* Two handlers create different accounts, and change different accounts unless it shows.
Apart(k, l) ==
    k.user = l.user =>
        /\ ~(Creates(k) /\ Creates(l))
        /\ Changes(k) /\ Changes(l) => k.user \in broken

Alone == \A s, t \in Tasks : s # t => Apart(task[s], task[t])

\* A rename that has moved the guard and not yet the row.
Renamed(k) == k.phase = "put" /\ k.name # k.row.name

\* The names an account holds: its own, or that of a handler half-way.
HoldsName(u, n) ==
    \/ Live(u) /\ users[u].name = n /\ ~\E t \in Tasks : task[t].user = u /\ Renamed(task[t])
    \/ \E t \in Tasks : task[t].user = u /\ LeavesNamesTorn(task[t]) /\ task[t].name = n

NamesRight == broken = {} => \A u \in Users, n \in Names : guards[n] = u <=> HoldsName(u, n)

\* The inductive invariant.
Inv ==
    /\ Typed /\ (\A t \in Tasks : TaskFine(task[t]))
    /\ Settled /\ Alone /\ NamesRight /\ NothingOutlivesItsOwner

-----------------------------------------------------------------------------
(* Constants *)

LEMMA KindsAre ==
    Kinds = {"createTenant", "patchTenant", "deleteTenant", "createUser", "patchUser",
             "deleteUser", "createKey", "deleteKey", "createPat", "deletePat", "exchange"}
BY DEF Kinds, TenantRoutes, UserRoutes, KeyRoutes

LEMMA CascadeIs ==
    /\ Cascade[1] = "contacts" /\ Cascade[2] = "links" /\ Cascade[3] = "sessions"
    /\ Cascade[4] = "passkeys" /\ Cascade[5] = "tokens"
    /\ Clearing = {"contacts", "links", "sessions", "passkeys", "tokens"}
<1>1. /\ Cascade[1] = "contacts" /\ Cascade[2] = "links" /\ Cascade[3] = "sessions"
      /\ Cascade[4] = "passkeys" /\ Cascade[5] = "tokens"
      BY DEF Cascade
<1>2. \A n \in 1..5 : n = 1 \/ n = 2 \/ n = 3 \/ n = 4 \/ n = 5 OBVIOUS
<1> QED BY <1>1, <1>2 DEF Clearing

LEMMA IndexIs ==
    ASSUME NEW table \in Clearing
    PROVE Index(table) \in 1..5 /\ Cascade[Index(table)] = table
BY DEF Index, Clearing

\* The tables before the next one are those before this one, and this one.
LEMMA NextTable ==
    ASSUME NEW table \in Clearing \ {"tokens"}
    PROVE /\ Index(table) + 1 \in 2..5 /\ Cascade[Index(table) + 1] \in Clearing
          /\ \A other \in Clearing :
                 Index(Cascade[Index(table) + 1]) > Index(other) =>
                     other = table \/ Index(table) > Index(other)
<1>1. Index(table) \in 1..4 BY IndexIs, CascadeIs
<1>2. Cascade[Index(table) + 1] \in Clearing BY <1>1 DEF Clearing
<1>3. Index(Cascade[Index(table) + 1]) = Index(table) + 1
      <2>1. \A m, n \in 1..5 : Cascade[m] = Cascade[n] => m = n BY DEF Cascade
      <2>2. Index(Cascade[Index(table) + 1]) \in 1..5
            /\ Cascade[Index(Cascade[Index(table) + 1])] = Cascade[Index(table) + 1]
            BY <1>2, IndexIs
      <2> QED BY <1>1, <2>1, <2>2
<1>4. \A other \in Clearing : Index(other) \in 1..5 /\ Cascade[Index(other)] = other BY IndexIs
<1> QED BY <1>1, <1>2, <1>3, <1>4

LEMMA IdleFine == Idle \in Record /\ TaskFine(Idle)
<1>1. /\ Idle.kind = "exchange" /\ Idle.phase = "idle" /\ Idle.user = NoUser /\ Idle.tenant = NoTenant
      /\ Idle.name = NoName /\ Idle.key = NoKey /\ Idle.row = NoUserRow /\ Idle.copy = NoTenantRow
      /\ Idle.left = {} /\ Idle.unseen = {}
      BY DEF Idle
<1>2. NoUserRow \in UserRow /\ NoTenantRow \in AnyTenantRow
      BY DEF NoUserRow, NoTenantRow, UserRow, AnyTenantRow, Life
<1>3. Idle \in Record
      <2>1. "exchange" \in Kinds /\ "idle" \in Phases BY KindsAre DEF Phases
      <2> QED BY <1>2, <2>1 DEF Idle, Record
<1> QED BY <1>1, <1>3, CascadeIs DEF TaskFine, Shape, InOrder, Equipped, Creates, Changes,
              UsersFine, CopyFine, UnseenFine, RowsFine, TokensFine

-----------------------------------------------------------------------------
(* One handler moves *)

\* Nobody but t is touched.
OnlyMoves(t) ==
    /\ task' \in [Tasks -> Record]
    /\ \A s \in Tasks : s # t => task'[s] = task[s]

\* A handler keeps what it has in hand but its phase.
InHand(t) ==
    /\ task'[t].kind = task[t].kind /\ task'[t].tenant = task[t].tenant
    /\ task'[t].user = task[t].user /\ task'[t].name = task[t].name
    /\ task'[t].key = task[t].key /\ task'[t].row = task[t].row
    /\ task'[t].copy = task[t].copy /\ task'[t].left = task[t].left
    /\ task'[t].unseen = task[t].unseen

LEMMA GoesTo ==
    ASSUME Typed, NEW t \in Tasks, NEW phase \in Phases, Goes(t, phase)
    PROVE OnlyMoves(t) /\ InHand(t) /\ task'[t].phase = phase
<1> DEFINE r == [task[t] EXCEPT !.phase = phase]
<1>1. task[t] \in Record BY DEF Typed
<1>2. /\ r \in Record /\ r.phase = phase
      /\ r.kind = task[t].kind /\ r.tenant = task[t].tenant /\ r.user = task[t].user
      /\ r.name = task[t].name /\ r.key = task[t].key /\ r.row = task[t].row
      /\ r.copy = task[t].copy /\ r.left = task[t].left /\ r.unseen = task[t].unseen
      BY <1>1 DEF Record
<1>3. task' = [task EXCEPT ![t] = r] BY DEF Goes
<1> HIDE DEF r
<1>4. task'[t] = r /\ OnlyMoves(t) BY <1>2, <1>3 DEF Typed, OnlyMoves
<1> QED BY <1>2, <1>4 DEF InHand

LEMMA EndsAt ==
    ASSUME Typed, NEW t \in Tasks, Ends(t)
    PROVE OnlyMoves(t) /\ task'[t] = Idle
BY IdleFine DEF Ends, Typed, OnlyMoves

LEMMA StartsAs ==
    ASSUME Typed, NEW t \in Tasks, NEW r \in Record, NEW kind, Starts(t, kind, r), kind \in Kinds
    PROVE /\ OnlyMoves(t) /\ task[t] = Idle
          /\ task'[t] \in Record /\ task'[t].kind = kind /\ task'[t].phase = r.phase
          /\ task'[t].tenant = r.tenant /\ task'[t].user = r.user /\ task'[t].name = r.name
          /\ task'[t].key = r.key /\ task'[t].row = r.row /\ task'[t].copy = r.copy
<1> DEFINE k == [r EXCEPT !.kind = kind]
<1>1. /\ k \in Record /\ k.kind = kind /\ k.phase = r.phase
      /\ k.tenant = r.tenant /\ k.user = r.user /\ k.name = r.name
      /\ k.key = r.key /\ k.row = r.row /\ k.copy = r.copy
      BY DEF Record
<1>2. task' = [task EXCEPT ![t] = k] /\ task[t] = Idle BY DEF Starts
<1> HIDE DEF k
<1>3. task'[t] = k /\ OnlyMoves(t) BY <1>1, <1>2 DEF Typed, OnlyMoves
<1> QED BY <1>1, <1>2, <1>3

(***************************************************************************)
(* No table changes, but accounts may be marked as broken: all depends on  *)
(* what the handler that moves has in its hand.                            *)
(***************************************************************************)
TablesStay == UNCHANGED <<store, tenants, users, guards, keys, rows, late>>

BrokenGrows == broken \subseteq broken' /\ broken' \subseteq Users

LEMMA QuietKeeps ==
    ASSUME Inv, NEW t \in Tasks, OnlyMoves(t), TablesStay, BrokenGrows, TaskFine(task'[t]),
           \A s \in Tasks : s # t => Apart(task[s], task[t])',
           broken' # {} \/ (~LeavesNamesTorn(task[t]) /\ ~LeavesNamesTorn(task'[t]))
    PROVE Inv'
<1>1. Typed' BY DEF Inv, Typed, OnlyMoves, TablesStay, BrokenGrows
<1>2. \A s \in Tasks : TaskFine(task'[s]) BY DEF Inv, OnlyMoves
<1>3. \A s \in Tasks : TaskFine(task[s])'
      <2> SUFFICES ASSUME NEW s \in Tasks PROVE TaskFine(task[s])' OBVIOUS
      <2> PICK k : k = task'[s] OBVIOUS
      <2>1. TaskFine(k) BY <1>2
      <2>2. Shape(k)' BY <2>1 DEF TaskFine
      <2>3. UsersFine(k)' BY <2>1 DEF TaskFine, UsersFine, Live, TablesStay, BrokenGrows
      <2>4. CopyFine(k)' BY <2>1 DEF TaskFine, CopyFine, TablesStay
      <2>5. UnseenFine(k)'
            BY <2>1 DEF TaskFine, UnseenFine, LivingIn, KeysOf, Live, TablesStay
      <2>6. RowsFine(k)' BY <2>1 DEF TaskFine, RowsFine, TablesStay
      <2>7. TokensFine(k)' BY <2>1 DEF TaskFine, TokensFine, TokensOf, TablesStay
      <2> QED BY <2>2, <2>3, <2>4, <2>5, <2>6, <2>7 DEF TaskFine
<1>4. Settled' BY DEF Inv, Settled, TablesStay
<1>5. Alone'
      <2> SUFFICES ASSUME NEW a \in Tasks, NEW b \in Tasks, a # b
                   PROVE  Apart(task[a], task[b])'
          BY DEF Alone
      <2>1. CASE b = t BY <2>1
      <2>2. CASE a = t BY <2>2 DEF Apart
      <2>3. CASE a # t /\ b # t
            BY <2>3 DEF Inv, Alone, Apart, OnlyMoves, BrokenGrows, Creates, Changes
      <2> QED BY <2>1, <2>2, <2>3
<1>6. NamesRight'
      <2> SUFFICES ASSUME broken' = {}, NEW u \in Users, NEW n \in Names
                   PROVE  (guards[n] = u)' <=> HoldsName(u, n)'
          BY DEF NamesRight
      <2>1. broken = {} /\ ~LeavesNamesTorn(task[t]) /\ ~LeavesNamesTorn(task'[t])
            BY DEF BrokenGrows
      <2>2. guards[n] = u <=> HoldsName(u, n) BY <2>1 DEF Inv, NamesRight
      <2>3. ~Renamed(task[t]) /\ ~Renamed(task'[t]) BY <2>1 DEF Renamed, LeavesNamesTorn
      <2>4. \A s \in Tasks : Renamed(task'[s]) => s # t /\ task'[s] = task[s]
            BY <2>3 DEF OnlyMoves
      <2>5. \A s \in Tasks : Renamed(task[s]) => s # t /\ task'[s] = task[s]
            BY <2>3 DEF OnlyMoves
      <2>6. \A s \in Tasks : LeavesNamesTorn(task'[s]) => s # t /\ task'[s] = task[s]
            BY <2>1 DEF OnlyMoves
      <2>7. \A s \in Tasks : LeavesNamesTorn(task[s]) => s # t /\ task'[s] = task[s]
            BY <2>1 DEF OnlyMoves
      <2>8. HoldsName(u, n)' <=> HoldsName(u, n)
            BY <2>4, <2>5, <2>6, <2>7 DEF HoldsName, Live, TablesStay
      <2> QED BY <2>2, <2>8 DEF TablesStay
<1>7. NothingOutlivesItsOwner' BY DEF Inv, NothingOutlivesItsOwner, TablesStay
<1> QED BY <1>1, <1>3, <1>4, <1>5, <1>6, <1>7 DEF Inv

LEMMA EndKeeps ==
    ASSUME Inv, NEW t \in Tasks, Ends(t), TablesStay, BrokenGrows,
           broken' # {} \/ ~LeavesNamesTorn(task[t])
    PROVE Inv'
<1>1. OnlyMoves(t) /\ task'[t] = Idle BY EndsAt DEF Inv
<1>2. TaskFine(task'[t]) BY <1>1, IdleFine
<1>3. Idle.kind = "exchange" /\ Idle.phase = "idle" BY DEF Idle
<1>4. \A s \in Tasks : s # t => Apart(task[s], task[t])'
      BY <1>1, <1>3 DEF Apart, Creates, Changes
<1>5. ~LeavesNamesTorn(task'[t]) BY <1>1, <1>3 DEF LeavesNamesTorn
<1> QED BY <1>1, <1>2, <1>4, <1>5, QuietKeeps

\* A handler that goes on about the same account gets in nobody's way.
LEMMA SameHandlerApart ==
    ASSUME Inv, NEW t \in Tasks, OnlyMoves(t), broken \subseteq broken',
           task'[t].kind = task[t].kind, task'[t].user = task[t].user
    PROVE \A s \in Tasks : s # t => Apart(task[s], task[t])'
BY DEF Inv, Alone, Apart, Creates, Changes, OnlyMoves

LEMMA TaskIs ==
    ASSUME Inv, NEW t \in Tasks
    PROVE TaskFine(task[t]) /\ Shape(task[t]) /\ task[t] \in Record
BY DEF Inv, TaskFine, Shape

\* Which kinds of handler are in a phase.
LEMMA KindAt ==
    ASSUME Inv, NEW t \in Tasks
    PROVE /\ At(t, "insertTenant") => task[t].kind = "createTenant"
          /\ At(t, "putTenant") => task[t].kind \in {"createTenant", "patchTenant"}
          /\ task[t].phase \in {"lookUsers", "lookKeys", "recipients", "dropTenant"} =>
                 task[t].kind = "deleteTenant"
          /\ At(t, "reserve") => task[t].kind \in {"createTenant", "createUser", "patchUser"}
          /\ At(t, "insertUser") => task[t].kind \in {"createTenant", "createUser"}
          /\ task[t].phase \in {"release", "put"} => task[t].kind = "patchUser"
          /\ task[t].phase \in Clearing \cup {"dropTokens", "dropUser", "dropGuard"} =>
                 task[t].kind = "deleteUser"
          /\ At(t, "dropKey") => task[t].kind \in {"deleteKey", "deletePat"}
          /\ task[t].phase \in {"subject", "actIn", "touch"} => task[t].kind = "exchange"
          /\ At(t, "idle") => task[t] = Idle
BY TaskIs, CascadeIs DEF At, Shape, InOrder

-----------------------------------------------------------------------------
(* Requests *)

LEMMA IdleIs ==
    /\ Idle.kind = "exchange" /\ Idle.phase = "idle" /\ Idle.user = NoUser /\ Idle.tenant = NoTenant
    /\ Idle.name = NoName /\ Idle.key = NoKey /\ Idle.row = NoUserRow /\ Idle.copy = NoTenantRow
    /\ Idle.left = {} /\ Idle.unseen = {} /\ Idle \in Record
BY IdleFine DEF Idle

\* What has begun, as far as a request says.
LEMMA RequestKeeps ==
    ASSUME Inv, NEW t \in Tasks, NEW r \in Record, NEW kind \in Kinds, Starts(t, kind, r),
           TablesStay, BrokenGrows, TaskFine(task'[t]), ~LeavesNamesTorn(task'[t]),
           \A s \in Tasks : s # t => Apart(task[s], task[t])'
    PROVE Inv'
<1>1. OnlyMoves(t) /\ task[t] = Idle BY StartsAs DEF Inv
<1>2. ~LeavesNamesTorn(task[t]) BY <1>1, IdleIs DEF LeavesNamesTorn
<1> QED BY <1>1, <1>2, QuietKeeps

LEMMA CreateTenantKeeps ==
    ASSUME Inv, NEW t \in Tasks, NEW id \in Tenants, NEW n \in Names \cup {NoName},
           NEW u \in Users \cup {NoUser}, CreateTenant(t, id, n, u)
    PROVE Inv'
<1> DEFINE r == [Idle EXCEPT !.phase = "insertTenant", !.tenant = id, !.name = n, !.user = u]
<1>1. /\ r \in Record /\ r.phase = "insertTenant" /\ r.tenant = id /\ r.user = u /\ r.name = n
      BY IdleIs, ZenonT(60) DEF Record, Phases
<1>2. Starts(t, "createTenant", r) BY DEF CreateTenant
<1> HIDE DEF r
<1>3. "createTenant" \in Kinds BY KindsAre
<1>4. /\ OnlyMoves(t) /\ task'[t] \in Record /\ task'[t].kind = "createTenant"
      /\ task'[t].phase = "insertTenant" /\ task'[t].tenant = id /\ task'[t].user = u
      /\ task'[t].name = n
      BY <1>1, <1>2, <1>3, StartsAs DEF Inv
<1>5. TablesStay /\ BrokenGrows BY DEF CreateTenant, TablesStay, BrokenGrows, Inv, Typed
<1>6. IF n = NoName THEN u = NoUser ELSE u \in Users /\ Unborn(u) BY DEF CreateTenant
<1>7. TaskFine(task'[t])
      <2>1. Shape(task'[t])
            BY <1>4, <1>6, CascadeIs DEF Shape, InOrder, Equipped, Changes
      <2>2. UsersFine(task'[t])
            BY <1>4, <1>6 DEF UsersFine, Creates, Changes, Unborn
      <2> QED BY <1>4, <2>1, <2>2 DEF TaskFine, CopyFine, UnseenFine, RowsFine, TokensFine
<1>8. \A s \in Tasks : s # t => Apart(task[s], task[t])'
      BY <1>4, <1>6 DEF Apart, Creates, Changes, OnlyMoves, Unborn
<1>9. ~LeavesNamesTorn(task'[t]) BY <1>4 DEF LeavesNamesTorn
<1> QED BY <1>1, <1>2, <1>3, <1>5, <1>7, <1>8, <1>9, RequestKeeps

LEMMA CreateUserKeeps ==
    ASSUME Inv, NEW t \in Tasks, NEW u \in Users, NEW id \in Tenants, NEW n \in Names,
           CreateUser(t, u, id, n)
    PROVE Inv'
<1> DEFINE r == [Idle EXCEPT !.phase = "reserve", !.tenant = id, !.user = u, !.name = n]
<1>1. /\ r \in Record /\ r.phase = "reserve" /\ r.tenant = id /\ r.user = u /\ r.name = n
      BY IdleIs, ZenonT(60) DEF Record, Phases
<1>2. Starts(t, "createUser", r) /\ Unborn(u) BY DEF CreateUser
<1> HIDE DEF r
<1>3. "createUser" \in Kinds BY KindsAre
<1>4. /\ OnlyMoves(t) /\ task'[t] \in Record /\ task'[t].kind = "createUser"
      /\ task'[t].phase = "reserve" /\ task'[t].tenant = id /\ task'[t].user = u
      /\ task'[t].name = n
      BY <1>1, <1>2, <1>3, StartsAs DEF Inv
<1>5. TablesStay /\ BrokenGrows BY DEF CreateUser, TablesStay, BrokenGrows, Inv, Typed
<1>7. TaskFine(task'[t])
      <2>1. Shape(task'[t])
            BY <1>4, CascadeIs DEF Shape, InOrder, Equipped, Changes
      <2>2. UsersFine(task'[t])
            BY <1>2, <1>4 DEF UsersFine, Creates, Changes, Unborn
      <2> QED BY <1>4, <2>1, <2>2 DEF TaskFine, CopyFine, UnseenFine, RowsFine, TokensFine
<1>8. \A s \in Tasks : s # t => Apart(task[s], task[t])'
      BY <1>2, <1>4 DEF Apart, Creates, Changes, OnlyMoves, Unborn
<1>9. ~LeavesNamesTorn(task'[t]) BY <1>4 DEF LeavesNamesTorn
<1> QED BY <1>1, <1>2, <1>3, <1>5, <1>7, <1>8, <1>9, RequestKeeps

LEMMA PatchTenantKeeps ==
    ASSUME Inv, NEW t \in Tasks, NEW id \in Tenants, PatchTenant(t, id)
    PROVE Inv'
<1> PICK copy \in AnyTenantRow : copy = tenants[id] BY DEF Inv, Typed
<1> DEFINE r == [Idle EXCEPT !.phase = "putTenant", !.tenant = id, !.copy = copy]
<1>1. /\ r \in Record /\ r.phase = "putTenant" /\ r.tenant = id /\ r.user = NoUser
      /\ r.copy = copy
      BY IdleIs DEF Record, Phases
<1>2. Starts(t, "patchTenant", r) BY DEF PatchTenant
<1> HIDE DEF r
<1>3. "patchTenant" \in Kinds BY KindsAre
<1>4. /\ OnlyMoves(t) /\ task'[t] \in Record /\ task'[t].kind = "patchTenant"
      /\ task'[t].phase = "putTenant" /\ task'[t].tenant = id /\ task'[t].user = NoUser
      /\ task'[t].copy = tenants[id]
      BY <1>1, <1>2, <1>3, StartsAs DEF Inv
<1>5. TablesStay /\ BrokenGrows BY DEF PatchTenant, TablesStay, BrokenGrows, Inv, Typed
<1>7. TaskFine(task'[t])
      <2>1. Shape(task'[t])
            BY <1>4, CascadeIs DEF Shape, InOrder, Equipped, Changes
      <2>2. CopyFine(task'[t]) BY <1>4 DEF CopyFine, AnyTenantRow, PatchTenant
      <2> QED BY <1>4, <2>1, <2>2
              DEF TaskFine, UsersFine, Creates, Changes, UnseenFine, RowsFine, TokensFine
<1>8. \A s \in Tasks : s # t => Apart(task[s], task[t])' BY <1>4 DEF Apart, Creates, Changes
<1>9. ~LeavesNamesTorn(task'[t]) BY <1>4 DEF LeavesNamesTorn
<1> QED BY <1>1, <1>2, <1>3, <1>5, <1>7, <1>8, <1>9, RequestKeeps

LEMMA DeleteTenantKeeps ==
    ASSUME Inv, NEW t \in Tasks, NEW id \in Tenants, DeleteTenant(t, id)
    PROVE Inv'
<1> DEFINE r == [Idle EXCEPT !.phase = "lookUsers", !.tenant = id]
<1>1. /\ r \in Record /\ r.phase = "lookUsers" /\ r.tenant = id /\ r.user = NoUser
      BY IdleIs DEF Record, Phases
<1>2. Starts(t, "deleteTenant", r) BY DEF DeleteTenant
<1> HIDE DEF r
<1>3. "deleteTenant" \in Kinds BY KindsAre
<1>4. /\ OnlyMoves(t) /\ task'[t] \in Record /\ task'[t].kind = "deleteTenant"
      /\ task'[t].phase = "lookUsers" /\ task'[t].tenant = id /\ task'[t].user = NoUser
      BY <1>1, <1>2, <1>3, StartsAs DEF Inv
<1>5. TablesStay /\ BrokenGrows BY DEF DeleteTenant, TablesStay, BrokenGrows, Inv, Typed
<1>7. TaskFine(task'[t])
      <2>1. Shape(task'[t])
            BY <1>4, CascadeIs DEF Shape, InOrder, Equipped, Changes
      <2> QED BY <1>4, <2>1
              DEF TaskFine, CopyFine, UsersFine, Creates, Changes, UnseenFine, RowsFine, TokensFine
<1>8. \A s \in Tasks : s # t => Apart(task[s], task[t])' BY <1>4 DEF Apart, Creates, Changes
<1>9. ~LeavesNamesTorn(task'[t]) BY <1>4 DEF LeavesNamesTorn
<1> QED BY <1>1, <1>2, <1>3, <1>5, <1>7, <1>8, <1>9, RequestKeeps

\* A change of an account that another one is busy with marks the account.
LEMMA OverlapsShow ==
    ASSUME Inv, NEW t \in Tasks, NEW u \in Users, Overlaps(u), OnlyMoves(t),
           Changes(task'[t]), task'[t].user = u, Live(u)
    PROVE /\ BrokenGrows
          /\ \A s \in Tasks : s # t => Apart(task[s], task[t])'
<1>1. BrokenGrows BY DEF Overlaps, BrokenGrows, Inv, Typed
<1>2. ASSUME NEW s \in Tasks, s # t, task[s].user = u
      PROVE  ~Creates(task[s]) /\ (Changes(task[s]) => u \in broken')
      <2>1. ~Creates(task[s]) BY <1>2, TaskIs DEF TaskFine, UsersFine, Live
      <2>2. Changes(task[s]) => Busy(u) BY <1>2 DEF Busy, Changes
      <2> QED BY <2>1, <2>2 DEF Overlaps
<1> QED BY <1>1, <1>2 DEF Apart, OnlyMoves

LEMMA PatchUserKeeps ==
    ASSUME Inv, NEW t \in Tasks, NEW u \in Users, NEW n \in Names \cup {NoName}, PatchUser(t, u, n)
    PROVE Inv'
<1> PICK row \in UserRow : row = users[u] BY DEF Inv, Typed
<1> PICK name : name = IF n = NoName THEN row.name ELSE n OBVIOUS
<1> PICK phase : phase = IF n \in {NoName, row.name} THEN "put" ELSE "reserve" OBVIOUS
<1>0. /\ row.life = "live" /\ row.name \in Names /\ row.tenant \in Tenants
      /\ name \in Names /\ phase \in {"put", "reserve"}
      /\ (phase = "reserve") = (name # row.name)
      BY DirectoryAssumption DEF PatchUser, Live, Inv, Settled
<1> DEFINE r == [Idle EXCEPT !.phase = phase, !.user = u, !.name = name, !.row = row]
<1>a. phase \in Phases BY <1>0 DEF Phases
<1>1. r \in Record /\ r.phase = phase /\ r.user = u /\ r.name = name /\ r.row = row
      BY <1>0, <1>a, IdleIs DEF Record
<1>2. Starts(t, "patchUser", r) /\ Overlaps(u) BY DEF PatchUser
<1> HIDE DEF r
<1>3. "patchUser" \in Kinds BY KindsAre
<1>4. /\ OnlyMoves(t) /\ task'[t] \in Record /\ task'[t].kind = "patchUser"
      /\ task'[t].phase = phase /\ task'[t].user = u /\ task'[t].name = name /\ task'[t].row = row
      BY <1>1, <1>2, <1>3, StartsAs DEF Inv
<1>5. /\ BrokenGrows
      /\ \A s \in Tasks : s # t => Apart(task[s], task[t])'
      BY <1>0, <1>2, <1>4, OverlapsShow DEF Changes, Live
<1>6. TablesStay BY DEF PatchUser, TablesStay
<1>7. TaskFine(task'[t])
      <2>1. Shape(task'[t])
            BY <1>0, <1>4, CascadeIs DEF Shape, InOrder, Equipped, Changes
      <2>2. UsersFine(task'[t])
            BY <1>0, <1>4 DEF UsersFine, Creates, Changes, Live
      <2> QED BY <1>0, <1>4, <2>1, <2>2 DEF TaskFine, CopyFine, UnseenFine, RowsFine, TokensFine
<1>9. ~LeavesNamesTorn(task'[t]) BY <1>0, <1>4 DEF LeavesNamesTorn
<1> QED BY <1>1, <1>2, <1>3, <1>5, <1>6, <1>7, <1>9, RequestKeeps

LEMMA DeleteUserKeeps ==
    ASSUME Inv, NEW t \in Tasks, NEW u \in Users, DeleteUser(t, u)
    PROVE Inv'
<1> PICK row \in UserRow : row = users[u] BY DEF Inv, Typed
<1>0. row.life = "live" /\ row.name \in Names /\ row.tenant \in Tenants
      BY DEF DeleteUser, Live, Inv, Settled
<1> DEFINE r == [Idle EXCEPT !.phase = "contacts", !.user = u, !.row = row, !.name = row.name]
<1>1. r \in Record /\ r.phase = "contacts" /\ r.user = u /\ r.name = row.name /\ r.row = row
      BY <1>0, IdleIs, CascadeIs, ZenonT(60) DEF Record, Phases
<1>2. Starts(t, "deleteUser", r) /\ Overlaps(u) BY CascadeIs DEF DeleteUser
<1> HIDE DEF r
<1>3. "deleteUser" \in Kinds BY KindsAre
<1>4. /\ OnlyMoves(t) /\ task'[t] \in Record /\ task'[t].kind = "deleteUser"
      /\ task'[t].phase = "contacts" /\ task'[t].user = u /\ task'[t].name = row.name
      /\ task'[t].row = row
      BY <1>1, <1>2, <1>3, StartsAs DEF Inv
<1>5. /\ BrokenGrows
      /\ \A s \in Tasks : s # t => Apart(task[s], task[t])'
      BY <1>0, <1>2, <1>4, OverlapsShow DEF Changes, Live
<1>6. TablesStay BY DEF DeleteUser, TablesStay
<1>7. TaskFine(task'[t])
      <2>1. Shape(task'[t])
            BY <1>0, <1>4, CascadeIs DEF Shape, InOrder, Equipped, Changes
      <2>2. UsersFine(task'[t])
            BY <1>0, <1>4 DEF UsersFine, Creates, Changes, Live
      <2>3. RowsFine(task'[t])
            <3>1. \A table \in Clearing : ~(Index("contacts") > Index(table))
                  <4>1. Index("contacts") = 1
                        BY IndexIs, CascadeIs DEF Cascade
                  <4> QED BY <4>1, IndexIs
            <3> QED BY <1>4, <3>1, CascadeIs, DirectoryAssumption DEF RowsFine, PassedBy
      <2> QED BY <1>4, <2>1, <2>2, <2>3 DEF TaskFine, CopyFine, UnseenFine, TokensFine
<1>9. ~LeavesNamesTorn(task'[t]) BY <1>4 DEF LeavesNamesTorn
<1> QED BY <1>1, <1>2, <1>3, <1>5, <1>6, <1>7, <1>9, RequestKeeps

\* The handlers about keys stand in nobody's way.
LEMMA KeyHandlerFine ==
    ASSUME Inv, NEW t \in Tasks, OnlyMoves(t),
           task'[t].kind \in {"exchange", "deleteKey", "deletePat"},
           Shape(task'[t]), task'[t].phase # "idle",
           task'[t].kind = "exchange" /\ task'[t].user # NoUser => users[task'[t].user].life # "unborn"
    PROVE /\ TaskFine(task'[t]) /\ ~LeavesNamesTorn(task'[t])
          /\ \A s \in Tasks : s # t => Apart(task[s], task[t])'
<1>1. task'[t].phase \in {"subject", "actIn", "touch", "dropKey"}
      BY DEF Shape, InOrder
<1> QED BY <1>1 DEF TaskFine, UsersFine, Creates, Changes, CopyFine, UnseenFine, RowsFine, TokensFine,
                    LeavesNamesTorn, Apart

LEMMA DeleteApiKeyKeeps ==
    ASSUME Inv, NEW t \in Tasks, NEW k \in Keys, DeleteApiKey(t, k)
    PROVE Inv'
<1> PICK kind : kind = IF keys[k].user = NoUser THEN "deleteKey" ELSE "deletePat" OBVIOUS
<1> DEFINE r == [Idle EXCEPT !.phase = "dropKey", !.key = k]
<1>1. r \in Record /\ r.phase = "dropKey" /\ r.key = k
      BY IdleIs DEF Record, Phases
<1>2. Starts(t, kind, r) /\ TablesStay /\ BrokenGrows
      BY DEF DeleteApiKey, TablesStay, BrokenGrows, Inv, Typed
<1> HIDE DEF r
<1>3. kind \in Kinds /\ kind \in {"deleteKey", "deletePat"} BY KindsAre
<1>4. /\ OnlyMoves(t) /\ task'[t] \in Record /\ task'[t].kind = kind
      /\ task'[t].phase = "dropKey" /\ task'[t].key = k
      BY <1>1, <1>2, <1>3, StartsAs DEF Inv
<1>5. Shape(task'[t]) BY <1>3, <1>4 DEF Shape, InOrder, Equipped, Changes
<1> QED BY <1>1, <1>2, <1>3, <1>4, <1>5, KeyHandlerFine, RequestKeeps

LEMMA ExchangeKeeps ==
    ASSUME Inv, NEW t \in Tasks, NEW k \in Keys, NEW id \in Tenants, Exchange(t, k, id)
    PROVE Inv'
<1> PICK u : u = keys[k].user OBVIOUS
<1> PICK phase : phase = IF u = NoUser THEN "actIn" ELSE "subject" OBVIOUS
<1>0. /\ u \in Users \cup {NoUser} /\ phase \in {"actIn", "subject"}
      /\ phase = "subject" => u \in Users
      /\ u # NoUser => users[u].life # "unborn"
      BY DEF Exchange, Inv, Typed, KeyRow, Settled
<1> DEFINE r == [Idle EXCEPT !.phase = phase, !.key = k, !.tenant = id, !.user = u]
<1>a. phase \in Phases BY <1>0 DEF Phases
<1>1. r \in Record /\ r.phase = phase /\ r.key = k /\ r.tenant = id /\ r.user = u
      BY <1>0, <1>a, IdleIs DEF Record
<1>2. Starts(t, "exchange", r) /\ TablesStay /\ BrokenGrows
      BY DEF Exchange, TablesStay, BrokenGrows, Inv, Typed
<1> HIDE DEF r
<1>3. "exchange" \in Kinds BY KindsAre
<1>4. /\ OnlyMoves(t) /\ task'[t] \in Record /\ task'[t].kind = "exchange"
      /\ task'[t].phase = phase /\ task'[t].key = k /\ task'[t].user = u
      BY <1>1, <1>2, <1>3, StartsAs DEF Inv
<1>5. Shape(task'[t]) BY <1>0, <1>4 DEF Shape, InOrder, Equipped, Changes
<1> QED BY <1>0, <1>1, <1>2, <1>3, <1>4, <1>5, KeyHandlerFine, RequestKeeps

-----------------------------------------------------------------------------
(* Steps that only look *)

LEMMA QuietTables ==
    ASSUME Inv, TablesStay, broken' = broken
    PROVE BrokenGrows
BY DEF Inv, Typed, BrokenGrows

\* A look that finds nobody listed remembers who is there all the same.
LEMMA LookKeeps ==
    ASSUME Inv, NEW t \in Tasks, NEW unseen \in SUBSET (Users \cup Keys),
           NEW phase \in {"lookKeys", "recipients"},
           task[t].phase \in {"lookUsers", "lookKeys"},
           task' = [task EXCEPT ![t].phase = phase, ![t].unseen = unseen],
           LivingIn(task[t].tenant) \subseteq unseen,
           phase = "recipients" => KeysOf(task[t].tenant) \subseteq unseen,
           TablesStay, broken' = broken
    PROVE Inv'
<1> DEFINE r == [task[t] EXCEPT !.phase = phase, !.unseen = unseen]
<1>1. TaskFine(task[t]) /\ task[t] \in Record /\ task[t].kind = "deleteTenant" /\ Shape(task[t])
      BY TaskIs, KindAt
<1>2. /\ r \in Record /\ r.kind = "deleteTenant" /\ r.phase = phase /\ r.unseen = unseen
      /\ r.tenant = task[t].tenant /\ r.user = task[t].user /\ r.name = task[t].name
      BY <1>1 DEF Record, Phases
<1>3. task' = [task EXCEPT ![t] = r] OBVIOUS
<1> HIDE DEF r
<1>4. OnlyMoves(t) /\ task'[t] = r BY <1>2, <1>3 DEF Inv, Typed, OnlyMoves
<1>5. Shape(r) BY <1>1, <1>2, CascadeIs DEF Shape, InOrder, Equipped, Changes
<1>6. UnseenFine(r) BY <1>2 DEF UnseenFine
<1>7. TaskFine(r)
      BY <1>2, <1>5, <1>6 DEF TaskFine, UsersFine, Creates, Changes, CopyFine, RowsFine, TokensFine
<1>8. \A s \in Tasks : s # t => Apart(task[s], task[t])'
      BY <1>1, <1>2, <1>4, SameHandlerApart
<1>9. ~LeavesNamesTorn(task[t]) /\ ~LeavesNamesTorn(r) BY <1>2 DEF LeavesNamesTorn
<1> QED BY <1>4, <1>7, <1>8, <1>9, QuietTables, QuietKeeps

LEMMA LookUsersKeeps ==
    ASSUME Inv, NEW t \in Tasks, LookUsers(t)
    PROVE Inv'
<1>1. TablesStay /\ broken' = broken BY DEF LookUsers, TablesStay
<1>2. CASE Ends(t)
      BY <1>1, <1>2, QuietTables, EndKeeps DEF LookUsers, At, LeavesNamesTorn
<1> PICK here : here = LivingIn(task[t].tenant) OBVIOUS
<1>3. here \in SUBSET (Users \cup Keys) BY DEF LivingIn
<1>4. CASE task' = [task EXCEPT ![t].phase = "lookKeys", ![t].unseen = here]
      BY <1>1, <1>3, <1>4, LookKeeps DEF LookUsers, At
<1> QED BY <1>2, <1>4 DEF LookUsers

LEMMA LookKeysKeeps ==
    ASSUME Inv, NEW t \in Tasks, LookKeys(t)
    PROVE Inv'
<1>1. TablesStay /\ broken' = broken /\ At(t, "lookKeys") BY DEF LookKeys, TablesStay
<1>2. CASE Ends(t)
      BY <1>1, <1>2, QuietTables, EndKeeps DEF At, LeavesNamesTorn
<1> PICK all : all = task[t].unseen \cup KeysOf(task[t].tenant) OBVIOUS
<1>3. all \in SUBSET (Users \cup Keys) BY TaskIs DEF KeysOf, Record
<1>4. CASE task' = [task EXCEPT ![t].phase = "recipients",
                                ![t].unseen = @ \cup KeysOf(task[t].tenant)]
      <2>1. task' = [task EXCEPT ![t].phase = "recipients", ![t].unseen = all] BY <1>4
      <2>2. LivingIn(task[t].tenant) \subseteq all
            BY <1>1, TaskIs, KindAt DEF TaskFine, UnseenFine, At
      <2> QED BY <1>1, <1>3, <2>1, <2>2, LookKeeps DEF At
<1> QED BY <1>2, <1>4 DEF LookKeys

LEMMA NameTakenKeeps ==
    ASSUME Inv, NEW t \in Tasks, NameTaken(t)
    PROVE Inv'
BY QuietTables, EndKeeps DEF NameTaken, TablesStay, At, LeavesNamesTorn

LEMMA TouchKeyKeeps ==
    ASSUME Inv, NEW t \in Tasks, TouchKey(t)
    PROVE Inv'
BY QuietTables, EndKeeps DEF TouchKey, TablesStay, At, LeavesNamesTorn

\* A refusal after the rename marks the account, and so does a stop half-way.
LEMMA RefusePatchKeeps ==
    ASSUME Inv, NEW t \in Tasks, RefusePatch(t)
    PROVE Inv'
<1>1. task[t].user \in Users BY TaskIs, KindAt DEF RefusePatch, Shape, Equipped, Changes, At
<1>2. TablesStay /\ BrokenGrows /\ Ends(t)
      BY <1>1 DEF RefusePatch, TablesStay, BrokenGrows, Inv, Typed
<1>3. broken' # {} \/ ~LeavesNamesTorn(task[t]) BY DEF RefusePatch, LeavesNamesTorn, At
<1> QED BY <1>2, <1>3, EndKeeps

LEMMA StopKeeps ==
    ASSUME Inv, NEW t \in Tasks, Stop(t)
    PROVE Inv'
<1>1. LeavesNamesTorn(task[t]) => task[t].user \in Users
      BY TaskIs, KindAt DEF LeavesNamesTorn, Shape, Equipped, Changes, At
<1>2. TablesStay /\ BrokenGrows /\ Ends(t)
      BY <1>1 DEF Stop, TablesStay, BrokenGrows, Inv, Typed
<1>3. broken' # {} \/ ~LeavesNamesTorn(task[t]) BY DEF Stop
<1> QED BY <1>2, <1>3, EndKeeps

LEMMA ExchangeSubjectKeeps ==
    ASSUME Inv, NEW t \in Tasks, ExchangeSubject(t)
    PROVE Inv'
<1>1. TablesStay /\ broken' = broken /\ At(t, "subject") BY DEF ExchangeSubject, TablesStay
<1>2. CASE Ends(t)
      BY <1>1, <1>2, QuietTables, EndKeeps DEF At, LeavesNamesTorn
<1>3. CASE Live(task[t].user) /\ task' = [task EXCEPT ![t].phase = "actIn",
                                                      ![t].row = users[task[t].user]]
      <2>1. /\ TaskFine(task[t]) /\ task[t] \in Record /\ task[t].kind = "exchange" /\ Shape(task[t])
            /\ task[t].key \in Keys /\ task[t].user \in Users
            BY <1>1, TaskIs, KindAt DEF Shape, Equipped, At
      <2>2. QED
            <3> PICK row \in UserRow : row = users[task[t].user] BY <2>1 DEF Inv, Typed
            <3> DEFINE r == [task[t] EXCEPT !.phase = "actIn", !.row = row]
            <3>1. /\ r \in Record /\ r.kind = "exchange" /\ r.phase = "actIn" /\ r.key = task[t].key
                  /\ r.user = task[t].user
                  BY <2>1 DEF Record, Phases
            <3>2. task' = [task EXCEPT ![t] = r] BY <1>3
            <3> HIDE DEF r
            <3>3. OnlyMoves(t) /\ task'[t] = r BY <3>1, <3>2 DEF Inv, Typed, OnlyMoves
            <3>4. Shape(r) BY <2>1, <3>1 DEF Shape, InOrder, Equipped, Changes
            <3>5. /\ TaskFine(task'[t]) /\ ~LeavesNamesTorn(task'[t])
                  /\ \A s \in Tasks : s # t => Apart(task[s], task[t])'
                  BY <1>3, <3>1, <3>3, <3>4, KeyHandlerFine DEF Live
            <3>6. ~LeavesNamesTorn(task[t]) BY <1>1 DEF At, LeavesNamesTorn
            <3> QED BY <1>1, <3>3, <3>5, <3>6, QuietTables, QuietKeeps
<1> QED BY <1>2, <1>3 DEF ExchangeSubject

LEMMA ExchangeTenantKeeps ==
    ASSUME Inv, NEW t \in Tasks, ExchangeTenant(t)
    PROVE Inv'
<1>1. TablesStay /\ broken' = broken /\ At(t, "actIn") BY DEF ExchangeTenant, TablesStay
<1>2. CASE Ends(t)
      BY <1>1, <1>2, QuietTables, EndKeeps DEF At, LeavesNamesTorn
<1>3. CASE Goes(t, "touch")
      <2>1. OnlyMoves(t) /\ InHand(t) /\ task'[t].phase = "touch"
            BY <1>3, GoesTo DEF Inv, Phases
      <2>2. /\ TaskFine(task[t]) /\ task[t].kind = "exchange" /\ Shape(task[t])
            /\ task[t].key \in Keys
            BY <1>1, TaskIs, KindAt DEF Shape, Equipped, At
      <2>3. task'[t].kind = "exchange" /\ task'[t].key \in Keys /\ task'[t].user = task[t].user
            BY <2>1, <2>2 DEF InHand
      <2>4. Shape(task'[t]) BY <2>1, <2>3 DEF Shape, InOrder, Equipped, Changes, OnlyMoves
      <2>5. /\ TaskFine(task'[t]) /\ ~LeavesNamesTorn(task'[t])
            /\ \A s \in Tasks : s # t => Apart(task[s], task[t])'
            BY <2>1, <2>2, <2>3, <2>4, KeyHandlerFine DEF TaskFine, UsersFine
      <2>6. ~LeavesNamesTorn(task[t]) BY <1>1 DEF At, LeavesNamesTorn
      <2> QED BY <1>1, <2>1, <2>5, <2>6, QuietTables, QuietKeeps
<1> QED BY <1>2, <1>3 DEF ExchangeTenant

-----------------------------------------------------------------------------
(* What the other handlers hold goes on being true *)

\* A handler stays as it is, or a deletion of a tenant learns of newcomers.
Stays(s) ==
    /\ task'[s] \in Record
    /\ task[s].kind # "deleteTenant" => task'[s] = task[s]
    /\ task'[s].kind = task[s].kind /\ task'[s].phase = task[s].phase
    /\ task'[s].tenant = task[s].tenant /\ task'[s].user = task[s].user
    /\ task'[s].name = task[s].name /\ task'[s].row = task[s].row
    /\ task[s].unseen \subseteq task'[s].unseen

LEMMA MovesAlone ==
    ASSUME Inv, NEW t \in Tasks, OnlyMoves(t)
    PROVE \A s \in Tasks : s # t => Stays(s)
BY DEF Stays, OnlyMoves, Inv, Typed

\* An account keeps its home and its name, or it is the one t is at work on.
UsersGo(t) ==
    \A u \in Users :
        \/ /\ users'[u].life = users[u].life /\ users'[u].tenant = users[u].tenant
           /\ users'[u].name = users[u].name
        \/ /\ u = task[t].user /\ Creates(task[t])
           /\ users[u].life = "unborn" /\ users'[u].life = "live"
        \/ /\ u = task[t].user /\ Changes(task[t])
           /\ users[u].life # "unborn" /\ users'[u].life # "unborn"
           /\ users'[u].tenant = users[u].tenant

\* A tenant is created anew, or has a new version, or is what it was.
TenantsGo ==
    \A id \in Tenants :
        \/ tenants'[id].born > tenants[id].born
        \/ tenants'[id].born = tenants[id].born /\ tenants'[id].ver > tenants[id].ver
        \/ /\ tenants'[id].born = tenants[id].born /\ tenants'[id].ver = tenants[id].ver
           /\ tenants'[id].edits = tenants[id].edits

\* Keys end, or are missed.
KeysGo ==
    \A k \in Keys :
        keys'[k].life = "live" =>
            /\ keys[k].life = "live"
            /\ keys'[k].tenant = keys[k].tenant /\ keys'[k].user = keys[k].user
            /\ keys[k].missed => keys'[k].missed

NobodyArrives ==
    \A u \in Users : users'[u].life = "live" =>
        users[u].life = "live" /\ users'[u].tenant = users[u].tenant

LEMMA ShapesStay ==
    ASSUME Inv, NEW s \in Tasks, Stays(s)
    PROVE Shape(task[s])'
<1>1. Shape(task[s]) BY TaskIs
<1>2. CASE task[s].kind # "deleteTenant" BY <1>1, <1>2 DEF Stays
<1>3. CASE task[s].kind = "deleteTenant"
      BY <1>1, <1>3, IdleIs DEF Stays, Shape, InOrder, Equipped, Changes
<1> QED BY <1>2, <1>3

LEMMA UsersStay ==
    ASSUME Inv, NEW t \in Tasks, NEW s \in Tasks, s # t, Stays(s), UsersGo(t), BrokenGrows
    PROVE UsersFine(task[s])'
<1>1. UsersFine(task[s]) /\ Shape(task[s]) /\ task[s] \in Record /\ UsersFine(task[t])
      BY TaskIs DEF TaskFine
<1>2. Apart(task[s], task[t]) BY DEF Inv, Alone
<1>3. /\ task'[s].kind = task[s].kind /\ task'[s].phase = task[s].phase
      /\ task'[s].user = task[s].user /\ task'[s].row = task[s].row
      BY DEF Stays
<1>4. (Creates(task[s])' <=> Creates(task[s])) /\ (Changes(task[s])' <=> Changes(task[s]))
      BY <1>3 DEF Creates, Changes
<1>5. ASSUME Creates(task[s])
      PROVE  users'[task[s].user].life = "unborn"
      <2>1. task[s].user \in Users /\ users[task[s].user].life = "unborn"
            BY <1>1, <1>5 DEF Creates, Record, UsersFine
      <2> QED BY <1>2, <1>5, <2>1 DEF UsersGo, Apart
<1>6. ASSUME task[s].kind = "exchange", task[s].user # NoUser
      PROVE  users'[task[s].user].life # "unborn"
      <2>1. task[s].user \in Users /\ users[task[s].user].life # "unborn"
            BY <1>1, <1>6 DEF Record, UsersFine
      <2> QED BY <2>1 DEF UsersGo
<1>7. ASSUME Changes(task[s])
      PROVE  /\ users'[task[s].user].life # "unborn"
             /\ users'[task[s].user].tenant = task[s].row.tenant
             /\ task[s].user \notin broken' =>
                    IF task[s].phase = "dropGuard" THEN users'[task[s].user].life = "gone"
                    ELSE users'[task[s].user].life = "live"
                         /\ users'[task[s].user].name = task[s].row.name
      <2>1. task[s].user \in Users /\ users[task[s].user].life # "unborn"
            /\ users[task[s].user].tenant = task[s].row.tenant
            BY <1>1, <1>7 DEF Shape, Equipped, UsersFine
      <2>2. CASE task[s].user = task[t].user /\ Changes(task[t])
            BY <1>2, <1>7, <2>1, <2>2 DEF UsersGo, Apart, BrokenGrows
      <2>3. CASE ~(task[s].user = task[t].user /\ Changes(task[t]))
            <3>1. /\ users'[task[s].user].life = users[task[s].user].life
                  /\ users'[task[s].user].tenant = users[task[s].user].tenant
                  /\ users'[task[s].user].name = users[task[s].user].name
                  BY <2>1, <2>3 DEF UsersGo
            <3> QED BY <1>1, <1>7, <2>1, <3>1 DEF UsersFine, BrokenGrows, Live
      <2> QED BY <2>2, <2>3
<1> QED BY <1>3, <1>4, <1>5, <1>6, <1>7 DEF UsersFine, Live

LEMMA CopiesStay ==
    ASSUME Inv, NEW s \in Tasks, Stays(s), TenantsGo, Typed'
    PROVE CopyFine(task[s])'
<1> SUFFICES ASSUME task'[s].phase = "putTenant" PROVE CopyFine(task[s])'
    BY DEF CopyFine
<1>1. /\ task[s].phase = "putTenant" /\ task[s].tenant \in Tenants /\ task'[s] = task[s]
      /\ CopyFine(task[s]) /\ task[s].copy \in AnyTenantRow
      BY TaskIs, KindAt, ZenonT(60) DEF Stays, At, TaskFine, Shape, Equipped, Record
<1>2. tenants[task[s].tenant] \in AnyTenantRow /\ tenants'[task[s].tenant] \in AnyTenantRow
      BY <1>1 DEF Inv, Typed
<1> QED BY <1>1, <1>2 DEF CopyFine, TenantsGo, AnyTenantRow

LEMMA UnseenStay ==
    ASSUME Inv, NEW s \in Tasks, Stays(s),
           task[s].kind = "deleteTenant" =>
               \A u \in Users : Live(u)' /\ users'[u].tenant = task[s].tenant =>
                   (Live(u) /\ users[u].tenant = task[s].tenant) \/ u \in task'[s].unseen,
           task[s].kind = "deleteTenant" =>
               \A k \in Keys : keys'[k].life = "live" /\ keys'[k].tenant = task[s].tenant =>
                   (keys[k].life = "live" /\ keys[k].tenant = task[s].tenant) \/ k \in task'[s].unseen
    PROVE UnseenFine(task[s])'
<1>1. UnseenFine(task[s]) BY TaskIs DEF TaskFine
<1> QED BY <1>1 DEF UnseenFine, Stays, LivingIn, KeysOf

LEMMA RowsStay ==
    ASSUME Inv, NEW s \in Tasks, Stays(s), rows' \subseteq rows, late' = late
    PROVE RowsFine(task[s])'
<1>1. RowsFine(task[s]) BY TaskIs DEF TaskFine
<1> QED BY <1>1 DEF RowsFine, Stays, PassedBy

LEMMA TokensStay ==
    ASSUME Inv, NEW s \in Tasks, Stays(s), KeysGo
    PROVE TokensFine(task[s])'
<1>1. TokensFine(task[s]) BY TaskIs DEF TaskFine
<1> QED BY <1>1 DEF TokensFine, Stays, TokensOf, KeysGo

\* All of it, when nobody and nothing new appears.
LEMMA OthersStay ==
    ASSUME Inv, Typed', NEW t \in Tasks, OnlyMoves(t), UsersGo(t), TenantsGo, KeysGo,
           NobodyArrives, rows' \subseteq rows, late' = late, BrokenGrows
    PROVE \A s \in Tasks : s # t => TaskFine(task[s])'
<1> SUFFICES ASSUME NEW s \in Tasks, s # t PROVE TaskFine(task[s])' OBVIOUS
<1>1. Stays(s) BY MovesAlone
<1>2. UnseenFine(task[s])' BY <1>1, UnseenStay DEF NobodyArrives, KeysGo, Live
<1> QED BY <1>1, <1>2, ShapesStay, UsersStay, CopiesStay, RowsStay, TokensStay DEF TaskFine

LEMMA IdleStaysFine == TaskFine(Idle)'
<1>1. Shape(Idle) BY IdleFine DEF TaskFine
<1> QED BY <1>1, IdleIs
        DEF TaskFine, Creates, Changes, UsersFine, CopyFine, UnseenFine, RowsFine, TokensFine

LEMMA IdleApart ==
    ASSUME NEW t \in Tasks, task'[t] = Idle
    PROVE \A s \in Tasks : s # t => Apart(task[s], task[t])'
BY IdleIs DEF Apart, Creates, Changes

LEMMA AloneStays ==
    ASSUME Inv, NEW t \in Tasks, \A s \in Tasks : s # t => Stays(s), BrokenGrows,
           \A s \in Tasks : s # t => Apart(task[s], task[t])'
    PROVE Alone'
<1> SUFFICES ASSUME NEW a \in Tasks, NEW b \in Tasks, a # b
             PROVE  Apart(task[a], task[b])'
    BY DEF Alone
<1>1. CASE b = t BY <1>1
<1>2. CASE a = t BY <1>2 DEF Apart
<1>3. CASE a # t /\ b # t
      BY <1>3 DEF Inv, Alone, Apart, Stays, BrokenGrows, Creates, Changes
<1> QED BY <1>1, <1>2, <1>3

\* Names and guards stay, and nobody is half-way with a rename that was not before.
LEMMA NamesStay ==
    ASSUME Inv, BrokenGrows, guards' = guards,
           \A u \in Users : Live(u)' = Live(u) /\ users'[u].name = users[u].name,
           \A s \in Tasks : \/ Stays(s)
                            \/ ~LeavesNamesTorn(task[s]) /\ ~LeavesNamesTorn(task'[s])
    PROVE NamesRight'
<1> SUFFICES ASSUME broken' = {}, NEW u \in Users, NEW n \in Names
             PROVE  (guards[n] = u)' <=> HoldsName(u, n)'
    BY DEF NamesRight
<1>1. guards[n] = u <=> HoldsName(u, n) BY DEF Inv, NamesRight, BrokenGrows
<1>2. \A s \in Tasks : /\ LeavesNamesTorn(task'[s]) <=> LeavesNamesTorn(task[s])
                       /\ LeavesNamesTorn(task[s]) => task'[s].user = task[s].user
                                                      /\ task'[s].name = task[s].name
      BY DEF Stays, LeavesNamesTorn
<1>3. \A s \in Tasks : /\ Renamed(task'[s]) <=> Renamed(task[s])
                       /\ Renamed(task[s]) => task'[s].user = task[s].user
      BY DEF Stays, LeavesNamesTorn, Renamed
<1>4. HoldsName(u, n)' <=> HoldsName(u, n) BY <1>2, <1>3 DEF HoldsName
<1> QED BY <1>1, <1>4

\* Nothing new is left behind, and no owner leaves.
LEMMA OutlivesStay ==
    ASSUME Inv, KeysGo, rows' \subseteq rows, late' = late,
           \A u \in Users : users'[u].life = "gone" => users[u].life = "gone",
           \A id \in Tenants : tenants[id].exists => tenants'[id].exists
    PROVE NothingOutlivesItsOwner'
<1>1. \A p \in rows : p[1] \in Users \/ p[1] \in Tenants BY DEF Inv, Typed, Owned
<1>2. \A k \in Keys : keys[k].user \in Users \cup {NoUser} BY DEF Inv, Typed, KeyRow
<1>3. \A p \in rows' : p \notin late' =>
          IF p[1] \in Users THEN users'[p[1]].life # "gone" ELSE tenants'[p[1]].exists
      BY <1>1 DEF Inv, NothingOutlivesItsOwner
<1>4. \A k \in Keys : keys'[k].life = "live" /\ keys'[k].user # NoUser =>
          users'[keys'[k].user].life # "gone" \/ keys'[k].missed
      BY <1>2 DEF Inv, NothingOutlivesItsOwner, KeysGo
<1> QED BY <1>3, <1>4 DEF NothingOutlivesItsOwner

\* Who stays where accounts, names and keys are not touched.
PeopleStay == UNCHANGED <<store, users, guards, keys, broken>>

LEMMA PeopleStayFine ==
    ASSUME Inv, PeopleStay, NEW t \in Tasks
    PROVE /\ UsersGo(t) /\ KeysGo /\ NobodyArrives /\ BrokenGrows /\ Settled'
          /\ \A u \in Users : Live(u)' = Live(u) /\ users'[u].name = users[u].name
          /\ \A u \in Users : users'[u].life = "gone" => users[u].life = "gone"
BY DEF PeopleStay, UsersGo, KeysGo, NobodyArrives, BrokenGrows, Inv, Typed, Settled, Live

-----------------------------------------------------------------------------
(* Steps about tenants, and about rows kept for others *)

LEMMA TenantStep ==
    ASSUME Inv, NEW t \in Tasks, OnlyMoves(t), PeopleStay,
           TenantsGo, tenants' \in [Tenants -> AnyTenantRow], rows' \subseteq rows, late' = late,
           TaskFine(task[t])', \A s \in Tasks : s # t => Apart(task[s], task[t])',
           ~LeavesNamesTorn(task[t]), ~LeavesNamesTorn(task'[t]), NothingOutlivesItsOwner'
    PROVE Inv'
<1>1. Typed' BY DEF Inv, Typed, OnlyMoves, PeopleStay
<1>2. /\ UsersGo(t) /\ KeysGo /\ NobodyArrives /\ BrokenGrows /\ Settled'
      /\ \A u \in Users : Live(u)' = Live(u) /\ users'[u].name = users[u].name
      BY PeopleStayFine
<1>3. \A s \in Tasks : TaskFine(task[s])' BY <1>1, <1>2, OthersStay
<1>4. Alone' BY <1>2, MovesAlone, AloneStays
<1>5. NamesRight' BY <1>2, MovesAlone, NamesStay DEF PeopleStay
<1> QED BY <1>1, <1>2, <1>3, <1>4, <1>5 DEF Inv

\* A tenant that is there goes on to its owner.
LEMMA OwnerNext ==
    ASSUME Inv, NEW t \in Tasks, task[t].kind = "createTenant", task[t].name # NoName,
           Goes(t, "reserve"), PeopleStay
    PROVE /\ OnlyMoves(t) /\ TaskFine(task[t])' /\ ~LeavesNamesTorn(task'[t])
          /\ \A s \in Tasks : s # t => Apart(task[s], task[t])'
<1>1. OnlyMoves(t) /\ InHand(t) /\ task'[t].phase = "reserve"
      BY GoesTo DEF Inv, Phases
<1>2. TaskFine(task[t]) /\ Shape(task[t]) /\ task[t] \in Record BY TaskIs
<1>3. task[t].user \in Users /\ task[t].name \in Names
      BY <1>2 DEF Shape, Equipped, Record
<1>4. /\ task'[t] \in Record /\ task'[t].kind = "createTenant" /\ task'[t].tenant = task[t].tenant
      /\ task'[t].user = task[t].user /\ task'[t].name = task[t].name
      BY <1>1 DEF OnlyMoves, InHand
<1>5. Shape(task'[t]) BY <1>1, <1>2, <1>3, <1>4 DEF Shape, InOrder, Equipped, Changes
<1>6. UsersFine(task[t])'
      BY <1>2, <1>4 DEF TaskFine, UsersFine, Creates, Changes, PeopleStay
<1>7. TaskFine(task[t])'
      BY <1>1, <1>4, <1>5, <1>6 DEF TaskFine, CopyFine, UnseenFine, RowsFine, TokensFine
<1>8. \A s \in Tasks : s # t => Apart(task[s], task[t])'
      BY <1>1, <1>4, SameHandlerApart DEF PeopleStay
<1>9. ~LeavesNamesTorn(task'[t]) BY <1>1 DEF LeavesNamesTorn
<1> QED BY <1>1, <1>7, <1>8, <1>9

\* A handler that is through has nothing to prove but what became of the tenants.
LEMMA TenantStepEnds ==
    ASSUME Inv, NEW t \in Tasks, Ends(t), PeopleStay, TenantsGo,
           tenants' \in [Tenants -> AnyTenantRow], rows' \subseteq rows, late' = late,
           ~LeavesNamesTorn(task[t]), NothingOutlivesItsOwner'
    PROVE Inv'
<1>1. OnlyMoves(t) /\ task'[t] = Idle BY EndsAt DEF Inv
<1>2. ~LeavesNamesTorn(task'[t]) BY <1>1, IdleIs DEF LeavesNamesTorn
<1> QED BY <1>1, <1>2, IdleStaysFine, IdleApart, TenantStep

LEMMA InsertTenantKeeps ==
    ASSUME Inv, NEW t \in Tasks, InsertTenant(t)
    PROVE Inv'
<1> DEFINE id == task[t].tenant
           fresh == FreshTenant(tenants[id].born + 1)
           next == IF task[t].name = NoName THEN "idle" ELSE "reserve"
<1>1. /\ At(t, "insertTenant") /\ PeopleStay /\ UNCHANGED <<rows, late>>
      BY DEF InsertTenant, PeopleStay
<1>2. /\ task[t].kind = "createTenant" /\ task[t] \in Record /\ id \in Tenants
      /\ TaskFine(task[t]) /\ Shape(task[t])
      /\ tenants[id] \in AnyTenantRow
      BY <1>1, TaskIs, KindAt DEF Shape, Equipped, Inv, Typed
<1>3. ~LeavesNamesTorn(task[t]) BY <1>1 DEF At, LeavesNamesTorn
<1>4. CASE Ends(t) /\ UNCHANGED tenants
      <2>1. TablesStay /\ broken' = broken BY <1>1, <1>4 DEF PeopleStay, TablesStay
      <2> QED BY <1>3, <1>4, <2>1, QuietTables, EndKeeps
<1>5. CASE /\ ~tenants[id].exists
           /\ tenants' = [tenants EXCEPT ![id] = fresh]
           /\ \/ task' = [task EXCEPT ![t].phase = "putTenant", ![t].copy = fresh]
              \/ IF next = "idle" THEN Ends(t) ELSE Goes(t, next)
      <2>1. /\ fresh \in AnyTenantRow /\ fresh.exists /\ fresh.ver = 0 /\ fresh.edits = {}
            /\ fresh.born = tenants[id].born + 1
            BY <1>2 DEF FreshTenant, AnyTenantRow
      <2> PICK row \in AnyTenantRow : row = fresh BY <2>1
      <2> HIDE DEF fresh
      <2>2. /\ tenants' \in [Tenants -> AnyTenantRow] /\ tenants'[id] = row
            /\ \A other \in Tenants : other # id => tenants'[other] = tenants[other]
            BY <1>2, <1>5 DEF Inv, Typed
      <2>3. TenantsGo BY <1>2, <2>1, <2>2 DEF TenantsGo, AnyTenantRow
      <2>4. NothingOutlivesItsOwner'
            <3>1. \A other \in Tenants : tenants[other].exists => tenants'[other].exists
                  BY <2>1, <2>2
            <3> QED BY <1>1, <3>1, PeopleStayFine, OutlivesStay
      <2>5. CASE task' = [task EXCEPT ![t].phase = "putTenant", ![t].copy = row]
            <3> DEFINE r == [task[t] EXCEPT !.phase = "putTenant", !.copy = row]
            <3>1. /\ r \in Record /\ r.kind = "createTenant" /\ r.phase = "putTenant"
                  /\ r.tenant = id /\ r.copy = row /\ r.user = task[t].user /\ r.name = task[t].name
                  BY <1>2 DEF Record, Phases
            <3>2. task' = [task EXCEPT ![t] = r] BY <2>5
            <3> HIDE DEF r
            <3>3. OnlyMoves(t) /\ task'[t] = r BY <3>1, <3>2 DEF Inv, Typed, OnlyMoves
            <3>4. Shape(r) BY <1>2, <3>1, CascadeIs DEF Shape, InOrder, Equipped, Changes
            <3>5. UsersFine(task[t])'
                  BY <1>1, <1>2, <3>1, <3>3
                  DEF TaskFine, UsersFine, Creates, Changes, PeopleStay
            <3>6. CopyFine(task[t])' BY <2>1, <2>2, <3>1, <3>3 DEF CopyFine, AnyTenantRow
            <3>7. TaskFine(task[t])'
                  BY <3>1, <3>3, <3>4, <3>5, <3>6 DEF TaskFine, UnseenFine, RowsFine, TokensFine
            <3>8. \A s \in Tasks : s # t => Apart(task[s], task[t])'
                  BY <1>1, <1>2, <3>1, <3>3, SameHandlerApart DEF PeopleStay
            <3>9. ~LeavesNamesTorn(task'[t]) BY <3>1, <3>3 DEF LeavesNamesTorn
            <3> QED BY <1>1, <1>3, <2>2, <2>3, <2>4, <3>3, <3>7, <3>8, <3>9, TenantStep
      <2>6. CASE Ends(t)
            BY <1>1, <1>3, <2>2, <2>3, <2>4, <2>6, TenantStepEnds
      <2>7. CASE task[t].name # NoName /\ Goes(t, "reserve")
            BY <1>1, <1>2, <1>3, <2>2, <2>3, <2>4, <2>7, OwnerNext, TenantStep
      <2> QED BY <1>5, <2>5, <2>6, <2>7
<1> QED BY <1>4, <1>5 DEF InsertTenant

LEMMA PutTenantKeeps ==
    ASSUME Inv, NEW t \in Tasks, PutTenant(t)
    PROVE Inv'
<1> DEFINE id == task[t].tenant
           copy == task[t].copy
           put == [copy EXCEPT !.ver = @ + 1, !.edits = @ \cup {t}, !.born = tenants[id].born]
           owner == task[t].kind = "createTenant" /\ task[t].name # NoName
<1>1. /\ At(t, "putTenant") /\ PeopleStay /\ UNCHANGED <<rows, late>>
      BY DEF PutTenant, PeopleStay
<1>2. id \in Tenants /\ tenants[id] \in AnyTenantRow /\ copy \in AnyTenantRow
      BY <1>1, TaskIs, KindAt DEF Shape, Equipped, Inv, Typed, Record
<1>3. ~LeavesNamesTorn(task[t]) BY <1>1 DEF At, LeavesNamesTorn
<1>4. CASE Ends(t) /\ UNCHANGED tenants
      <2>1. TablesStay /\ broken' = broken BY <1>1, <1>4 DEF PeopleStay, TablesStay
      <2> QED BY <1>3, <1>4, <2>1, QuietTables, EndKeeps
<1>5. CASE /\ tenants[id].exists /\ tenants[id].ver = copy.ver
           /\ tenants' = [tenants EXCEPT ![id] = put]
           /\ IF owner THEN Goes(t, "reserve") ELSE Ends(t)
      <2>0. copy.exists BY <1>1, TaskIs DEF TaskFine, CopyFine, At
      <2> PICK c \in AnyTenantRow : c = copy BY <1>2
      <2> PICK born \in Nat : born = tenants[id].born BY <1>2 DEF AnyTenantRow
      <2> PICK ver \in Nat : ver = c.ver + 1 BY DEF AnyTenantRow
      <2> PICK edits \in SUBSET Tasks : edits = c.edits \cup {t} BY DEF AnyTenantRow
      <2> PICK row : row = [c EXCEPT !.ver = ver, !.edits = edits, !.born = born] OBVIOUS
      <2>a. tenants' = [tenants EXCEPT ![id] = row] BY <1>5
      <2>c. /\ row \in AnyTenantRow /\ row.exists = c.exists /\ row.ver = ver /\ row.born = born
            BY DEF AnyTenantRow
      <2>1. /\ row \in AnyTenantRow /\ row.exists /\ row.ver = tenants[id].ver + 1
            /\ row.born = tenants[id].born
            BY <1>5, <2>0, <2>c
      <2>2. /\ tenants' \in [Tenants -> AnyTenantRow] /\ tenants'[id] = row
            /\ \A other \in Tenants : other # id => tenants'[other] = tenants[other]
            BY <1>2, <2>1, <2>a DEF Inv, Typed
      <2>3. TenantsGo
            <3>1. tenants'[id].born = tenants[id].born /\ tenants'[id].ver > tenants[id].ver
                  BY <1>2, <2>1, <2>2 DEF AnyTenantRow
            <3> QED BY <2>2, <3>1 DEF TenantsGo
      <2>4. NothingOutlivesItsOwner'
            <3>1. \A other \in Tenants : tenants[other].exists => tenants'[other].exists
                  BY <2>1, <2>2
            <3> QED BY <1>1, <3>1, PeopleStayFine, OutlivesStay
      <2>5. CASE owner /\ Goes(t, "reserve")
            BY <1>1, <1>2, <1>3, <2>2, <2>3, <2>4, <2>5, OwnerNext, TenantStep
      <2>6. CASE Ends(t)
            BY <1>1, <1>3, <2>2, <2>3, <2>4, <2>6, TenantStepEnds
      <2> QED BY <1>5, <2>5, <2>6
<1> QED BY <1>4, <1>5 DEF PutTenant

LEMMA DropTenantKeeps ==
    ASSUME Inv, NEW t \in Tasks, DropTenant(t)
    PROVE Inv'
<1> DEFINE id == task[t].tenant
<1>1. /\ At(t, "dropTenant") /\ PeopleStay /\ UNCHANGED <<rows, late>> /\ Ends(t)
      /\ tenants' = [tenants EXCEPT ![id].exists = FALSE]
      BY DEF DropTenant, PeopleStay
<1>2. /\ id \in Tenants /\ tenants[id] \in AnyTenantRow /\ RowsFine(task[t])
      BY <1>1, TaskIs, KindAt DEF Shape, Equipped, Inv, Typed, TaskFine, At
<1>3. ~LeavesNamesTorn(task[t]) BY <1>1 DEF At, LeavesNamesTorn
<1> PICK old \in AnyTenantRow : old = tenants[id] BY <1>2
<1> PICK row : row = [old EXCEPT !.exists = FALSE] OBVIOUS
<1>4. /\ row \in AnyTenantRow /\ row.ver = old.ver /\ row.born = old.born /\ row.edits = old.edits
      BY DEF AnyTenantRow
<1>5. tenants' = [tenants EXCEPT ![id] = row] BY <1>1
<1>6. /\ tenants' \in [Tenants -> AnyTenantRow] /\ tenants'[id] = row
      /\ \A other \in Tenants : other # id => tenants'[other] = tenants[other]
      BY <1>2, <1>4, <1>5 DEF Inv, Typed
<1>7. TenantsGo BY <1>4, <1>6 DEF TenantsGo
<1>8. NothingOutlivesItsOwner'
      <2>1. \A p \in rows : p \notin late =>
                IF p[1] \in Users THEN users[p[1]].life # "gone" ELSE tenants'[p[1]].exists
            <3> SUFFICES ASSUME NEW p \in rows, p \notin late
                         PROVE  IF p[1] \in Users THEN users[p[1]].life # "gone"
                                ELSE tenants'[p[1]].exists
                OBVIOUS
            <3>1. p \in Owned BY DEF Inv, Typed
            <3>2. CASE p[1] \in Users BY <3>2 DEF Inv, NothingOutlivesItsOwner
            <3>3. CASE p[1] \notin Users
                  <4>1. p[1] \in Tenants /\ p = <<p[1], "recipients">> BY <3>1, <3>3 DEF Owned
                  <4>2. p[1] # id BY <1>1, <1>2, <4>1 DEF RowsFine, At
                  <4> QED BY <1>6, <3>3, <4>1, <4>2 DEF Inv, NothingOutlivesItsOwner
            <3> QED BY <3>2, <3>3
      <2> QED BY <1>1, <2>1 DEF Inv, NothingOutlivesItsOwner, PeopleStay
<1> QED BY <1>1, <1>3, <1>6, <1>7, <1>8, TenantStepEnds

\* Where tenants stay, clearing leaves nothing behind that was not.
LEMMA ClearedStays ==
    ASSUME Inv, PeopleStay, UNCHANGED <<tenants, late>>, rows' \subseteq rows
    PROVE /\ TenantsGo /\ tenants' \in [Tenants -> AnyTenantRow] /\ NothingOutlivesItsOwner'
<1>1. TenantsGo BY DEF TenantsGo
<1>2. NothingOutlivesItsOwner'
      <2>1. KeysGo /\ \A u \in Users : users'[u].life = "gone" => users[u].life = "gone"
            BY DEF PeopleStay, KeysGo
      <2> QED BY <2>1, OutlivesStay
<1> QED BY <1>1, <1>2 DEF Inv, Typed

LEMMA ClearRecipientsKeeps ==
    ASSUME Inv, NEW t \in Tasks, ClearRecipients(t)
    PROVE Inv'
<1> DEFINE id == task[t].tenant
<1>1. /\ At(t, "recipients") /\ PeopleStay /\ UNCHANGED <<tenants, late>> /\ Goes(t, "dropTenant")
      /\ rows' = rows \ {<<id, "recipients">>}
      BY DEF ClearRecipients, PeopleStay
<1>2. task[t].kind = "deleteTenant" /\ task[t] \in Record /\ TaskFine(task[t]) /\ Shape(task[t])
      BY <1>1, TaskIs, KindAt DEF At
<1>3. OnlyMoves(t) /\ InHand(t) /\ task'[t].phase = "dropTenant"
      BY <1>1, GoesTo DEF Inv, Phases
<1>4. /\ task'[t] \in Record /\ task'[t].kind = "deleteTenant" /\ task'[t].tenant = id
      /\ task'[t].user = task[t].user /\ task'[t].unseen = task[t].unseen
      BY <1>2, <1>3 DEF InHand, OnlyMoves
<1>5. Shape(task'[t]) BY <1>2, <1>3, <1>4, CascadeIs DEF Shape, InOrder, Equipped, Changes
<1>6. UnseenFine(task[t])'
      BY <1>1, <1>2, <1>3, <1>4
      DEF TaskFine, UnseenFine, LivingIn, KeysOf, Live, PeopleStay, At
<1>7. RowsFine(task[t])' BY <1>1, <1>3, <1>4 DEF RowsFine
<1>8. TaskFine(task[t])'
      BY <1>3, <1>4, <1>5, <1>6, <1>7 DEF TaskFine, UsersFine, Creates, Changes, CopyFine, TokensFine
<1>9. \A s \in Tasks : s # t => Apart(task[s], task[t])'
      BY <1>1, <1>2, <1>3, <1>4, SameHandlerApart DEF PeopleStay
<1>10. ~LeavesNamesTorn(task[t]) /\ ~LeavesNamesTorn(task'[t])
      BY <1>1, <1>3 DEF At, LeavesNamesTorn
<1>11. rows' \subseteq rows BY <1>1
<1> QED BY <1>1, <1>3, <1>8, <1>9, <1>10, <1>11, ClearedStays, TenantStep

LEMMA ClearTableKeeps ==
    ASSUME Inv, NEW t \in Tasks, ClearTable(t)
    PROVE Inv'
<1> DEFINE u == task[t].user
<1> PICK table : table = task[t].phase OBVIOUS
<1> PICK next : next = Cascade[Index(table) + 1] OBVIOUS
<1>1. /\ table \in Clearing \ {"tokens"} /\ PeopleStay /\ UNCHANGED <<tenants, late>>
      /\ Goes(t, next) /\ rows' = rows \ {<<u, table>>}
      BY DEF ClearTable, PeopleStay
<1>2. /\ task[t].kind = "deleteUser" /\ task[t] \in Record /\ TaskFine(task[t]) /\ Shape(task[t])
      BY <1>1, TaskIs, KindAt
<1>3. /\ next \in Clearing
      /\ \A other \in Clearing :
             Index(next) > Index(other) => other = table \/ Index(table) > Index(other)
      BY <1>1, NextTable
<1>4. OnlyMoves(t) /\ InHand(t) /\ task'[t].phase = next
      BY <1>1, <1>3, GoesTo DEF Inv, Phases
<1>5. /\ task'[t] \in Record /\ task'[t].kind = "deleteUser" /\ task'[t].user = u
      /\ task'[t].name = task[t].name /\ task'[t].row = task[t].row
      BY <1>2, <1>4 DEF InHand, OnlyMoves
<1>6. next \notin {"dropGuard", "dropTenant", "putTenant", "reserve", "insertUser", "put",
                   "release", "dropKey", "subject", "actIn", "touch", "dropTokens", "dropUser"}
      /\ table # "dropGuard"
      BY <1>1, <1>3, CascadeIs
<1>7. Shape(task'[t]) BY <1>2, <1>3, <1>4, <1>5, <1>6 DEF Shape, InOrder, Equipped, Changes
<1>8. UsersFine(task[t])'
      BY <1>1, <1>2, <1>4, <1>5, <1>6
      DEF TaskFine, UsersFine, Creates, Changes, PeopleStay, Live
<1>9. RowsFine(task[t])'
      <2> SUFFICES ASSUME NEW other \in Dependents, PassedBy(task'[t], other), <<u, other>> \in rows'
                   PROVE  <<u, other>> \in late'
          BY <1>4, <1>5, <1>6 DEF RowsFine, PassedBy
      <2>1. other \in Clearing BY DirectoryAssumption
      <2>2. Index(next) > Index(other) BY <1>3, <1>4 DEF PassedBy
      <2>3. other # table BY <1>1
      <2>4. PassedBy(task[t], other) BY <1>3, <2>1, <2>2, <2>3 DEF PassedBy
      <2> QED BY <1>1, <1>2, <2>4 DEF TaskFine, RowsFine
<1>10. TaskFine(task[t])'
      BY <1>4, <1>5, <1>6, <1>7, <1>8, <1>9 DEF TaskFine, CopyFine, UnseenFine, TokensFine
<1>11. \A s \in Tasks : s # t => Apart(task[s], task[t])'
      BY <1>1, <1>2, <1>4, <1>5, SameHandlerApart DEF PeopleStay
<1>12. ~LeavesNamesTorn(task[t]) /\ ~LeavesNamesTorn(task'[t])
      BY <1>1, <1>4, <1>6, CascadeIs DEF LeavesNamesTorn
<1>13. rows' \subseteq rows BY <1>1
<1> QED BY <1>1, <1>4, <1>10, <1>11, <1>12, <1>13, ClearedStays, TenantStep

\* What comes to a table that was cleared is known to be late.
LEMMA WriteRowKeeps ==
    ASSUME Inv, NEW o \in Users \cup Tenants, NEW table, WriteRow(o, table)
    PROVE Inv'
<1> DEFINE p == <<o, table>>
<1>1. /\ p \in Owned /\ rows' = rows \cup {p}
      /\ late' = IF Passed(o, table) THEN late \cup {p} ELSE late \ {p}
      /\ UNCHANGED <<store, load, tenants, users, guards, keys, broken, task>>
      BY DEF WriteRow
<1>2. \A q : q # p => (q \in rows' <=> q \in rows) /\ (q \in late' <=> q \in late) BY <1>1
<1>3. p \in late' <=> Passed(o, table) BY <1>1
<1>4. Typed' BY <1>1 DEF Inv, Typed
<1>5. ASSUME NEW s \in Tasks
      PROVE  TaskFine(task[s])'
      <2>1. TaskFine(task[s]) /\ task'[s] = task[s] /\ Shape(task[s]) BY <1>1, TaskIs
      <2>2. RowsFine(task[s])'
            <3>1. ASSUME task[s].kind = "deleteUser", NEW other \in Dependents,
                         PassedBy(task[s], other), <<task[s].user, other>> \in rows'
                  PROVE  <<task[s].user, other>> \in late'
                  <4>1. CASE <<task[s].user, other>> # p
                        BY <1>2, <2>1, <3>1, <4>1 DEF TaskFine, RowsFine
                  <4>2. CASE <<task[s].user, other>> = p
                        <5>1. task[s].user \in Users /\ task[s].user = o /\ other = table
                              BY <2>1, <3>1, <4>2 DEF Shape, Equipped, Changes
                        <5> QED BY <1>3, <3>1, <4>2, <5>1 DEF Passed, PassedBy
                  <4> QED BY <4>1, <4>2
            <3>2. ASSUME task[s].phase = "dropTenant", <<task[s].tenant, "recipients">> \in rows'
                  PROVE  <<task[s].tenant, "recipients">> \in late'
                  <4>1. CASE <<task[s].tenant, "recipients">> # p
                        BY <1>2, <2>1, <3>2, <4>1 DEF TaskFine, RowsFine
                  <4>2. CASE <<task[s].tenant, "recipients">> = p
                        <5>1. /\ task[s].kind = "deleteTenant" /\ task[s].tenant \in Tenants
                              /\ task[s].tenant = o
                              BY <2>1, <3>2, <4>2, KindAt DEF Shape, Equipped
                        <5>2. o \notin Users BY <5>1, DirectoryAssumption
                        <5> QED BY <1>3, <3>2, <4>2, <5>1, <5>2 DEF Passed
                  <4> QED BY <4>1, <4>2
            <3> QED BY <2>1, <3>1, <3>2 DEF RowsFine, PassedBy
      <2>3. UsersFine(task[s])' /\ CopyFine(task[s])'
            BY <1>1, <2>1 DEF TaskFine, UsersFine, CopyFine, Live
      <2>4. UnseenFine(task[s])' /\ TokensFine(task[s])'
            BY <1>1, <2>1 DEF TaskFine, UnseenFine, TokensFine, LivingIn, KeysOf, Live, TokensOf
      <2> QED BY <2>1, <2>2, <2>3, <2>4 DEF TaskFine
<1>6. Settled' /\ Alone' BY <1>1 DEF Inv, Settled, Alone, Apart, Creates, Changes
<1>7. NamesRight'
      BY <1>1 DEF Inv, NamesRight, HoldsName, Live
<1>8. NothingOutlivesItsOwner'
      <2>1. p[1] = o OBVIOUS
      <2>2. p \notin late' => IF o \in Users THEN users[o].life # "gone" ELSE tenants[o].exists
            BY <1>3 DEF Passed
      <2>3. \A q \in rows' : q \notin late' =>
                IF q[1] \in Users THEN users[q[1]].life # "gone" ELSE tenants[q[1]].exists
            <3> SUFFICES ASSUME NEW q \in rows', q \notin late'
                         PROVE  IF q[1] \in Users THEN users[q[1]].life # "gone"
                                ELSE tenants[q[1]].exists
                OBVIOUS
            <3>1. CASE q = p BY <2>1, <2>2, <3>1
            <3>2. CASE q # p BY <1>2, <3>2 DEF Inv, NothingOutlivesItsOwner
            <3> QED BY <3>1, <3>2
      <2> QED BY <1>1, <2>3 DEF Inv, NothingOutlivesItsOwner
<1> QED BY <1>4, <1>5, <1>6, <1>7, <1>8 DEF Inv

-----------------------------------------------------------------------------
(* Who holds a name *)

\* What the account a handler is at work on holds, when nobody else is.
Held(k, u, n) ==
    \/ Live(u) /\ users[u].name = n /\ ~Renamed(k)
    \/ LeavesNamesTorn(k) /\ k.name = n

LEMMA TornKinds ==
    ASSUME Inv, NEW s \in Tasks, LeavesNamesTorn(task[s])
    PROVE /\ task[s].user \in Users /\ task[s].name \in Names
          /\ Creates(task[s]) \/ Changes(task[s])
<1>1. /\ task[s].phase \in {"release", "insertUser", "dropGuard", "put"}
      /\ task[s].kind \in {"createTenant", "createUser", "patchUser", "deleteUser"}
      BY KindAt DEF LeavesNamesTorn, At
<1>2. task[s].phase = "insertUser" \/ Changes(task[s])
      BY <1>1, KindAt DEF At, Changes
<1>3. task[s].user \in Users /\ task[s].name \in Names
      BY <1>1, <1>2, TaskIs DEF Shape, Equipped
<1> QED BY <1>1, <1>3, DirectoryAssumption DEF Creates, Changes

\* Where nothing shows, an account has one writer.
LEMMA OneWriter ==
    ASSUME Inv, broken = {}, NEW t \in Tasks, Creates(task[t]) \/ Changes(task[t])
    PROVE \A s \in Tasks : s # t /\ task[s].user = task[t].user => ~LeavesNamesTorn(task[s])
<1> SUFFICES ASSUME NEW s \in Tasks, s # t, task[s].user = task[t].user, LeavesNamesTorn(task[s])
             PROVE  FALSE
    OBVIOUS
<1>1. Creates(task[s]) \/ Changes(task[s]) BY TornKinds
<1>2. Apart(task[s], task[t]) BY DEF Inv, Alone
<1>3. UsersFine(task[s]) /\ UsersFine(task[t]) BY TaskIs DEF TaskFine
<1> QED BY <1>1, <1>2, <1>3 DEF Apart, UsersFine

LEMMA WriterHolds ==
    ASSUME Inv, broken = {}, NEW t \in Tasks, Creates(task[t]) \/ Changes(task[t]),
           task[t].user \in Users, NEW n \in Names
    PROVE guards[n] = task[t].user <=> Held(task[t], task[t].user, n)
<1>1. \A s \in Tasks : s # t /\ task[s].user = task[t].user => ~LeavesNamesTorn(task[s])
      BY OneWriter
<1>2. \A s \in Tasks : Renamed(task[s]) => LeavesNamesTorn(task[s]) BY DEF Renamed, LeavesNamesTorn
<1>3. HoldsName(task[t].user, n) <=> Held(task[t], task[t].user, n)
      BY <1>1, <1>2 DEF HoldsName, Held
<1> QED BY <1>3 DEF Inv, NamesRight

(***************************************************************************)
(* A handler changes what its own account holds, and the guards with it.   *)
(***************************************************************************)
LEMMA NamesStep ==
    ASSUME Inv, NEW t \in Tasks, Creates(task[t]) \/ Changes(task[t]), task[t].user \in Users,
           \A s \in Tasks : s # t => Stays(s), broken' = broken,
           \A u \in Users : u # task[t].user =>
               Live(u)' = Live(u) /\ users'[u].name = users[u].name,
           task'[t].user = task[t].user \/ ~LeavesNamesTorn(task'[t]),
           broken = {} => \A n \in Names :
               /\ \A u \in Users : u # task[t].user => (guards'[n] = u <=> guards[n] = u)
               /\ guards'[n] = task[t].user <=>
                      \/ /\ users'[task[t].user].life = "live" /\ users'[task[t].user].name = n
                         /\ ~Renamed(task'[t])
                      \/ LeavesNamesTorn(task'[t]) /\ task'[t].name = n
    PROVE NamesRight'
<1> SUFFICES ASSUME broken' = {}, NEW u \in Users, NEW n \in Names
             PROVE  (guards[n] = u)' <=> HoldsName(u, n)'
    BY DEF NamesRight
<1>1. \A s \in Tasks : s # t =>
          /\ LeavesNamesTorn(task'[s]) <=> LeavesNamesTorn(task[s])
          /\ Renamed(task'[s]) <=> Renamed(task[s])
          /\ task'[s].user = task[s].user /\ task'[s].name = task[s].name
      BY DEF Stays, LeavesNamesTorn, Renamed
<1>2. \A s \in Tasks : /\ Renamed(task[s]) => LeavesNamesTorn(task[s])
                       /\ Renamed(task'[s]) => LeavesNamesTorn(task'[s])
      BY DEF Renamed, LeavesNamesTorn
<1>3. \A s \in Tasks : s # t /\ task[s].user = task[t].user => ~LeavesNamesTorn(task[s])
      BY OneWriter
<1>4. CASE u # task[t].user
      <2>1. HoldsName(u, n)' <=> HoldsName(u, n)
            <3>1. \A s \in Tasks : task'[s].user = u /\ LeavesNamesTorn(task'[s]) => s # t
                  BY <1>4
            <3>2. (\E s \in Tasks : task'[s].user = u /\ Renamed(task'[s])) <=>
                  (\E s \in Tasks : task[s].user = u /\ Renamed(task[s]))
                  BY <1>1, <1>2, <1>4, <3>1
            <3>3. (\E s \in Tasks : task'[s].user = u /\ LeavesNamesTorn(task'[s]) /\ task'[s].name = n)
                  <=> (\E s \in Tasks : task[s].user = u /\ LeavesNamesTorn(task[s]) /\ task[s].name = n)
                  BY <1>1, <1>4, <3>1
            <3> QED BY <1>4, <3>2, <3>3 DEF HoldsName
      <2>2. guards[n] = u <=> HoldsName(u, n) BY DEF Inv, NamesRight
      <2> QED BY <1>4, <2>1, <2>2
<1>5. CASE u = task[t].user
      <2>1. \A s \in Tasks : task'[s].user = u /\ LeavesNamesTorn(task'[s]) => s = t
            BY <1>1, <1>3, <1>5
      <2>2. (\E s \in Tasks : task'[s].user = u /\ LeavesNamesTorn(task'[s]) /\ task'[s].name = n)
            <=> LeavesNamesTorn(task'[t]) /\ task'[t].name = n
            BY <1>5, <2>1
      <2>3. (\E s \in Tasks : task'[s].user = u /\ Renamed(task'[s])) <=> Renamed(task'[t])
            BY <1>2, <1>5, <2>1
      <2> QED BY <1>5, <2>2, <2>3 DEF HoldsName, Live
<1> QED BY <1>4, <1>5

-----------------------------------------------------------------------------
(* Steps about accounts *)

\* Who comes to a tenant is seen by the deletions under way.
NewcomersSeen(t) ==
    \A s \in Tasks : s # t /\ task[s].kind = "deleteTenant" =>
        \A u \in Users : users'[u].life = "live" /\ users'[u].tenant = task[s].tenant =>
            (Live(u) /\ users[u].tenant = task[s].tenant) \/ u \in task'[s].unseen

LEMMA AccountStep ==
    ASSUME Inv, NEW t \in Tasks, task' \in [Tasks -> Record],
           \A s \in Tasks : s # t => Stays(s), NewcomersSeen(t),
           UNCHANGED <<store, tenants, keys, rows, late, broken>>,
           users' \in [Users -> UserRow], guards' \in [Names -> Users \cup {NoUser}],
           UsersGo(t),
           \A u \in Users : users'[u].life # "unborn" =>
               users'[u].name \in Names /\ users'[u].tenant \in Tenants,
           TaskFine(task[t])', \A s \in Tasks : s # t => Apart(task[s], task[t])',
           NamesRight', NothingOutlivesItsOwner'
    PROVE Inv'
<1>1. Typed' BY DEF Inv, Typed
<1>2. TenantsGo /\ KeysGo /\ BrokenGrows BY DEF TenantsGo, KeysGo, BrokenGrows, Inv, Typed
<1>3. \A s \in Tasks : TaskFine(task[s])'
      <2> SUFFICES ASSUME NEW s \in Tasks, s # t PROVE TaskFine(task[s])' OBVIOUS
      <2>1. UnseenFine(task[s])' BY UnseenStay DEF NewcomersSeen, Live
      <2> QED BY <1>1, <1>2, <2>1, ShapesStay, UsersStay, CopiesStay, RowsStay, TokensStay DEF TaskFine
<1>4. Alone' BY <1>2, AloneStays
<1>5. Settled'
      <2>1. \A k \in Keys : keys[k].user \in Users \cup {NoUser} BY DEF Inv, Typed, KeyRow
      <2>2. \A u \in Users : users[u].life # "unborn" => users'[u].life # "unborn" BY DEF UsersGo
      <2> QED BY <2>1, <2>2 DEF Inv, Settled
<1> QED BY <1>1, <1>3, <1>4, <1>5 DEF Inv

\* The row of the account is written: made, put back under a name, or ended.
LEMMA RowWritten ==
    ASSUME Inv, NEW t \in Tasks, task[t].user \in Users, NEW row \in UserRow,
           users' = [users EXCEPT ![task[t].user] = row],
           row.life # "unborn", row.name \in Names, row.tenant \in Tenants,
           \/ Creates(task[t]) /\ row.life = "live"
           \/ Changes(task[t]) /\ row.tenant = task[t].row.tenant
    PROVE /\ users' \in [Users -> UserRow] /\ UsersGo(t)
          /\ users'[task[t].user] = row
          /\ \A u \in Users : u # task[t].user => users'[u] = users[u]
          /\ \A u \in Users : users'[u].life # "unborn" =>
                 users'[u].name \in Names /\ users'[u].tenant \in Tenants
<1>1. /\ users' \in [Users -> UserRow] /\ users'[task[t].user] = row
      /\ \A u \in Users : u # task[t].user => users'[u] = users[u]
      BY DEF Inv, Typed
<1>2. UsersFine(task[t]) BY TaskIs DEF TaskFine
<1>3. UsersGo(t) BY <1>1, <1>2 DEF UsersGo, UsersFine
<1> QED BY <1>1, <1>3 DEF Inv, Settled

LEMMA SameAccounts ==
    ASSUME Inv, NEW t \in Tasks, users' = users
    PROVE /\ users' \in [Users -> UserRow] /\ UsersGo(t) /\ NewcomersSeen(t)
          /\ \A u \in Users : users'[u].life # "unborn" =>
                 users'[u].name \in Names /\ users'[u].tenant \in Tenants
BY DEF Inv, Typed, UsersGo, NewcomersSeen, Live, Settled

LEMMA NobodyLeaves ==
    ASSUME Inv, UNCHANGED <<tenants, keys, rows, late>>,
           \A u \in Users : users'[u].life = "gone" => users[u].life = "gone"
    PROVE NothingOutlivesItsOwner'
BY OutlivesStay DEF KeysGo

\* What a handler that reserves, renames or creates knows of its account.
LEMMA NameHandlerIs ==
    ASSUME Inv, NEW t \in Tasks, task[t].phase \in {"reserve", "insertUser", "release", "put"}
    PROVE /\ task[t] \in Record /\ Shape(task[t]) /\ UsersFine(task[t]) /\ TaskFine(task[t])
          /\ task[t].user \in Users /\ task[t].name \in Names
          /\ \/ /\ Creates(task[t]) /\ task[t].tenant \in Tenants /\ ~Changes(task[t])
                /\ task[t].kind # "patchUser" /\ task[t].phase \in {"reserve", "insertUser"}
                /\ users[task[t].user].life = "unborn"
             \/ /\ task[t].kind = "patchUser" /\ Changes(task[t]) /\ ~Creates(task[t])
                /\ task[t].row.name \in Names /\ task[t].row.life = "live"
                /\ task[t].row.tenant \in Tenants
                /\ task[t].phase # "put" => task[t].name # task[t].row.name
                /\ task[t].user \notin broken =>
                       Live(task[t].user) /\ users[task[t].user].name = task[t].row.name
<1>1. /\ task[t] \in Record /\ Shape(task[t]) /\ UsersFine(task[t]) /\ TaskFine(task[t])
      BY TaskIs DEF TaskFine
<1>2. \/ /\ task[t].kind \in {"createTenant", "createUser"}
         /\ task[t].phase \in {"reserve", "insertUser"}
      \/ task[t].kind = "patchUser"
      BY KindAt DEF At
<1>3. CASE /\ task[t].kind \in {"createTenant", "createUser"}
           /\ task[t].phase \in {"reserve", "insertUser"}
      BY <1>1, <1>3, DirectoryAssumption DEF Shape, Equipped, Creates, Changes, UsersFine
<1>4. CASE task[t].kind = "patchUser"
      BY <1>1, <1>4 DEF Shape, Equipped, Creates, Changes, UsersFine
<1> QED BY <1>1, <1>2, <1>3, <1>4

\* The account and what is asked for stay in hand.
LEMMA NameHandlerGoes ==
    ASSUME Inv, NEW t \in Tasks, NEW phase \in Phases, Goes(t, phase),
           \/ task[t].phase = "reserve" /\ task[t].kind # "patchUser" /\ phase = "insertUser"
           \/ task[t].phase = "reserve" /\ task[t].kind = "patchUser" /\ phase \in {"release", "put"}
           \/ task[t].phase = "release" /\ phase = "put",
           users' = users, broken' = broken
    PROVE /\ OnlyMoves(t) /\ TaskFine(task[t])' /\ task'[t].phase = phase
          /\ task'[t].user = task[t].user /\ task'[t].name = task[t].name
          /\ task'[t].row = task[t].row
          /\ \A s \in Tasks : s # t => Apart(task[s], task[t])'
<1>1. OnlyMoves(t) /\ InHand(t) /\ task'[t].phase = phase BY GoesTo DEF Inv
<1>2. /\ task[t] \in Record /\ Shape(task[t]) /\ UsersFine(task[t])
      /\ task[t].user \in Users /\ task[t].name \in Names
      /\ task[t].kind \in {"createTenant", "createUser", "patchUser"}
      /\ task[t].phase = "release" => task[t].kind = "patchUser"
      BY NameHandlerIs, KindAt DEF At
<1>3. /\ task'[t] \in Record /\ task'[t].kind = task[t].kind /\ task'[t].tenant = task[t].tenant
      /\ task'[t].user = task[t].user /\ task'[t].name = task[t].name
      /\ task'[t].row = task[t].row
      BY <1>1 DEF InHand, OnlyMoves
<1>4. Shape(task'[t])
      <2>1. InOrder(task'[t]) BY <1>1, <1>2, <1>3 DEF InOrder
      <2>2. Equipped(task'[t]) BY <1>1, <1>2, <1>3 DEF Shape, Equipped, Changes
      <2> QED BY <1>3, <2>1, <2>2 DEF Shape
<1>5. UsersFine(task[t])' BY <1>1, <1>2, <1>3 DEF UsersFine, Creates, Changes, Live
<1>6. TaskFine(task[t])'
      BY <1>1, <1>2, <1>3, <1>4, <1>5, CascadeIs
      DEF TaskFine, CopyFine, UnseenFine, RowsFine, TokensFine
<1>7. \A s \in Tasks : s # t => Apart(task[s], task[t])' BY <1>1, <1>3, SameHandlerApart
<1> QED BY <1>1, <1>3, <1>6, <1>7

\* A step that changes guards only.
LEMMA GuardStep ==
    ASSUME Inv, NEW t \in Tasks, OnlyMoves(t),
           UNCHANGED <<store, tenants, users, keys, rows, late, broken>>,
           guards' \in [Names -> Users \cup {NoUser}],
           TaskFine(task[t])', \A s \in Tasks : s # t => Apart(task[s], task[t])', NamesRight'
    PROVE Inv'
<1>1. NothingOutlivesItsOwner' BY NobodyLeaves
<1> QED BY <1>1, MovesAlone, SameAccounts, AccountStep DEF OnlyMoves

LEMMA ReserveNameKeeps ==
    ASSUME Inv, NEW t \in Tasks, ReserveName(t)
    PROVE Inv'
<1> DEFINE u == task[t].user
           name == task[t].name
<1> PICK phase : phase = IF task[t].kind = "patchUser" THEN "release" ELSE "insertUser" OBVIOUS
<1>1. /\ task[t].phase = "reserve" /\ guards[name] = NoUser
      /\ guards' = [guards EXCEPT ![name] = u] /\ Goes(t, phase)
      /\ UNCHANGED <<store, tenants, users, keys, rows, late, broken>>
      BY DEF ReserveName, NameIsFree, At
<1>2. phase \in Phases /\ phase \in {"release", "insertUser"} BY DEF Phases
<1>3. /\ u \in Users /\ name \in Names /\ (Creates(task[t]) \/ Changes(task[t]))
      BY <1>1, NameHandlerIs
<1>4. /\ OnlyMoves(t) /\ TaskFine(task[t])' /\ task'[t].phase = phase
      /\ task'[t].user = u /\ task'[t].name = name
      /\ \A s \in Tasks : s # t => Apart(task[s], task[t])'
      BY <1>1, <1>2, NameHandlerGoes
<1>5. LeavesNamesTorn(task'[t]) /\ ~Renamed(task'[t]) BY <1>2, <1>4 DEF LeavesNamesTorn, Renamed
<1>6. ASSUME broken = {}, NEW n \in Names
      PROVE  /\ \A other \in Users : other # u => (guards'[n] = other <=> guards[n] = other)
             /\ guards'[n] = u <=> \/ /\ users'[u].life = "live" /\ users'[u].name = n
                                      /\ ~Renamed(task'[t])
                                   \/ LeavesNamesTorn(task'[t]) /\ task'[t].name = n
      <2>1. guards[n] = u <=> Held(task[t], u, n) BY <1>3, <1>6, WriterHolds
      <2>2. Held(task[t], u, n) <=> Live(u) /\ users[u].name = n
            BY <1>1 DEF Held, Renamed, LeavesNamesTorn
      <2>3. guards'[n] = IF n = name THEN u ELSE guards[n] BY <1>1 DEF Inv, Typed
      <2> QED BY <1>1, <1>3, <1>4, <1>5, <2>1, <2>2, <2>3, DirectoryAssumption DEF Live
<1>7. NamesRight' BY <1>1, <1>3, <1>4, <1>6, MovesAlone, NamesStep DEF Live
<1>8. guards' \in [Names -> Users \cup {NoUser}] BY <1>1, <1>3 DEF Inv, Typed
<1> QED BY <1>1, <1>4, <1>7, <1>8, GuardStep

LEMMA RenameAtOnceKeeps ==
    ASSUME Inv, NEW t \in Tasks, RenameAtOnce(t)
    PROVE Inv'
<1> DEFINE u == task[t].user
           name == task[t].name
           old == task[t].row.name
<1>1. /\ task[t].phase = "reserve" /\ guards[name] = NoUser /\ task[t].kind = "patchUser"
      /\ guards' = [guards EXCEPT ![name] = u, ![old] = NoUser] /\ Goes(t, "put")
      /\ UNCHANGED <<store, tenants, users, keys, rows, late, broken>>
      BY DEF RenameAtOnce, NameIsFree, At
<1>2. "put" \in Phases BY DEF Phases
<1>3. /\ u \in Users /\ name \in Names /\ Changes(task[t])
      /\ old \in Names /\ name # old
      /\ u \notin broken => Live(u) /\ users[u].name = old
      BY <1>1, NameHandlerIs
<1>4. /\ OnlyMoves(t) /\ TaskFine(task[t])' /\ task'[t].phase = "put"
      /\ task'[t].user = u /\ task'[t].name = name /\ task'[t].row = task[t].row
      /\ \A s \in Tasks : s # t => Apart(task[s], task[t])'
      BY <1>1, <1>2, NameHandlerGoes
<1>5. LeavesNamesTorn(task'[t]) /\ Renamed(task'[t]) BY <1>3, <1>4 DEF LeavesNamesTorn, Renamed
<1>6. ASSUME broken = {}, NEW n \in Names
      PROVE  /\ \A other \in Users : other # u => (guards'[n] = other <=> guards[n] = other)
             /\ guards'[n] = u <=> \/ /\ users'[u].life = "live" /\ users'[u].name = n
                                      /\ ~Renamed(task'[t])
                                   \/ LeavesNamesTorn(task'[t]) /\ task'[t].name = n
      <2>1. guards[n] = u <=> Held(task[t], u, n) BY <1>3, <1>6, WriterHolds
      <2>2. Held(task[t], u, n) <=> n = old
            BY <1>1, <1>3, <1>6 DEF Held, Renamed, LeavesNamesTorn
      <2>3. guards'[n] = IF n = old THEN NoUser ELSE IF n = name THEN u ELSE guards[n]
            BY <1>1 DEF Inv, Typed
      <2> QED BY <1>1, <1>3, <1>4, <1>5, <2>1, <2>2, <2>3, DirectoryAssumption
<1>7. NamesRight' BY <1>1, <1>3, <1>4, <1>6, MovesAlone, NamesStep DEF Live
<1>8. guards' \in [Names -> Users \cup {NoUser}] BY <1>1, <1>3 DEF Inv, Typed
<1> QED BY <1>1, <1>4, <1>7, <1>8, GuardStep

LEMMA ReleaseKeeps ==
    ASSUME Inv, NEW t \in Tasks, Release(t)
    PROVE Inv'
<1> DEFINE u == task[t].user
           name == task[t].name
           old == task[t].row.name
<1>1. /\ task[t].phase = "release" /\ guards' = [guards EXCEPT ![old] = NoUser] /\ Goes(t, "put")
      /\ UNCHANGED <<store, tenants, users, keys, rows, late, broken>>
      BY DEF Release, At
<1>2. "put" \in Phases BY DEF Phases
<1>3. /\ u \in Users /\ name \in Names /\ Changes(task[t])
      /\ old \in Names /\ name # old
      /\ u \notin broken => Live(u) /\ users[u].name = old
      BY <1>1, NameHandlerIs
<1>4. /\ OnlyMoves(t) /\ TaskFine(task[t])' /\ task'[t].phase = "put"
      /\ task'[t].user = u /\ task'[t].name = name /\ task'[t].row = task[t].row
      /\ \A s \in Tasks : s # t => Apart(task[s], task[t])'
      BY <1>1, <1>2, NameHandlerGoes
<1>5. LeavesNamesTorn(task'[t]) /\ Renamed(task'[t]) BY <1>3, <1>4 DEF LeavesNamesTorn, Renamed
<1>6. ASSUME broken = {}, NEW n \in Names
      PROVE  /\ \A other \in Users : other # u => (guards'[n] = other <=> guards[n] = other)
             /\ guards'[n] = u <=> \/ /\ users'[u].life = "live" /\ users'[u].name = n
                                      /\ ~Renamed(task'[t])
                                   \/ LeavesNamesTorn(task'[t]) /\ task'[t].name = n
      <2>1. guards[n] = u <=> Held(task[t], u, n) BY <1>3, <1>6, WriterHolds
      <2>2. Held(task[t], u, n) <=> n = old \/ n = name
            BY <1>1, <1>3, <1>6 DEF Held, Renamed, LeavesNamesTorn
      <2>3. guards'[n] = IF n = old THEN NoUser ELSE guards[n] BY <1>1 DEF Inv, Typed
      <2> QED BY <1>1, <1>3, <1>4, <1>5, <2>1, <2>2, <2>3, DirectoryAssumption
<1>7. NamesRight' BY <1>1, <1>3, <1>4, <1>6, MovesAlone, NamesStep DEF Live
<1>8. guards' \in [Names -> Users \cup {NoUser}] BY <1>1, <1>3 DEF Inv, Typed
<1> QED BY <1>1, <1>4, <1>7, <1>8, GuardStep

-----------------------------------------------------------------------------
(* Who comes, and who goes *)

\* A deletion of the tenant learns of what arrives in it.
LEMMA Arrived ==
    ASSUME Inv, NEW x \in Users \cup Keys, NEW id, NEW s \in Tasks
    PROVE LET a == Arrives(x, id)[s] IN
          /\ a \in Record
          /\ task[s].kind # "deleteTenant" => a = task[s]
          /\ a.kind = task[s].kind /\ a.phase = task[s].phase
          /\ a.tenant = task[s].tenant /\ a.user = task[s].user
          /\ a.name = task[s].name /\ a.row = task[s].row
          /\ task[s].unseen \subseteq a.unseen
          /\ task[s].kind = "deleteTenant" /\ task[s].tenant = id => x \in a.unseen
<1> PICK k \in Record : k = task[s] BY TaskIs
<1> PICK unseen \in SUBSET (Users \cup Keys) : unseen = k.unseen \cup {x} BY DEF Record
<1> PICK r : r = [k EXCEPT !.unseen = unseen] OBVIOUS
<1>1. /\ r \in Record /\ r.kind = k.kind /\ r.phase = k.phase
      /\ r.tenant = k.tenant /\ r.user = k.user
      /\ r.name = k.name /\ r.row = k.row /\ r.unseen = unseen
      BY DEF Record
<1>2. Arrives(x, id)[s] = IF k.kind = "deleteTenant" /\ k.tenant = id THEN r ELSE k
      BY DEF Arrives
<1> QED BY <1>1, <1>2

LEMMA ArrivesAndEnds ==
    ASSUME Inv, NEW t \in Tasks, NEW x \in Users \cup Keys, NEW id,
           task' = [Arrives(x, id) EXCEPT ![t] = Idle]
    PROVE /\ task' \in [Tasks -> Record] /\ task'[t] = Idle
          /\ \A s \in Tasks : s # t =>
                 /\ Stays(s)
                 /\ task[s].kind = "deleteTenant" /\ task[s].tenant = id => x \in task'[s].unseen
<1>1. DOMAIN Arrives(x, id) = Tasks BY DEF Arrives
<1>2. task'[t] = Idle /\ \A s \in Tasks : s # t => task'[s] = Arrives(x, id)[s] BY <1>1
<1>3. task' \in [Tasks -> Record]
      <2>1. task' = [s \in Tasks |-> task'[s]] BY <1>1
      <2>2. \A s \in Tasks : task'[s] \in Record BY <1>2, Arrived, IdleIs
      <2> QED BY <2>1, <2>2
<1> QED BY <1>2, <1>3, Arrived DEF Stays

\* A new account, or one that is put back, and the handler that is through.
LEMMA AccountMade ==
    ASSUME Inv, NEW t \in Tasks, task[t].phase \in {"reserve", "insertUser", "put"},
           NEW row \in UserRow,
           users' = [users EXCEPT ![task[t].user] = row],
           row.life = "live", row.name = task[t].name, row.tenant \in Tenants,
           \/ task[t].phase \in {"reserve", "insertUser"} /\ task[t].kind # "patchUser"
              /\ row.tenant = task[t].tenant
           \/ task[t].phase = "put" /\ row.tenant = task[t].row.tenant,
           \/ task' = [Arrives(task[t].user, row.tenant) EXCEPT ![t] = Idle]
           \/ Live(task[t].user) /\ Ends(t),
           UNCHANGED <<store, tenants, keys, rows, late, broken>>,
           guards' \in [Names -> Users \cup {NoUser}],
           broken = {} => \A n \in Names :
               /\ \A u \in Users : u # task[t].user => (guards'[n] = u <=> guards[n] = u)
               /\ guards'[n] = task[t].user <=> n = task[t].name
    PROVE Inv'
<1> DEFINE u == task[t].user
<1>1. /\ u \in Users /\ u \in Users \cup Keys /\ task[t].name \in Names
      /\ UsersFine(task[t])
      /\ \/ Creates(task[t])
         \/ Changes(task[t]) /\ row.tenant = task[t].row.tenant /\ ~Creates(task[t])
      BY NameHandlerIs, KindAt DEF At
<1>2. /\ users' \in [Users -> UserRow] /\ UsersGo(t)
      /\ users'[u] = row
      /\ \A other \in Users : other # u => users'[other] = users[other]
      /\ \A other \in Users : users'[other].life # "unborn" =>
             users'[other].name \in Names /\ users'[other].tenant \in Tenants
      <2>1. \/ Creates(task[t]) /\ row.life = "live"
            \/ Changes(task[t]) /\ row.tenant = task[t].row.tenant
            BY <1>1
      <2> QED BY <1>1, <2>1, RowWritten
<1>3. /\ task' \in [Tasks -> Record] /\ task'[t] = Idle
      /\ \A s \in Tasks : s # t => Stays(s)
      /\ NewcomersSeen(t)
      <2>1. CASE task' = [Arrives(u, row.tenant) EXCEPT ![t] = Idle]
            <3>1. /\ task' \in [Tasks -> Record] /\ task'[t] = Idle
                  /\ \A s \in Tasks : s # t =>
                        /\ Stays(s)
                        /\ task[s].kind = "deleteTenant" /\ task[s].tenant = row.tenant =>
                               u \in task'[s].unseen
                  BY <1>1, <2>1, ArrivesAndEnds
            <3> QED BY <1>2, <3>1 DEF NewcomersSeen, Live
      <2>2. CASE Live(u) /\ Ends(t)
            <3>1. OnlyMoves(t) /\ task'[t] = Idle BY <2>2, EndsAt DEF Inv
            <3>2. users[u].tenant = row.tenant
                  BY <1>1, <2>2 DEF UsersFine, Live
            <3>3. NewcomersSeen(t) BY <1>2, <2>2, <3>2 DEF NewcomersSeen, Live
            <3> QED BY <3>1, <3>3, MovesAlone DEF OnlyMoves
      <2> QED BY <2>1, <2>2
<1>4. TaskFine(task[t])' /\ \A s \in Tasks : s # t => Apart(task[s], task[t])'
      BY <1>3, IdleStaysFine, IdleApart
<1>5. ~LeavesNamesTorn(task'[t]) /\ ~Renamed(task'[t])
      BY <1>3, IdleIs DEF LeavesNamesTorn, Renamed
<1>6. NamesRight'
      <2>1. broken = {} => \A n \in Names :
               /\ \A other \in Users : other # u => (guards'[n] = other <=> guards[n] = other)
               /\ guards'[n] = u <=>
                      \/ /\ users'[u].life = "live" /\ users'[u].name = n
                         /\ ~Renamed(task'[t])
                      \/ LeavesNamesTorn(task'[t]) /\ task'[t].name = n
            BY <1>2, <1>5
      <2>2. \A other \in Users : other # u =>
               Live(other)' = Live(other) /\ users'[other].name = users[other].name
            BY <1>2 DEF Live
      <2>3. Creates(task[t]) \/ Changes(task[t]) BY <1>1
      <2> QED BY <1>1, <1>3, <1>5, <2>1, <2>2, <2>3, NamesStep
<1>7. NothingOutlivesItsOwner'
      <2>1. \A other \in Users : users'[other].life = "gone" => users[other].life = "gone"
            BY <1>2
      <2> QED BY <2>1, NobodyLeaves
<1> QED BY <1>2, <1>3, <1>4, <1>6, <1>7, AccountStep

\* The row of a new account.
LEMMA BornIs ==
    ASSUME Inv, NEW t \in Tasks, task[t].phase \in {"reserve", "insertUser"},
           task[t].kind # "patchUser"
    PROVE /\ Born(t) \in UserRow /\ Born(t).life = "live" /\ Born(t).name = task[t].name
          /\ Born(t).tenant = task[t].tenant /\ task[t].tenant \in Tenants
<1>1. task[t].tenant \in Tenants /\ task[t].name \in Names
      BY NameHandlerIs
<1> QED BY <1>1 DEF Born, UserRow, Life

LEMMA CreateAtOnceKeeps ==
    ASSUME Inv, NEW t \in Tasks, CreateAtOnce(t)
    PROVE Inv'
<1> DEFINE u == task[t].user
           name == task[t].name
<1>1. /\ task[t].phase = "reserve" /\ guards[name] = NoUser /\ task[t].kind # "patchUser"
      /\ guards' = [guards EXCEPT ![name] = u]
      /\ users' = [users EXCEPT ![u] = Born(t)]
      /\ task' = [Arrives(u, task[t].tenant) EXCEPT ![t] = Idle]
      /\ UNCHANGED <<store, tenants, keys, rows, late, broken>>
      BY DEF CreateAtOnce, NameIsFree, At
<1>2. /\ u \in Users /\ name \in Names /\ Creates(task[t])
      /\ users[u].life = "unborn"
      BY <1>1, NameHandlerIs
<1> PICK row \in UserRow : row = Born(t) BY <1>1, BornIs
<1>3. /\ row.life = "live" /\ row.name = name /\ row.tenant = task[t].tenant /\ row.tenant \in Tenants
      BY <1>1, BornIs
<1>4. ASSUME broken = {}, NEW n \in Names
      PROVE  /\ \A other \in Users : other # u => (guards'[n] = other <=> guards[n] = other)
             /\ guards'[n] = u <=> n = name
      <2>1. guards[n] = u <=> Held(task[t], u, n) BY <1>2, <1>4, WriterHolds
      <2>2. ~Held(task[t], u, n) BY <1>1, <1>2 DEF Held, Live, LeavesNamesTorn
      <2>3. guards'[n] = IF n = name THEN u ELSE guards[n] BY <1>1 DEF Inv, Typed
      <2> QED BY <1>1, <1>2, <2>1, <2>2, <2>3, DirectoryAssumption
<1>5. guards' \in [Names -> Users \cup {NoUser}] BY <1>1, <1>2 DEF Inv, Typed
<1> QED BY <1>1, <1>3, <1>4, <1>5, AccountMade

LEMMA InsertUserKeeps ==
    ASSUME Inv, NEW t \in Tasks, InsertUser(t)
    PROVE Inv'
<1> DEFINE u == task[t].user
           name == task[t].name
<1>1. /\ task[t].phase = "insertUser" /\ task[t].kind # "patchUser"
      /\ guards' = guards
      /\ users' = [users EXCEPT ![u] = Born(t)]
      /\ task' = [Arrives(u, task[t].tenant) EXCEPT ![t] = Idle]
      /\ UNCHANGED <<store, tenants, keys, rows, late, broken>>
      BY KindAt DEF InsertUser, At
<1>2. /\ u \in Users /\ name \in Names /\ Creates(task[t])
      /\ users[u].life = "unborn"
      BY <1>1, NameHandlerIs
<1> PICK row \in UserRow : row = Born(t) BY <1>1, BornIs
<1>3. /\ row.life = "live" /\ row.name = name /\ row.tenant = task[t].tenant /\ row.tenant \in Tenants
      BY <1>1, BornIs
<1>4. ASSUME broken = {}, NEW n \in Names
      PROVE  /\ \A other \in Users : other # u => (guards'[n] = other <=> guards[n] = other)
             /\ guards'[n] = u <=> n = name
      <2>1. guards[n] = u <=> Held(task[t], u, n) BY <1>2, <1>4, WriterHolds
      <2>2. Held(task[t], u, n) <=> n = name BY <1>1, <1>2 DEF Held, Live, LeavesNamesTorn
      <2> QED BY <1>1, <2>1, <2>2
<1>5. guards' \in [Names -> Users \cup {NoUser}] BY <1>1 DEF Inv, Typed
<1> QED BY <1>1, <1>3, <1>4, <1>5, AccountMade

LEMMA PutUserKeeps ==
    ASSUME Inv, NEW t \in Tasks, PutUser(t)
    PROVE Inv'
<1> DEFINE u == task[t].user
           name == task[t].name
           old == task[t].row.name
<1>1. /\ task[t].phase = "put" /\ guards' = guards
      /\ UNCHANGED <<store, tenants, keys, rows, late, broken>>
      BY DEF PutUser, At
<1>2. /\ u \in Users /\ name \in Names /\ Changes(task[t]) /\ old \in Names
      /\ task[t].row.life = "live" /\ task[t].row.tenant \in Tenants
      /\ u \notin broken => Live(u) /\ users[u].name = old
      /\ task[t] \in Record
      BY <1>1, NameHandlerIs
<1> PICK read \in UserRow : read = task[t].row BY <1>2 DEF Record
<1> PICK row : row = [read EXCEPT !.name = name] OBVIOUS
<1>3. /\ row \in UserRow /\ row.life = "live" /\ row.name = name /\ row.tenant = task[t].row.tenant
      BY <1>2 DEF UserRow
<1>4. /\ users' = [users EXCEPT ![u] = row]
      /\ task' = [(IF Live(u) THEN task ELSE Arrives(u, row.tenant)) EXCEPT ![t] = Idle]
      BY DEF PutUser
<1>5. \/ task' = [Arrives(u, row.tenant) EXCEPT ![t] = Idle]
      \/ Live(u) /\ Ends(t)
      BY <1>4 DEF Ends
<1>6. ASSUME broken = {}, NEW n \in Names
      PROVE  /\ \A other \in Users : other # u => (guards'[n] = other <=> guards[n] = other)
             /\ guards'[n] = u <=> n = name
      <2>1. guards[n] = u <=> Held(task[t], u, n) BY <1>2, <1>6, WriterHolds
      <2>2. Held(task[t], u, n) <=> n = name
            BY <1>1, <1>2, <1>6 DEF Held, Renamed, LeavesNamesTorn
      <2> QED BY <1>1, <2>1, <2>2
<1>7. guards' \in [Names -> Users \cup {NoUser}] BY <1>1 DEF Inv, Typed
<1> QED BY <1>1, <1>2, <1>3, <1>4, <1>5, <1>6, <1>7, AccountMade, ZenonT(60)

\* An account leaves with everything its deletion went over.
LEMMA OwnerLeaves ==
    ASSUME Inv, NEW t \in Tasks, At(t, "dropUser"),
           \A u \in Users : u # task[t].user => users'[u] = users[u],
           UNCHANGED <<tenants, keys, rows, late>>
    PROVE NothingOutlivesItsOwner'
<1>1. /\ RowsFine(task[t]) /\ TokensFine(task[t]) /\ task[t].kind = "deleteUser"
      BY TaskIs, KindAt DEF TaskFine, At
<1>2. ~(task[t].phase \in Clearing) /\ task[t].phase = "dropUser" BY CascadeIs DEF At
<1>3. ASSUME NEW p \in rows, p \notin late
      PROVE  IF p[1] \in Users THEN users'[p[1]].life # "gone" ELSE tenants[p[1]].exists
      <2>1. p \in Owned BY DEF Inv, Typed
      <2>2. CASE p[1] \in Users
            <3>1. PICK table \in Dependents : p = <<p[1], table>>
                  <4>1. p[1] \notin Tenants BY <2>2, DirectoryAssumption
                  <4> QED BY <2>1, <4>1 DEF Owned
            <3>2. p[1] # task[t].user BY <1>1, <1>2, <1>3, <3>1 DEF RowsFine, PassedBy
            <3> QED BY <1>3, <2>2, <3>2 DEF Inv, NothingOutlivesItsOwner
      <2>3. CASE p[1] \notin Users BY <1>3, <2>3 DEF Inv, NothingOutlivesItsOwner
      <2> QED BY <2>2, <2>3
<1>4. ASSUME NEW k \in Keys, keys[k].life = "live", keys[k].user # NoUser
      PROVE  users'[keys[k].user].life # "gone" \/ keys[k].missed
      <2>1. keys[k].user \in Users BY <1>4 DEF Inv, Typed, KeyRow
      <2>2. CASE keys[k].user = task[t].user
            BY <1>1, <1>2, <1>4, <2>2 DEF TokensFine, TokensOf
      <2>3. CASE keys[k].user # task[t].user
            BY <1>4, <2>1, <2>3 DEF Inv, NothingOutlivesItsOwner
      <2> QED BY <2>2, <2>3
<1> QED BY <1>3, <1>4 DEF NothingOutlivesItsOwner

\* What a deletion knows of its account at the end.
LEMMA DeletionIs ==
    ASSUME Inv, NEW t \in Tasks, task[t].phase \in {"dropUser", "dropGuard"}
    PROVE /\ task[t] \in Record /\ Shape(task[t]) /\ TaskFine(task[t]) /\ UsersFine(task[t])
          /\ task[t].kind = "deleteUser" /\ Changes(task[t]) /\ ~Creates(task[t])
          /\ task[t].user \in Users /\ task[t].name \in Names
          /\ task[t].row.tenant \in Tenants /\ task[t].name = task[t].row.name
          /\ users[task[t].user].life # "unborn"
          /\ users[task[t].user].tenant = task[t].row.tenant
          /\ task[t].user \notin broken =>
                 IF task[t].phase = "dropGuard" THEN users[task[t].user].life = "gone"
                 ELSE Live(task[t].user) /\ users[task[t].user].name = task[t].name
<1>1. task[t].kind = "deleteUser" BY KindAt
<1> QED BY <1>1, TaskIs DEF TaskFine, Shape, Equipped, Changes, Creates, UsersFine

LEMMA AccountEnds ==
    ASSUME Inv, NEW t \in Tasks, At(t, "dropUser"),
           users' = [users EXCEPT ![task[t].user].life = "gone"]
    PROVE /\ users' \in [Users -> UserRow] /\ UsersGo(t) /\ NewcomersSeen(t)
          /\ users'[task[t].user].life = "gone"
          /\ users'[task[t].user].tenant = users[task[t].user].tenant
          /\ \A u \in Users : u # task[t].user => users'[u] = users[u]
          /\ \A u \in Users : users'[u].life # "unborn" =>
                 users'[u].name \in Names /\ users'[u].tenant \in Tenants
<1>1. /\ task[t].user \in Users /\ Changes(task[t]) /\ users[task[t].user].life # "unborn"
      /\ users[task[t].user].tenant = task[t].row.tenant
      BY DeletionIs DEF At
<1> PICK old \in UserRow : old = users[task[t].user] BY <1>1 DEF Inv, Typed
<1> PICK row : row = [old EXCEPT !.life = "gone"] OBVIOUS
<1>2. /\ row \in UserRow /\ row.life = "gone" /\ row.tenant = old.tenant /\ row.name = old.name
      BY DEF UserRow, Life
<1>3. users' = [users EXCEPT ![task[t].user] = row] OBVIOUS
<1>4. row.name \in Names /\ row.tenant \in Tenants BY <1>1, <1>2 DEF Inv, Settled
<1>5. /\ users' \in [Users -> UserRow] /\ UsersGo(t)
      /\ users'[task[t].user] = row
      /\ \A u \in Users : u # task[t].user => users'[u] = users[u]
      /\ \A u \in Users : users'[u].life # "unborn" =>
             users'[u].name \in Names /\ users'[u].tenant \in Tenants
      BY <1>1, <1>2, <1>3, <1>4, RowWritten
<1>6. NewcomersSeen(t) BY <1>2, <1>5 DEF NewcomersSeen, Live
<1> QED BY <1>2, <1>5, <1>6

LEMMA DropUserAtOnceKeeps ==
    ASSUME Inv, NEW t \in Tasks, DropUserAtOnce(t)
    PROVE Inv'
<1> DEFINE u == task[t].user
           name == task[t].name
<1>1. /\ At(t, "dropUser") /\ task[t].phase = "dropUser"
      /\ users' = [users EXCEPT ![u].life = "gone"]
      /\ guards' = [guards EXCEPT ![name] = NoUser] /\ Ends(t)
      /\ UNCHANGED <<store, tenants, keys, rows, late, broken>>
      BY DEF DropUserAtOnce, At
<1>2. /\ u \in Users /\ name \in Names /\ Changes(task[t])
      /\ u \notin broken => Live(u) /\ users[u].name = name
      BY <1>1, DeletionIs
<1>3. /\ users' \in [Users -> UserRow] /\ UsersGo(t) /\ NewcomersSeen(t)
      /\ users'[u].life = "gone"
      /\ \A other \in Users : other # u => users'[other] = users[other]
      /\ \A other \in Users : users'[other].life # "unborn" =>
             users'[other].name \in Names /\ users'[other].tenant \in Tenants
      BY <1>1, AccountEnds
<1>4. OnlyMoves(t) /\ task'[t] = Idle BY <1>1, EndsAt DEF Inv
<1>5. ~LeavesNamesTorn(task'[t]) BY <1>4, IdleIs DEF LeavesNamesTorn
<1>6. ASSUME broken = {}, NEW n \in Names
      PROVE  /\ \A other \in Users : other # u => (guards'[n] = other <=> guards[n] = other)
             /\ guards'[n] = u <=> \/ /\ users'[u].life = "live" /\ users'[u].name = n
                                      /\ ~Renamed(task'[t])
                                   \/ LeavesNamesTorn(task'[t]) /\ task'[t].name = n
      <2>1. guards[n] = u <=> Held(task[t], u, n) BY <1>2, <1>6, WriterHolds
      <2>2. Held(task[t], u, n) <=> n = name
            BY <1>1, <1>2, <1>6 DEF Held, Renamed, LeavesNamesTorn
      <2>3. guards'[n] = IF n = name THEN NoUser ELSE guards[n] BY <1>1 DEF Inv, Typed
      <2> QED BY <1>2, <1>3, <1>5, <2>1, <2>2, <2>3, DirectoryAssumption
<1>7. NamesRight'
      <2>1. \A other \in Users : other # u =>
               Live(other)' = Live(other) /\ users'[other].name = users[other].name
            BY <1>3 DEF Live
      <2> QED BY <1>1, <1>2, <1>4, <1>5, <1>6, <2>1, MovesAlone, NamesStep
<1>8. guards' \in [Names -> Users \cup {NoUser}] BY <1>1 DEF Inv, Typed
<1>9. NothingOutlivesItsOwner' BY <1>1, <1>3, OwnerLeaves
<1>10. TaskFine(task[t])' /\ \A s \in Tasks : s # t => Apart(task[s], task[t])'
      BY <1>4, IdleStaysFine, IdleApart
<1> QED BY <1>1, <1>3, <1>4, <1>7, <1>8, <1>9, <1>10, MovesAlone, AccountStep DEF OnlyMoves

LEMMA DropUserKeeps ==
    ASSUME Inv, NEW t \in Tasks, DropUser(t)
    PROVE Inv'
<1> DEFINE u == task[t].user
           name == task[t].name
<1>1. /\ At(t, "dropUser") /\ task[t].phase = "dropUser"
      /\ users' = [users EXCEPT ![u].life = "gone"]
      /\ guards' = guards /\ Goes(t, "dropGuard")
      /\ UNCHANGED <<store, tenants, keys, rows, late, broken>>
      BY DEF DropUser, At
<1>2. /\ u \in Users /\ name \in Names /\ Changes(task[t]) /\ task[t].kind = "deleteUser"
      /\ u \notin broken => Live(u) /\ users[u].name = name
      /\ task[t] \in Record /\ Shape(task[t]) /\ TaskFine(task[t]) /\ UsersFine(task[t])
      BY <1>1, DeletionIs
<1>3. /\ users' \in [Users -> UserRow] /\ UsersGo(t) /\ NewcomersSeen(t)
      /\ users'[u].life = "gone" /\ users'[u].tenant = users[u].tenant
      /\ \A other \in Users : other # u => users'[other] = users[other]
      /\ \A other \in Users : users'[other].life # "unborn" =>
             users'[other].name \in Names /\ users'[other].tenant \in Tenants
      BY <1>1, AccountEnds
<1>4. OnlyMoves(t) /\ InHand(t) /\ task'[t].phase = "dropGuard"
      BY <1>1, GoesTo DEF Inv, Phases
<1>5. /\ task'[t] \in Record /\ task'[t].kind = "deleteUser" /\ task'[t].user = u
      /\ task'[t].name = name /\ task'[t].row = task[t].row /\ task'[t].left = task[t].left
      BY <1>2, <1>4 DEF InHand, OnlyMoves
<1>6. LeavesNamesTorn(task'[t]) /\ ~Renamed(task'[t]) BY <1>4 DEF LeavesNamesTorn, Renamed
<1>7. TaskFine(task[t])'
      <2>1. Shape(task'[t]) BY <1>2, <1>4, <1>5, CascadeIs DEF Shape, InOrder, Equipped, Changes
      <2>2. UsersFine(task[t])' BY <1>2, <1>3, <1>4, <1>5 DEF UsersFine, Creates, Changes
      <2>3. RowsFine(task[t])'
            <3>1. \A table : PassedBy(task[t], table)
                  BY <1>1, CascadeIs DEF PassedBy
            <3> QED BY <1>1, <1>2, <1>4, <1>5, <3>1 DEF TaskFine, RowsFine
      <2>4. TokensFine(task[t])'
            BY <1>1, <1>2, <1>4, <1>5 DEF TaskFine, TokensFine, TokensOf
      <2> QED BY <1>4, <1>5, <2>1, <2>2, <2>3, <2>4 DEF TaskFine, CopyFine, UnseenFine
<1>8. \A s \in Tasks : s # t => Apart(task[s], task[t])'
      BY <1>1, <1>2, <1>4, <1>5, SameHandlerApart
<1>9. ASSUME broken = {}, NEW n \in Names
      PROVE  /\ \A other \in Users : other # u => (guards'[n] = other <=> guards[n] = other)
             /\ guards'[n] = u <=> \/ /\ users'[u].life = "live" /\ users'[u].name = n
                                      /\ ~Renamed(task'[t])
                                   \/ LeavesNamesTorn(task'[t]) /\ task'[t].name = n
      <2>1. guards[n] = u <=> Held(task[t], u, n) BY <1>2, <1>9, WriterHolds
      <2>2. Held(task[t], u, n) <=> n = name
            BY <1>1, <1>2, <1>9 DEF Held, Renamed, LeavesNamesTorn
      <2> QED BY <1>1, <1>3, <1>5, <1>6, <2>1, <2>2
<1>10. NamesRight'
      <2>1. \A other \in Users : other # u =>
               Live(other)' = Live(other) /\ users'[other].name = users[other].name
            BY <1>3 DEF Live
      <2> QED BY <1>1, <1>2, <1>4, <1>5, <1>9, <2>1, MovesAlone, NamesStep
<1>11. guards' \in [Names -> Users \cup {NoUser}] BY <1>1 DEF Inv, Typed
<1>12. NothingOutlivesItsOwner' BY <1>1, <1>3, OwnerLeaves
<1> QED BY <1>1, <1>3, <1>4, <1>7, <1>8, <1>10, <1>11, <1>12, MovesAlone, AccountStep DEF OnlyMoves

LEMMA DropGuardKeeps ==
    ASSUME Inv, NEW t \in Tasks, DropGuard(t)
    PROVE Inv'
<1> DEFINE u == task[t].user
           name == task[t].name
<1>1. /\ task[t].phase = "dropGuard"
      /\ guards' = [guards EXCEPT ![name] = NoUser] /\ Ends(t)
      /\ UNCHANGED <<store, tenants, users, keys, rows, late, broken>>
      BY DEF DropGuard, At
<1>2. /\ u \in Users /\ name \in Names /\ Changes(task[t])
      /\ u \notin broken => users[u].life = "gone"
      BY <1>1, DeletionIs
<1>3. OnlyMoves(t) /\ task'[t] = Idle BY <1>1, EndsAt DEF Inv
<1>4. ~LeavesNamesTorn(task'[t]) BY <1>3, IdleIs DEF LeavesNamesTorn
<1>5. ASSUME broken = {}, NEW n \in Names
      PROVE  /\ \A other \in Users : other # u => (guards'[n] = other <=> guards[n] = other)
             /\ guards'[n] = u <=> \/ /\ users'[u].life = "live" /\ users'[u].name = n
                                      /\ ~Renamed(task'[t])
                                   \/ LeavesNamesTorn(task'[t]) /\ task'[t].name = n
      <2>1. guards[n] = u <=> Held(task[t], u, n) BY <1>2, <1>5, WriterHolds
      <2>2. Held(task[t], u, n) <=> n = name
            BY <1>1, <1>2, <1>5 DEF Held, Live, LeavesNamesTorn
      <2>3. guards'[n] = IF n = name THEN NoUser ELSE guards[n] BY <1>1 DEF Inv, Typed
      <2> QED BY <1>1, <1>2, <1>4, <1>5, <2>1, <2>2, <2>3, DirectoryAssumption
<1>6. NamesRight' BY <1>1, <1>2, <1>3, <1>4, <1>5, MovesAlone, NamesStep DEF Live
<1>7. guards' \in [Names -> Users \cup {NoUser}] BY <1>1 DEF Inv, Typed
<1>8. TaskFine(task[t])' /\ \A s \in Tasks : s # t => Apart(task[s], task[t])'
      BY <1>3, IdleStaysFine, IdleApart
<1> QED BY <1>1, <1>3, <1>6, <1>7, <1>8, GuardStep

\* Nobody asks whether an account is listed but the look of a deletion.
LEMMA IndexUserKeeps ==
    ASSUME Inv, NEW u \in Users, IndexUser(u)
    PROVE Inv'
<1> PICK old \in UserRow : old = users[u] BY DEF Inv, Typed
<1> PICK row : row = [old EXCEPT !.listed = TRUE] OBVIOUS
<1>1. row \in UserRow /\ row.life = old.life /\ row.tenant = old.tenant /\ row.name = old.name
      BY DEF UserRow
<1>2. /\ users' = [users EXCEPT ![u] = row]
      /\ UNCHANGED <<store, tenants, guards, keys, rows, late, broken, task>>
      BY DEF IndexUser
<1>3. users' \in [Users -> UserRow] BY <1>1, <1>2 DEF Inv, Typed
<1>4. \A other \in Users : /\ users'[other].life = users[other].life
                           /\ users'[other].tenant = users[other].tenant
                           /\ users'[other].name = users[other].name
      BY <1>1, <1>2 DEF Inv, Typed
<1>5. Typed' BY <1>2, <1>3 DEF Inv, Typed
<1>6. ASSUME NEW s \in Tasks
      PROVE  TaskFine(task[s])'
      <2>1. /\ TaskFine(task[s]) /\ task'[s] = task[s] /\ Shape(task[s]) /\ task[s] \in Record
            BY <1>2, TaskIs
      <2>2. task[s].user \in Users \cup {NoUser} BY <2>1 DEF Record
      <2>3. UsersFine(task[s])'
            <3>1. Changes(task[s]) => task[s].user \in Users BY <2>1 DEF Shape, Equipped
            <3> QED BY <1>2, <1>4, <2>1, <2>2, <3>1 DEF TaskFine, UsersFine, Live, Creates
      <2>4. CopyFine(task[s])' /\ RowsFine(task[s])' /\ TokensFine(task[s])'
            BY <1>2, <2>1 DEF TaskFine, CopyFine, RowsFine, TokensFine, TokensOf
      <2>5. UnseenFine(task[s])'
            BY <1>2, <1>4, <2>1 DEF TaskFine, UnseenFine, LivingIn, KeysOf, Live
      <2> QED BY <2>1, <2>3, <2>4, <2>5 DEF TaskFine
<1>7. Settled'
      <2>1. \A k \in Keys : keys[k].user \in Users \cup {NoUser} BY DEF Inv, Typed, KeyRow
      <2> QED BY <1>2, <1>4, <2>1 DEF Inv, Settled
<1>8. Alone' BY <1>2 DEF Inv, Alone, Apart, Creates, Changes
<1>9. NamesRight' BY <1>2, <1>4 DEF Inv, NamesRight, HoldsName, Live
<1>10. NothingOutlivesItsOwner'
      <2>1. UNCHANGED <<tenants, keys, rows, late>> BY <1>2
      <2>2. \A other \in Users : users'[other].life = "gone" => users[other].life = "gone" BY <1>4
      <2> QED BY <2>1, <2>2, NobodyLeaves
<1> QED BY <1>5, <1>6, <1>7, <1>8, <1>9, <1>10 DEF Inv

-----------------------------------------------------------------------------
(* Steps about keys *)

\* Keys change their owner never, and come back never.
KeysEnd ==
    /\ keys' \in [Keys -> KeyRow] /\ KeysGo
    /\ \A k \in Keys : keys'[k].user = keys[k].user

LEMMA KeyStep ==
    ASSUME Inv, NEW t \in Tasks, OnlyMoves(t), KeysEnd,
           UNCHANGED <<store, tenants, users, guards, rows, late, broken>>,
           TaskFine(task[t])', \A s \in Tasks : s # t => Apart(task[s], task[t])',
           ~LeavesNamesTorn(task[t]), ~LeavesNamesTorn(task'[t])
    PROVE Inv'
<1>1. Typed' BY DEF Inv, Typed, OnlyMoves, KeysEnd
<1>2. /\ UsersGo(t) /\ TenantsGo /\ KeysGo /\ NobodyArrives /\ BrokenGrows
      /\ \A u \in Users : Live(u)' = Live(u) /\ users'[u].name = users[u].name
      /\ \A u \in Users : users'[u].life = "gone" => users[u].life = "gone"
      BY DEF UsersGo, TenantsGo, KeysEnd, NobodyArrives, BrokenGrows, Inv, Typed, Live
<1>3. \A s \in Tasks : TaskFine(task[s])' BY <1>1, <1>2, OthersStay
<1>4. Alone' BY <1>2, MovesAlone, AloneStays
<1>5. NamesRight' BY <1>2, MovesAlone, NamesStay
<1>6. NothingOutlivesItsOwner' BY <1>2, OutlivesStay
<1>7. Settled' BY DEF Inv, Settled, KeysEnd
<1> QED BY <1>1, <1>3, <1>4, <1>5, <1>6, <1>7 DEF Inv

LEMMA RevokedKeys ==
    ASSUME Inv, NEW S, keys' = Revoked(S)
    PROVE /\ KeysEnd
          /\ \A k \in Keys : IF k \in S THEN keys'[k].life = "gone" ELSE keys'[k] = keys[k]
<1>1. ASSUME NEW row \in KeyRow
      PROVE  LET r == [row EXCEPT !.life = "gone"]
             IN  r \in KeyRow /\ r.life = "gone" /\ r.user = row.user
      BY DEF KeyRow, Life
<1>2. \A k \in Keys : keys[k] \in KeyRow BY DEF Inv, Typed
<1>3. keys' = [k \in Keys |-> IF k \in S THEN [keys[k] EXCEPT !.life = "gone"] ELSE keys[k]]
      BY DEF Revoked
<1>4. ASSUME NEW k \in Keys
      PROVE  /\ keys'[k] \in KeyRow /\ keys'[k].user = keys[k].user
             /\ IF k \in S THEN keys'[k].life = "gone" ELSE keys'[k] = keys[k]
      <2> PICK row \in KeyRow : row = keys[k] BY <1>2
      <2>1. keys'[k] = IF k \in S THEN [row EXCEPT !.life = "gone"] ELSE row BY <1>3
      <2> QED BY <1>1, <2>1
<1>5. keys' \in [Keys -> KeyRow]
      <2>1. keys' = [k \in Keys |-> keys'[k]] BY <1>3
      <2> QED BY <1>4, <2>1
<1>6. KeysGo BY <1>4 DEF KeysGo
<1> QED BY <1>4, <1>5, <1>6 DEF KeysEnd

LEMMA MissedKeys ==
    ASSUME Inv, NEW S, keys' = Missed(S)
    PROVE /\ KeysEnd
          /\ \A k \in Keys : keys'[k].life = keys[k].life /\ (k \in S => keys'[k].missed)
<1>1. ASSUME NEW row \in KeyRow
      PROVE  LET r == [row EXCEPT !.missed = TRUE]
             IN  r \in KeyRow /\ r.life = row.life /\ r.user = row.user /\ r.tenant = row.tenant
                 /\ r.missed
      BY DEF KeyRow
<1>2. \A k \in Keys : keys[k] \in KeyRow BY DEF Inv, Typed
<1>3. keys' = [k \in Keys |-> IF k \in S THEN [keys[k] EXCEPT !.missed = TRUE] ELSE keys[k]]
      BY DEF Missed
<1>4. ASSUME NEW k \in Keys
      PROVE  /\ keys'[k] \in KeyRow /\ keys'[k].user = keys[k].user
             /\ keys'[k].life = keys[k].life /\ keys'[k].tenant = keys[k].tenant
             /\ k \in S => keys'[k].missed
             /\ keys[k].missed => keys'[k].missed
      <2> PICK row \in KeyRow : row = keys[k] BY <1>2
      <2>1. keys'[k] = IF k \in S THEN [row EXCEPT !.missed = TRUE] ELSE row BY <1>3
      <2>2. CASE k \in S BY <1>1, <2>1, <2>2
      <2>3. CASE k \notin S BY <2>1, <2>3
      <2> QED BY <2>2, <2>3
<1>5. keys' \in [Keys -> KeyRow]
      <2>1. keys' = [k \in Keys |-> keys'[k]] BY <1>3
      <2> QED BY <1>4, <2>1
<1>6. KeysGo BY <1>4 DEF KeysGo
<1> QED BY <1>4, <1>5, <1>6 DEF KeysEnd

LEMMA DropKeyKeeps ==
    ASSUME Inv, NEW t \in Tasks, DropKey(t)
    PROVE Inv'
<1>1. /\ At(t, "dropKey") /\ keys' = Revoked({task[t].key}) /\ Ends(t)
      /\ UNCHANGED <<store, tenants, users, guards, rows, late, broken>>
      BY DEF DropKey
<1>2. OnlyMoves(t) /\ task'[t] = Idle BY <1>1, EndsAt DEF Inv
<1>3. KeysEnd BY <1>1, RevokedKeys
<1>4. ~LeavesNamesTorn(task[t]) /\ ~LeavesNamesTorn(task'[t])
      BY <1>1, <1>2, IdleIs DEF At, LeavesNamesTorn
<1>5. TaskFine(task[t])' /\ \A s \in Tasks : s # t => Apart(task[s], task[t])'
      BY <1>2, IdleStaysFine, IdleApart
<1> QED BY <1>1, <1>2, <1>3, <1>4, <1>5, KeyStep

\* The tokens are the last to be cleared.
LEMMA TokensAreLast ==
    \A table \in Dependents : Index("tokens") > Index(table)
<1> SUFFICES ASSUME NEW table \in Dependents PROVE Index("tokens") > Index(table) OBVIOUS
<1>1. table \in Clearing /\ table # "tokens" BY DirectoryAssumption
<1>2. "tokens" \in Clearing BY CascadeIs
<1>3. Index("tokens") \in 1..5 /\ Cascade[Index("tokens")] = "tokens" BY <1>2, IndexIs
<1>4. Index(table) \in 1..5 /\ Cascade[Index(table)] = table BY <1>1, IndexIs
<1>5. \A n \in 1..5 : Cascade[n] = "tokens" <=> n = 5
      <2>1. \A n \in 1..5 : n = 1 \/ n = 2 \/ n = 3 \/ n = 4 \/ n = 5 OBVIOUS
      <2> QED BY <2>1, CascadeIs
<1>6. Index("tokens") = 5 /\ Index(table) # 5 BY <1>1, <1>3, <1>4, <1>5
<1> QED BY <1>4, <1>6

(***************************************************************************)
(* A deletion has gone over the tokens of its account, or is at it: those  *)
(* that are left were missed, or are in its list.                          *)
(***************************************************************************)
LEMMA TokensClearedKeeps ==
    ASSUME Inv, NEW t \in Tasks, task[t].phase \in {"tokens", "dropTokens"},
           NEW phase \in {"dropTokens", "dropUser"}, NEW left \in SUBSET Keys,
           task' = [task EXCEPT ![t].left = left, ![t].phase = phase],
           KeysEnd,
           \A k \in Keys : keys'[k].life = "live" /\ keys'[k].user = task[t].user =>
               keys'[k].missed \/ (phase = "dropTokens" /\ k \in left),
           UNCHANGED <<store, tenants, users, guards, rows, late, broken>>
    PROVE Inv'
<1> PICK old \in Record : old = task[t] BY TaskIs
<1> PICK r : r = [old EXCEPT !.left = left, !.phase = phase] OBVIOUS
<1>0. phase \in Phases BY DEF Phases
<1>1. /\ r \in Record /\ r.kind = old.kind /\ r.phase = phase /\ r.user = old.user
      /\ r.name = old.name /\ r.row = old.row /\ r.left = left /\ r.tenant = old.tenant
      BY <1>0 DEF Record
<1>2. task' = [task EXCEPT ![t] = r] OBVIOUS
<1>3. OnlyMoves(t) /\ task'[t] = r BY <1>1, <1>2 DEF Inv, Typed, OnlyMoves
<1>4. task[t].kind = "deleteUser" /\ Shape(task[t]) /\ TaskFine(task[t])
      BY TaskIs, KindAt, CascadeIs DEF At
<1>5. Shape(r) BY <1>1, <1>4, CascadeIs DEF Shape, InOrder, Equipped, Changes
<1>6. UsersFine(task[t])'
      <2>1. UsersFine(old) /\ old.phase # "dropGuard" /\ phase # "dropGuard" BY <1>4 DEF TaskFine
      <2>2. UsersFine(r)' BY <1>1, <2>1 DEF UsersFine, Creates, Changes, Live
      <2> QED BY <1>3, <2>2
<1>7. RowsFine(task[t])'
      <2>1. \A table \in Dependents : PassedBy(old, table)
            <3>1. CASE old.phase = "tokens" BY <3>1, TokensAreLast DEF PassedBy
            <3>2. CASE old.phase = "dropTokens" BY <3>2, CascadeIs DEF PassedBy
            <3> QED BY <3>1, <3>2
      <2>2. RowsFine(old) /\ old.kind = "deleteUser" BY <1>4 DEF TaskFine
      <2>3. \A table \in Dependents : <<old.user, table>> \in rows => <<old.user, table>> \in late
            BY <2>1, <2>2 DEF RowsFine
      <2>4. RowsFine(r)' BY <1>1, <2>3 DEF RowsFine
      <2> QED BY <1>3, <2>4
<1>8. TokensFine(task[t])'
      <2>1. /\ task'[t].user = task[t].user /\ task'[t].phase = phase /\ task'[t].left = left
            BY <1>1, <1>3
      <2>2. \A k \in Keys : keys'[k].life = "live" /\ keys'[k].user = task'[t].user =>
                keys'[k].missed \/ (task'[t].phase = "dropTokens" /\ k \in task'[t].left)
            BY <2>1
      <2> QED BY <2>2 DEF TokensFine, TokensOf
<1>9. TaskFine(task[t])'
      BY <1>1, <1>3, <1>4, <1>5, <1>6, <1>7, <1>8 DEF TaskFine, CopyFine, UnseenFine
<1>10. \A s \in Tasks : s # t => Apart(task[s], task[t])'
      BY <1>1, <1>3, SameHandlerApart
<1>11. ~LeavesNamesTorn(task[t]) /\ ~LeavesNamesTorn(task'[t])
      BY <1>1, <1>3 DEF LeavesNamesTorn
<1> QED BY <1>3, <1>9, <1>10, <1>11, KeyStep

LEMMA ClearTokensAtOnceKeeps ==
    ASSUME Inv, NEW t \in Tasks, ClearTokensAtOnce(t)
    PROVE Inv'
<1> DEFINE u == task[t].user
           home == {k \in TokensOf(u) : keys[k].tenant = task[t].row.tenant}
<1>1. /\ task[t].phase = "tokens" /\ Goes(t, "dropUser")
      /\ keys' = [k \in Keys |-> IF k \in home THEN Revoked(home)[k] ELSE Missed(TokensOf(u))[k]]
      /\ UNCHANGED <<store, tenants, users, guards, rows, late, broken>>
      BY DEF ClearTokensAtOnce, At
<1>2. \A k \in Keys : keys[k] \in KeyRow BY DEF Inv, Typed
<1>3. ASSUME NEW k \in Keys
      PROVE  /\ keys'[k] \in KeyRow /\ keys'[k].user = keys[k].user
             /\ keys'[k].tenant = keys[k].tenant
             /\ keys'[k].life = IF k \in home THEN "gone" ELSE keys[k].life
             /\ k \in TokensOf(u) \ home => keys'[k].missed
             /\ keys[k].missed => keys'[k].missed
      <2> PICK row \in KeyRow : row = keys[k] BY <1>2
      <2>1. CASE k \in home
            <3>1. keys'[k] = [row EXCEPT !.life = "gone"] BY <1>1, <2>1 DEF Revoked
            <3> QED BY <2>1, <3>1 DEF KeyRow, Life
      <2>2. CASE k \notin home /\ k \in TokensOf(u)
            <3>1. keys'[k] = [row EXCEPT !.missed = TRUE] BY <1>1, <2>2 DEF Missed
            <3> QED BY <2>2, <3>1 DEF KeyRow, Life
      <2>3. CASE k \notin home /\ k \notin TokensOf(u)
            <3>1. keys'[k] = row BY <1>1, <2>3 DEF Missed
            <3> QED BY <2>3, <3>1
      <2> QED BY <2>1, <2>2, <2>3
<1>4. KeysEnd
      <2>1. keys' = [k \in Keys |-> keys'[k]] BY <1>1
      <2>2. keys' \in [Keys -> KeyRow] BY <1>3, <2>1
      <2> QED BY <1>3, <2>2 DEF KeysEnd, KeysGo
<1>5. \A k \in Keys : keys'[k].life = "live" /\ keys'[k].user = u => keys'[k].missed
      BY <1>3 DEF TokensOf
<1> PICK old \in Record : old = task[t] BY TaskIs
<1> PICK left \in SUBSET Keys : left = old.left BY DEF Record
<1>6. task' = [task EXCEPT ![t].left = left, ![t].phase = "dropUser"]
      <2>1. [old EXCEPT !.phase = "dropUser"] = [old EXCEPT !.left = left, !.phase = "dropUser"]
            BY DEF Record
      <2>2. task' = [task EXCEPT ![t] = [old EXCEPT !.phase = "dropUser"]] BY <1>1 DEF Goes
      <2> QED BY <2>1, <2>2
<1> QED BY <1>1, <1>4, <1>5, <1>6, TokensClearedKeeps

LEMMA ListTokensKeeps ==
    ASSUME Inv, NEW t \in Tasks, ListTokens(t)
    PROVE Inv'
<1> DEFINE u == task[t].user
<1> PICK seen : seen = {k \in TokensOf(u) :
                           keys[k].tenant = task[t].row.tenant /\ keys[k].listed} OBVIOUS
<1> PICK phase : phase = IF seen = {} THEN "dropUser" ELSE "dropTokens" OBVIOUS
<1>1. /\ task[t].phase = "tokens" /\ keys' = Missed(TokensOf(u) \ seen)
      /\ task' = [task EXCEPT ![t].left = seen, ![t].phase = phase]
      /\ UNCHANGED <<store, tenants, users, guards, rows, late, broken>>
      BY DEF ListTokens, At
<1>2. seen \in SUBSET Keys BY DEF TokensOf
<1>3. /\ KeysEnd
      /\ \A k \in Keys : /\ keys'[k].life = keys[k].life
                         /\ k \in TokensOf(u) \ seen => keys'[k].missed
      BY <1>1, MissedKeys
<1>4. \A k \in Keys : keys'[k].life = "live" /\ keys'[k].user = u =>
          keys'[k].missed \/ (phase = "dropTokens" /\ k \in seen)
      BY <1>3 DEF TokensOf, KeysEnd
<1>5. phase \in {"dropTokens", "dropUser"} OBVIOUS
<1> QED BY <1>1, <1>2, <1>3, <1>4, <1>5, TokensClearedKeeps

LEMMA DropTokenKeeps ==
    ASSUME Inv, NEW t \in Tasks, NEW k \in Keys, DropToken(t, k)
    PROVE Inv'
<1> DEFINE u == task[t].user
<1> PICK left : left = task[t].left \ {k} OBVIOUS
<1> PICK phase : phase = IF task[t].left = {k} THEN "dropUser" ELSE "dropTokens" OBVIOUS
<1>1. /\ task[t].phase = "dropTokens" /\ k \in task[t].left /\ keys' = Revoked({k})
      /\ UNCHANGED <<store, tenants, users, guards, rows, late, broken>>
      BY DEF DropToken, At
<1>2. task' = [task EXCEPT ![t].left = left, ![t].phase = phase] BY <1>1 DEF DropToken
<1>3. /\ task[t].kind = "deleteUser" /\ TokensFine(task[t]) /\ left \in SUBSET Keys
      BY <1>1, TaskIs, KindAt DEF TaskFine, Record
<1>4. /\ KeysEnd
      /\ \A other \in Keys : IF other = k THEN keys'[other].life = "gone"
                             ELSE keys'[other] = keys[other]
      BY <1>1, RevokedKeys
<1>5. \A other \in Keys : keys'[other].life = "live" /\ keys'[other].user = u =>
          keys'[other].missed \/ (phase = "dropTokens" /\ other \in left)
      BY <1>1, <1>3, <1>4 DEF TokensFine, TokensOf
<1>6. phase \in {"dropTokens", "dropUser"} OBVIOUS
<1> QED BY <1>1, <1>2, <1>3, <1>4, <1>5, <1>6, TokensClearedKeeps

(***************************************************************************)
(* A key comes to a tenant: the deletions of the tenant learn of it, and a *)
(* token whose user's deletion has been over the tokens is marked.         *)
(***************************************************************************)
LEMMA KeyComes ==
    ASSUME Inv, NEW k \in Keys, NEW row \in KeyRow,
           row.user # NoUser =>
               users[row.user].life # "unborn" /\ (TokensPassed(row.user) => row.missed),
           keys' = [keys EXCEPT ![k] = row], task' = Arrives(k, row.tenant),
           UNCHANGED <<store, tenants, users, guards, rows, late, broken>>
    PROVE Inv'
<1>1. /\ keys' \in [Keys -> KeyRow] /\ keys'[k] = row
      /\ \A other \in Keys : other # k => keys'[other] = keys[other]
      BY DEF Inv, Typed
<1>2. /\ \A s \in Tasks : Stays(s)
      /\ \A s \in Tasks : task[s].kind = "deleteTenant" /\ task[s].tenant = row.tenant =>
             k \in task'[s].unseen
      /\ task' \in [Tasks -> Record]
      <2>1. \A s \in Tasks : task'[s] = Arrives(k, row.tenant)[s] OBVIOUS
      <2>2. \A s \in Tasks : task'[s] \in Record BY <2>1, Arrived
      <2>3. task' = [s \in Tasks |-> task'[s]] BY DEF Arrives
      <2> QED BY <2>1, <2>2, <2>3, Arrived DEF Stays
<1>3. Typed' BY <1>1, <1>2 DEF Inv, Typed
<1>4. TenantsGo /\ BrokenGrows BY DEF TenantsGo, BrokenGrows, Inv, Typed
<1>5. row.user \in Users \cup {NoUser} BY DEF KeyRow
<1>6. ASSUME NEW s \in Tasks
      PROVE  TaskFine(task[s])'
      <2>1. /\ Stays(s) /\ Shape(task[s]) /\ TaskFine(task[s])
            /\ task'[s].kind = task[s].kind /\ task'[s].phase = task[s].phase
            /\ task'[s].user = task[s].user /\ task'[s].row = task[s].row
            BY <1>2, TaskIs DEF Stays
      <2>2. UsersFine(task[s])' BY <2>1 DEF TaskFine, UsersFine, Creates, Changes, Live
      <2>3. UnseenFine(task[s])' BY <1>1, <1>2, <2>1, UnseenStay DEF Live
      <2>4. TokensFine(task[s])'
            <3> SUFFICES ASSUME task[s].kind = "deleteUser",
                                task[s].phase \in {"dropTokens", "dropUser", "dropGuard"},
                                NEW key \in Keys, keys'[key].life = "live",
                                keys'[key].user = task[s].user
                         PROVE  keys'[key].missed \/ (task'[s].phase = "dropTokens"
                                                      /\ key \in task'[s].left)
                BY <2>1 DEF TokensFine, TokensOf
            <3>1. task'[s] = task[s] /\ task[s].user \in Users
                  BY <2>1 DEF Stays, Shape, Equipped, Changes
            <3>2. CASE key = k
                  <4>1. row.user = task[s].user /\ row.user # NoUser
                        BY <1>1, <3>1, <3>2, DirectoryAssumption
                  <4>2. TokensPassed(row.user) BY <4>1 DEF TokensPassed
                  <4> QED BY <1>1, <3>2, <4>1, <4>2
            <3>3. CASE key # k
                  BY <1>1, <2>1, <3>1, <3>3 DEF TaskFine, TokensFine, TokensOf
            <3> QED BY <3>2, <3>3
      <2>5. CopyFine(task[s])' /\ RowsFine(task[s])' /\ Shape(task[s])'
            BY <1>3, <1>4, <2>1, CopiesStay, RowsStay, ShapesStay
      <2> QED BY <2>2, <2>3, <2>4, <2>5 DEF TaskFine
<1>7. Settled'
      <2>1. \A other \in Keys : keys'[other].user # NoUser => users[keys'[other].user].life # "unborn"
            BY <1>1 DEF Inv, Settled
      <2> QED BY <2>1 DEF Inv, Settled
<1>8. Alone' BY <1>2 DEF Inv, Alone, Apart, Stays, Creates, Changes
<1>9. NamesRight' BY <1>2, <1>4, NamesStay DEF Live
<1>10. NothingOutlivesItsOwner'
      <2>1. \A other \in Keys : keys'[other].life = "live" /\ keys'[other].user # NoUser =>
                users[keys'[other].user].life # "gone" \/ keys'[other].missed
            <3>1. CASE row.user = NoUser BY <1>1, <3>1 DEF Inv, NothingOutlivesItsOwner
            <3>2. CASE row.user # NoUser
                  BY <1>1, <3>2 DEF Inv, NothingOutlivesItsOwner, TokensPassed
            <3> QED BY <3>1, <3>2
      <2> QED BY <2>1 DEF Inv, NothingOutlivesItsOwner
<1> QED BY <1>3, <1>6, <1>7, <1>8, <1>9, <1>10 DEF Inv

LEMMA CreateApiKeyKeeps ==
    ASSUME Inv, NEW k \in Keys, NEW id \in Tenants, CreateApiKey(k, id)
    PROVE Inv'
<1> PICK row : row = [life |-> "live", tenant |-> id, user |-> NoUser,
                      listed |-> store = "postgres", missed |-> FALSE] OBVIOUS
<1>1. row \in KeyRow /\ row.user = NoUser /\ row.tenant = id BY DEF KeyRow, Life
<1>2. /\ keys' = [keys EXCEPT ![k] = row] /\ task' = Arrives(k, row.tenant)
      /\ UNCHANGED <<store, tenants, users, guards, rows, late, broken>>
      BY <1>1 DEF CreateApiKey
<1> QED BY <1>1, <1>2, KeyComes

LEMMA CreateMyPatKeeps ==
    ASSUME Inv, NEW k \in Keys, NEW u \in Users, NEW id \in Tenants, CreateMyPat(k, u, id)
    PROVE Inv'
<1> PICK isLate : isLate = TokensPassed(u) /\ isLate \in BOOLEAN BY DEF TokensPassed
<1> PICK row : row = [life |-> "live", tenant |-> id, user |-> u,
                      listed |-> store = "postgres", missed |-> isLate] OBVIOUS
<1>1. row \in KeyRow /\ row.user = u /\ row.tenant = id /\ row.missed = isLate
      BY DEF KeyRow, Life
<1>2. /\ keys' = [keys EXCEPT ![k] = row] /\ task' = Arrives(k, row.tenant)
      /\ UNCHANGED <<store, tenants, users, guards, rows, late, broken>>
      /\ users[u].life # "unborn"
      BY <1>1 DEF CreateMyPat
<1> QED BY <1>1, <1>2, KeyComes

LEMMA IndexKeyKeeps ==
    ASSUME Inv, NEW k \in Keys, IndexKey(k)
    PROVE Inv'
<1> PICK old \in KeyRow : old = keys[k] BY DEF Inv, Typed
<1> PICK row : row = [old EXCEPT !.listed = TRUE] OBVIOUS
<1>1. /\ row \in KeyRow /\ row.life = old.life /\ row.tenant = old.tenant /\ row.user = old.user
      /\ row.missed = old.missed
      BY DEF KeyRow
<1>2. /\ keys' = [keys EXCEPT ![k] = row]
      /\ UNCHANGED <<store, tenants, users, guards, rows, late, broken, task>>
      BY DEF IndexKey
<1>3. keys' \in [Keys -> KeyRow] BY <1>1, <1>2 DEF Inv, Typed
<1>4. \A other \in Keys : /\ keys'[other].life = keys[other].life
                          /\ keys'[other].tenant = keys[other].tenant
                          /\ keys'[other].user = keys[other].user
                          /\ keys'[other].missed = keys[other].missed
      BY <1>1, <1>2 DEF Inv, Typed
<1>5. Typed' /\ KeysGo BY <1>2, <1>3, <1>4 DEF Inv, Typed, KeysGo
<1>6. ASSUME NEW s \in Tasks
      PROVE  TaskFine(task[s])'
      <2>1. TaskFine(task[s]) /\ task'[s] = task[s] /\ Stays(s)
            BY <1>2, TaskIs DEF Stays
      <2>2. UsersFine(task[s])' /\ CopyFine(task[s])' /\ RowsFine(task[s])'
            BY <1>2, <2>1 DEF TaskFine, UsersFine, CopyFine, RowsFine, Live
      <2>3. UnseenFine(task[s])' BY <1>2, <1>4, <2>1, UnseenStay DEF Live
      <2>4. TokensFine(task[s])' BY <1>5, <2>1, TokensStay
      <2> QED BY <2>1, <2>2, <2>3, <2>4, ShapesStay DEF TaskFine
<1>7. Settled' BY <1>2, <1>4 DEF Inv, Settled
<1>8. Alone' BY <1>2 DEF Inv, Alone, Apart, Creates, Changes
<1>9. NamesRight' BY <1>2 DEF Inv, NamesRight, HoldsName, Live
<1>10. NothingOutlivesItsOwner' BY <1>2, <1>5, OutlivesStay
<1> QED BY <1>5, <1>6, <1>7, <1>8, <1>9, <1>10 DEF Inv

-----------------------------------------------------------------------------
(* The invariant is inductive *)

LEMMA InitHolds == DirectoryInit => Inv
<1> SUFFICES ASSUME DirectoryInit PROVE Inv OBVIOUS
<1>1. /\ NoUserRow \in UserRow /\ NoTenantRow \in AnyTenantRow /\ NoKeyRow \in KeyRow
      /\ FreshTenant(1) \in AnyTenantRow
      BY DEF NoUserRow, NoTenantRow, NoKeyRow, FreshTenant, UserRow, AnyTenantRow, KeyRow, Life
<1>2. /\ NoUserRow.life = "unborn" /\ NoKeyRow.life = "unborn" /\ NoKeyRow.user = NoUser
      BY DEF NoUserRow, NoKeyRow
<1>3. Typed BY <1>1, IdleIs DEF DirectoryInit, Typed
<1>4. \A t \in Tasks : task[t] = Idle BY DEF DirectoryInit
<1>5. Settled /\ NothingOutlivesItsOwner
      BY <1>2 DEF DirectoryInit, Settled, NothingOutlivesItsOwner
<1>6. Alone BY <1>4, IdleIs DEF Alone, Apart, Creates, Changes
<1>7. NamesRight
      <2>1. \A u \in Users, n \in Names : guards[n] # u
            BY DirectoryAssumption DEF DirectoryInit
      <2>2. \A u \in Users, n \in Names : ~HoldsName(u, n)
            BY <1>2, <1>4, IdleIs DEF HoldsName, Live, LeavesNamesTorn, DirectoryInit
      <2> QED BY <2>1, <2>2 DEF NamesRight
<1> QED BY <1>3, <1>4, <1>5, <1>6, <1>7, IdleFine DEF Inv

LEMMA RequestsKeep ==
    ASSUME Inv, NEW t \in Tasks, DirectoryRequest(t)
    PROVE Inv'
BY PatchTenantKeeps, DeleteTenantKeeps, CreateTenantKeeps, CreateUserKeeps, ExchangeKeeps,
   DeleteUserKeeps, PatchUserKeeps, DeleteApiKeyKeeps
   DEF DirectoryRequest

LEMMA StepsKeep ==
    ASSUME Inv, NEW t \in Tasks, DirectoryStep(t)
    PROVE Inv'
<1>1. \/ InsertTenant(t) \/ PutTenant(t)
      \/ LookUsers(t) \/ LookKeys(t) \/ ClearRecipients(t) \/ DropTenant(t)
      => Inv'
      BY InsertTenantKeeps, PutTenantKeeps, LookUsersKeeps, LookKeysKeeps, ClearRecipientsKeeps,
         DropTenantKeeps
<1>2. \/ NameTaken(t) \/ ReserveName(t) \/ RenameAtOnce(t) \/ CreateAtOnce(t)
      \/ InsertUser(t) \/ Release(t) \/ RefusePatch(t) \/ PutUser(t)
      => Inv'
      BY NameTakenKeeps, ReserveNameKeeps, RenameAtOnceKeeps, CreateAtOnceKeeps,
         InsertUserKeeps, ReleaseKeeps, RefusePatchKeeps, PutUserKeeps
<1>3. \/ ClearTokensAtOnce(t) \/ ListTokens(t)
      \/ DropUserAtOnce(t) \/ DropUser(t) \/ DropGuard(t)
      \/ \E k \in Keys : DropToken(t, k)
      \/ DropKey(t) \/ ExchangeSubject(t) \/ ExchangeTenant(t) \/ TouchKey(t)
      => Inv'
      BY ClearTokensAtOnceKeeps, ListTokensKeeps, DropUserAtOnceKeeps, DropUserKeeps,
         DropGuardKeeps, DropTokenKeeps, DropKeyKeeps, ExchangeSubjectKeeps,
         ExchangeTenantKeeps, TouchKeyKeeps
<1> QED BY <1>1, <1>2, <1>3 DEF DirectoryStep

LEMMA WorldKeeps ==
    ASSUME Inv, DirectoryWorld
    PROVE Inv'
BY CreateApiKeyKeeps, CreateMyPatKeeps, WriteRowKeeps, IndexUserKeeps, IndexKeyKeeps
   DEF DirectoryWorld

LEMMA NextKeeps == Inv /\ [DirectoryNext]_directoryVars => Inv'
<1> SUFFICES ASSUME Inv, [DirectoryNext]_directoryVars PROVE Inv' OBVIOUS
<1>1. ASSUME NEW t \in Tasks,
             DirectoryRequest(t) \/ DirectoryStep(t) \/ ClearTable(t) \/ Stop(t)
      PROVE  Inv'
      BY <1>1, RequestsKeep, StepsKeep, ClearTableKeeps, StopKeeps
<1>2. CASE DirectoryWorld BY <1>2, WorldKeeps
<1>3. CASE UNCHANGED directoryVars
      <2>1. UNCHANGED <<store, tenants, users, guards, keys, rows, late, broken, task>>
            BY <1>3 DEF directoryVars
      <2>2. Typed' BY <2>1 DEF Inv, Typed
      <2>3. ASSUME NEW s \in Tasks PROVE TaskFine(task[s])'
            <3>1. TaskFine(task[s]) /\ task'[s] = task[s] BY <2>1 DEF Inv
            <3> QED BY <2>1, <3>1
                    DEF TaskFine, UsersFine, CopyFine, UnseenFine, RowsFine, TokensFine,
                        LivingIn, KeysOf, TokensOf, Live
      <2>4. Settled' /\ Alone' /\ NothingOutlivesItsOwner'
            BY <2>1 DEF Inv, Settled, Alone, Apart, Creates, Changes, NothingOutlivesItsOwner
      <2>5. NamesRight' BY <2>1 DEF Inv, NamesRight, HoldsName, Live
      <2> QED BY <2>2, <2>3, <2>4, <2>5 DEF Inv
<1> QED BY <1>1, <1>2, <1>3 DEF DirectoryNext

-----------------------------------------------------------------------------
(* The directory among its chat links *)

\* What the messaging part does leaves the directory alone.
LEMMA MessagingStays ==
    /\ M!MessagingTime => store' = store
    /\ \A t \in Tasks : /\ MessagingActs(t) => store' = store
                        /\ CallPurge(t) => store' = store
<1>1. M!MessagingTime => store' = store
      BY DEF M!MessagingTime, M!CodeExpires, M!CodeSwept, M!CodeListed
<1>2. ASSUME NEW t \in Tasks, AsksForCode(t) \/ Claims(t) \/ Unlinks(t)
      PROVE  store' = store
      BY <1>2 DEF AsksForCode, Claims, Unlinks, M!CurrentCode, M!RegenerateCode, M!CreateLink,
                  M!DeleteLink
<1>3. ASSUME NEW t \in Tasks, M!MessagingStep(t)
      PROVE  store' = store
      BY <1>3 DEF M!MessagingStep, M!ReplaceAll, M!FindOld, M!DeleteOld, M!PutNewCode,
                  M!ConsumeCode, M!ClaimIdentity, M!ReportDisplaced, M!PurgeCodes, M!FindPurged,
                  M!PurgeCode, M!PurgeLinks, M!ListLinks, M!DropLink
<1>4. \A t \in Tasks : M!CallStops(t) => store' = store BY DEF M!CallStops
<1> QED BY <1>1, <1>2, <1>3, <1>4 DEF MessagingActs, CallPurge, M!Purge

\* Every step of the whole is one of the directory, or leaves it alone.
LEMMA DirectoryMoves == [Next]_vars => [DirectoryNext]_directoryVars
<1> SUFFICES ASSUME [Next]_vars PROVE [DirectoryNext]_directoryVars OBVIOUS
<1>1. UNCHANGED <<store, directoryOnly>> => UNCHANGED directoryVars
      BY DEF directoryVars, directoryOnly
<1>2. CASE UNCHANGED vars BY <1>1, <1>2 DEF vars
<1>3. CASE Elapses BY <1>1, <1>3, MessagingStays DEF Elapses, DirectoryNext
<1>4. ASSUME NEW t \in Tasks, CallPurge(t) \/ MessagingActs(t) PROVE UNCHANGED directoryVars
      <2>1. UNCHANGED directoryOnly BY <1>4 DEF CallPurge, MessagingActs
      <2> QED BY <1>1, <1>4, <2>1, MessagingStays
<1>5. ASSUME NEW t \in Tasks, PurgeDone(t) \/ StopPurging(t) \/ DirectoryActs(t)
      PROVE  DirectoryNext
      BY <1>5 DEF PurgeDone, StopPurging, DirectoryActs, DirectoryNext
<1> QED BY <1>2, <1>3, <1>4, <1>5 DEF Next

LEMMA InvHolds == Spec => []Inv
<1>1. Init => Inv BY InitHolds DEF Init
<1>2. Inv /\ [Next]_vars => Inv' BY NextKeeps, DirectoryMoves
<1> QED BY <1>1, <1>2, PTL DEF Spec

-----------------------------------------------------------------------------
(* The theorems *)

LEMMA InvMeansNamesAgree == Inv => NamesAgree
<1> SUFFICES ASSUME Inv, broken = {} PROVE NamesAgree BY DEF NamesAgree
<1>1. \A u \in Users, n \in Names : guards[n] = u <=> HoldsName(u, n) BY DEF Inv, NamesRight
<1>2. ASSUME NEW u \in Users, Live(u), ~Renaming(u)
      PROVE  guards[users[u].name] = u
      <2>1. users[u].name \in Names BY <1>2 DEF Inv, Settled, Live
      <2>2. ~\E t \in Tasks : task[t].user = u /\ Renamed(task[t])
            BY <1>2 DEF Renaming, Renamed
      <2>3. HoldsName(u, users[u].name) BY <1>2, <2>2 DEF HoldsName
      <2> QED BY <1>1, <2>1, <2>3
<1>3. ASSUME NEW n \in Names, guards[n] # NoUser
      PROVE  \/ Live(guards[n]) /\ users[guards[n]].name = n
             \/ \E t \in Tasks :
                  /\ task[t].user = guards[n]
                  /\ task[t].phase \in {"insertUser", "release", "put", "dropGuard"}
      <2>1. guards[n] \in Users BY <1>3 DEF Inv, Typed
      <2>2. HoldsName(guards[n], n) BY <1>1, <2>1
      <2> QED BY <2>2 DEF HoldsName, LeavesNamesTorn
<1> QED BY <1>2, <1>3 DEF NamesAgree

(***************************************************************************)
(* Login names and accounts agree (NamesAgree): whatever creations,        *)
(* renames (patch_user: reserve, release, put_user) and deletions run at   *)
(* once, as long as none was cut short and no two met on one account, a    *)
(* settled account owns the guard of its name and a guard leads to an      *)
(* account of that name or to one being written.                           *)
(***************************************************************************)
THEOREM NamesAndAccountsAgree == Spec => []NamesAgree
BY InvHolds, InvMeansNamesAgree, PTL

(***************************************************************************)
(* delete_user's cascade and delete_tenant leave no row and no token       *)
(* behind but what was written after they had been over its table.         *)
(***************************************************************************)
THEOREM OwnersLeaveNothing == Spec => []NothingOutlivesItsOwner
<1>1. Inv => NothingOutlivesItsOwner BY DEF Inv
<1> QED BY <1>1, InvHolds, PTL

-----------------------------------------------------------------------------
(* What a step may never do *)

\* A request only starts its handler.
LEMMA RequestsOnlyStart ==
    ASSUME NEW t \in Tasks, DirectoryRequest(t)
    PROVE UNCHANGED <<tenants, users, keys>>
BY DEF DirectoryRequest, PatchTenant, DeleteTenant, CreateTenant, CreateUser, Exchange, DeleteUser,
       PatchUser, DeleteApiKey

\* The steps that write none of the three tables.
LEMMA StepsWrite ==
    ASSUME NEW t \in Tasks, DirectoryStep(t) \/ ClearTable(t) \/ Stop(t)
    PROVE \/ UNCHANGED <<tenants, users, keys>>
          \/ (InsertTenant(t) \/ PutTenant(t) \/ DropTenant(t)) /\ UNCHANGED <<users, keys>>
          \/ /\ CreateAtOnce(t) \/ InsertUser(t) \/ PutUser(t) \/ DropUserAtOnce(t) \/ DropUser(t)
             /\ UNCHANGED <<tenants, keys>>
          \/ /\ \/ DropKey(t) \/ ClearTokensAtOnce(t) \/ ListTokens(t)
                \/ \E k \in Keys : DropToken(t, k)
             /\ UNCHANGED <<tenants, users>>
<1>1. CASE ClearTable(t) \/ Stop(t) BY <1>1 DEF ClearTable, Stop
<1>2. CASE \/ LookUsers(t) \/ LookKeys(t) \/ ClearRecipients(t)
           \/ NameTaken(t) \/ ReserveName(t) \/ RenameAtOnce(t)
           \/ Release(t) \/ RefusePatch(t) \/ DropGuard(t)
           \/ ExchangeSubject(t) \/ ExchangeTenant(t) \/ TouchKey(t)
      BY <1>2 DEF LookUsers, LookKeys, ClearRecipients, NameTaken, ReserveName, RenameAtOnce,
                  Release, RefusePatch, DropGuard, ExchangeSubject, ExchangeTenant, TouchKey
<1>3. CASE InsertTenant(t) \/ PutTenant(t) \/ DropTenant(t)
      BY <1>3 DEF InsertTenant, PutTenant, DropTenant
<1>4. CASE CreateAtOnce(t) \/ InsertUser(t) \/ PutUser(t) \/ DropUserAtOnce(t) \/ DropUser(t)
      BY <1>4 DEF CreateAtOnce, InsertUser, PutUser, DropUserAtOnce, DropUser
<1>5. CASE \/ DropKey(t) \/ ClearTokensAtOnce(t) \/ ListTokens(t)
           \/ \E k \in Keys : DropToken(t, k)
      BY <1>5 DEF DropKey, ClearTokensAtOnce, ListTokens, DropToken
<1> QED BY <1>1, <1>2, <1>3, <1>4, <1>5 DEF DirectoryStep

LEMMA WorldWrites ==
    ASSUME DirectoryWorld
    PROVE \/ UNCHANGED <<tenants, users, keys>>
          \/ (\E u \in Users : IndexUser(u)) /\ UNCHANGED <<tenants, keys>>
          \/ /\ \/ \E k \in Keys, id \in Tenants : CreateApiKey(k, id)
                \/ \E k \in Keys, id \in Tenants, u \in Users : CreateMyPat(k, u, id)
                \/ \E k \in Keys : IndexKey(k)
             /\ UNCHANGED <<tenants, users>>
BY DEF DirectoryWorld, CreateApiKey, CreateMyPat, WriteRow, IndexUser, IndexKey

LEMMA KeysStayGone ==
    ASSUME Inv, DirectoryNext, NEW k \in Keys, keys[k].life = "gone"
    PROVE keys'[k].life = "gone"
<1>1. keys[k] \in KeyRow BY DEF Inv, Typed
<1>2. CASE UNCHANGED keys BY <1>2
<1>3. ASSUME NEW other \in Keys, NEW id \in Tenants, CreateApiKey(other, id)
      PROVE  keys'[k].life = "gone"
      BY <1>3 DEF CreateApiKey, Inv, Typed
<1>4. ASSUME NEW other \in Keys, NEW id \in Tenants, NEW u \in Users, CreateMyPat(other, u, id)
      PROVE  keys'[k].life = "gone"
      BY <1>4 DEF CreateMyPat, Inv, Typed
<1>5. ASSUME NEW other \in Keys, IndexKey(other) PROVE keys'[k].life = "gone"
      BY <1>5 DEF IndexKey, Inv, Typed
<1>6. ASSUME NEW S, keys' = Revoked(S) PROVE keys'[k].life = "gone" BY <1>6, RevokedKeys
<1>7. ASSUME NEW S, keys' = Missed(S) PROVE keys'[k].life = "gone" BY <1>7, MissedKeys
<1>8. ASSUME NEW t \in Tasks, DropKey(t) PROVE keys'[k].life = "gone" BY <1>6, <1>8 DEF DropKey
<1>9. ASSUME NEW t \in Tasks, NEW other \in Keys, DropToken(t, other)
      PROVE  keys'[k].life = "gone"
      BY <1>6, <1>9 DEF DropToken
<1>10. ASSUME NEW t \in Tasks, ListTokens(t) PROVE keys'[k].life = "gone"
      BY <1>7, <1>10 DEF ListTokens
<1>11. ASSUME NEW t \in Tasks, ClearTokensAtOnce(t) PROVE keys'[k].life = "gone"
      <2>1. k \notin TokensOf(task[t].user) BY DEF TokensOf
      <2>2. keys'[k] = keys[k] BY <1>11, <2>1 DEF ClearTokensAtOnce, Missed
      <2> QED BY <2>2
<1>12. CASE DirectoryWorld BY <1>2, <1>3, <1>4, <1>5, <1>12, WorldWrites
<1>13. ASSUME NEW t \in Tasks,
              DirectoryRequest(t) \/ DirectoryStep(t) \/ ClearTable(t) \/ Stop(t)
       PROVE  keys'[k].life = "gone"
       BY <1>2, <1>8, <1>9, <1>10, <1>11, <1>13, RequestsOnlyStart, StepsWrite
<1> QED BY <1>12, <1>13 DEF DirectoryNext

LEMMA TenantsComeByCreation ==
    ASSUME Inv, DirectoryNext, NEW id \in Tenants, ~tenants[id].exists, tenants'[id].exists
    PROVE tenants'[id].born = tenants[id].born + 1
<1>1. ASSUME NEW t \in Tasks, InsertTenant(t)
      PROVE  tenants'[id].born = tenants[id].born + 1
      <2>1. \/ UNCHANGED tenants
            \/ tenants' = [tenants EXCEPT ![task[t].tenant] =
                              FreshTenant(tenants[task[t].tenant].born + 1)]
            BY <1>1 DEF InsertTenant
      <2> QED BY <2>1 DEF FreshTenant, Inv, Typed
<1>2. ASSUME NEW t \in Tasks, PutTenant(t) PROVE FALSE
      <2>1. \/ UNCHANGED tenants
            \/ /\ tenants[task[t].tenant].exists
               /\ \A other \in Tenants : other # task[t].tenant => tenants'[other] = tenants[other]
            BY <1>2 DEF PutTenant, Inv, Typed
      <2> QED BY <2>1
<1>3. ASSUME NEW t \in Tasks, DropTenant(t) PROVE FALSE
      <2>1. tenants' = [tenants EXCEPT ![task[t].tenant].exists = FALSE]
            BY <1>3 DEF DropTenant
      <2> PICK old \in AnyTenantRow : old = tenants[id] BY DEF Inv, Typed
      <2>2. tenants'[id] = IF id = task[t].tenant THEN [old EXCEPT !.exists = FALSE] ELSE old
            BY <2>1 DEF Inv, Typed
      <2> QED BY <2>2 DEF AnyTenantRow
<1>4. CASE UNCHANGED tenants BY <1>4
<1>5. CASE DirectoryWorld BY <1>4, <1>5, WorldWrites
<1>6. ASSUME NEW t \in Tasks,
             DirectoryRequest(t) \/ DirectoryStep(t) \/ ClearTable(t) \/ Stop(t)
      PROVE  tenants'[id].born = tenants[id].born + 1
      BY <1>1, <1>2, <1>3, <1>4, <1>6, RequestsOnlyStart, StepsWrite
<1> QED BY <1>5, <1>6 DEF DirectoryNext

LEMMA AccountsComeBackBroken ==
    ASSUME Inv, DirectoryNext, NEW u \in Users, users[u].life = "gone", users'[u].life = "live"
    PROVE u \in broken
<1>1. CASE UNCHANGED users BY <1>1
<1>2. ASSUME NEW t \in Tasks, CreateAtOnce(t) \/ InsertUser(t) PROVE FALSE
      <2>1. /\ task[t].phase \in {"reserve", "insertUser"} /\ task[t].kind # "patchUser"
            /\ users' = [users EXCEPT ![task[t].user] = Born(t)]
            BY <1>2, KindAt DEF CreateAtOnce, InsertUser, NameIsFree, At
      <2>2. users[task[t].user].life = "unborn" BY <2>1, NameHandlerIs
      <2> QED BY <2>1, <2>2 DEF Inv, Typed
<1>3. ASSUME NEW t \in Tasks, PutUser(t) PROVE u \in broken
      <2>1. /\ task[t].phase = "put"
            /\ \A other \in Users : other # task[t].user => users'[other] = users[other]
            BY <1>3 DEF PutUser, At, Inv, Typed
      <2>2. task[t].user \notin broken => Live(task[t].user)
            BY <2>1, NameHandlerIs
      <2> QED BY <2>1, <2>2 DEF Live
<1>4. ASSUME NEW t \in Tasks, DropUserAtOnce(t) \/ DropUser(t) PROVE FALSE
      BY <1>4, AccountEnds DEF DropUserAtOnce, DropUser
<1>5. ASSUME NEW other \in Users, IndexUser(other) PROVE FALSE
      BY <1>5 DEF IndexUser, Live, Inv, Typed
<1>6. CASE DirectoryWorld BY <1>1, <1>5, <1>6, WorldWrites
<1>7. ASSUME NEW t \in Tasks,
             DirectoryRequest(t) \/ DirectoryStep(t) \/ ClearTable(t) \/ Stop(t)
      PROVE  u \in broken
      BY <1>1, <1>2, <1>3, <1>4, <1>7, RequestsOnlyStart, StepsWrite
<1> QED BY <1>6, <1>7 DEF DirectoryNext

(***************************************************************************)
(* What is deleted stays deleted (NothingReturns): no late touch_last_used,*)
(* put_tenant, put_user or revocation brings anything back, but a put_user *)
(* that overlapped the deletion of its account.                            *)
(***************************************************************************)
THEOREM DeletedStaysDeleted == Spec => NothingReturns
<1> DEFINE Returns ==
        /\ \A k \in Keys : keys[k].life = "gone" => keys'[k].life = "gone"
        /\ \A id \in Tenants : ~tenants[id].exists /\ tenants'[id].exists =>
               tenants'[id].born = tenants[id].born + 1
        /\ \A u \in Users : users[u].life = "gone" /\ users'[u].life = "live" => u \in broken
<1>1. Inv /\ [Next]_vars => [Returns]_directoryVars
      <2>1. ASSUME Inv, DirectoryNext PROVE Returns
            BY <2>1, KeysStayGone, TenantsComeByCreation, AccountsComeBackBroken
      <2> QED BY <2>1, DirectoryMoves
<1> QED BY <1>1, InvHolds, PTL DEF Spec, NothingReturns

LEMMA EditsStay ==
    ASSUME Inv, DirectoryNext, NEW id \in Tenants, tenants[id].exists, tenants'[id].exists
    PROVE \/ tenants[id].edits \subseteq tenants'[id].edits
          \/ \E t \in Tasks : /\ At(t, "putTenant") /\ task'[t] # task[t]
                              /\ task[t].tenant = id /\ task[t].copy.born < tenants[id].born
<1> DEFINE Kept == \/ tenants[id].edits \subseteq tenants'[id].edits
                   \/ \E t \in Tasks : /\ At(t, "putTenant") /\ task'[t] # task[t]
                                       /\ task[t].tenant = id
                                       /\ task[t].copy.born < tenants[id].born
<1>1. ASSUME NEW t \in Tasks, InsertTenant(t) PROVE Kept
      <2>1. \/ UNCHANGED tenants
            \/ /\ ~tenants[task[t].tenant].exists
               /\ \A other \in Tenants : other # task[t].tenant => tenants'[other] = tenants[other]
            BY <1>1 DEF InsertTenant, Inv, Typed
      <2> QED BY <2>1
<1>2. ASSUME NEW t \in Tasks, PutTenant(t) PROVE Kept
      <2>1. CASE UNCHANGED tenants BY <2>1
      <2>2. CASE id # task[t].tenant
            <3>1. tenants'[id] = tenants[id] BY <1>2, <2>2 DEF PutTenant, Inv, Typed
            <3> QED BY <3>1
      <2>3. CASE ~UNCHANGED tenants /\ id = task[t].tenant
            <3>1. /\ At(t, "putTenant") /\ tenants[id].ver = task[t].copy.ver
                  /\ tenants' = [tenants EXCEPT ![id] =
                         [task[t].copy EXCEPT !.ver = @ + 1, !.edits = @ \cup {t},
                                              !.born = tenants[id].born]]
                  /\ Goes(t, "reserve") \/ Ends(t)
                  BY <1>2, <2>3 DEF PutTenant
            <3>2. /\ task[t].copy \in AnyTenantRow /\ tenants[id] \in AnyTenantRow
                  /\ task[t].copy.born <= tenants[id].born
                  /\ task[t].copy.born = tenants[id].born => task[t].copy.edits = tenants[id].edits
                  BY <2>3, <3>1, TaskIs DEF TaskFine, CopyFine, Record, At, Inv, Typed
            <3>3. task'[t] # task[t]
                  <4>1. task'[t].phase \in {"reserve", "idle"}
                        BY <3>1, GoesTo, EndsAt, IdleIs DEF Inv, Phases
                  <4> QED BY <3>1, <4>1 DEF At
            <3>4. tenants'[id].edits = task[t].copy.edits \cup {t}
                  <4> PICK c \in AnyTenantRow : c = task[t].copy BY <3>2
                  <4> PICK born : born = tenants[id].born OBVIOUS
                  <4> PICK ver : ver = c.ver + 1 OBVIOUS
                  <4> PICK edits : edits = c.edits \cup {t} OBVIOUS
                  <4> PICK row : row = [c EXCEPT !.ver = ver, !.edits = edits, !.born = born]
                      OBVIOUS
                  <4>1. row.edits = edits BY DEF AnyTenantRow
                  <4>2. tenants' = [tenants EXCEPT ![id] = row] BY <3>1
                  <4>3. tenants'[id] = row BY <4>2 DEF Inv, Typed
                  <4> QED BY <4>1, <4>3
            <3>5. CASE task[t].copy.born = tenants[id].born BY <3>2, <3>4, <3>5
            <3>6. CASE task[t].copy.born < tenants[id].born BY <2>3, <3>1, <3>3, <3>6
            <3> QED BY <3>2, <3>5, <3>6 DEF AnyTenantRow
      <2> QED BY <2>1, <2>2, <2>3
<1>3. ASSUME NEW t \in Tasks, DropTenant(t) PROVE Kept
      <2>1. tenants' = [tenants EXCEPT ![task[t].tenant].exists = FALSE]
            BY <1>3 DEF DropTenant
      <2> PICK old \in AnyTenantRow : old = tenants[id] BY DEF Inv, Typed
      <2>2. tenants'[id] = IF id = task[t].tenant THEN [old EXCEPT !.exists = FALSE] ELSE old
            BY <2>1 DEF Inv, Typed
      <2>3. tenants'[id].edits = old.edits BY <2>2 DEF AnyTenantRow
      <2> QED BY <2>3
<1>4. CASE UNCHANGED tenants BY <1>4
<1>5. CASE DirectoryWorld BY <1>4, <1>5, WorldWrites
<1>6. ASSUME NEW t \in Tasks,
             DirectoryRequest(t) \/ DirectoryStep(t) \/ ClearTable(t) \/ Stop(t)
      PROVE  Kept
      <2>1. InsertTenant(t) \/ PutTenant(t) \/ DropTenant(t) \/ UNCHANGED tenants
            BY <1>6, RequestsOnlyStart, StepsWrite
      <2> QED BY <1>1, <1>2, <1>3, <1>4, <2>1
<1>7. DirectoryWorld \/ \E t \in Tasks :
          DirectoryRequest(t) \/ DirectoryStep(t) \/ ClearTable(t) \/ Stop(t)
      BY DEF DirectoryNext
<1> QED BY <1>5, <1>6, <1>7

(***************************************************************************)
(* put_tenant loses no edit (EditsAreKept): whoever replaces a tenant's    *)
(* row at the version it read has seen every edit the row absorbed, unless *)
(* the tenant was created anew in between.                                 *)
(***************************************************************************)
THEOREM TenantEditsAreKept == Spec => EditsAreKept
<1> DEFINE Kept ==
        \A id \in Tenants :
            tenants[id].exists /\ tenants'[id].exists =>
                \/ tenants[id].edits \subseteq tenants'[id].edits
                \/ \E t \in Tasks : /\ At(t, "putTenant") /\ task'[t] # task[t]
                                    /\ task[t].tenant = id
                                    /\ task[t].copy.born < tenants[id].born
<1>1. Inv /\ [Next]_vars => [Kept]_directoryVars
      <2>1. ASSUME Inv, DirectoryNext PROVE Kept BY <2>1, EditsStay
      <2> QED BY <2>1, DirectoryMoves
<1> QED BY <1>1, InvHolds, PTL DEF Spec, EditsAreKept

(***************************************************************************)
(* delete_tenant deletes a tenant with nobody in it but those who came, or *)
(* became visible, after it had looked (DeletedWhenEmpty).                 *)
(***************************************************************************)
THEOREM TenantsGoWhenEmpty == Spec => DeletedWhenEmpty
<1> DEFINE Empty ==
        \A t \in Tasks : task[t].phase = "dropTenant" /\ task'[t] # task[t] =>
            LET id == task[t].tenant
            IN ~tenants'[id].exists /\ tenants[id].exists =>
                 (LivingIn(id) \cup KeysOf(id)) \subseteq task[t].unseen
<1>1. ASSUME Inv, NEW t \in Tasks, task[t].phase = "dropTenant"
      PROVE  (LivingIn(task[t].tenant) \cup KeysOf(task[t].tenant)) \subseteq task[t].unseen
      <2>1. UnseenFine(task[t]) /\ task[t].kind = "deleteTenant"
            BY <1>1, TaskIs, KindAt DEF TaskFine
      <2>2. /\ LivingIn(task[t].tenant) \subseteq task[t].unseen
            /\ KeysOf(task[t].tenant) \subseteq task[t].unseen
            BY <1>1, <2>1 DEF UnseenFine
      <2> QED BY <2>2
<1>2. Inv => Empty BY <1>1
<1> HIDE DEF Empty
<1>3. Inv /\ [Next]_vars => [Empty]_directoryVars BY <1>2
<1>4. Spec => [][Empty]_directoryVars BY <1>3, InvHolds, PTL DEF Spec
<1> QED BY <1>4 DEF Empty, DeletedWhenEmpty
-----------------------------------------------------------------------------
(* Chat links *)

ChatLinks == INSTANCE MessagingProofs

\* What the part assumes of its constants.
LEMMA ChatConstants == NoUser \notin Users /\ NoCode \notin Codes /\ NoIdentity \notin Identities
BY DirectoryAssumption, ChatAssumption

\* The part as the directory instantiates it, and as the proofs about it do, are one.
LEMMA SameLinksInit == M!MessagingInit => ChatLinks!MessagingInit
BY DEF M!MessagingInit, ChatLinks!MessagingInit, M!Stores, ChatLinks!Stores, M!UnusedCode,
          ChatLinks!UnusedCode, M!NoCall, ChatLinks!NoCall

LEMMA SameRequests ==
    ASSUME NEW t
    PROVE  /\ M!MessagingRequest(t) => ChatLinks!MessagingRequest(t)
           /\ \A u : M!Purge(t, u) => ChatLinks!Purge(t, u)
           /\ M!PurgeReturns(t) => ChatLinks!PurgeReturns(t)
           /\ M!CallStops(t) => ChatLinks!CallStops(t)
BY Zenon DEF M!MessagingRequest, ChatLinks!MessagingRequest, M!CurrentCode, ChatLinks!CurrentCode,
          M!RegenerateCode, ChatLinks!RegenerateCode, M!CreateLink, ChatLinks!CreateLink,
          M!DeleteLink, ChatLinks!DeleteLink, M!Purge, ChatLinks!Purge, M!PurgeReturns,
          ChatLinks!PurgeReturns, M!CallStops, ChatLinks!CallStops, M!Regenerates,
          ChatLinks!Regenerates, M!Returns, ChatLinks!Returns, M!NoCall, ChatLinks!NoCall,
          M!Reads, ChatLinks!Reads, M!Found, ChatLinks!Found, M!LiveCodes, ChatLinks!LiveCodes

LEMMA SameSteps ==
    ASSUME NEW t
    PROVE  M!MessagingStep(t) => ChatLinks!MessagingStep(t)
BY Zenon DEF M!MessagingStep, ChatLinks!MessagingStep, M!ReplaceAll, ChatLinks!ReplaceAll,
          M!FindOld, ChatLinks!FindOld, M!DeleteOld, ChatLinks!DeleteOld, M!ConsumeCode,
          ChatLinks!ConsumeCode, M!ClaimIdentity, ChatLinks!ClaimIdentity, M!ReportDisplaced,
          ChatLinks!ReportDisplaced, M!PurgeCodes, ChatLinks!PurgeCodes, M!FindPurged,
          ChatLinks!FindPurged, M!PurgeCode, ChatLinks!PurgeCode, M!PurgeLinks,
          ChatLinks!PurgeLinks, M!ListLinks, ChatLinks!ListLinks, M!PutNewCode,
          ChatLinks!PutNewCode, M!DropLink, ChatLinks!DropLink, M!Returns, ChatLinks!Returns,
          M!Goes, ChatLinks!Goes, M!NoCall, ChatLinks!NoCall, M!Void, ChatLinks!Void, M!Claiming,
          ChatLinks!Claiming, M!HeldBy, ChatLinks!HeldBy, M!Reads, ChatLinks!Reads, M!Found,
          ChatLinks!Found, M!LiveCodes, ChatLinks!LiveCodes

LEMMA SameTime == M!MessagingTime => ChatLinks!MessagingTime
BY Zenon DEF M!MessagingTime, ChatLinks!MessagingTime, M!CodeExpires, ChatLinks!CodeExpires,
          M!CodeSwept, ChatLinks!CodeSwept, M!CodeListed, ChatLinks!CodeListed

\* The directory's own steps keep the backend, and so the links.
LEMMA StoreStays ==
    /\ DirectoryWorld => store' = store
    /\ \A t \in Tasks :
           DirectoryRequest(t) \/ DirectoryStep(t) \/ ClearTable(t) \/ Stop(t) => store' = store
<1>1. DirectoryWorld => store' = store
      BY DEF DirectoryWorld, CreateApiKey, CreateMyPat, WriteRow, IndexUser, IndexKey
<1>2. ASSUME NEW t \in Tasks, DirectoryRequest(t) PROVE store' = store
      BY <1>2 DEF DirectoryRequest, PatchTenant, DeleteTenant, CreateTenant, CreateUser, Exchange,
                  DeleteUser, PatchUser, DeleteApiKey
<1>3. ASSUME NEW t \in Tasks,
             \/ InsertTenant(t) \/ PutTenant(t)
             \/ LookUsers(t) \/ LookKeys(t) \/ ClearRecipients(t) \/ DropTenant(t)
             \/ NameTaken(t) \/ ReserveName(t) \/ RenameAtOnce(t) \/ CreateAtOnce(t)
             \/ InsertUser(t) \/ Release(t) \/ RefusePatch(t) \/ PutUser(t)
      PROVE  store' = store
      BY <1>3 DEF InsertTenant, PutTenant, LookUsers, LookKeys, ClearRecipients, DropTenant,
                  NameTaken, ReserveName, RenameAtOnce, CreateAtOnce, InsertUser, Release,
                  RefusePatch, PutUser
<1>4. ASSUME NEW t \in Tasks,
             \/ ClearTokensAtOnce(t) \/ ListTokens(t)
             \/ DropUserAtOnce(t) \/ DropUser(t) \/ DropGuard(t)
             \/ \E k \in Keys : DropToken(t, k)
             \/ DropKey(t) \/ ExchangeSubject(t) \/ ExchangeTenant(t) \/ TouchKey(t)
             \/ ClearTable(t) \/ Stop(t)
      PROVE  store' = store
      BY <1>4 DEF ClearTokensAtOnce, ListTokens, DropUserAtOnce, DropUser, DropGuard, DropToken,
                  DropKey, ExchangeSubject, ExchangeTenant, TouchKey, ClearTable, Stop
<1> QED BY <1>1, <1>2, <1>3, <1>4 DEF DirectoryStep

\* A deletion at its chat links deletes an account.
LEMMA PurgingIs ==
    ASSUME Inv, NEW t \in Tasks, At(t, "links")
    PROVE  task[t].user \in Users
<1>1. task[t].kind = "deleteUser" BY KindAt, CascadeIs DEF At
<1> QED BY <1>1, TaskIs DEF TaskFine, Shape, Equipped, Changes

\* What a step is to the links.
LEMMA LinksMove ==
    ASSUME Inv, ChatLinks!Inv, [Next]_vars
    PROVE  [ChatLinks!MessagingNext]_(ChatLinks!messagingVars)
<1>0. UNCHANGED <<store, linksOnly>> => UNCHANGED ChatLinks!messagingVars
      BY DEF linksOnly, ChatLinks!messagingVars
<1>1. CASE UNCHANGED vars BY <1>0, <1>1 DEF vars
<1>2. CASE DirectoryWorld /\ UNCHANGED linksOnly BY <1>0, <1>2, StoreStays
<1>3. CASE M!MessagingTime BY <1>3, SameTime DEF ChatLinks!MessagingNext
<1>4. ASSUME NEW t \in Tasks, DirectoryActs(t)
      PROVE  UNCHANGED ChatLinks!messagingVars
      BY <1>0, <1>4, StoreStays DEF DirectoryActs
<1>5. ASSUME NEW t \in Tasks, StopPurging(t)
      PROVE  [ChatLinks!MessagingNext]_(ChatLinks!messagingVars)
      <2>1. CASE call[t] = ChatLinks!NoCall
            <3>1. call' = call
                  <4>1. M!NoCall = ChatLinks!NoCall BY DEF M!NoCall, ChatLinks!NoCall
                  <4>2. call' = [call EXCEPT ![t] = call[t]] BY <1>5, <2>1, <4>1 DEF StopPurging
                  <4> QED BY <4>2 DEF ChatLinks!Inv, ChatLinks!CallsAreTyped
            <3> QED BY <1>0, <1>5, <3>1, StoreStays DEF StopPurging, linksOnly
      <2>2. CASE call[t] # ChatLinks!NoCall
            <3>1. M!NoCall = ChatLinks!NoCall BY DEF M!NoCall, ChatLinks!NoCall
            <3>2. ChatLinks!CallStops(t)
                  BY <1>5, <2>2, <3>1, StoreStays
                  DEF StopPurging, ChatLinks!CallStops, ChatLinks!Returns
            <3> QED BY <3>2 DEF ChatLinks!MessagingNext
      <2> QED BY <2>1, <2>2
<1>6. ASSUME NEW t \in Tasks, CallPurge(t) PROVE ChatLinks!MessagingNext
      BY <1>6, PurgingIs, SameRequests DEF CallPurge, ChatLinks!MessagingNext
<1>7. ASSUME NEW t \in Tasks, PurgeDone(t) PROVE ChatLinks!MessagingNext
      BY <1>7, SameRequests DEF PurgeDone, ChatLinks!MessagingNext
<1>8. ASSUME NEW t \in Tasks, MessagingActs(t) PROVE ChatLinks!MessagingNext
      <2>1. AsksForCode(t) \/ Claims(t) \/ Unlinks(t) => M!MessagingRequest(t)
            BY Zenon DEF AsksForCode, Claims, Unlinks, M!MessagingRequest
      <2> QED BY <1>8, <2>1, SameRequests, SameSteps DEF MessagingActs, ChatLinks!MessagingNext
<1> QED BY <1>1, <1>2, <1>3, <1>4, <1>5, <1>6, <1>7, <1>8 DEF Next, Elapses

\* The phases of a deletion that has its chat links behind it.
Beyond == {"sessions", "passkeys", "tokens", "dropTokens", "dropUser", "dropGuard"}

\* A handler stays as far as it was.
Waits(s) == task'[s].phase = task[s].phase /\ task'[s].user = task[s].user

\* A handler comes to be beyond the links by being there, with its account.
Onward(t) ==
    task'[t].phase \in Beyond =>
        task'[t].user = task[t].user /\ task[t].phase \in Beyond \cup {"links"}

LEMMA RequestsMove ==
    ASSUME Inv, NEW t \in Tasks, DirectoryRequest(t)
    PROVE  task[t] = Idle /\ Onward(t) /\ \A s \in Tasks : s # t => Waits(s)
<1>1. PICK r, kind : Starts(t, kind, r) /\ r.phase \notin Beyond
      <2>1. ASSUME NEW id \in Tenants, PatchTenant(t, id)
            PROVE  \E r, kind : Starts(t, kind, r) /\ r.phase \notin Beyond
            <3> PICK r : r = [Idle EXCEPT !.phase = "putTenant", !.tenant = id, !.copy = tenants[id]]
                OBVIOUS
            <3>1. r.phase = "putTenant" BY DEF Idle
            <3> QED BY <2>1, <3>1 DEF PatchTenant, Beyond
      <2>2. ASSUME NEW id \in Tenants, DeleteTenant(t, id)
            PROVE  \E r, kind : Starts(t, kind, r) /\ r.phase \notin Beyond
            <3> PICK r : r = [Idle EXCEPT !.phase = "lookUsers", !.tenant = id] OBVIOUS
            <3>1. r.phase = "lookUsers" BY DEF Idle
            <3> QED BY <2>2, <3>1 DEF DeleteTenant, Beyond
      <2>3. ASSUME NEW id \in Tenants, NEW n \in Names \cup {NoName}, NEW u \in Users \cup {NoUser},
                   CreateTenant(t, id, n, u)
            PROVE  \E r, kind : Starts(t, kind, r) /\ r.phase \notin Beyond
            <3> PICK r : r = [Idle EXCEPT !.phase = "insertTenant", !.tenant = id, !.name = n,
                                          !.user = u]
                OBVIOUS
            <3>1. r.phase = "insertTenant" BY DEF Idle
            <3> QED BY <2>3, <3>1 DEF CreateTenant, Beyond
      <2>4. ASSUME NEW id \in Tenants, NEW u \in Users, NEW n \in Names, CreateUser(t, u, id, n)
            PROVE  \E r, kind : Starts(t, kind, r) /\ r.phase \notin Beyond
            <3> PICK r : r = [Idle EXCEPT !.phase = "reserve", !.tenant = id, !.user = u, !.name = n]
                OBVIOUS
            <3>1. r.phase = "reserve" BY DEF Idle
            <3> QED BY <2>4, <3>1 DEF CreateUser, Beyond
      <2>5. ASSUME NEW id \in Tenants, NEW k \in Keys, Exchange(t, k, id)
            PROVE  \E r, kind : Starts(t, kind, r) /\ r.phase \notin Beyond
            <3> PICK phase \in {"actIn", "subject"} :
                         phase = IF keys[k].user = NoUser THEN "actIn" ELSE "subject"
                OBVIOUS
            <3> PICK r : r = [Idle EXCEPT !.phase = phase, !.key = k, !.tenant = id,
                                          !.user = keys[k].user]
                OBVIOUS
            <3>1. r.phase = phase BY DEF Idle
            <3> QED BY <2>5, <3>1 DEF Exchange, Beyond
      <2>6. ASSUME NEW u \in Users, DeleteUser(t, u)
            PROVE  \E r, kind : Starts(t, kind, r) /\ r.phase \notin Beyond
            <3> PICK phase : phase = Cascade[1] OBVIOUS
            <3> PICK row : row = users[u] OBVIOUS
            <3> PICK r : r = [Idle EXCEPT !.phase = phase, !.user = u, !.row = row, !.name = row.name]
                OBVIOUS
            <3>1. r.phase = "contacts" BY CascadeIs DEF Idle
            <3> QED BY <2>6, <3>1 DEF DeleteUser, Beyond
      <2>7. ASSUME NEW u \in Users, NEW n \in Names \cup {NoName}, PatchUser(t, u, n)
            PROVE  \E r, kind : Starts(t, kind, r) /\ r.phase \notin Beyond
            <3> PICK row : row = users[u] OBVIOUS
            <3> PICK phase \in {"put", "reserve"} :
                         phase = IF n \in {NoName, row.name} THEN "put" ELSE "reserve"
                OBVIOUS
            <3> PICK name : name = IF n = NoName THEN row.name ELSE n OBVIOUS
            <3> PICK r : r = [Idle EXCEPT !.phase = phase, !.user = u, !.name = name, !.row = row]
                OBVIOUS
            <3>1. r.phase = phase BY DEF Idle
            <3> QED BY <2>7, <3>1 DEF PatchUser, Beyond
      <2>8. ASSUME NEW k \in Keys, DeleteApiKey(t, k)
            PROVE  \E r, kind : Starts(t, kind, r) /\ r.phase \notin Beyond
            <3> PICK r : r = [Idle EXCEPT !.phase = "dropKey", !.key = k] OBVIOUS
            <3>1. r.phase = "dropKey" BY DEF Idle
            <3> QED BY <2>8, <3>1 DEF DeleteApiKey, Beyond
      <2> QED BY <2>1, <2>2, <2>3, <2>4, <2>5, <2>6, <2>7, <2>8 DEF DirectoryRequest
<1> PICK k : k = [r EXCEPT !.kind = kind] OBVIOUS
<1>2. task[t] = Idle /\ task' = [task EXCEPT ![t] = k] BY <1>1 DEF Starts
<1>3. task'[t] = k /\ \A s \in Tasks : s # t => task'[s] = task[s] BY <1>2 DEF Inv, Typed
<1>4. k.phase = r.phase OBVIOUS
<1> QED BY <1>1, <1>2, <1>3, <1>4 DEF Onward, Waits

\* A step is made at some phase, never at the links.
LEMMA StepsAt ==
    ASSUME NEW t \in Tasks, DirectoryStep(t)
    PROVE  task[t].phase \notin {"idle", "links"}
<1>1. CASE \/ InsertTenant(t) \/ PutTenant(t)
           \/ LookUsers(t) \/ LookKeys(t) \/ ClearRecipients(t) \/ DropTenant(t)
           \/ NameTaken(t) \/ ReserveName(t) \/ RenameAtOnce(t) \/ CreateAtOnce(t)
           \/ InsertUser(t) \/ Release(t) \/ RefusePatch(t) \/ PutUser(t)
      BY <1>1 DEF InsertTenant, PutTenant, LookUsers, LookKeys, ClearRecipients, DropTenant,
                  NameTaken, ReserveName, RenameAtOnce, CreateAtOnce, NameIsFree, InsertUser,
                  Release, RefusePatch, PutUser, At
<1>2. CASE \/ ClearTokensAtOnce(t) \/ ListTokens(t)
           \/ DropUserAtOnce(t) \/ DropUser(t) \/ DropGuard(t)
           \/ \E k \in Keys : DropToken(t, k)
           \/ DropKey(t) \/ ExchangeSubject(t) \/ ExchangeTenant(t) \/ TouchKey(t)
      BY <1>2 DEF ClearTokensAtOnce, ListTokens, DropUserAtOnce, DropUser, DropGuard, DropToken,
                  DropKey, ExchangeSubject, ExchangeTenant, TouchKey, At
<1> QED BY <1>1, <1>2 DEF DirectoryStep

\* How the others and t are after a step that goes to a phase, or ends.
LEMMA GoesOnward ==
    ASSUME Inv, NEW t \in Tasks, NEW phase \in Phases, Goes(t, phase),
           phase \in Beyond => task[t].phase \in Beyond \cup {"links"}
    PROVE  Onward(t) /\ \A s \in Tasks : s # t => Waits(s)
BY GoesTo DEF Inv, OnlyMoves, InHand, Onward, Waits

LEMMA EndsOnward ==
    ASSUME Inv, NEW t \in Tasks, Ends(t)
    PROVE  Onward(t) /\ \A s \in Tasks : s # t => Waits(s)
BY EndsAt, IdleIs DEF Inv, OnlyMoves, Onward, Waits, Beyond

LEMMA RecordOnward ==
    ASSUME Inv, NEW t \in Tasks, NEW r, task' = [task EXCEPT ![t] = r], r.user = task[t].user,
           r.phase \in Beyond => task[t].phase \in Beyond \cup {"links"}
    PROVE  Onward(t) /\ \A s \in Tasks : s # t => Waits(s)
BY DEF Inv, Typed, Onward, Waits

LEMMA StepsMove ==
    ASSUME Inv, NEW t \in Tasks, DirectoryStep(t) \/ ClearTable(t) \/ Stop(t)
    PROVE  Onward(t) /\ \A s \in Tasks : s # t => Waits(s)
<1>0. task[t] \in Record BY TaskIs
<1> DEFINE Moves == Onward(t) /\ \A s \in Tasks : s # t => Waits(s)
<1>1. CASE InsertTenant(t)
      <2> PICK fresh : fresh = FreshTenant(tenants[task[t].tenant].born + 1) OBVIOUS
      <2> PICK r : r = [task[t] EXCEPT !.phase = "putTenant", !.copy = fresh] OBVIOUS
      <2>1. r.phase = "putTenant" /\ r.user = task[t].user BY <1>0 DEF Record
      <2>2. task' = [task EXCEPT ![t] = r] \/ Ends(t) \/ Goes(t, "reserve")
            BY <1>1 DEF InsertTenant
      <2> QED BY <2>1, <2>2, RecordOnward, EndsOnward, GoesOnward DEF Beyond, Phases
<1>2. CASE PutTenant(t) \/ ClearRecipients(t) \/ DropTenant(t)
      BY <1>2, EndsOnward, GoesOnward DEF PutTenant, ClearRecipients, DropTenant, Beyond, Phases
<1>3. CASE LookUsers(t)
      <2> PICK here : here = LivingIn(task[t].tenant) OBVIOUS
      <2> PICK r : r = [task[t] EXCEPT !.phase = "lookKeys", !.unseen = here] OBVIOUS
      <2>1. r.phase = "lookKeys" /\ r.user = task[t].user BY <1>0 DEF Record
      <2>2. task' = [task EXCEPT ![t] = r] \/ Ends(t) BY <1>3 DEF LookUsers
      <2> QED BY <2>1, <2>2, RecordOnward, EndsOnward DEF Beyond
<1>4. CASE LookKeys(t)
      <2> PICK all : all = task[t].unseen \cup KeysOf(task[t].tenant) OBVIOUS
      <2> PICK r : r = [task[t] EXCEPT !.phase = "recipients", !.unseen = all] OBVIOUS
      <2>1. r.phase = "recipients" /\ r.user = task[t].user BY <1>0 DEF Record
      <2>2. task' = [task EXCEPT ![t] = r] \/ Ends(t) BY <1>0, <1>4 DEF LookKeys, Record
      <2> QED BY <2>1, <2>2, RecordOnward, EndsOnward DEF Beyond
<1>5. CASE NameTaken(t) \/ ReserveName(t) \/ RenameAtOnce(t) \/ Release(t) \/ RefusePatch(t)
      <2>1. \/ Ends(t) \/ \E phase \in {"release", "insertUser", "put"} : Goes(t, phase)
            BY <1>5 DEF NameTaken, ReserveName, RenameAtOnce, Release, RefusePatch
      <2> QED BY <2>1, EndsOnward, GoesOnward DEF Beyond, Phases
<1>6. ASSUME NEW u \in Users, NEW id, task' = [Arrives(u, id) EXCEPT ![t] = Idle]
      PROVE  Moves
      BY <1>6, ArrivesAndEnds, IdleIs DEF Onward, Waits, Stays, Beyond
<1>7. CASE CreateAtOnce(t) \/ InsertUser(t)
      <2>1. /\ task[t].user \in Users
            /\ task' = [Arrives(task[t].user, task[t].tenant) EXCEPT ![t] = Idle]
            BY <1>7, NameHandlerIs DEF CreateAtOnce, InsertUser, NameIsFree, At
      <2> QED BY <1>6, <2>1
<1>8. CASE PutUser(t)
      <2>1. /\ task[t].user \in Users
            /\ \/ Ends(t)
               \/ \E id : task' = [Arrives(task[t].user, id) EXCEPT ![t] = Idle]
            BY <1>8, NameHandlerIs DEF PutUser, At, Ends
      <2> QED BY <1>6, <2>1, EndsOnward
<1>9. CASE ClearTable(t)
      <2>1. task[t].phase \in Clearing \ {"tokens"} /\ Goes(t, Cascade[Index(task[t].phase) + 1])
            BY <1>9 DEF ClearTable
      <2> PICK next : next = Cascade[Index(task[t].phase) + 1] OBVIOUS
      <2>2. next \in Phases BY <2>1, NextTable DEF Phases
      <2>3. task[t].phase = "contacts" => next = "links"
            <3>1. \A m, n \in 1..5 : Cascade[m] = Cascade[n] => m = n BY DEF Cascade
            <3>2. task[t].phase = "contacts" => Index(task[t].phase) = 1
                  BY <2>1, <3>1, IndexIs, CascadeIs
            <3> QED BY <3>2, CascadeIs
      <2>4. next \in Beyond => task[t].phase \in Beyond \cup {"links"}
            BY <2>1, <2>3, CascadeIs DEF Beyond
      <2> QED BY <2>1, <2>2, <2>4, GoesOnward
<1>10. CASE ClearTokensAtOnce(t) \/ DropUser(t)
      BY <1>10, GoesOnward DEF ClearTokensAtOnce, DropUser, At, Beyond, Phases
<1>11. CASE ListTokens(t)
      <2> PICK seen : seen = {k \in TokensOf(task[t].user) :
                                 keys[k].tenant = task[t].row.tenant /\ keys[k].listed}
          OBVIOUS
      <2> PICK phase : phase = IF seen = {} THEN "dropUser" ELSE "dropTokens" OBVIOUS
      <2> PICK r : r = [task[t] EXCEPT !.left = seen, !.phase = phase] OBVIOUS
      <2>1. r.user = task[t].user BY <1>0 DEF Record
      <2>2. task' = [task EXCEPT ![t] = r] /\ task[t].phase \in Beyond
            BY <1>11 DEF ListTokens, At, Beyond
      <2> QED BY <2>1, <2>2, RecordOnward
<1>12. ASSUME NEW k \in Keys, DropToken(t, k) PROVE Moves
      <2> PICK left : left = task[t].left \ {k} OBVIOUS
      <2> PICK phase : phase = IF task[t].left = {k} THEN "dropUser" ELSE task[t].phase OBVIOUS
      <2> PICK r : r = [task[t] EXCEPT !.left = left, !.phase = phase] OBVIOUS
      <2>1. r.user = task[t].user BY <1>0 DEF Record
      <2>2. task' = [task EXCEPT ![t] = r] /\ task[t].phase \in Beyond
            BY <1>0, <1>12 DEF DropToken, At, Beyond, Record
      <2> QED BY <2>1, <2>2, RecordOnward
<1>13. CASE DropUserAtOnce(t) \/ DropGuard(t) \/ DropKey(t) \/ TouchKey(t) \/ Stop(t)
      BY <1>13, EndsOnward DEF DropUserAtOnce, DropGuard, DropKey, TouchKey, Stop
<1>14. CASE ExchangeSubject(t)
      <2> PICK row : row = users[task[t].user] OBVIOUS
      <2> PICK r : r = [task[t] EXCEPT !.phase = "actIn", !.row = row] OBVIOUS
      <2>1. r.phase = "actIn" /\ r.user = task[t].user BY <1>0 DEF Record
      <2>2. task' = [task EXCEPT ![t] = r] \/ Ends(t) BY <1>14 DEF ExchangeSubject
      <2> QED BY <2>1, <2>2, RecordOnward, EndsOnward DEF Beyond
<1>15. CASE ExchangeTenant(t)
      BY <1>15, EndsOnward, GoesOnward DEF ExchangeTenant, Beyond, Phases
<1> QED BY <1>1, <1>2, <1>3, <1>4, <1>5, <1>7, <1>8, <1>9, <1>10, <1>11, <1>12, <1>13, <1>14,
           <1>15 DEF DirectoryStep

LEMMA WorldMoves ==
    ASSUME Inv, DirectoryWorld
    PROVE  \A s \in Tasks : Waits(s)
<1>1. CASE UNCHANGED task BY <1>1 DEF Waits
<1>2. ASSUME NEW k \in Keys, NEW id, task' = Arrives(k, id)
      PROVE  \A s \in Tasks : Waits(s)
      BY <1>2, Arrived DEF Waits
<1> QED BY <1>1, <1>2 DEF DirectoryWorld, CreateApiKey, CreateMyPat, WriteRow, IndexUser, IndexKey

\* An account goes with a deletion that is beyond its links.
LEMMA AccountsGo ==
    ASSUME Inv, DirectoryNext, NEW u \in Users, users'[u].life = "gone", users[u].life # "gone"
    PROVE  \E t \in Tasks : task[t].phase \in Beyond /\ task[t].user = u
<1>1. CASE UNCHANGED users BY <1>1
<1>2. ASSUME NEW t \in Tasks, NEW row, users' = [users EXCEPT ![task[t].user] = row],
             row.life = "live"
      PROVE  FALSE
      BY <1>2 DEF Inv, Typed
<1>3. ASSUME NEW t \in Tasks, CreateAtOnce(t) \/ InsertUser(t) PROVE FALSE
      <2> PICK row : row = Born(t) OBVIOUS
      <2>1. row.life = "live" BY DEF Born
      <2> QED BY <1>2, <1>3, <2>1 DEF CreateAtOnce, InsertUser
<1>4. ASSUME NEW t \in Tasks, PutUser(t) PROVE FALSE
      <2>1. task[t].row.life = "live" /\ task[t].row \in UserRow
            <3>1. Changes(task[t]) /\ Shape(task[t])
                  BY <1>4, NameHandlerIs DEF PutUser, At, Creates
            <3> QED BY <3>1 DEF Shape, Equipped, Record
      <2> PICK name : name = task[t].name OBVIOUS
      <2> PICK old : old = task[t].row OBVIOUS
      <2> PICK row : row = [old EXCEPT !.name = name] OBVIOUS
      <2>2. row.life = "live" BY <2>1 DEF UserRow
      <2> QED BY <1>2, <1>4, <2>2 DEF PutUser
<1>5. ASSUME NEW t \in Tasks, DropUserAtOnce(t) \/ DropUser(t)
      PROVE  task[t].phase \in Beyond /\ task[t].user = u
      BY <1>5, AccountEnds DEF DropUserAtOnce, DropUser, At, Beyond
<1>6. ASSUME NEW other \in Users, IndexUser(other) PROVE FALSE
      BY <1>6 DEF IndexUser, Inv, Typed, UserRow
<1>7. CASE DirectoryWorld BY <1>1, <1>6, <1>7, WorldWrites
<1>8. ASSUME NEW t \in Tasks,
             DirectoryRequest(t) \/ DirectoryStep(t) \/ ClearTable(t) \/ Stop(t)
      PROVE  \E s \in Tasks : task[s].phase \in Beyond /\ task[s].user = u
      BY <1>1, <1>3, <1>4, <1>5, <1>8, RequestsOnlyStart, StepsWrite
<1> QED BY <1>7, <1>8 DEF DirectoryNext

\* A slot that serves both parts serves a deletion at its links, and the purge it has called.
InSlot(k, r) ==
    k.phase # "idle" /\ r.phase # "idle" =>
        k.phase = "links" /\ r.phase \in ChatLinks!PurgePhases /\ r.user = k.user

InSlots == \A t \in Tasks : InSlot(task[t], call[t])

\* A purge has been over the links of an account whose deletion is beyond them, and of one deleted.
Departing == \A t \in Tasks : task[t].phase \in Beyond => ChatLinks!Purged(task[t].user)

Departed == \A u \in Users : users[u].life = "gone" => ChatLinks!Purged(u)

\* The inductive invariant of the links among the accounts.
ChatInv ==
    Inv /\ ChatLinks!Inv /\ ChatLinks!PurgesFine /\ InSlots /\ Departing /\ Departed

\* A slot without a call has one in no phase.
LEMMA NoCallIs == M!NoCall = ChatLinks!NoCall /\ M!NoCall.phase = "idle"
BY DEF M!NoCall, ChatLinks!NoCall

\* The call of a slot ends.
LEMMA CallEnds ==
    ASSUME ChatLinks!Inv, NEW t \in Tasks, call' = [call EXCEPT ![t] = M!NoCall]
    PROVE  call'[t].phase = "idle" /\ \A s \in Tasks : s # t => call'[s] = call[s]
BY NoCallIs DEF ChatLinks!Inv, ChatLinks!CallsAreTyped

\* Two handlers keep the slot they share if each keeps its part.
LEMMA SlotWaits ==
    ASSUME InSlots, NEW s \in Tasks, Waits(s), call'[s] = call[s]
    PROVE  InSlot(task[s], call[s])'
BY DEF InSlots, InSlot, Waits, ChatLinks!PurgePhases

\* What the messaging part does keeps the slots.
LEMMA CallsKeepSlots ==
    ASSUME ChatInv, NEW t \in Tasks, MessagingActs(t)
    PROVE  InSlots'
<1>1. UNCHANGED task BY DEF MessagingActs, directoryOnly
<1>2. ASSUME ChatLinks!MovesTo(t, call'[t]), InSlot(task[t], call[t])'
      PROVE  InSlots'
      BY <1>1, <1>2, SlotWaits DEF ChatInv, InSlots, Waits, ChatLinks!MovesTo
<1>3. CASE Free(t) /\ (AsksForCode(t) \/ Claims(t) \/ Unlinks(t))
      <2>1. ChatLinks!MessagingRequest(t)
            <3>1. M!MessagingRequest(t)
                  BY <1>3, Zenon DEF AsksForCode, Claims, Unlinks, M!MessagingRequest
            <3> QED BY <3>1, SameRequests
      <2>2. ChatLinks!MovesTo(t, call'[t]) BY <2>1, ChatConstants, ChatLinks!OneMoves DEF ChatInv
      <2>3. task'[t].phase = "idle" BY <1>1, <1>3, IdleIs DEF Free
      <2> QED BY <1>2, <2>2, <2>3 DEF InSlot
<1>4. CASE M!MessagingStep(t)
      <2>1. ChatLinks!MessagingStep(t) BY <1>4, SameSteps
      <2>2. ChatLinks!MovesTo(t, call'[t]) BY <2>1, ChatConstants, ChatLinks!OneMoves DEF ChatInv
      <2>3. CASE task[t].phase = "idle" BY <1>1, <1>2, <2>2, <2>3 DEF InSlot
      <2>4. CASE task[t].phase # "idle"
            <3>1. call[t].phase \in ChatLinks!PurgePhases \cup {"idle"}
                  BY <2>4 DEF ChatInv, InSlots, InSlot
            <3>2. ChatLinks!PurgeMoves(t) /\ call[t].phase \in ChatLinks!PurgePhases
                  BY <2>1, <3>1, ChatConstants, ChatLinks!PurgeGoesOn DEF ChatInv
            <3>3. call[t].phase # "idle" BY <3>2 DEF ChatLinks!PurgePhases
            <3>4. task[t].phase = "links" /\ call[t].user = task[t].user
                  BY <2>4, <3>3 DEF ChatInv, InSlots, InSlot
            <3> QED BY <1>1, <1>2, <2>2, <3>2, <3>4 DEF InSlot, ChatLinks!PurgeMoves
      <2> QED BY <2>3, <2>4
<1>5. CASE M!CallStops(t)
      <2>1. call'[t].phase = "idle" /\ \A s \in Tasks : s # t => call'[s] = call[s]
            BY <1>5, CallEnds DEF M!CallStops, M!Returns, ChatInv
      <2> QED BY <1>2, <2>1 DEF InSlot, ChatLinks!MovesTo
<1> QED BY <1>3, <1>4, <1>5 DEF MessagingActs

\* So does what the directory does.
LEMMA TasksKeepSlots ==
    ASSUME ChatInv, NEW t \in Tasks, DirectoryActs(t)
    PROVE  InSlots'
<1>1. UNCHANGED call /\ \A s \in Tasks : s # t => Waits(s)
      BY RequestsMove, StepsMove DEF DirectoryActs, linksOnly, ChatInv
<1>2. call[t].phase = "idle"
      <2>1. CASE Free(t) BY <2>1, NoCallIs DEF Free
      <2>2. CASE DirectoryStep(t) \/ (~At(t, "links") /\ (ClearTable(t) \/ Stop(t)))
            <3>1. ClearTable(t) => task[t].phase # "idle" BY CascadeIs DEF ClearTable
            <3>2. Stop(t) => task[t].phase # "idle" BY KindAt DEF Stop, At, ChatInv
            <3>3. task[t].phase \notin {"idle", "links"} BY <2>2, <3>1, <3>2, StepsAt DEF At
            <3> QED BY <3>3 DEF ChatInv, InSlots, InSlot
      <2> QED BY <2>1, <2>2 DEF DirectoryActs
<1> QED BY <1>1, <1>2, SlotWaits DEF ChatInv, InSlots, InSlot

LEMMA SlotsKeep ==
    ASSUME ChatInv, [Next]_vars
    PROVE  InSlots'
<1>1. CASE UNCHANGED vars
      BY <1>1 DEF vars, directoryOnly, linksOnly, ChatInv, InSlots, InSlot, ChatLinks!PurgePhases
<1>2. ASSUME NEW t \in Tasks, CallPurge(t) PROVE InSlots'
      <2> PICK u \in Users : u = task[t].user BY <1>2, PurgingIs DEF CallPurge, ChatInv
      <2>1. ChatLinks!Purge(t, u) /\ UNCHANGED task
            BY <1>2, SameRequests DEF CallPurge, directoryOnly
      <2>2. /\ ChatLinks!MovesTo(t, call'[t])
            /\ call'[t].user = u /\ call'[t].phase = "findPurged"
            BY <2>1, ChatConstants, ChatLinks!PurgeBegins DEF ChatInv
      <2>3. InSlot(task[t], call[t])'
            BY <1>2, <2>1, <2>2 DEF InSlot, CallPurge, At, ChatLinks!PurgePhases
      <2> QED BY <2>1, <2>2, <2>3, SlotWaits DEF ChatInv, InSlots, Waits, ChatLinks!MovesTo
<1>3. ASSUME NEW t \in Tasks, PurgeDone(t) \/ StopPurging(t) PROVE InSlots'
      <2>1. \A s \in Tasks : s # t => Waits(s)
            BY <1>3, StepsMove DEF PurgeDone, StopPurging, ChatInv
      <2>2. call'[t].phase = "idle" /\ \A s \in Tasks : s # t => call'[s] = call[s]
            BY <1>3, CallEnds DEF PurgeDone, StopPurging, M!PurgeReturns, M!Returns, ChatInv
      <2> QED BY <2>1, <2>2, SlotWaits DEF ChatInv, InSlots, InSlot
<1>4. CASE DirectoryWorld /\ UNCHANGED linksOnly
      BY <1>4, WorldMoves, SlotWaits DEF ChatInv, InSlots, linksOnly
<1>5. CASE M!MessagingTime /\ UNCHANGED directoryOnly
      <2>1. UNCHANGED <<call, task>>
            BY <1>5 DEF M!MessagingTime, M!CodeExpires, M!CodeSwept, M!CodeListed, directoryOnly
      <2> QED BY <2>1, SlotWaits DEF ChatInv, InSlots, Waits
<1> QED BY <1>1, <1>2, <1>3, <1>4, <1>5, CallsKeepSlots, TasksKeepSlots DEF Next, Elapses

\* Whoever goes beyond the links has come from there, by a purge that was done.
LEMMA DepartingKeeps ==
    ASSUME ChatInv, [Next]_vars
    PROVE  Departing'
<1>1. [ChatLinks!MessagingNext]_(ChatLinks!messagingVars) BY LinksMove DEF ChatInv
<1>2. ASSUME NEW s \in Tasks, task'[s].phase \in Beyond, task'[s].user = task[s].user,
             ChatLinks!Purged(task[s].user), task[s].user \in Users
      PROVE  ChatLinks!Purged(task[s].user)'
      <2> PICK u \in Users : u = task[s].user BY <1>2
      <2>1. ChatLinks!Purged(u)' BY <1>1, <1>2, ChatConstants, ChatLinks!PurgedForGood DEF ChatInv
      <2> QED BY <1>2, <2>1
<1>3. \A s \in Tasks : task[s].phase \in Beyond => task[s].user \in Users
      BY TaskIs, KindAt, CascadeIs DEF ChatInv, Beyond, TaskFine, Shape, Equipped, Changes
<1>4. ASSUME NEW s \in Tasks, Waits(s), task'[s].phase \in Beyond
      PROVE  ChatLinks!Purged(task[s].user)'
      BY <1>2, <1>3, <1>4 DEF ChatInv, Departing, Waits
<1>5. ASSUME NEW s \in Tasks, Onward(s), task[s].phase # "links", task'[s].phase \in Beyond
      PROVE  ChatLinks!Purged(task[s].user)'
      BY <1>2, <1>3, <1>5 DEF ChatInv, Departing, Onward
<1>6. CASE UNCHANGED task BY <1>4, <1>6 DEF Departing, Waits
<1>7. ASSUME NEW t \in Tasks, PurgeDone(t) PROVE Departing'
      <2>1. Onward(t) /\ \A s \in Tasks : s # t => Waits(s)
            BY <1>7, StepsMove DEF PurgeDone, ChatInv
      <2>2. task[t].user \in Users BY <1>7, PurgingIs DEF PurgeDone, ChatInv
      <2>3. call[t].phase = "purged" /\ task[t].phase = "links"
            BY <1>7 DEF PurgeDone, M!PurgeReturns, At
      <2>4. ChatLinks!Purged(task[t].user)
            <3>1. call[t].user = task[t].user BY <2>3 DEF ChatInv, InSlots, InSlot
            <3>2. ChatLinks!Purged(call[t].user)
                  BY <2>3 DEF ChatInv, ChatLinks!PurgesFine, ChatLinks!PurgeFine
            <3> QED BY <3>1, <3>2
      <2>5. task'[t].phase \in Beyond => ChatLinks!Purged(task[t].user)'
            BY <1>2, <2>1, <2>2, <2>4 DEF Onward
      <2> QED BY <1>4, <2>1, <2>5 DEF Departing
<1>8. ASSUME NEW t \in Tasks, StopPurging(t) PROVE Departing'
      <2>1. task'[t].phase = "idle" /\ \A s \in Tasks : s # t => Waits(s)
            BY <1>8, StepsMove, EndsAt, IdleIs DEF StopPurging, Stop, ChatInv, Inv
      <2> QED BY <1>4, <2>1 DEF Departing, Beyond
<1>9. ASSUME NEW t \in Tasks, DirectoryActs(t) PROVE Departing'
      <2>1. \A s \in Tasks : s # t => Waits(s)
            BY <1>9, RequestsMove, StepsMove DEF DirectoryActs, ChatInv
      <2>2. Onward(t) /\ task[t].phase # "links"
            BY <1>9, RequestsMove, StepsMove, StepsAt, IdleIs DEF DirectoryActs, ChatInv, Free, At
      <2> QED BY <1>4, <1>5, <2>1, <2>2 DEF Departing
<1>10. CASE DirectoryWorld BY <1>4, <1>10, WorldMoves DEF Departing, ChatInv
<1> QED BY <1>6, <1>7, <1>8, <1>9, <1>10
        DEF Next, Elapses, vars, directoryOnly, CallPurge, MessagingActs

LEMMA DepartedKeeps ==
    ASSUME ChatInv, [Next]_vars
    PROVE  Departed'
<1>1. [ChatLinks!MessagingNext]_(ChatLinks!messagingVars) BY LinksMove DEF ChatInv
<1>2. ASSUME NEW u \in Users, users'[u].life = "gone" PROVE ChatLinks!Purged(u)'
      <2>1. ChatLinks!Purged(u)
            <3>1. CASE users[u].life = "gone" BY <3>1 DEF ChatInv, Departed
            <3>2. CASE users[u].life # "gone"
                  <4>1. DirectoryNext BY <1>2, <3>2, DirectoryMoves DEF directoryVars
                  <4> QED BY <1>2, <3>2, <4>1, AccountsGo DEF ChatInv, Departing
            <3> QED BY <3>1, <3>2
      <2> QED BY <1>1, <2>1, ChatConstants, ChatLinks!PurgedForGood DEF ChatInv
<1> QED BY <1>2 DEF Departed

\* Nobody has been deleted, and nobody has called for a purge.
LEMMA ChatInitHolds == ASSUME Init PROVE ChatInv
<1>1. Inv /\ ChatLinks!Inv /\ ChatLinks!PurgesFine
      BY ChatConstants, InitHolds, SameLinksInit, ChatLinks!InitHolds, ChatLinks!NoPurgeYet DEF Init
<1>2. \A t \in Tasks : task[t].phase = "idle" BY IdleIs DEF Init, DirectoryInit
<1>3. \A u \in Users : users[u].life = "unborn" BY DEF Init, DirectoryInit, NoUserRow
<1> QED BY <1>1, <1>2, <1>3 DEF ChatInv, InSlots, InSlot, Departing, Departed, Beyond

LEMMA ChatInvKeeps == ASSUME ChatInv, [Next]_vars PROVE ChatInv'
<1>1. [ChatLinks!MessagingNext]_(ChatLinks!messagingVars) BY LinksMove DEF ChatInv
<1>2. ChatLinks!Inv' BY <1>1, ChatConstants, ChatLinks!StepKeeps DEF ChatInv
<1>3. ChatLinks!PurgesFine' BY <1>1, ChatConstants, ChatLinks!PurgesKeep DEF ChatInv
<1>4. Inv' BY NextKeeps, DirectoryMoves DEF ChatInv
<1> QED BY <1>2, <1>3, <1>4, SlotsKeep, DepartingKeeps, DepartedKeeps DEF ChatInv

(***************************************************************************)
(* delete_user's call of delete_all_for_user leaves the account no chat    *)
(* identity and no unredeemed code (LinksLeaveWithTheirUser) but those     *)
(* that were claimed, drawn or listed after it had looked, or left by      *)
(* DynamoDB's purge of one code.                                           *)
(***************************************************************************)
THEOREM LinksGoWithTheirUser == Spec => []LinksLeaveWithTheirUser
<1>1. Init => ChatInv BY ChatInitHolds
<1>2. ChatInv /\ [Next]_vars => ChatInv' BY ChatInvKeeps
<1>3. ChatInv => LinksLeaveWithTheirUser
      BY DEF ChatInv, Departed, ChatLinks!Purged, ChatLinks!CodesPurged, ChatLinks!HeldBy,
             ChatLinks!LiveCodes, LinksLeaveWithTheirUser, M!HeldBy, M!LiveCodes
<1> QED BY <1>1, <1>2, <1>3, PTL DEF Spec
=============================================================================
