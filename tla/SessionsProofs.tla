--------------------------- MODULE SessionsProofs ---------------------------
(***************************************************************************)
(* Theorems about Sessions for every value of its constants.               *)
(***************************************************************************)
EXTENDS SessionsWitness, SessionsRefinement, SessionsBrowser, TLAPS

-----------------------------------------------------------------------------
(* Type correctness *)

\* The phases whose store call takes its key from the cookie.
CookiePhases == {"getSession", "deleteSession", "getUser", "rotate", "setTenant"}

\* A task in such a phase was sent with a cookie.
CookieNamed ==
    \A r \in Requests :
        req[r].phase \in CookiePhases => req[r].cookie.sid \in SessionIds

TInv == TypeOK /\ CookieNamed

\* The empty row, task and cookie are a row, a task and a cookie.
LEMMA NullTypes == NoRow \in SessionRow /\ NoTask \in Request /\ NoCookie \in Cookie
<1>1. /\ (CHOOSE u \in Users : TRUE) \in Users
      /\ (CHOOSE t \in Tenants : TRUE) \in Tenants
      /\ (CHOOSE j \in Jars : TRUE) \in Jars
      /\ (CHOOSE a \in Apis : TRUE) \in Apis
  BY SessionsAssumption DEF SessionsAssumption
<1>2. 0 \in 0..MaxVersion
  BY SessionsAssumption DEF SessionsAssumption
<1>3. NoCookie \in Cookie
  BY DEF NoCookie, Cookie
<1>4. NoRow \in SessionRow
  BY <1>1, <1>2 DEF NoRow, SessionRow, Statuses
<1>5. NoTask \in Request
  BY <1>1, <1>2, <1>3 DEF NoTask, Request, Phases, Kinds, CookieEffects
<1> QED
  BY <1>3, <1>4, <1>5

\* The server starts with typed tables and cookies that name their secrets.
LEMMA InitTyped == Init => TInv
<1> SUFFICES ASSUME Init PROVE TInv
  OBVIOUS
<1>1. users \in [Users -> UserRow]
  BY SessionsAssumption DEF Init, UserRow, SessionsAssumption
<1>2. sessions \in [SessionIds -> SessionRow]
  BY NullTypes DEF Init
<1>3. jar \in [Jars -> Cookie] /\ req \in [Requests -> Request] /\ now \in Nat
  BY NullTypes DEF Init
<1>4. CookieNamed
  BY DEF Init, CookieNamed, NoTask, CookiePhases
<1> QED
  BY <1>1, <1>2, <1>3, <1>4 DEF TInv, TypeOK

\* The row a task reads is a row.
LEMMA RowTyped == ASSUME TInv, NEW r \in Requests PROVE RowOf(r) \in SessionRow
BY NullTypes DEF TInv, TypeOK, RowOf, Request, Cookie

\* What a step writes to the task of one request keeps the tasks typed.
LEMMA TaskTyped ==
    ASSUME TInv, NEW r \in Requests, NEW task \in Request,
           task.phase \in CookiePhases => task.cookie.sid \in SessionIds,
           req' = [req EXCEPT ![r] = task]
    PROVE  req' \in [Requests -> Request] /\ CookieNamed'
BY DEF TInv, TypeOK, CookieNamed

\* An error answer is a typed task.
LEMMA RefuseTyped ==
    ASSUME TInv, NEW r \in Requests, Refuse(r)
    PROVE  req' \in [Requests -> Request] /\ CookieNamed'
<1> DEFINE task == [NoTask EXCEPT !.phase = "answer", !.kind = req[r].kind]
<1>1. task \in Request /\ task.phase \notin CookiePhases
  BY NullTypes DEF TInv, TypeOK, Request, Phases, CookiePhases, NoTask
<1> QED
  BY <1>1, TaskTyped DEF Refuse

\* Moving a task on to its next store call keeps it typed.
LEMMA GotoTyped ==
    ASSUME TInv, NEW r \in Requests, NEW phase \in Phases, Goto(r, phase),
           phase \in CookiePhases => req[r].cookie.sid \in SessionIds
    PROVE  req' \in [Requests -> Request] /\ CookieNamed'
<1> DEFINE task == [req[r] EXCEPT !.phase = phase]
<1>1. task \in Request /\ task.phase = phase /\ task.cookie = req[r].cookie
  BY DEF TInv, TypeOK, Request
<1>2. req' = [req EXCEPT ![r] = task]
  BY DEF Goto
<1> HIDE DEF task
<1> QED
  BY <1>1, <1>2, TaskTyped

\* A request that arrives starts a typed task with the browser's cookie.
LEMMA ArrivalTyped ==
    ASSUME TInv, NEW r \in Requests, Arrival(r) PROVE TInv'
<1> PICK j \in Jars :
        \/ StartLogout(r, j)
        \/ \E api \in Apis :
              \/ StartRefresh(r, j, api)
              \/ \E u \in Users :
                    \/ LoginRead(r, j, u, api)
                    \/ \E t \in Tenants : StartSwitch(r, j, u, t, api)
  BY DEF Arrival
<1> USE NullTypes, SessionsAssumption
<1>0. ASSUME NEW kind \in Kinds, NEW api \in Apis
      PROVE  /\ Task(kind, j, api) \in Request
             /\ Task(kind, j, api).cookie = jar[j]
  BY DEF Task, TInv, TypeOK, Request, NoTask
<1>1. CASE StartLogout(r, j)
  <2> DEFINE task == [Task("logout", j, NoTask.api) EXCEPT !.phase = "deleteSession"]
  <2>1. NoTask.api \in Apis /\ "logout" \in Kinds
    BY DEF Request, Kinds
  <2>2. task \in Request /\ task.cookie = jar[j]
    BY <1>0, <2>1 DEF Request, Phases
  <2>3. jar[j].sid \in SessionIds
    BY <1>1 DEF StartLogout, TInv, TypeOK, Cookie
  <2>4. req' = [req EXCEPT ![r] = task] /\ UNCHANGED <<sessions, users, jar, now>>
    BY <1>1 DEF StartLogout, Begin
  <2> HIDE DEF task
  <2> QED
    BY <2>2, <2>3, <2>4, TaskTyped DEF TInv, TypeOK
<1>2. ASSUME NEW api \in Apis, StartRefresh(r, j, api) PROVE TInv'
  <2> DEFINE task == [Task("refresh", j, api) EXCEPT !.phase = "getSession"]
  <2>2. task \in Request /\ task.cookie = jar[j]
    BY <1>0 DEF Request, Phases, Kinds
  <2>3. jar[j].sid \in SessionIds
    BY <1>2 DEF StartRefresh, TInv, TypeOK, Cookie
  <2>4. req' = [req EXCEPT ![r] = task] /\ UNCHANGED <<sessions, users, jar, now>>
    BY <1>2 DEF StartRefresh, Begin
  <2> HIDE DEF task
  <2> QED
    BY <2>2, <2>3, <2>4, TaskTyped DEF TInv, TypeOK
<1>3. ASSUME NEW api \in Apis, NEW u \in Users, LoginRead(r, j, u, api) PROVE TInv'
  <2> DEFINE base == Task("login", j, api)
             task == [[base EXCEPT !.user = u, !.ver = users[u].ver,
                                   !.tenant = Home[u]] EXCEPT !.phase = "mint"]
  <2>1. base \in Request
    BY <1>0 DEF Kinds
  <2>2. users[u].ver \in 0..MaxVersion /\ Home[u] \in Tenants
    BY DEF TInv, TypeOK, UserRow, SessionsAssumption
  <2>3. req' = [req EXCEPT ![r] = task] /\ UNCHANGED <<sessions, users, jar, now>>
    BY <1>3 DEF LoginRead, Begin
  <2> HIDE DEF base
  <2>4. task \in Request /\ task.phase = "mint"
    BY <2>1, <2>2 DEF Request, Phases
  <2> HIDE DEF task
  <2> QED
    BY <2>3, <2>4, TaskTyped DEF TInv, TypeOK, CookiePhases
<1>4. ASSUME NEW api \in Apis, NEW u \in Users, NEW t \in Tenants,
             StartSwitch(r, j, u, t, api)
      PROVE  TInv'
  <2> DEFINE base == Task("switch", j, api)
             task == [[base EXCEPT !.user = u, !.ver = users[u].ver,
                                   !.tenant = t] EXCEPT !.phase = "getSession"]
  <2>1. base \in Request /\ base.cookie = jar[j]
    BY <1>0 DEF Kinds
  <2>2. users[u].ver \in 0..MaxVersion
    BY DEF TInv, TypeOK, UserRow
  <2>3. req' = [req EXCEPT ![r] = task] /\ UNCHANGED <<sessions, users, jar, now>>
    BY <1>4 DEF StartSwitch, Begin
  <2>4. jar[j].sid \in SessionIds
    BY <1>4 DEF StartSwitch, TInv, TypeOK, Cookie
  <2> HIDE DEF base
  <2>5. task \in Request /\ task.cookie = jar[j]
    BY <2>1, <2>2 DEF Request, Phases
  <2> HIDE DEF task
  <2> QED
    BY <2>3, <2>4, <2>5, TaskTyped DEF TInv, TypeOK
<1> QED
  BY <1>1, <1>2, <1>3, <1>4

\* Deleting rows leaves a table of rows.
LEMMA DeleteTyped ==
    ASSUME TInv, NEW S, DeleteRows(S) PROVE sessions' \in [SessionIds -> SessionRow]
<1>1. Gone \in SessionRow
  BY NullTypes DEF Gone, SessionRow, Statuses
<1> QED
  BY <1>1 DEF TInv, TypeOK, DeleteRows

\* Deleting one row leaves a table of rows.
LEMMA DeleteRowTyped ==
    ASSUME TInv, NEW s, DeleteRow(s) PROVE sessions' \in [SessionIds -> SessionRow]
<1>1. Gone \in SessionRow
  BY NullTypes DEF Gone, SessionRow, Statuses
<1> QED
  BY <1>1 DEF TInv, TypeOK, DeleteRow

\* The steps of POST /auth/login keep tables and tasks typed.
LEMMA LoginTyped ==
    ASSUME TInv, NEW r \in Requests, LoginMint(r) \/ LoginSweep(r) \/ LoginCreate(r)
    PROVE  TInv'
<1>1. CASE LoginMint(r)
  <2>1. req' \in [Requests -> Request] /\ CookieNamed'
    BY <1>1, RefuseTyped, GotoTyped DEF LoginMint, Phases, CookiePhases
  <2> QED
    BY <1>1, <2>1 DEF LoginMint, TInv, TypeOK
<1>2. CASE LoginSweep(r)
  <2>1. req' \in [Requests -> Request] /\ CookieNamed'
    BY <1>2, GotoTyped DEF LoginSweep, Phases, CookiePhases
  <2> QED
    BY <1>2, <2>1, DeleteTyped DEF LoginSweep, TInv, TypeOK
<1>3. CASE LoginCreate(r)
  <2> PICK s \in SessionIds :
        /\ CreateSession(s, req[r].user, req[r].ver)
        /\ req' = [req EXCEPT ![r].phase = "answer", ![r].token = TRUE,
                     ![r].effect = "set", ![r].secret = 1,
                     ![r].cookie = [sid |-> s, secret |-> 1]]
    BY <1>3 DEF LoginCreate
  <2> DEFINE cookie == [sid |-> s, secret |-> 1]
  <2> DEFINE row == [status |-> "live", user |-> req[r].user,
                     tenant |-> Home[req[r].user], hash |-> 1, prev |-> 0,
                     prevUntil |-> 0, ver |-> req[r].ver,
                     expires |-> now + RefreshTtl]
             task == [req[r] EXCEPT !.phase = "answer", !.token = TRUE,
                        !.effect = "set", !.secret = 1,
                        !.cookie = cookie]
  <2>1. row \in SessionRow
    BY SessionsAssumption
    DEF TInv, TypeOK, Request, SessionRow, Statuses, SessionsAssumption
  <2>2. sessions' = [sessions EXCEPT ![s] = row]
    BY DEF CreateSession
  <2>a. req[r] \in Request /\ cookie \in Cookie
    BY DEF TInv, TypeOK, Cookie
  <2>4. req' = [req EXCEPT ![r] = task]
    OBVIOUS
  <2> HIDE DEF cookie
  <2>3. task \in Request /\ task.phase = "answer"
    BY <2>a DEF Request, Phases, CookieEffects
  <2> HIDE DEF row, task
  <2>5. req' \in [Requests -> Request] /\ CookieNamed'
    BY <2>3, <2>4, TaskTyped DEF CookiePhases
  <2> QED
    BY <1>3, <2>1, <2>2, <2>5 DEF LoginCreate, TInv, TypeOK
<1> QED
  BY <1>1, <1>2, <1>3

\* Minting, or failing to, keeps the tasks typed.
LEMMA MintTyped ==
    ASSUME TInv, NEW r \in Requests, Mint(r, req[r].tenant)
    PROVE  req' \in [Requests -> Request] /\ CookieNamed'
<1>1. CASE req[r].api \in Eligible
  <2> DEFINE task == [req[r] EXCEPT !.phase = "answer", !.token = TRUE,
                                    !.tenant = req[r].tenant]
  <2>1. task \in Request /\ task.phase = "answer"
    BY ZenonT(60) DEF TInv, TypeOK, Request, Phases
  <2>2. req' = [req EXCEPT ![r] = task]
    BY <1>1 DEF Mint
  <2> HIDE DEF task
  <2> QED
    BY <2>1, <2>2, TaskTyped DEF CookiePhases
<1>2. CASE req[r].api \notin Eligible
  BY <1>2, RefuseTyped DEF Mint
<1> QED
  BY <1>1, <1>2

\* Both reads of a refresh copy typed columns into the task.
LEMMA RefreshReadTyped ==
    ASSUME TInv, NEW r \in Requests,
           RefreshGetSession(r, RowOf(r)) \/ RefreshGetUser(r)
    PROVE  TInv'
<1> SUFFICES req' \in [Requests -> Request] /\ CookieNamed'
  BY DEF RefreshGetSession, RefreshGetUser, TInv, TypeOK
<1>0. req[r] \in Request
  BY DEF TInv, TypeOK
<1>1. CASE RefreshGetSession(r, RowOf(r))
  <2> DEFINE row == RowOf(r)
             current == MatchesCurrent(row, req[r].cookie.secret)
             judged == [req[r] EXCEPT !.phase = "deleteSession", !.reuse = TRUE]
             read == [req[r] EXCEPT !.phase = "getUser", !.current = current,
                        !.user = row.user, !.ver = row.ver, !.tenant = row.tenant]
  <2>1. req[r].cookie.sid \in SessionIds
    BY <1>1 DEF RefreshGetSession, TInv, CookieNamed, CookiePhases
  <2>2. row \in SessionRow /\ current \in BOOLEAN
    BY RowTyped DEF MatchesCurrent
  <2>3. judged \in Request /\ judged.cookie = req[r].cookie
    BY <1>0 DEF Request, Phases
  <2>4. \/ Refuse(r)
        \/ Goto(r, "deleteSession")
        \/ req' = [req EXCEPT ![r] = judged]
        \/ req' = [req EXCEPT ![r] = read]
    BY <1>1 DEF RefreshGetSession
  <2> HIDE DEF row, current
  <2>5. read \in Request /\ read.cookie = req[r].cookie
    BY <1>0, <2>2 DEF Request, Phases, SessionRow
  <2> HIDE DEF judged, read
  <2> QED
    BY <2>1, <2>3, <2>4, <2>5, TaskTyped, RefuseTyped, GotoTyped DEF Phases
<1>2. CASE RefreshGetUser(r)
  <2> DEFINE task == [req[r] EXCEPT
                        !.phase = IF req[r].current THEN "rotate" ELSE "mint",
                        !.tenant = ClaimedTenant(req[r].user, req[r].tenant)]
  <2>1. req[r].cookie.sid \in SessionIds
    BY <1>2 DEF RefreshGetUser, TInv, CookieNamed, CookiePhases
  <2>2. ClaimedTenant(req[r].user, req[r].tenant) \in Tenants
    BY <1>0, SessionsAssumption DEF ClaimedTenant, Request, SessionsAssumption
  <2>3. task \in Request /\ task.cookie = req[r].cookie
    BY <1>0, <2>2 DEF Request, Phases
  <2>4. Goto(r, "deleteSession") \/ req' = [req EXCEPT ![r] = task]
    BY <1>2 DEF RefreshGetUser
  <2> HIDE DEF task
  <2> QED
    BY <2>1, <2>3, <2>4, TaskTyped, GotoTyped DEF Phases
<1> QED
  BY <1>1, <1>2

\* A rotation writes a typed row and answers a typed cookie.
LEMMA RotateTyped ==
    ASSUME TInv, NEW r \in Requests, RefreshRotate(r) PROVE TInv'
<1> DEFINE s == req[r].cookie.sid
<1>1. s \in SessionIds
  BY DEF RefreshRotate, TInv, CookieNamed, CookiePhases
<1>2. CASE RotateRow(s) /\ Rotated(r)
  <2> DEFINE old == sessions[s].hash
             new == old + 1
             graceUntil == now + Grace
             expires == now + RefreshTtl
             row == [sessions[s] EXCEPT !.status = "live", !.prev = old,
                       !.prevUntil = graceUntil, !.hash = new,
                       !.expires = expires]
             task == [req[r] EXCEPT !.phase = "mint", !.effect = "set",
                                    !.secret = new]
  <2>1. sessions[s] \in SessionRow /\ req[r] \in Request /\ now \in Nat
    BY <1>1 DEF TInv, TypeOK
  <2>2. old \in Nat /\ new \in Nat /\ graceUntil \in Nat /\ expires \in Nat
    BY <2>1, SessionsAssumption DEF SessionRow, SessionsAssumption
  <2>3. sessions' = [sessions EXCEPT ![s] = row]
    BY <1>2 DEF RotateRow
  <2>4. req' = [req EXCEPT ![r] = task]
    BY <1>2 DEF Rotated
  <2> HIDE DEF s, old, new, graceUntil, expires
  <2>5. row \in SessionRow
    BY <2>1, <2>2 DEF SessionRow, Statuses
  <2>6. task \in Request /\ task.phase = "mint"
    BY <2>1, <2>2 DEF Request, Phases, CookieEffects
  <2> HIDE DEF row, task
  <2>7. req' \in [Requests -> Request] /\ CookieNamed'
    BY <2>4, <2>6, TaskTyped DEF CookiePhases
  <2> QED
    BY <2>3, <2>5, <2>7 DEF RefreshRotate, TInv, TypeOK
<1>3. CASE Refuse(r) /\ UNCHANGED sessions
  BY <1>3, RefuseTyped DEF RefreshRotate, TInv, TypeOK
<1> QED
  BY <1>2, <1>3 DEF RefreshRotate

\* delete_session, for whichever branch asked for it, keeps the state typed.
LEMMA DeleteSessionTyped ==
    ASSUME TInv, NEW r \in Requests, DeleteSession(r) PROVE TInv'
<1>1. sessions' \in [SessionIds -> SessionRow]
  BY DeleteRowTyped DEF DeleteSession
<1>2. req' \in [Requests -> Request] /\ CookieNamed'
  <2> DEFINE task == [req[r] EXCEPT !.phase = "answer", !.effect = "clear"]
  <2>1. task \in Request /\ task.phase = "answer"
    BY ZenonT(60) DEF TInv, TypeOK, Request, Phases, CookieEffects
  <2>2. Refuse(r) \/ req' = [req EXCEPT ![r] = task]
    BY DEF DeleteSession
  <2> HIDE DEF task
  <2> QED
    BY <2>1, <2>2, TaskTyped, RefuseTyped DEF CookiePhases
<1> QED
  BY <1>1, <1>2 DEF DeleteSession, TInv, TypeOK

\* The steps of POST /auth/switch-tenant keep tables and tasks typed.
LEMMA SwitchTyped ==
    ASSUME TInv, NEW r \in Requests,
           SwitchGetSession(r, RowOf(r)) \/ SwitchSetTenant(r)
    PROVE  TInv'
<1>1. req[r].cookie.sid \in SessionIds
  BY DEF SwitchGetSession, SwitchSetTenant, TInv, CookieNamed, CookiePhases
<1>2. req' \in [Requests -> Request] /\ CookieNamed'
  BY <1>1, RefuseTyped, GotoTyped DEF SwitchGetSession, SwitchSetTenant, Phases
<1>3. sessions' \in [SessionIds -> SessionRow]
  <2> DEFINE s == req[r].cookie.sid
             row == [sessions[s] EXCEPT !.status = "live",
                                        !.tenant = req[r].tenant]
  <2>1. row \in SessionRow
    <3>1. sessions[s] \in SessionRow
      BY <1>1 DEF TInv, TypeOK
    <3>2. req[r].tenant \in Tenants
      BY DEF TInv, TypeOK, Request
    <3> HIDE DEF s
    <3> QED
      BY <3>1, <3>2, ZenonT(30) DEF SessionRow, Statuses
  <2>2. UNCHANGED sessions \/ sessions' = [sessions EXCEPT ![s] = row]
    BY DEF SwitchGetSession, SwitchSetTenant, SetActiveTenant
  <2> HIDE DEF row
  <2> QED
    BY <2>1, <2>2 DEF TInv, TypeOK
<1> QED
  BY <1>2, <1>3 DEF SwitchGetSession, SwitchSetTenant, TInv, TypeOK

\* Every step of a task keeps the state typed.
LEMMA WorkTyped == ASSUME TInv, NEW r \in Requests, Work(r) PROVE TInv'
<1>1. CASE RefreshMint(r)
  BY <1>1, MintTyped DEF RefreshMint, TInv, TypeOK
<1>2. CASE SwitchMint(r)
  BY <1>2, MintTyped DEF SwitchMint, TInv, TypeOK
<1> QED
  BY <1>1, <1>2, LoginTyped, RefreshReadTyped, RotateTyped, DeleteSessionTyped,
     SwitchTyped DEF Work, ServerStep

\* An answer that arrives or is lost leaves typed cookies and tasks.
LEMMA ReplyTyped == ASSUME TInv, NEW r \in Requests, Reply(r) PROVE TInv'
<1>1. req' \in [Requests -> Request] /\ CookieNamed'
  <2>1. NoTask.phase \notin CookiePhases
    BY DEF NoTask, CookiePhases
  <2> QED
    BY <2>1, NullTypes, TaskTyped DEF Reply, Deliver, LoseAnswer, End
<1>2. jar' \in [Jars -> Cookie]
  <2>1. CASE Deliver(r)
    <3> DEFINE set == [sid |-> req[r].cookie.sid, secret |-> req[r].secret]
               j == req[r].jar
    <3>1. set \in Cookie /\ jar[j] \in Cookie
      BY DEF TInv, TypeOK, Request, Cookie
    <3>2. req[r].effect \in {"keep", "set", "clear"}
      BY DEF TInv, TypeOK, Request, CookieEffects
    <3>3. \E c \in Cookie : jar' = [jar EXCEPT ![j] = c]
      BY <2>1, <3>1, <3>2, NullTypes DEF Deliver
    <3> QED
      BY <3>3 DEF TInv, TypeOK
  <2>2. CASE LoseAnswer(r)
    BY <2>2 DEF LoseAnswer, TInv, TypeOK
  <2> QED
    BY <2>1, <2>2 DEF Reply
<1> QED
  BY <1>1, <1>2 DEF Reply, Deliver, LoseAnswer, TInv, TypeOK

\* Copied cookies, revocations, the TTL and the clock keep the state typed.
LEMMA SurroundingsTyped == ASSUME TInv, Surroundings PROVE TInv'
<1>1. ASSUME NEW i \in Jars, NEW j \in Jars, CopyCookie(i, j) PROVE TInv'
  BY <1>1 DEF CopyCookie, TInv, TypeOK, CookieNamed
<1>2. ASSUME NEW u \in Users, NEW s \in SessionIds,
             RevokeSession(u, s) \/ TtlDelete(s)
      PROVE  TInv'
  BY <1>2, DeleteRowTyped DEF RevokeSession, TtlDelete, TInv, TypeOK, CookieNamed
<1>3. CASE Tick
  BY <1>3 DEF Tick, TInv, TypeOK, CookieNamed
<1>4. Users # {}
  BY SessionsAssumption DEF SessionsAssumption
<1> QED
  BY <1>1, <1>2, <1>3, <1>4 DEF Surroundings

\* What other handlers do to an account keeps the state typed.
LEMMA AccountTyped == ASSUME TInv, AccountStep PROVE TInv'
<1> PICK u \in Users : \/ BumpVersion(u)
                       \/ PutUser(u)
                       \/ PurgeSessions(u)
                       \/ DeleteUser(u)
  BY DEF AccountStep
<1>1. users' \in [Users -> UserRow]
  <2>1. users[u] \in UserRow
    BY DEF TInv, TypeOK
  <2>2. CASE BumpVersion(u)
    <3>1. users[u].ver + 1 \in 0..MaxVersion
      BY <2>1, <2>2, SessionsAssumption DEF BumpVersion, UserRow, SessionsAssumption
    <3>2. [users[u] EXCEPT !.ver = users[u].ver + 1] \in UserRow
      BY <2>1, <3>1 DEF UserRow
    <3> QED
      BY <2>2, <3>2 DEF BumpVersion, TInv, TypeOK
  <2>3. CASE PutUser(u)
    <3>1. PICK ver \in 0..users[u].ver, locked \in BOOLEAN, may \in Entitlements(u) :
            users' = [users EXCEPT ![u] =
              [exists |-> TRUE, ver |-> ver, locked |-> locked,
               maySwitch |-> may, purged |-> users[u].purged]]
      BY <2>3 DEF PutUser
    <3>2. may \in BOOLEAN
      BY DEF Entitlements
    <3>3. users[u].ver \in 0..MaxVersion
      BY <2>1 DEF UserRow
    <3>4. ver \in 0..MaxVersion
      BY <3>3, SessionsAssumption DEF SessionsAssumption
    <3>5. [exists |-> TRUE, ver |-> ver, locked |-> locked,
           maySwitch |-> may, purged |-> users[u].purged] \in UserRow
      BY <2>1, <3>2, <3>4 DEF UserRow
    <3> QED
      BY <3>1, <3>5 DEF TInv, TypeOK
  <2>4. CASE PurgeSessions(u) \/ DeleteUser(u)
    <3>1. /\ [users[u] EXCEPT !.purged = TRUE] \in UserRow
          /\ [users[u] EXCEPT !.exists = FALSE, !.purged = FALSE] \in UserRow
      BY <2>1 DEF UserRow
    <3> QED
      BY <2>4, <3>1 DEF PurgeSessions, DeleteUser, TInv, TypeOK
  <2> QED
    BY <2>2, <2>3, <2>4
<1>2. sessions' \in [SessionIds -> SessionRow]
  BY DeleteTyped
  DEF BumpVersion, PutUser, PurgeSessions, DeleteUser, TInv, TypeOK
<1> QED
  BY <1>1, <1>2 DEF BumpVersion, PutUser, PurgeSessions,
     DeleteUser, TInv, TypeOK, CookieNamed

\* Every step keeps the state typed.
LEMMA StepTyped == ASSUME TInv, [Next]_vars PROVE TInv'
<1>1. CASE UNCHANGED vars
  BY <1>1 DEF vars, TInv, TypeOK, CookieNamed
<1> QED
  BY <1>1, ArrivalTyped, WorkTyped, ReplyTyped, SurroundingsTyped, AccountTyped
  DEF Next

\* The two history variables.
HistoryTyped == seen \in [Requests -> SUBSET Facts] /\ regressed \subseteq Users

\* What Watch records are facts and users.
LEMMA WatchTyped == ASSUME HistoryTyped, Watch PROVE HistoryTyped'
BY DEF HistoryTyped, Watch, FactsNow

\* Every reachable state is one the tables and the handlers can hold.
THEOREM TypeCorrect == WSpec => []WTypeOK
<1> DEFINE Inv == TInv /\ HistoryTyped
<1>1. WInit => Inv
  BY InitTyped DEF WInit, HistoryTyped
<1>2. Inv /\ [WNext]_wvars => Inv'
  <2> SUFFICES ASSUME Inv, [WNext]_wvars PROVE Inv'
    OBVIOUS
  <2>1. [Next]_vars /\ (Watch \/ UNCHANGED <<seen, regressed>>)
    BY DEF WNext, wvars
  <2>2. TInv'
    BY <2>1, StepTyped
  <2> QED
    BY <2>1, <2>2, WatchTyped DEF HistoryTyped
<1>3. Inv => WTypeOK
  BY DEF TInv, HistoryTyped, WTypeOK
<1> QED
  BY <1>1, <1>2, <1>3, PTL DEF WSpec

-----------------------------------------------------------------------------
(* What a granted refresh rests on *)

\* A phase says whose task it is.
KindOfPhase ==
    \A r \in Requests :
        /\ req[r].phase \in {"sweep", "create"} => req[r].kind = "login"
        /\ req[r].phase = "setTenant" => req[r].kind = "switch"
        /\ req[r].phase \in {"getUser", "rotate"} => req[r].kind = "refresh"

Login(r) ==
    req[r].kind = "login" /\ req[r].phase \in {"mint", "sweep", "create"}

ReadsUser(r) == req[r].phase = "getUser"

\* A refresh that passed the checks of the user row.
Checked(r) == req[r].kind = "refresh" /\ req[r].phase \in {"rotate", "mint"}

\* Where no stale copy has moved the row back, tokenVersion only grows, so no
\* copy of it is ahead of the row.
VersionsBehind ==
    /\ \A s \in SessionIds :
         Live(s) /\ sessions[s].user \notin regressed
           => sessions[s].ver <= users[sessions[s].user].ver
    /\ \A r \in Requests :
         (Login(r) \/ ReadsUser(r)) /\ req[r].user \notin regressed
           => req[r].ver <= users[req[r].user].ver

\* A refresh between its two reads was honourable when it read the session, or
\* the user row it is about to read will turn it away.
HonouredOrDoomed ==
    \A r \in Requests :
        ReadsUser(r) /\ req[r].user \notin regressed =>
            \/ "honoured" \in seen[r]
            \/ ~users[req[r].user].exists
            \/ req[r].ver < users[req[r].user].ver

CheckedIsRight ==
    \A r \in Requests :
        Checked(r) \/ Granted(r) =>
            /\ req[r].user \notin regressed => "honoured" \in seen[r]
            /\ "unlocked" \in seen[r]
            /\ req[r].tenant # Home[req[r].user] => "entitled" \in seen[r]

\* The inductive invariant behind the three grant properties.
GInv ==
    /\ TInv
    /\ HistoryTyped
    /\ KindOfPhase
    /\ VersionsBehind
    /\ HonouredOrDoomed
    /\ CheckedIsRight

\* A row not marked as moved back has only moved forward: its version did not
\* fall, and if it was deleted it still is.
LEMMA UsersForward ==
    ASSUME TInv, TInv', Watch, NEW u \in Users, u \notin regressed'
    PROVE  /\ u \notin regressed
           /\ users[u].ver \in Nat
           /\ users'[u].ver \in Nat
           /\ users[u].ver <= users'[u].ver
           /\ ~users[u].exists => ~users'[u].exists
<1>1. /\ users[u].ver \in Nat /\ users'[u].ver \in Nat
      /\ users[u].exists \in BOOLEAN /\ users'[u].exists \in BOOLEAN
  BY SessionsAssumption DEF TInv, TypeOK, UserRow, SessionsAssumption
<1>2. u \notin regressed /\ ~MovesBack(u)
  BY DEF Watch
<1> QED
  BY <1>1, <1>2 DEF MovesBack

\* A live row is one that was live for the same user at the same version, or the
\* one a login just created from its task.
LEMMA RowOrigin ==
    ASSUME TInv, KindOfPhase, [Next]_vars, NEW s \in SessionIds, Live(s)'
    PROVE  \/ /\ Live(s)
              /\ sessions'[s].user = sessions[s].user
              /\ sessions'[s].ver = sessions[s].ver
           \/ \E r \in Requests :
                /\ Login(r)
                /\ sessions'[s].user = req[r].user
                /\ sessions'[s].ver = req[r].ver
<1> DEFINE Same == /\ Live(s)
                   /\ sessions'[s].user = sessions[s].user
                   /\ sessions'[s].ver = sessions[s].ver
<1>1. sessions \in [SessionIds -> SessionRow] /\ sessions[s] \in SessionRow
  BY DEF TInv, TypeOK
<1>2. Gone.status # "live"
  BY DEF Gone, NoRow
<1>3. ASSUME UNCHANGED sessions PROVE Same
  BY <1>3 DEF Live
<1>4. ASSUME NEW S, DeleteRows(S) PROVE Same
  BY <1>2, <1>4 DEF DeleteRows, Live
<1>5. ASSUME NEW x \in SessionIds, DeleteRow(x) PROVE Same
  BY <1>1, <1>2, <1>5 DEF DeleteRow, Live
<1>6. ASSUME NEW r \in Requests, Arrival(r) \/ Reply(r) PROVE UNCHANGED sessions
  BY <1>6 DEF Arrival, StartLogout, StartRefresh, LoginRead, StartSwitch,
     Reply, Deliver, LoseAnswer
<1>7. ASSUME NEW r \in Requests, LoginCreate(r)
      PROVE  \/ Same
             \/ /\ Login(r)
                /\ sessions'[s].user = req[r].user
                /\ sessions'[s].ver = req[r].ver
  BY <1>1, <1>7 DEF LoginCreate, CreateSession, Live, Login, KindOfPhase
<1>8. ASSUME NEW r \in Requests, RefreshRotate(r) PROVE Same
  <2>1. req[r].cookie.sid \in SessionIds
    BY <1>8 DEF RefreshRotate, TInv, CookieNamed, CookiePhases
  <2>2. \/ UNCHANGED sessions
        \/ /\ RotateRow(req[r].cookie.sid)
           /\ sessions[req[r].cookie.sid].status = "live"
    BY <1>8 DEF RefreshRotate, Updatable, Readable
  <2>3. CASE RotateRow(req[r].cookie.sid)
    <3>1. /\ sessions'[s].user = sessions[s].user
          /\ sessions'[s].ver = sessions[s].ver
          /\ s # req[r].cookie.sid => sessions'[s].status = sessions[s].status
      BY <1>1, <2>1, <2>3 DEF RotateRow, SessionRow
    <3> QED
      BY <1>3, <2>2, <3>1 DEF Live
  <2> QED
    BY <1>3, <2>2, <2>3
<1>9. ASSUME NEW r \in Requests, SwitchSetTenant(r) PROVE Same
  <2>1. req[r].cookie.sid \in SessionIds
    BY <1>9 DEF SwitchSetTenant, TInv, CookieNamed, CookiePhases
  <2> QED
    BY <1>1, <1>3, <1>9, <2>1
    DEF SwitchSetTenant, SetActiveTenant, Updatable, Readable, Live, SessionRow
<1>10. ASSUME NEW r \in Requests, DeleteSession(r) PROVE Same
  <2>1. req[r].cookie.sid \in SessionIds
    BY <1>10 DEF DeleteSession, TInv, CookieNamed, CookiePhases
  <2> QED
    BY <1>5, <1>10, <2>1 DEF DeleteSession
<1>11. ASSUME NEW r \in Requests, LoginSweep(r) PROVE Same
  BY <1>4, <1>11 DEF LoginSweep
<1>12. ASSUME NEW r \in Requests, Work(r)
       PROVE  Same \/ LoginCreate(r)
  <2>1. \/ UNCHANGED sessions
        \/ LoginSweep(r) \/ LoginCreate(r) \/ RefreshRotate(r)
        \/ DeleteSession(r) \/ SwitchSetTenant(r)
    BY <1>12 DEF Work, ServerStep, LoginMint, RefreshGetSession, RefreshGetUser,
       RefreshMint, SwitchGetSession, SwitchMint
  <2> HIDE DEF Same
  <2> QED
    BY <1>3, <1>8, <1>9, <1>10, <1>11, <2>1
<1>13. CASE Surroundings
  BY <1>3, <1>5, <1>13 DEF Surroundings, CopyCookie, RevokeSession, TtlDelete, Tick
<1>14. CASE AccountStep
  BY <1>3, <1>4, <1>14 DEF AccountStep, BumpVersion, PutUser,
     PurgeSessions, DeleteUser
<1>15. CASE UNCHANGED vars
  BY <1>3, <1>15 DEF vars
<1> QED
  BY <1>3, <1>6, <1>7, <1>12, <1>13, <1>14, <1>15 DEF Next

\* What a step may make of one task, as far as the invariant can tell.
Moves(q) ==
    \/ req'[q] = req[q]
    \/ req'[q].phase \in {"idle", "getSession", "deleteSession"}
    \/ req'[q].phase = "answer" /\ ~Granted(q)'
    \/ /\ req'[q].phase = "mint" /\ req'[q].kind = "login"
       /\ req'[q].ver = users[req'[q].user].ver
       /\ UNCHANGED users
    \/ /\ Login(q) /\ Login(q)'
       /\ req'[q].user = req[q].user /\ req'[q].ver = req[q].ver
    \/ RefreshGetSession(q, RowOf(q)) /\ req'[q].phase = "getUser"
    \/ RefreshGetUser(q) /\ Checked(q)'
    \/ /\ Checked(q) /\ (Checked(q)' \/ Granted(q)')
       /\ req'[q].user = req[q].user /\ req'[q].tenant = req[q].tenant
    \/ req'[q].kind = "switch" /\ req'[q].phase \in {"setTenant", "mint"}

\* An error answer carries no token.
LEMMA RefuseMoves == ASSUME TInv, NEW r \in Requests, Refuse(r) PROVE Moves(r)
BY DEF TInv, TypeOK, Request, Refuse, Moves, Granted, NoTask

\* Minting leaves the task's own copies alone, or refuses.
LEMMA MintMoves ==
    ASSUME TInv, NEW r \in Requests, Mint(r, req[r].tenant), req[r].phase = "mint",
           req[r].kind \in {"refresh", "switch"}
    PROVE  Moves(r)
<1>1. CASE Refuse(r)
  BY <1>1, RefuseMoves
<1>2. CASE req' = [req EXCEPT ![r].phase = "answer", ![r].token = TRUE,
                              ![r].tenant = req[r].tenant]
  <2>1. req[r] \in Request
    BY DEF TInv, TypeOK
  <2>2. /\ req'[r].kind = req[r].kind /\ req'[r].phase = "answer"
        /\ req'[r].user = req[r].user /\ req'[r].tenant = req[r].tenant
        /\ req'[r].token = TRUE
    BY <1>2, <2>1 DEF TInv, TypeOK, Request
  <2> QED
    BY <2>2 DEF Moves, Checked, Granted
<1> QED
  BY <1>1, <1>2 DEF Mint

\* A step leaves the task of a request as it is or is a step of that request.
LEMMA StepOfTask ==
    ASSUME TInv, [Next]_vars, NEW q \in Requests
    PROVE  req'[q] = req[q] \/ Arrival(q) \/ Work(q) \/ Reply(q)
<1>0. req \in [Requests -> Request] /\ req[q] \in Request
  BY DEF TInv, TypeOK
<1>1. CASE UNCHANGED req
  BY <1>1
<1>2. ASSUME NEW r \in Requests, r # q, Arrival(r) \/ Work(r) \/ Reply(r)
      PROVE  req'[q] = req[q]
  <2>1. CASE Reply(r)
    BY <1>0, <1>2, <2>1 DEF Reply, Deliver, LoseAnswer, End
  <2>2. CASE Arrival(r)
    <3>1. PICK j \in Jars :
          \/ StartLogout(r, j)
          \/ \E api \in Apis :
                \/ StartRefresh(r, j, api)
                \/ \E u \in Users :
                      \/ LoginRead(r, j, u, api)
                      \/ \E t \in Tenants : StartSwitch(r, j, u, t, api)
      BY <2>2 DEF Arrival
    <3>2. CASE StartLogout(r, j)
      BY <1>0, <1>2, <3>2 DEF StartLogout, Begin
    <3>3. ASSUME NEW api \in Apis, StartRefresh(r, j, api)
          PROVE  req'[q] = req[q]
      BY <1>0, <1>2, <3>3 DEF StartRefresh, Begin
    <3>4. ASSUME NEW api \in Apis, NEW u \in Users, LoginRead(r, j, u, api)
          PROVE  req'[q] = req[q]
      BY <1>0, <1>2, <3>4 DEF LoginRead, Begin
    <3>5. ASSUME NEW api \in Apis, NEW u \in Users, NEW t \in Tenants,
                 StartSwitch(r, j, u, t, api)
          PROVE  req'[q] = req[q]
      BY <1>0, <1>2, <3>5 DEF StartSwitch, Begin
    <3> QED
      BY <3>1, <3>2, <3>3, <3>4, <3>5
  <2>3. CASE LoginMint(r) \/ LoginSweep(r) \/ LoginCreate(r)
    BY <1>0, <1>2, <2>3 DEF LoginMint, LoginSweep, LoginCreate, Goto, Refuse
  <2>4. CASE RefreshGetSession(r, RowOf(r)) \/ RefreshGetUser(r)
    BY <1>0, <1>2, <2>4 DEF RefreshGetSession, RefreshGetUser, Goto, Refuse
  <2>5. CASE RefreshRotate(r) \/ RefreshMint(r) \/ DeleteSession(r)
    BY <1>0, <1>2, <2>5 DEF RefreshRotate, Rotated, RefreshMint, Mint,
       DeleteSession, Refuse
  <2>6. CASE SwitchGetSession(r, RowOf(r)) \/ SwitchSetTenant(r) \/ SwitchMint(r)
    BY <1>0, <1>2, <2>6 DEF SwitchGetSession, SwitchSetTenant, SwitchMint, Mint,
       Goto, Refuse
  <2> QED
    BY <1>2, <2>1, <2>2, <2>3, <2>4, <2>5, <2>6 DEF Work, ServerStep
<1>3. CASE Surroundings \/ AccountStep
  BY <1>1, <1>3 DEF Surroundings, CopyCookie, RevokeSession, TtlDelete, Tick,
     AccountStep, BumpVersion, PutUser, PurgeSessions, DeleteUser
<1> QED
  BY <1>1, <1>2, <1>3 DEF Next, vars

\* In any step a task stays, ends, begins, or moves as its kind allows.
LEMMA TaskMoves == ASSUME TInv, KindOfPhase, [Next]_vars, NEW q \in Requests
                   PROVE  Moves(q)
<1>0. req \in [Requests -> Request] /\ req[q] \in Request
  BY DEF TInv, TypeOK
<1>1. CASE req'[q] = req[q]
  BY <1>1 DEF Moves
<1>3. CASE Arrival(q)
  <2>1. PICK j \in Jars :
        \/ StartLogout(q, j)
        \/ \E api \in Apis :
              \/ StartRefresh(q, j, api)
              \/ \E u \in Users :
                    \/ LoginRead(q, j, u, api)
                    \/ \E t \in Tenants : StartSwitch(q, j, u, t, api)
    BY <1>3 DEF Arrival
  <2>2. ASSUME NEW api \in Apis, NEW u \in Users, LoginRead(q, j, u, api)
        PROVE  Moves(q)
    BY <1>0, <2>2 DEF LoginRead, Begin, Task, NoTask, Moves
  <2>3. CASE StartLogout(q, j)
    BY <1>0, <2>3 DEF StartLogout, Begin, Task, NoTask, Moves
  <2>4. ASSUME NEW api \in Apis, StartRefresh(q, j, api) PROVE Moves(q)
    BY <1>0, <2>4 DEF StartRefresh, Begin, Task, NoTask, Moves
  <2>5. ASSUME NEW api \in Apis, NEW u \in Users, NEW t \in Tenants,
               StartSwitch(q, j, u, t, api)
        PROVE  Moves(q)
    BY <1>0, <2>5 DEF StartSwitch, Begin, Task, NoTask, Moves
  <2> QED
    BY <2>1, <2>2, <2>3, <2>4, <2>5
<1>4. CASE LoginMint(q) \/ LoginSweep(q) \/ LoginCreate(q)
  <2>1. CASE Refuse(q)
    BY <2>1, RefuseMoves
  <2>2. CASE /\ Login(q)
             /\ Goto(q, "sweep") \/ Goto(q, "create")
    BY <1>0, <2>2 DEF Goto, Moves, Login, Request
  <2>3. CASE LoginCreate(q)
    BY <1>0, <2>3 DEF LoginCreate, KindOfPhase, Moves, Granted, Request
  <2> QED
    BY <1>4, <2>1, <2>2, <2>3 DEF LoginMint, LoginSweep, KindOfPhase, Login
<1>5. CASE RefreshGetSession(q, RowOf(q))
  <2>1. CASE Refuse(q)
    BY <2>1, RefuseMoves
  <2>2. CASE ~Refuse(q)
    <3>1. req'[q].phase \in {"deleteSession", "getUser"}
      BY <1>0, <1>5, <2>2 DEF RefreshGetSession, Goto, Request
    <3> QED
      BY <1>5, <3>1 DEF Moves
  <2> QED
    BY <2>1, <2>2
<1>6. CASE RefreshGetUser(q)
  <2>1. /\ req'[q].phase \in {"rotate", "mint", "deleteSession"}
        /\ req'[q].kind = "refresh"
    BY <1>0, <1>6 DEF RefreshGetUser, Goto, Request
  <2> QED
    BY <1>6, <2>1 DEF Moves, Checked
<1>7. CASE RefreshRotate(q)
  <2>1. CASE Refuse(q)
    BY <2>1, RefuseMoves
  <2>2. CASE Rotated(q)
    <3>1. req[q].kind = "refresh" /\ req[q].phase = "rotate"
      BY <1>7 DEF RefreshRotate, KindOfPhase
    <3>2. /\ req'[q].kind = req[q].kind /\ req'[q].phase = "mint"
          /\ req'[q].user = req[q].user /\ req'[q].tenant = req[q].tenant
      BY <1>0, <2>2 DEF Rotated, Request
    <3> QED
      BY <3>1, <3>2 DEF Moves, Checked
  <2> QED
    BY <1>7, <2>1, <2>2 DEF RefreshRotate
<1>8. CASE RefreshMint(q) \/ SwitchMint(q)
  BY <1>8, MintMoves DEF RefreshMint, SwitchMint
<1>9. CASE DeleteSession(q)
  <2>1. CASE Refuse(q)
    BY <2>1, RefuseMoves
  <2>2. CASE /\ req[q].kind = "logout"
             /\ req' = [req EXCEPT ![q].phase = "answer", ![q].effect = "clear"]
    BY <1>0, <2>2 DEF Moves, Granted, Request
  <2> QED
    BY <1>9, <2>1, <2>2 DEF DeleteSession
<1>10. CASE SwitchGetSession(q, RowOf(q)) \/ SwitchSetTenant(q)
  <2>1. CASE Refuse(q)
    BY <2>1, RefuseMoves
  <2>2. CASE req[q].kind = "switch" /\ (Goto(q, "setTenant") \/ Goto(q, "mint"))
    BY <1>0, <2>2 DEF Goto, Moves, Request
  <2> QED
    BY <1>10, <2>1, <2>2 DEF SwitchGetSession, SwitchSetTenant, KindOfPhase
<1>11. CASE Reply(q)
  BY <1>0, <1>11 DEF Reply, Deliver, LoseAnswer, End, NoTask, Moves
<1>12. Work(q) => Moves(q)
  BY <1>4, <1>5, <1>6, <1>7, <1>8, <1>9, <1>10 DEF Work, ServerStep
<1> QED
  BY <1>1, <1>3, <1>11, <1>12, StepOfTask

\* What a task knows when it goes on from the session to the user row.
LEMMA ReadMoves ==
    ASSUME TInv, NEW q \in Requests,
           RefreshGetSession(q, RowOf(q)), req'[q].phase = "getUser"
    PROVE  LET row == RowOf(q) IN
           /\ req'[q].kind = "refresh"
           /\ req'[q].user = row.user /\ req'[q].ver = row.ver
           /\ req[q].cookie.sid \in SessionIds
           /\ row = sessions[req[q].cookie.sid]
           /\ Live(req[q].cookie.sid)
           /\ users[row.user].exists /\ users[row.user].ver = row.ver
                => Honoured(q)'
           /\ UNCHANGED users
<1>1. /\ req \in [Requests -> Request] /\ req[q] \in Request
      /\ req[q].cookie.sid \in SessionIds
  BY DEF TInv, TypeOK, RefreshGetSession, CookieNamed, CookiePhases
<1>2. RowOf(q) = sessions[req[q].cookie.sid]
  BY <1>1, SessionsAssumption DEF RowOf, SessionsAssumption
<1> DEFINE row == RowOf(q)
           secret == req[q].cookie.secret
<1>3. ASSUME Refuse(q) PROVE FALSE
  <2>1. req'[q].phase = "answer"
    BY <1>1, <1>3 DEF Refuse, NoTask
  <2> QED
    BY <2>1
<1>4. ASSUME Goto(q, "deleteSession") PROVE FALSE
  <2>1. req'[q].phase = "deleteSession"
    BY <1>1, <1>4 DEF Goto, Request
  <2> QED
    BY <2>1
<1>5. ASSUME req' = [req EXCEPT ![q].phase = "deleteSession", ![q].reuse = TRUE]
      PROVE  FALSE
  <2>1. req'[q].phase = "deleteSession"
    BY <1>1, <1>5 DEF Request
  <2> QED
    BY <2>1
<1>6. /\ Readable(row) /\ ~Expired(row)
      /\ MatchesCurrent(row, secret) \/ MatchesGrace(row, secret)
      /\ req' = [req EXCEPT ![q].phase = "getUser",
                   ![q].current = MatchesCurrent(row, secret),
                   ![q].user = row.user, ![q].ver = row.ver,
                   ![q].tenant = row.tenant]
      /\ req[q].kind = "refresh"
      /\ UNCHANGED <<sessions, users, now>>
  BY <1>3, <1>4, <1>5 DEF RefreshGetSession
<1>7. /\ req'[q].kind = "refresh" /\ req'[q].user = row.user
      /\ req'[q].ver = row.ver /\ req'[q].cookie = req[q].cookie
  BY <1>1, <1>6 DEF Request
<1>8. RowOf(q)' = row
  <2>1. req[q].cookie.sid # NoSession
    BY <1>1, SessionsAssumption DEF SessionsAssumption
  <2>2. RowOf(q)' = sessions'[req'[q].cookie.sid]
    BY <1>7, <2>1 DEF RowOf
  <2> QED
    BY <1>2, <1>6, <1>7, <2>2
<1>9. row.status = "live"
  BY <1>6 DEF Readable
<1>10. ASSUME users[row.user].exists, users[row.user].ver = row.ver
       PROVE  Honoured(q)'
  BY <1>6, <1>7, <1>8, <1>9, <1>10
  DEF Honoured, Expired, MatchesCurrent, MatchesGrace
<1> QED
  BY <1>1, <1>2, <1>6, <1>7, <1>9, <1>10 DEF Live

\* What a task knows when it goes on from the user row.
LEMMA CheckMoves ==
    ASSUME TInv, NEW q \in Requests, RefreshGetUser(q), Checked(q)'
    PROVE  /\ ReadsUser(q)
           /\ users[req[q].user].exists
           /\ ~users[req[q].user].locked
           /\ users[req[q].user].ver = req[q].ver
           /\ req'[q].user = req[q].user
           /\ req'[q].tenant # Home[req[q].user] => users[req[q].user].maySwitch
           /\ UNCHANGED users
<1>1. req \in [Requests -> Request] /\ req[q] \in Request
  BY DEF TInv, TypeOK
<1>2. ASSUME Goto(q, "deleteSession") PROVE FALSE
  <2>1. req'[q].phase = "deleteSession"
    BY <1>1, <1>2 DEF Goto, Request
  <2> QED
    BY <2>1 DEF Checked
<1>3. /\ Active(req[q].user, req[q].ver)
      /\ req' = [req EXCEPT
            ![q].phase = IF req[q].current THEN "rotate" ELSE "mint",
            ![q].tenant = ClaimedTenant(req[q].user, req[q].tenant)]
  BY <1>2 DEF RefreshGetUser
<1>4. /\ req'[q].user = req[q].user
      /\ req'[q].tenant = ClaimedTenant(req[q].user, req[q].tenant)
  BY <1>1, <1>3 DEF Request
<1> QED
  BY <1>3, <1>4 DEF RefreshGetUser, Active, ClaimedTenant, ReadsUser

\* A fact that holds while a refresh is at work is recorded, and stays so.
LEMMA WatchKeeps ==
    ASSUME Watch, NEW q \in Requests, req'[q].phase # "idle"
    PROVE  seen[q] \subseteq seen'[q]
BY DEF Watch

\* A fact that holds for a refresh at work is recorded by the next step.
LEMMA WatchSees ==
    ASSUME Watch, NEW q \in Requests, req'[q].kind = "refresh",
           req'[q].phase \in {"getUser", "rotate", "mint"}
    PROVE  /\ Honoured(q)' => "honoured" \in seen'[q]
           /\ ~users'[req'[q].user].locked => "unlocked" \in seen'[q]
           /\ users'[req'[q].user].maySwitch => "entitled" \in seen'[q]
<1>1. Owner(q)' = req'[q].user
  BY DEF Owner
<1>2. FactsNow(q)' = {f \in Facts :
            \/ f = "honoured" /\ Honoured(q)'
            \/ f = "unlocked" /\ ~users'[req'[q].user].locked
            \/ f = "entitled" /\ users'[req'[q].user].maySwitch}
  BY <1>1 DEF FactsNow, IdleRequest
<1> QED
  BY <1>2 DEF Watch, Facts

\* The inductive invariant holds at the start.
LEMMA GInvInit == WInit => GInv
<1> SUFFICES ASSUME WInit PROVE GInv
  OBVIOUS
<1>1. TInv
  BY InitTyped DEF WInit
<1>2. \A r \in Requests : req[r] = NoTask
  BY DEF WInit, Init
<1>3. \A s \in SessionIds : ~Live(s)
  BY DEF WInit, Init, Live, NoRow
<1>4. \A r \in Requests : req[r].phase = "idle"
  <2>1. NoTask.phase = "idle"
    BY DEF NoTask
  <2> QED
    BY <1>2, <2>1
<1>5. HistoryTyped
  BY DEF WInit, HistoryTyped
<1>6. KindOfPhase /\ HonouredOrDoomed /\ CheckedIsRight
  BY <1>4 DEF KindOfPhase, HonouredOrDoomed, CheckedIsRight, Checked, Granted,
     ReadsUser
<1>7. VersionsBehind
  BY <1>3, <1>4 DEF VersionsBehind, Login, ReadsUser
<1> QED
  BY <1>1, <1>5, <1>6, <1>7 DEF GInv

\* Every step preserves the inductive invariant.
LEMMA GInvStep == GInv /\ [WNext]_wvars => GInv'
<1> SUFFICES ASSUME GInv, [WNext]_wvars PROVE GInv'
  OBVIOUS
<1>1. CASE UNCHANGED wvars
  BY <1>1 DEF wvars, vars, GInv, TInv, TypeOK, CookieNamed, HistoryTyped,
     KindOfPhase, VersionsBehind, HonouredOrDoomed, CheckedIsRight, Checked, Granted, Login,
     ReadsUser, Live
<1>2. CASE Next /\ Watch
  <2>1. TInv /\ KindOfPhase /\ [Next]_vars /\ Watch
    BY <1>2 DEF GInv
  <2>2. TInv'
    BY <2>1, StepTyped
  <2>3. HistoryTyped'
    BY <2>1, WatchTyped DEF GInv
  <2>4. \A q \in Requests : Moves(q)
    BY <2>1, TaskMoves
  <2>5. ASSUME NEW u \in Users, u \notin regressed'
        PROVE  /\ u \notin regressed
               /\ users[u].ver \in Nat /\ users'[u].ver \in Nat
               /\ users[u].ver <= users'[u].ver
               /\ ~users[u].exists => ~users'[u].exists
    BY <2>1, <2>2, <2>5, UsersForward
  <2>6. KindOfPhase'
    BY <2>1, <2>4, ReadMoves
    DEF KindOfPhase, Moves, Login, Checked, Granted
  <2>7. ASSUME NEW r \in Requests
        PROVE  /\ req[r].user \in Users /\ req'[r].user \in Users
               /\ req[r].ver \in Nat /\ req'[r].ver \in Nat
    BY <2>1, <2>2 DEF TInv, TypeOK, Request
  <2>8. VersionsBehind'
    <3>1. ASSUME NEW s \in SessionIds, Live(s)', sessions'[s].user \notin regressed'
          PROVE  sessions'[s].ver <= users'[sessions'[s].user].ver
      <4>1. /\ sessions'[s].user \in Users /\ sessions'[s].ver \in Nat
        BY <2>2 DEF TInv, TypeOK, SessionRow
      <4>2. sessions'[s].ver <= users[sessions'[s].user].ver
        BY <2>1, <2>5, <3>1, <4>1, RowOrigin DEF GInv, VersionsBehind
      <4> QED
        BY <2>5, <3>1, <4>1, <4>2
    <3>2. ASSUME NEW r \in Requests, Login(r)' \/ ReadsUser(r)',
                 req'[r].user \notin regressed'
          PROVE  req'[r].ver <= users'[req'[r].user].ver
      <4>0. req'[r].user \notin regressed
        BY <2>5, <2>7, <3>2
      <4>1. req'[r].ver <= users[req'[r].user].ver
        <5>1. CASE req'[r] = req[r]
          BY <3>2, <4>0, <5>1 DEF GInv, VersionsBehind, Login, ReadsUser
        <5>2. CASE RefreshGetSession(r, RowOf(r)) /\ req'[r].phase = "getUser"
          BY <2>1, <4>0, <5>2, ReadMoves DEF GInv, VersionsBehind
        <5>3. CASE /\ Login(r) /\ Login(r)'
                   /\ req'[r].user = req[r].user /\ req'[r].ver = req[r].ver
          BY <4>0, <5>3 DEF GInv, VersionsBehind
        <5>4. CASE /\ req'[r].phase = "mint" /\ req'[r].kind = "login"
                   /\ req'[r].ver = users[req'[r].user].ver
          BY <2>5, <2>7, <3>2, <5>4
        <5> QED
          BY <2>4, <3>2, <5>1, <5>2, <5>3, <5>4
          DEF Moves, Login, ReadsUser, Checked, Granted
      <4> QED
        BY <2>5, <2>7, <3>2, <4>1
    <3> QED
      BY <3>1, <3>2 DEF VersionsBehind
  <2>9. HonouredOrDoomed'
    <3> SUFFICES ASSUME NEW r \in Requests, ReadsUser(r)',
                        req'[r].user \notin regressed'
                 PROVE  \/ "honoured" \in seen'[r]
                        \/ ~users'[req'[r].user].exists
                        \/ req'[r].ver < users'[req'[r].user].ver
      BY DEF HonouredOrDoomed
    <3>1. CASE req'[r] = req[r]
      BY <2>1, <2>5, <2>7, <3>1, WatchKeeps DEF GInv, HonouredOrDoomed, ReadsUser
    <3>2. CASE RefreshGetSession(r, RowOf(r))
      <4> DEFINE row == RowOf(r)
      <4>1. /\ req'[r].user = row.user /\ req'[r].ver = row.ver
            /\ row.ver <= users[row.user].ver
            /\ users[row.user].exists /\ users[row.user].ver = row.ver
                  => "honoured" \in seen'[r]
            /\ users' = users
        <5>1. /\ req'[r].user = row.user /\ req'[r].ver = row.ver
              /\ req'[r].kind = "refresh" /\ users' = users
              /\ Live(req[r].cookie.sid) /\ row = sessions[req[r].cookie.sid]
              /\ req[r].cookie.sid \in SessionIds
              /\ users[row.user].exists /\ users[row.user].ver = row.ver
                    => Honoured(r)'
          BY <2>1, <3>2, ReadMoves DEF ReadsUser
        <5>2. row.user \notin regressed
          BY <2>5, <2>7, <5>1
        <5>3. row.ver <= users[row.user].ver
          BY <5>1, <5>2 DEF GInv, VersionsBehind
        <5>4. Honoured(r)' => "honoured" \in seen'[r]
          BY <2>1, <5>1, WatchSees DEF ReadsUser
        <5> HIDE DEF row
        <5> QED
          BY <5>1, <5>3, <5>4
      <4> HIDE DEF row
      <4> QED
        BY <2>5, <2>7, <4>1
    <3> QED
      BY <2>4, <3>1, <3>2 DEF Moves, Login, ReadsUser, Checked, Granted
  <2>10. CheckedIsRight'
    <3> SUFFICES ASSUME NEW r \in Requests, Checked(r)' \/ Granted(r)'
                 PROVE  /\ req'[r].user \notin regressed'
                              => "honoured" \in seen'[r]
                        /\ "unlocked" \in seen'[r]
                        /\ req'[r].tenant # Home[req'[r].user]
                              => "entitled" \in seen'[r]
      BY DEF CheckedIsRight
    <3>0. seen[r] \subseteq seen'[r]
      BY <2>1, WatchKeeps DEF Checked, Granted
    <3>a. regressed \subseteq regressed'
      BY <2>1 DEF Watch
    <3>1. CASE req'[r] = req[r]
      BY <3>0, <3>a, <3>1 DEF GInv, CheckedIsRight, Checked, Granted
    <3>2. CASE /\ Checked(r)
               /\ req'[r].user = req[r].user /\ req'[r].tenant = req[r].tenant
      BY <3>0, <3>a, <3>2 DEF GInv, CheckedIsRight
    <3>3. CASE RefreshGetUser(r) /\ Checked(r)'
      <4>1. /\ ReadsUser(r) /\ users[req[r].user].exists
            /\ ~users[req[r].user].locked
            /\ users[req[r].user].ver = req[r].ver
            /\ req'[r].user = req[r].user
            /\ req'[r].tenant # Home[req[r].user] => users[req[r].user].maySwitch
            /\ users' = users
        BY <2>1, <3>3, CheckMoves
      <4>2. req[r].user \notin regressed => "honoured" \in seen[r]
        BY <2>7, <4>1 DEF GInv, HonouredOrDoomed
      <4>3. /\ "unlocked" \in seen'[r]
            /\ req'[r].tenant # Home[req'[r].user] => "entitled" \in seen'[r]
        BY <2>1, <3>3, <4>1, WatchSees DEF Checked
      <4> QED
        BY <3>0, <3>a, <4>1, <4>2, <4>3
    <3> QED
      BY <2>4, <3>1, <3>2, <3>3 DEF Moves, Login, Checked, Granted
  <2> QED
    BY <2>2, <2>3, <2>6, <2>8, <2>9, <2>10 DEF GInv
<1> QED
  BY <1>1, <1>2 DEF WNext

\* What a refresh in flight has read was true together in one recorded state,
\* or its row and user have moved to where the grant can no longer happen.
THEOREM GInvHolds == WSpec => []GInv
BY GInvInit, GInvStep, PTL DEF WSpec

\* No refresh is granted on facts that never held together: the session was
\* open and unexpired, its secret acceptable and the account at its version, all
\* in one state between the request and its answer - for every user whose row no
\* stale copy has moved back.
THEOREM GrantsAreHonoured == WSpec => []GrantHonoured
<1>1. GInv => GrantHonoured
  BY DEF GInv, CheckedIsRight, GrantHonoured
<1> QED
  BY <1>1, GInvHolds, PTL

\* No refresh sent while an account is locked and stays locked is granted.
THEOREM GrantsAreUnlocked == WSpec => []GrantUnlocked
<1>1. GInv => GrantUnlocked
  BY DEF GInv, CheckedIsRight, GrantUnlocked
<1> QED
  BY <1>1, GInvHolds, PTL

\* No refresh names a foreign tenant for a user who lost the entitlement before
\* it was sent.
THEOREM ForeignGrantsAreEntitled == WSpec => []ForeignGrantEntitled
<1>1. GInv => ForeignGrantEntitled
  BY DEF GInv, CheckedIsRight, ForeignGrantEntitled
<1> QED
  BY <1>1, GInvHolds, PTL

-----------------------------------------------------------------------------
(* Sessions implements SessionLifecycle *)

\* SessionLifecycle sees a row as free, live or gone with its status.
LEMMA LifeCases ==
    ASSUME NEW row \in SessionRow
    PROVE  /\ row.status = "free" => LifeOf(row) = Lifecycle!Unopened
           /\ row.status = "gone" => LifeOf(row) = Lifecycle!Closed
           /\ row.status = "live" => LifeOf(row) =
                [stage |-> "live", user |-> row.user, ver |-> row.ver,
                 tenant |-> row.tenant, generation |-> row.hash,
                 graced |-> row.prev]
BY DEF LifeOf, Lifecycle!Unopened, Lifecycle!Closed

\* Rows that are deleted close their sessions; the rest stay as they were.
LEMMA DeleteCloses ==
    ASSUME TInv, NEW S \in SUBSET SessionIds, \A s \in S : Live(s), DeleteRows(S)
    PROVE  Lifecycle!Close(S)
<1>1. Gone \in SessionRow /\ Gone.status = "gone"
  BY NullTypes DEF Gone, SessionRow, Statuses
<1>2. sessions \in [SessionIds -> SessionRow]
  BY DEF TInv, TypeOK
<1>3. \A s \in S : Life[s].stage = "live"
  BY <1>2, LifeCases DEF Life, Live
<1>4. Life' = [s \in SessionIds |->
                IF s \in S THEN Lifecycle!Closed ELSE Life[s]]
  BY <1>1, LifeCases DEF Life, DeleteRows
<1> QED
  BY <1>3, <1>4 DEF Lifecycle!Close

\* Deleting one row closes its session, or does nothing when it is not live.
LEMMA DeleteRowCloses ==
    ASSUME TInv, NEW s \in SessionIds, DeleteRow(s)
    PROVE  [Lifecycle!Next]_Life
<1>1. CASE UNCHANGED sessions
  BY <1>1 DEF Life
<1>2. CASE Live(s) /\ sessions' = [sessions EXCEPT ![s] = Gone]
  <2>1. DeleteRows({s})
    BY <1>2 DEF DeleteRows, TInv, TypeOK
  <2>2. Lifecycle!Close({s})
    BY <1>2, <2>1, DeleteCloses
  <2> QED
    BY <2>2 DEF Lifecycle!Next
<1> QED
  BY <1>1, <1>2 DEF DeleteRow

\* The insert of a login opens a session.
LEMMA CreateOpens ==
    ASSUME TInv, NEW r \in Requests, LoginCreate(r) PROVE Lifecycle!Next
<1> PICK s \in SessionIds : CreateSession(s, req[r].user, req[r].ver)
  BY DEF LoginCreate
<1> DEFINE row == sessions'[s]
<1>1. sessions \in [SessionIds -> SessionRow] /\ sessions[s] \in SessionRow
  BY DEF TInv, TypeOK
<1>2. TInv'
  BY LoginTyped
<1>3. row \in SessionRow
  BY <1>2 DEF TInv, TypeOK
<1>4. req[r].user \in Users /\ req[r].ver \in 0..MaxVersion
  BY DEF TInv, TypeOK, Request
<1>5. /\ row.status = "live" /\ row.user = req[r].user /\ row.ver = req[r].ver
      /\ row.tenant = Home[req[r].user] /\ row.hash = 1 /\ row.prev = 0
      /\ sessions' = [sessions EXCEPT ![s] = row]
  BY <1>1 DEF CreateSession
<1> HIDE DEF row
<1>6. LifeOf(row) = Lifecycle!Opened(req[r].user, req[r].ver)
  BY <1>3, <1>5, LifeCases DEF Lifecycle!Opened, Lifecycle!Held
<1>7. Life[s] = Lifecycle!Unopened
  BY <1>1, LifeCases DEF Life, CreateSession
<1>8. Life' = [Life EXCEPT ![s] = LifeOf(row)]
  BY <1>1, <1>5 DEF Life
<1>9. Lifecycle!Open(s)
  BY <1>4, <1>6, <1>7, <1>8 DEF Lifecycle!Open
<1> QED
  BY <1>9 DEF Lifecycle!Next

\* A conditional rotation rotates a live session by one generation.
LEMMA RotateRotates ==
    ASSUME TInv, NEW r \in Requests, RefreshRotate(r) PROVE [Lifecycle!Next]_Life
<1> DEFINE s == req[r].cookie.sid
           row == sessions'[s]
<1>1. /\ sessions \in [SessionIds -> SessionRow] /\ s \in SessionIds
      /\ sessions[s] \in SessionRow
  BY DEF TInv, TypeOK, RefreshRotate, CookieNamed, CookiePhases
<1>2. CASE UNCHANGED sessions
  BY <1>2 DEF Life
<1>3. CASE Updatable(s) /\ RotateRow(s)
  <2>1. row \in SessionRow
    BY <1>1, RotateTyped DEF TInv, TypeOK
  <2>2. /\ row.status = "live" /\ row.user = sessions[s].user
        /\ row.ver = sessions[s].ver /\ row.tenant = sessions[s].tenant
        /\ row.hash = sessions[s].hash + 1 /\ row.prev = sessions[s].hash
        /\ sessions' = [sessions EXCEPT ![s] = row]
        /\ sessions[s].status = "live"
    BY <1>1, <1>3 DEF RotateRow, Updatable, Readable, SessionRow
  <2> HIDE DEF s, row
  <2>3. Life[s] = [stage |-> "live", user |-> sessions[s].user,
                   ver |-> sessions[s].ver, tenant |-> sessions[s].tenant,
                   generation |-> sessions[s].hash, graced |-> sessions[s].prev]
    BY <1>1, <2>2, LifeCases DEF Life
  <2>4. LifeOf(row) = Lifecycle!Rotated(Life[s])
    BY <2>1, <2>2, <2>3, LifeCases DEF Lifecycle!Rotated, Lifecycle!Held
  <2>5. Life' = [Life EXCEPT ![s] = LifeOf(row)]
    BY <1>1, <2>2 DEF Life
  <2>6. Life[s].stage = "live" /\ Life \in [SessionIds -> {Life[x] : x \in SessionIds}]
    BY <2>3 DEF Life
  <2>7. Lifecycle!Rotate(s)
    BY <1>1, <2>4, <2>5, <2>6 DEF Lifecycle!Rotate
  <2> QED
    BY <1>1, <2>7 DEF Lifecycle!Next
<1> QED
  BY <1>2, <1>3 DEF RefreshRotate

\* A conditional tenant update re-scopes a live session.
LEMMA SwitchRescopes ==
    ASSUME TInv, NEW r \in Requests, SwitchSetTenant(r) PROVE [Lifecycle!Next]_Life
<1> DEFINE s == req[r].cookie.sid
           row == sessions'[s]
<1>1. /\ sessions \in [SessionIds -> SessionRow] /\ s \in SessionIds
      /\ sessions[s] \in SessionRow /\ req[r].tenant \in Tenants
  BY DEF TInv, TypeOK, Request, SwitchSetTenant, CookieNamed, CookiePhases
<1>2. CASE UNCHANGED sessions
  BY <1>2 DEF Life
<1>3. CASE Updatable(s) /\ SetActiveTenant(s, req[r].tenant)
  <2>1. row \in SessionRow
    BY <1>1, SwitchTyped DEF TInv, TypeOK
  <2>2. /\ row.status = "live" /\ row.user = sessions[s].user
        /\ row.ver = sessions[s].ver /\ row.tenant = req[r].tenant
        /\ row.hash = sessions[s].hash /\ row.prev = sessions[s].prev
        /\ sessions' = [sessions EXCEPT ![s] = row]
        /\ sessions[s].status = "live"
    BY <1>1, <1>3 DEF SetActiveTenant, Updatable, Readable, SessionRow
  <2> HIDE DEF s, row
  <2>3. Life[s] = [stage |-> "live", user |-> sessions[s].user,
                   ver |-> sessions[s].ver, tenant |-> sessions[s].tenant,
                   generation |-> sessions[s].hash, graced |-> sessions[s].prev]
    BY <1>1, <2>2, LifeCases DEF Life
  <2>4. LifeOf(row) = [Life[s] EXCEPT !.tenant = req[r].tenant]
    BY <2>1, <2>2, <2>3, LifeCases
  <2>5. Life' = [Life EXCEPT ![s] = LifeOf(row)]
    BY <1>1, <2>2 DEF Life
  <2>a. Life[s].stage = "live" /\ Life \in [SessionIds -> {Life[x] : x \in SessionIds}]
    BY <2>3 DEF Life
  <2>6. Lifecycle!Rescope(s)
    BY <1>1, <2>4, <2>5, <2>a DEF Lifecycle!Rescope
  <2> QED
    BY <1>1, <2>6 DEF Lifecycle!Next
<1> QED
  BY <1>2, <1>3 DEF SwitchSetTenant

\* Every step of Sessions is a step of SessionLifecycle or leaves it alone.
LEMMA StepSimulates == ASSUME TInv, [Next]_vars PROVE [Lifecycle!Next]_Life
<1>1. CASE UNCHANGED sessions
  BY <1>1 DEF Life
<1>2. ASSUME NEW S \in SUBSET SessionIds, \A s \in S : Live(s), DeleteRows(S)
      PROVE  [Lifecycle!Next]_Life
  BY <1>2, DeleteCloses DEF Lifecycle!Next
<1>3. ASSUME NEW r \in Requests, Arrival(r) \/ Reply(r) PROVE UNCHANGED sessions
  BY <1>3 DEF Arrival, StartLogout, StartRefresh, LoginRead, StartSwitch,
     Reply, Deliver, LoseAnswer
<1>4. ASSUME NEW r \in Requests, LoginSweep(r) PROVE [Lifecycle!Next]_Life
  BY <1>2, <1>4 DEF LoginSweep
<1>5. ASSUME NEW r \in Requests, DeleteSession(r) PROVE [Lifecycle!Next]_Life
  BY <1>5, DeleteRowCloses DEF DeleteSession, TInv, CookieNamed, CookiePhases
<1>6. ASSUME NEW r \in Requests, Work(r) PROVE [Lifecycle!Next]_Life
  <2>1. \/ UNCHANGED sessions
        \/ LoginSweep(r) \/ LoginCreate(r) \/ RefreshRotate(r)
        \/ DeleteSession(r) \/ SwitchSetTenant(r)
    BY <1>6 DEF Work, ServerStep, LoginMint, RefreshGetSession, RefreshGetUser,
       RefreshMint, SwitchGetSession, SwitchMint
  <2> QED
    BY <1>1, <1>4, <1>5, <2>1, CreateOpens, RotateRotates, SwitchRescopes
<1>7. CASE Surroundings
  BY <1>1, <1>7, DeleteRowCloses
  DEF Surroundings, CopyCookie, RevokeSession, TtlDelete, Tick
<1>8. CASE AccountStep
  BY <1>1, <1>2, <1>8 DEF AccountStep, BumpVersion, PutUser,
     PurgeSessions, DeleteUser
<1> QED
  BY <1>1, <1>3, <1>6, <1>7, <1>8 DEF Next, vars

\* Every step of every handler, whatever it interleaves with, is a step of some
\* session's life or leaves all of them alone: the refinement TLC checks on the
\* small instances, for every number of sessions, requests and browsers.
THEOREM SessionsImplementLifecycle == Spec => ImplementsLifecycle
<1>1. Init => Lifecycle!Init
  BY NullTypes, LifeCases DEF Init, Lifecycle!Init, Life, NoRow
<1>2. TInv /\ [Next]_vars => [Lifecycle!Next]_Life
  BY StepSimulates
<1>3. TInv /\ [Next]_vars => TInv'
  BY StepTyped
<1> QED
  BY InitTyped, <1>1, <1>2, <1>3, PTL DEF Spec, ImplementsLifecycle, Lifecycle!Spec

-----------------------------------------------------------------------------
(* Reuse detection *)

\* A task that judged its secret a replay read a row, so the session its cookie
\* names is one that was created.
ReuseReadARow ==
    \A r \in Requests :
        req[r].reuse => /\ req[r].phase = "deleteSession"
                        /\ req[r].kind = "refresh"
                        /\ sessions[req[r].cookie.sid].status # "free"

\* No step turns a row back into one that was never written.
LEMMA RowsAreNeverFreed ==
    ASSUME TInv, [Next]_vars, NEW s \in SessionIds, sessions[s].status # "free"
    PROVE  sessions'[s].status # "free"
<1>1. sessions[s] \in SessionRow /\ sessions \in [SessionIds -> SessionRow]
  BY DEF TInv, TypeOK
<1>2. CASE UNCHANGED sessions
  BY <1>2
<1>3. ASSUME NEW S, DeleteRows(S) PROVE sessions'[s].status # "free"
  BY <1>1, <1>3 DEF DeleteRows, Gone, NoRow
<1>4. ASSUME NEW x, DeleteRow(x) PROVE sessions'[s].status # "free"
  BY <1>1, <1>4 DEF DeleteRow, Gone, NoRow
<1>5. ASSUME NEW r \in Requests, Work(r) PROVE sessions'[s].status # "free"
  <2>1. CASE LoginCreate(r)
    BY <1>1, <2>1 DEF LoginCreate, CreateSession
  <2>2. ASSUME NEW x, RotateRow(x) PROVE sessions'[s].status # "free"
    BY <1>1, <2>2 DEF RotateRow, SessionRow
  <2>3. ASSUME NEW x, NEW t, SetActiveTenant(x, t) PROVE sessions'[s].status # "free"
    BY <1>1, <2>3 DEF SetActiveTenant, SessionRow
  <2>4. CASE LoginSweep(r) \/ DeleteSession(r)
    BY <1>3, <1>4, <2>4 DEF LoginSweep, DeleteSession
  <2>5. CASE RefreshRotate(r) \/ SwitchSetTenant(r)
    BY <1>2, <2>2, <2>3, <2>5 DEF RefreshRotate, SwitchSetTenant
  <2> QED
    BY <1>2, <1>5, <2>1, <2>4, <2>5 DEF Work, ServerStep, LoginMint,
       RefreshGetSession, RefreshGetUser, RefreshMint, SwitchGetSession, SwitchMint
<1>6. ASSUME NEW r \in Requests, Arrival(r) \/ Reply(r) PROVE UNCHANGED sessions
  BY <1>6 DEF Arrival, StartLogout, StartRefresh, LoginRead, StartSwitch,
     Reply, Deliver, LoseAnswer
<1>7. CASE Surroundings
  BY <1>2, <1>4, <1>7 DEF Surroundings, CopyCookie, RevokeSession, TtlDelete, Tick
<1>8. CASE AccountStep
  BY <1>2, <1>3, <1>8 DEF AccountStep, BumpVersion, PutUser, PurgeSessions, DeleteUser
<1> QED
  BY <1>2, <1>5, <1>6, <1>7, <1>8 DEF Next, vars

\* The steps that change whether a task is marked as a replay: none but the
\* judgement of a row that was read live.
LEMMA ReuseIsJudged ==
    ASSUME TInv, ReuseReadARow, [Next]_vars, NEW q \in Requests, req'[q].reuse
    PROVE  \/ req'[q] = req[q]
           \/ /\ req'[q] = [req[q] EXCEPT !.phase = "deleteSession", !.reuse = TRUE]
              /\ req[q].phase = "getSession" /\ req[q].kind = "refresh"
              /\ RowOf(q).status = "live" /\ UNCHANGED sessions
<1>0. req \in [Requests -> Request] /\ req[q] \in Request
  BY DEF TInv, TypeOK
<1>1. ~NoTask.reuse
  BY DEF NoTask
<1>2. ~Refuse(q) /\ ~End(q)
  BY <1>0, <1>1 DEF Refuse, End, Request, NoTask
<1>3. ASSUME Arrival(q) PROVE FALSE
  <2>1. PICK j \in Jars :
        \/ StartLogout(q, j)
        \/ \E api \in Apis :
              \/ StartRefresh(q, j, api)
              \/ \E u \in Users :
                    \/ LoginRead(q, j, u, api)
                    \/ \E t \in Tenants : StartSwitch(q, j, u, t, api)
    BY <1>3 DEF Arrival
  <2>2. ASSUME NEW kind, NEW api, NEW phase, NEW u, NEW ver, NEW t
        PROVE  LET base == Task(kind, j, api) IN
               /\ ~[base EXCEPT !.phase = phase].reuse
               /\ ~[[base EXCEPT !.user = u, !.ver = ver, !.tenant = t]
                       EXCEPT !.phase = phase].reuse
    BY DEF Task, NoTask
  <2>3. ~StartLogout(q, j)
    BY <1>0, <2>2 DEF StartLogout, Begin
  <2>4. ASSUME NEW api \in Apis PROVE ~StartRefresh(q, j, api)
    BY <1>0, <2>2 DEF StartRefresh, Begin
  <2>5. ASSUME NEW api \in Apis, NEW u \in Users PROVE ~LoginRead(q, j, u, api)
    BY <1>0, <2>2, ZenonT(60) DEF LoginRead, Begin
  <2>6. ASSUME NEW api \in Apis, NEW u \in Users, NEW t \in Tenants
        PROVE  ~StartSwitch(q, j, u, t, api)
    <3> DEFINE base == Task("switch", j, api)
               task == [[base EXCEPT !.user = u, !.ver = users[u].ver,
                                     !.tenant = t] EXCEPT !.phase = "getSession"]
    <3>1. StartSwitch(q, j, u, t, api) => req'[q] = task
      BY <1>0 DEF StartSwitch, Begin
    <3>2. ~task.reuse
      BY <2>2
    <3> QED
      BY <3>1, <3>2
  <2> QED
    BY <2>1, <2>3, <2>4, <2>5, <2>6
<1>4. ASSUME NEW phase, Goto(q, phase) PROVE req[q].phase = "deleteSession"
  BY <1>0, <1>4 DEF Goto, Request, ReuseReadARow
<1>5. ASSUME NEW t, Mint(q, t) PROVE req[q].phase = "deleteSession"
  BY <1>0, <1>2, <1>5 DEF Mint, Request, ReuseReadARow
<1>6. ~LoginMint(q) /\ ~LoginSweep(q) /\ ~LoginCreate(q)
  <2>1. ~LoginCreate(q)
    BY <1>0 DEF LoginCreate, Request, ReuseReadARow
  <2> QED
    BY <1>2, <1>4, <2>1 DEF LoginMint, LoginSweep
<1>7. ~RefreshGetUser(q) /\ ~RefreshRotate(q) /\ ~RefreshMint(q)
  <2>1. ASSUME RefreshGetUser(q) PROVE FALSE
    BY <1>0, <1>4, <2>1 DEF RefreshGetUser, Request, ReuseReadARow
  <2>2. ASSUME RefreshRotate(q) PROVE FALSE
    BY <1>0, <1>2, <2>2 DEF RefreshRotate, Rotated, Request, ReuseReadARow
  <2> QED
    BY <1>5, <2>1, <2>2 DEF RefreshMint
<1>8. ~SwitchGetSession(q, RowOf(q)) /\ ~SwitchSetTenant(q) /\ ~SwitchMint(q)
  BY <1>2, <1>4, <1>5 DEF SwitchGetSession, SwitchSetTenant, SwitchMint
<1>9. ~DeleteSession(q)
  BY <1>0, <1>2 DEF DeleteSession, Request, ReuseReadARow
<1>10. ASSUME RefreshGetSession(q, RowOf(q))
       PROVE  /\ req'[q] = [req[q] EXCEPT !.phase = "deleteSession", !.reuse = TRUE]
              /\ req[q].phase = "getSession" /\ req[q].kind = "refresh"
              /\ RowOf(q).status = "live" /\ UNCHANGED sessions
  <2>1. ~(req' = [req EXCEPT ![q].phase = "getUser",
                    ![q].current = MatchesCurrent(RowOf(q), req[q].cookie.secret),
                    ![q].user = RowOf(q).user,
                    ![q].ver = RowOf(q).ver, ![q].tenant = RowOf(q).tenant])
    BY <1>0, <1>10 DEF RefreshGetSession, Request, ReuseReadARow
  <2> QED
    BY <1>0, <1>2, <1>4, <1>10, <2>1 DEF RefreshGetSession, Readable
<1>11. ~Reply(q)
  BY <1>2 DEF Reply, Deliver, LoseAnswer
<1> QED
  BY <1>3, <1>6, <1>7, <1>8, <1>9, <1>10, <1>11, StepOfTask DEF Work, ServerStep

\* A replay names a session that was created.
LEMMA ReuseReadARowInv == TInv /\ ReuseReadARow /\ [Next]_vars => ReuseReadARow'
<1> SUFFICES ASSUME TInv, ReuseReadARow, [Next]_vars, NEW q \in Requests, req'[q].reuse
             PROVE  /\ req'[q].phase = "deleteSession"
                    /\ req'[q].kind = "refresh"
                    /\ sessions'[req'[q].cookie.sid].status # "free"
  BY DEF ReuseReadARow
<1>1. CASE req'[q] = req[q]
  BY <1>1, RowsAreNeverFreed DEF ReuseReadARow, TInv, CookieNamed, CookiePhases
<1>2. CASE /\ req'[q] = [req[q] EXCEPT !.phase = "deleteSession", !.reuse = TRUE]
           /\ req[q].phase = "getSession" /\ req[q].kind = "refresh"
           /\ RowOf(q).status = "live" /\ UNCHANGED sessions
  <2>1. req[q] \in Request /\ req[q].cookie.sid \in SessionIds
    BY <1>2 DEF TInv, TypeOK, CookieNamed, CookiePhases
  <2>2. RowOf(q) = sessions[req[q].cookie.sid]
    BY <2>1, SessionsAssumption DEF RowOf, SessionsAssumption
  <2> QED
    BY <1>2, <2>1, <2>2 DEF Request
<1> QED
  BY <1>1, <1>2, ReuseIsJudged

\* A replayed secret costs the session: whatever the other holder of the cookie
\* does between the judgement and the delete, the task that judged answers only
\* when the session is gone (refresh(), the reuse branch).
THEOREM ReuseEndsTheSession == Spec => ReuseRevokes
<1> DEFINE Step == \A r \in Requests :
                      Reuse(r) /\ req'[r].phase # "deleteSession"
                        => sessions'[req[r].cookie.sid].status = "gone"
<1>1. Init => ReuseReadARow
  BY DEF Init, ReuseReadARow, NoTask
<1>2. ASSUME TInv, ReuseReadARow, [Next]_vars, NEW q \in Requests,
             Reuse(q), req'[q].phase # "deleteSession"
      PROVE  sessions'[req[q].cookie.sid].status = "gone"
  <2>1. req[q].phase = "deleteSession" /\ req[q].cookie.sid \in SessionIds
    BY <1>2 DEF Reuse, TInv, CookieNamed, CookiePhases
  <2>2. sessions[req[q].cookie.sid] \in SessionRow
    BY <1>2, <2>1 DEF TInv, TypeOK
  <2>3. DeleteSession(q)
    <3>1. ~Arrival(q) /\ ~Reply(q)
      BY <2>1 DEF Arrival, StartLogout, StartRefresh, LoginRead, StartSwitch,
         Begin, IdleRequest, Reply, Deliver, LoseAnswer
    <3>2. Work(q)
      BY <1>2, <2>1, <3>1, StepOfTask
    <3> QED
      BY <2>1, <3>2 DEF Work, ServerStep, LoginMint, LoginSweep, LoginCreate,
         RefreshGetSession, RefreshGetUser, RefreshRotate, RefreshMint,
         SwitchGetSession, SwitchSetTenant, SwitchMint
  <2>4. sessions[req[q].cookie.sid].status # "free"
    BY <1>2 DEF ReuseReadARow, Reuse
  <2>5. sessions[req[q].cookie.sid].status \in {"free", "live", "gone"}
    BY <2>2 DEF SessionRow, Statuses
  <2>6. DeleteRow(req[q].cookie.sid) /\ sessions \in [SessionIds -> SessionRow]
    BY <1>2, <2>3 DEF DeleteSession, TInv, TypeOK
  <2> QED
    BY <2>1, <2>4, <2>5, <2>6 DEF DeleteRow, Live, Gone, NoRow
<1>3. TInv /\ ReuseReadARow /\ [Next]_vars => [Step]_vars
  BY <1>2
<1>4. TInv /\ [Next]_vars => TInv'
  BY StepTyped
<1> QED
  BY <1>1, <1>3, <1>4, InitTyped, ReuseReadARowInv, PTL DEF Spec, ReuseRevokes

-----------------------------------------------------------------------------
(* The browser that owns a session *)

\* A cookie that names a live session carries its current secret.
InSync(c) ==
    c.sid # NoSession /\ Live(c.sid) => c.secret = sessions[c.sid].hash

\* The cookie the browser holds once it has the answer as it stands.
Held(r, j) ==
    CASE req[r].effect = "keep"  -> jar[j]
      [] req[r].effect = "clear" -> NoCookie
      [] req[r].effect = "set"   ->
           [sid |-> req[r].cookie.sid, secret |-> req[r].secret]

\* What holds of the one request and the one cookie jar at every moment: no
\* replay, the cookie of a task that will need it is still the browser's, only
\* a task about to answer changes the jar, and the jar will be in step.
BrowserAt(r, j) ==
    /\ ~req[r].reuse
    /\ req[r].phase \in CookiePhases =>
         req[r].cookie = jar[j] /\ req[r].kind # "login"
    /\ req[r].effect # "keep" =>
         \/ req[r].phase = "answer"
         \/ req[r].phase = "mint" /\ req[r].kind # "login"
    /\ InSync(Held(r, j))

BrowserInv == \A r \in Requests, j \in Jars : BrowserAt(r, j)

\* Deleting sessions leaves every cookie in step with those that are left.
LEMMA DeletesKeepSync ==
    ASSUME TInv, NEW c, c.sid \in SessionIds \cup {NoSession}, InSync(c),
           \/ UNCHANGED sessions
           \/ \E s : DeleteRow(s)
           \/ \E S : DeleteRows(S)
    PROVE  (c.sid # NoSession /\ Live(c.sid)' => c.secret = sessions'[c.sid].hash)
<1>1. sessions \in [SessionIds -> SessionRow]
  BY DEF TInv, TypeOK
<1> QED
  BY <1>1 DEF InSync, Live, DeleteRow, DeleteRows, Gone, NoRow

\* The cookie a task leaves behind is a cookie.
LEMMA HeldTyped ==
    ASSUME TInv, NEW r \in Requests, NEW j \in Jars
    PROVE  Held(r, j).sid \in SessionIds \cup {NoSession}
<1>1. /\ jar[j] \in Cookie /\ req[r].cookie \in Cookie
      /\ req[r].effect \in {"keep", "set", "clear"}
  BY DEF TInv, TypeOK, Request, CookieEffects
<1> QED
  BY <1>1 DEF Held, Cookie, NoCookie

\* Steps that touch neither the task nor the jar, and of the sessions only
\* delete some.
LEMMA OutsideKeepsBrowser ==
    ASSUME TInv, NEW r \in Requests, NEW j \in Jars, BrowserAt(r, j),
           UNCHANGED <<req, jar>>,
           \/ UNCHANGED sessions
           \/ \E s : DeleteRow(s)
           \/ \E S : DeleteRows(S)
    PROVE  BrowserAt(r, j)'
<1> PICK c : c = Held(r, j)
  OBVIOUS
<1>1. Held(r, j)' = c /\ InSync(c)
  BY DEF Held, BrowserAt
<1>2. c.sid \in SessionIds \cup {NoSession}
  BY HeldTyped
<1>3. c.sid # NoSession /\ Live(c.sid)' => c.secret = sessions'[c.sid].hash
  BY <1>1, <1>2, DeletesKeepSync
<1>4. InSync(Held(r, j))'
  BY <1>1, <1>3 DEF InSync, Live
<1> QED
  BY <1>4 DEF BrowserAt

\* An error answer leaves the browser with the cookie it has.
LEMMA RefuseKeepsBrowser ==
    ASSUME TInv, NEW r \in Requests, NEW j \in Jars, BrowserAt(r, j),
           Refuse(r), req[r].effect = "keep", UNCHANGED jar,
           \/ UNCHANGED sessions
           \/ \E s : DeleteRow(s)
    PROVE  BrowserAt(r, j)'
<1> PICK c : c = jar[j]
  OBVIOUS
<1>1. /\ req'[r].phase = "answer" /\ ~req'[r].reuse
      /\ req'[r].effect = "keep"
  BY DEF TInv, TypeOK, Refuse, NoTask
<1>2. Held(r, j) = c /\ Held(r, j)' = c
  BY <1>1 DEF Held
<1>3. c.sid \in SessionIds \cup {NoSession} /\ InSync(c)
  BY <1>2 DEF TInv, TypeOK, Cookie, BrowserAt
<1>4. c.sid # NoSession /\ Live(c.sid)' => c.secret = sessions'[c.sid].hash
  BY <1>3, DeletesKeepSync
<1>5. InSync(Held(r, j))'
  BY <1>2, <1>4 DEF InSync, Live
<1> QED
  BY <1>1, <1>5 DEF BrowserAt, CookiePhases

\* A task that moves on, or answers with what it has, takes its cookie and its
\* effect on the jar along.
LEMMA MoveKeepsBrowser ==
    ASSUME TInv, NEW r \in Requests, NEW j \in Jars, BrowserAt(r, j),
           UNCHANGED jar, ~req'[r].reuse,
           req'[r].cookie = req[r].cookie, req'[r].kind = req[r].kind,
           req'[r].effect = req[r].effect, req'[r].secret = req[r].secret,
           req'[r].phase \in CookiePhases => req[r].phase \in CookiePhases,
           req'[r].phase = "answer" \/ req[r].effect = "keep",
           \/ UNCHANGED sessions
           \/ \E s : DeleteRow(s)
           \/ \E S : DeleteRows(S)
    PROVE  BrowserAt(r, j)'
<1> PICK c : c = Held(r, j)
  OBVIOUS
<1>1. Held(r, j)' = c /\ InSync(c)
  BY DEF Held, BrowserAt
<1>2. c.sid \in SessionIds \cup {NoSession}
  BY HeldTyped
<1>3. c.sid # NoSession /\ Live(c.sid)' => c.secret = sessions'[c.sid].hash
  BY <1>1, <1>2, DeletesKeepSync
<1>4. InSync(Held(r, j))'
  BY <1>1, <1>3 DEF InSync, Live
<1> QED
  BY <1>4 DEF BrowserAt

\* A request that begins takes the browser's cookie with it.
LEMMA ArrivalKeepsBrowser ==
    ASSUME TInv, NEW r \in Requests, NEW j \in Jars, OneAtATime, BrowserAt(r, j),
           Arrival(r)
    PROVE  BrowserAt(r, j)'
<1>0. req \in [Requests -> Request] /\ UNCHANGED <<sessions, jar>> /\ IdleRequest(r)
  BY ZenonT(60) DEF TInv, TypeOK, Arrival, StartLogout, StartRefresh, LoginRead, StartSwitch, Begin
<1>1. PICK i \in Jars :
        \/ StartLogout(r, i)
        \/ \E api \in Apis :
              \/ StartRefresh(r, i, api)
              \/ \E u \in Users :
                    \/ LoginRead(r, i, u, api)
                    \/ \E t \in Tenants : StartSwitch(r, i, u, t, api)
  BY DEF Arrival
<1>2. i = j
  BY DEF OneAtATime
<1>3. ASSUME NEW kind, NEW api, NEW phase, NEW u, NEW ver, NEW t
      PROVE  LET base == Task(kind, j, api)
                 one == [base EXCEPT !.phase = phase]
                 two == [[base EXCEPT !.user = u, !.ver = ver, !.tenant = t]
                           EXCEPT !.phase = phase]
             IN  /\ ~one.reuse /\ one.cookie = jar[j] /\ one.effect = "keep"
                 /\ one.kind = kind /\ one.phase = phase
                 /\ ~two.reuse /\ two.cookie = jar[j] /\ two.effect = "keep"
                 /\ two.kind = kind /\ two.phase = phase
  BY DEF Task, NoTask
<1>4. /\ ~req'[r].reuse /\ req'[r].cookie = jar[j] /\ req'[r].effect = "keep"
      /\ req'[r].phase \in CookiePhases => req'[r].kind # "login"
  <2>1. CASE StartLogout(r, j)
    BY <1>0, <1>3, <2>1 DEF StartLogout, Begin
  <2>2. ASSUME NEW api \in Apis, StartRefresh(r, j, api) PROVE <1>4!:
    BY <1>0, <1>3, <2>2 DEF StartRefresh, Begin
  <2>3. ASSUME NEW api \in Apis, NEW u \in Users, LoginRead(r, j, u, api) PROVE <1>4!:
    <3> DEFINE base == Task("login", j, api)
               task == [[base EXCEPT !.user = u, !.ver = users[u].ver,
                                     !.tenant = Home[u]] EXCEPT !.phase = "mint"]
    <3>1. req'[r] = task
      BY <1>0, <2>3 DEF LoginRead, Begin
    <3>2. /\ ~task.reuse /\ task.cookie = jar[j] /\ task.effect = "keep"
          /\ task.phase = "mint"
      BY <1>3
    <3> QED
      BY <3>1, <3>2 DEF CookiePhases
  <2>4. ASSUME NEW api \in Apis, NEW u \in Users, NEW t \in Tenants,
               StartSwitch(r, j, u, t, api)
        PROVE  <1>4!:
    <3> DEFINE base == Task("switch", j, api)
               task == [[base EXCEPT !.user = u, !.ver = users[u].ver,
                                     !.tenant = t] EXCEPT !.phase = "getSession"]
    <3>1. req'[r] = task
      BY <1>0, <2>4 DEF StartSwitch, Begin
    <3>2. /\ ~task.reuse /\ task.cookie = jar[j] /\ task.effect = "keep"
          /\ task.kind = "switch"
      BY <1>3
    <3> QED
      BY <3>1, <3>2
  <2> QED
    BY <1>1, <1>2, <2>1, <2>2, <2>3, <2>4
<1>5. Held(r, j) = jar[j] /\ Held(r, j)' = jar[j]
  BY <1>0, <1>4 DEF Held, BrowserAt, IdleRequest
<1> QED
  BY <1>0, <1>4, <1>5 DEF BrowserAt, InSync, Live

\* A token is minted for whoever asks, and the answer keeps the cookie.
LEMMA MintKeepsBrowser ==
    ASSUME TInv, NEW r \in Requests, NEW j \in Jars, OneAtATime, BrowserAt(r, j),
           Mint(r, req[r].tenant), UNCHANGED <<sessions, jar>>
    PROVE  BrowserAt(r, j)'
<1>1. req[r] \in Request /\ req \in [Requests -> Request]
  BY DEF TInv, TypeOK
<1>2. req' = [req EXCEPT ![r].phase = "answer", ![r].token = TRUE,
                         ![r].tenant = req[r].tenant]
  BY <1>1 DEF Mint, OneAtATime, Request
<1>3. /\ req'[r].phase = "answer" /\ req'[r].reuse = req[r].reuse
      /\ req'[r].cookie = req[r].cookie /\ req'[r].kind = req[r].kind
      /\ req'[r].effect = req[r].effect /\ req'[r].secret = req[r].secret
  BY <1>1, <1>2 DEF Request
<1>4. ~req'[r].reuse
  BY <1>3 DEF BrowserAt
<1> QED
  BY <1>3, <1>4, MoveKeepsBrowser DEF CookiePhases

\* Going on to the next call of the handler keeps everything but the phase.
LEMMA GotoKeepsBrowser ==
    ASSUME TInv, NEW r \in Requests, NEW j \in Jars, BrowserAt(r, j),
           NEW phase, Goto(r, phase), UNCHANGED jar,
           phase \in CookiePhases => req[r].phase \in CookiePhases,
           req[r].effect = "keep",
           \/ UNCHANGED sessions
           \/ \E s : DeleteRow(s)
           \/ \E S : DeleteRows(S)
    PROVE  BrowserAt(r, j)'
<1>1. req[r] \in Request /\ req \in [Requests -> Request]
  BY DEF TInv, TypeOK
<1>3. /\ req'[r].phase = phase /\ req'[r].reuse = req[r].reuse
      /\ req'[r].cookie = req[r].cookie /\ req'[r].kind = req[r].kind
      /\ req'[r].effect = req[r].effect /\ req'[r].secret = req[r].secret
  BY <1>1 DEF Request, Goto
<1>4. ~req'[r].reuse
  BY <1>3 DEF BrowserAt
<1> QED
  BY <1>3, <1>4, MoveKeepsBrowser

\* A login ends with a session whose first secret is the one answered.
LEMMA LoginKeepsBrowser ==
    ASSUME TInv, NEW r \in Requests, NEW j \in Jars, BrowserAt(r, j),
           LoginMint(r) \/ LoginSweep(r) \/ LoginCreate(r)
    PROVE  BrowserAt(r, j)'
<1>0. req[r] \in Request /\ req \in [Requests -> Request]
  BY DEF TInv, TypeOK
<1>1. CASE LoginMint(r)
  <2>1. req[r].effect = "keep"
    BY <1>1 DEF BrowserAt, LoginMint
  <2> QED
    BY <1>1, <2>1, RefuseKeepsBrowser, GotoKeepsBrowser DEF LoginMint, CookiePhases
<1>2. CASE LoginSweep(r)
  <2>1. req[r].effect = "keep"
    BY <1>2 DEF BrowserAt, LoginSweep
  <2> QED
    BY <1>2, <2>1, GotoKeepsBrowser DEF LoginSweep, CookiePhases
<1>3. CASE LoginCreate(r)
  <2> PICK s \in SessionIds :
        /\ CreateSession(s, req[r].user, req[r].ver)
        /\ req' = [req EXCEPT ![r].phase = "answer", ![r].token = TRUE,
                     ![r].effect = "set", ![r].secret = 1,
                     ![r].cookie = [sid |-> s, secret |-> 1]]
    BY <1>3 DEF LoginCreate
  <2>1. sessions'[s].hash = 1
    BY DEF CreateSession, TInv, TypeOK
  <2>2. /\ req'[r].phase = "answer" /\ req'[r].reuse = req[r].reuse
        /\ req'[r].cookie.sid = s /\ req'[r].effect = "set" /\ req'[r].secret = 1
    BY <1>0 DEF Request
  <2>3. Held(r, j)' = [sid |-> s, secret |-> 1]
    BY <2>2 DEF Held
  <2>4. InSync(Held(r, j))'
    BY <2>1, <2>3 DEF InSync
  <2> QED
    BY <2>2, <2>4 DEF BrowserAt, CookiePhases
<1> QED
  BY <1>1, <1>2, <1>3

\* A refresh finds its secret current, and answers with the one it rotated to.
LEMMA RefreshKeepsBrowser ==
    ASSUME TInv, NEW r \in Requests, NEW j \in Jars, BrowserAt(r, j),
           RefreshGetSession(r, RowOf(r)) \/ RefreshGetUser(r) \/ RefreshRotate(r)
    PROVE  BrowserAt(r, j)'
<1>0. req[r] \in Request /\ req \in [Requests -> Request]
  BY DEF TInv, TypeOK
<1>1. /\ req[r].phase \in CookiePhases /\ req[r].phase \notin {"answer", "mint"}
      /\ UNCHANGED jar
  BY DEF RefreshGetSession, RefreshGetUser, RefreshRotate, CookiePhases
<1>2. /\ req[r].effect = "keep" /\ ~req[r].reuse /\ req[r].kind # "login"
      /\ req[r].cookie = jar[j] /\ Held(r, j) = jar[j] /\ InSync(req[r].cookie)
      /\ req[r].cookie.sid \in SessionIds
  BY <1>1 DEF BrowserAt, Held, TInv, CookieNamed
<1>3. CASE RefreshGetSession(r, RowOf(r))
  <2> DEFINE row == RowOf(r)
             current == MatchesCurrent(row, req[r].cookie.secret)
  <2>1. row = sessions[req[r].cookie.sid]
    BY <1>2, SessionsAssumption DEF RowOf, SessionsAssumption
  <2>2. Readable(row) => current
    BY <1>2, <2>1, SessionsAssumption
    DEF Readable, InSync, Live, MatchesCurrent, SessionsAssumption
  <2> HIDE DEF row
  <2>3. \/ Refuse(r) \/ Goto(r, "deleteSession")
        \/ req' = [req EXCEPT ![r].phase = "getUser",
                     ![r].current = current, ![r].user = row.user,
                     ![r].ver = row.ver, ![r].tenant = row.tenant]
    BY <1>3, <2>2 DEF RefreshGetSession, row
  <2>4. CASE req' = [req EXCEPT ![r].phase = "getUser",
                       ![r].current = current, ![r].user = row.user,
                       ![r].ver = row.ver, ![r].tenant = row.tenant]
    <3> HIDE DEF current
    <3>1. /\ req'[r].phase = "getUser" /\ req'[r].reuse = req[r].reuse
          /\ req'[r].cookie = req[r].cookie /\ req'[r].kind = req[r].kind
          /\ req'[r].effect = req[r].effect /\ req'[r].secret = req[r].secret
      BY <1>0, <2>4 DEF Request
    <3>2. ~req'[r].reuse
      BY <1>2, <3>1
    <3> QED
      BY <1>1, <1>2, <1>3, <3>1, <3>2, MoveKeepsBrowser DEF RefreshGetSession
  <2> QED
    BY <1>1, <1>2, <1>3, <2>3, <2>4, RefuseKeepsBrowser, GotoKeepsBrowser
    DEF RefreshGetSession
<1>4. CASE RefreshGetUser(r)
  <2>1. CASE Goto(r, "deleteSession")
    BY <1>1, <1>2, <1>4, <2>1, GotoKeepsBrowser DEF RefreshGetUser
  <2>2. CASE ~Goto(r, "deleteSession")
    <3>1. /\ req'[r].phase \in {"rotate", "mint"} /\ req'[r].reuse = req[r].reuse
          /\ req'[r].cookie = req[r].cookie /\ req'[r].kind = req[r].kind
          /\ req'[r].effect = req[r].effect /\ req'[r].secret = req[r].secret
      BY <1>0, <1>4, <2>2 DEF RefreshGetUser, Request
    <3>2. ~req'[r].reuse
      BY <1>2, <3>1
    <3> QED
      BY <1>1, <1>2, <1>4, <3>1, <3>2, MoveKeepsBrowser DEF RefreshGetUser
  <2> QED
    BY <2>1, <2>2
<1>5. CASE RefreshRotate(r)
  <2>1. CASE Refuse(r) /\ UNCHANGED sessions
    BY <1>1, <1>2, <2>1, RefuseKeepsBrowser
  <2>2. CASE RotateRow(req[r].cookie.sid) /\ Rotated(r)
    <3>1. sessions[req[r].cookie.sid] \in SessionRow
      BY <1>2 DEF TInv, TypeOK
    <3>2. sessions'[req[r].cookie.sid].hash = sessions[req[r].cookie.sid].hash + 1
      BY <1>2, <2>2, <3>1 DEF RotateRow, SessionRow, TInv, TypeOK
    <3>3. /\ req'[r].phase = "mint" /\ req'[r].reuse = req[r].reuse
          /\ req'[r].cookie = req[r].cookie /\ req'[r].kind = req[r].kind
          /\ req'[r].effect = "set"
          /\ req'[r].secret = sessions[req[r].cookie.sid].hash + 1
      BY <1>0, <2>2 DEF Rotated, Request
    <3>4. Held(r, j)' = [sid |-> req[r].cookie.sid,
                         secret |-> sessions[req[r].cookie.sid].hash + 1]
      BY <3>3 DEF Held
    <3>5. InSync(Held(r, j))'
      BY <3>2, <3>4 DEF InSync
    <3>6. ~req'[r].reuse
      BY <1>2, <3>3
    <3> QED
      BY <1>2, <3>3, <3>5, <3>6 DEF BrowserAt, CookiePhases
  <2> QED
    BY <1>5, <2>1, <2>2 DEF RefreshRotate
<1> QED
  BY <1>3, <1>4, <1>5

\* A deleted session takes no cookie out of step; a logout empties the jar.
LEMMA DeleteKeepsBrowser ==
    ASSUME TInv, NEW r \in Requests, NEW j \in Jars, BrowserAt(r, j), DeleteSession(r)
    PROVE  BrowserAt(r, j)'
<1>0. req[r] \in Request /\ req \in [Requests -> Request]
  BY DEF TInv, TypeOK
<1>1. req[r].effect = "keep" /\ ~req[r].reuse
  BY DEF BrowserAt, DeleteSession
<1>2. CASE Refuse(r)
  BY <1>1, <1>2, RefuseKeepsBrowser DEF DeleteSession
<1>3. CASE req' = [req EXCEPT ![r].phase = "answer", ![r].effect = "clear"]
  <2>1. /\ req'[r].phase = "answer" /\ req'[r].reuse = req[r].reuse
        /\ req'[r].effect = "clear"
    BY <1>0, <1>3 DEF Request
  <2>2. Held(r, j)' = NoCookie
    BY <2>1 DEF Held
  <2>3. ~req'[r].reuse /\ InSync(Held(r, j))'
    BY <1>1, <2>1, <2>2 DEF InSync, NoCookie
  <2> QED
    BY <2>1, <2>3 DEF BrowserAt, CookiePhases
<1> QED
  BY <1>2, <1>3 DEF DeleteSession

\* A switch writes the tenant of the session and leaves its secret.
LEMMA SwitchKeepsBrowser ==
    ASSUME TInv, NEW r \in Requests, NEW j \in Jars, BrowserAt(r, j),
           SwitchGetSession(r, RowOf(r)) \/ SwitchSetTenant(r)
    PROVE  BrowserAt(r, j)'
<1>0. req[r] \in Request /\ req \in [Requests -> Request]
  BY DEF TInv, TypeOK
<1>1. /\ req[r].phase \in CookiePhases /\ req[r].effect = "keep" /\ ~req[r].reuse
      /\ req[r].kind # "login" /\ UNCHANGED jar
  BY DEF BrowserAt, SwitchGetSession, SwitchSetTenant, CookiePhases
<1>2. CASE SwitchGetSession(r, RowOf(r))
  BY <1>1, <1>2, RefuseKeepsBrowser, GotoKeepsBrowser DEF SwitchGetSession, CookiePhases
<1>3. CASE SwitchSetTenant(r)
  <2> DEFINE s == req[r].cookie.sid
  <2>1. CASE Refuse(r) /\ UNCHANGED sessions
    BY <1>1, <2>1, RefuseKeepsBrowser
  <2>2. CASE Updatable(s) /\ SetActiveTenant(s, req[r].tenant) /\ Goto(r, "mint")
    <3>1. sessions \in [SessionIds -> SessionRow] /\ s \in SessionIds /\ Live(s)
      BY <1>1, <2>2 DEF TInv, TypeOK, CookieNamed, Updatable, Readable, Live
    <3>2. ASSUME NEW x \in SessionIds
          PROVE  /\ Live(x)' <=> Live(x)
                 /\ sessions'[x].hash = sessions[x].hash
      BY <2>2, <3>1 DEF SetActiveTenant, Live, SessionRow
    <3>3. /\ req'[r].phase = "mint" /\ req'[r].reuse = req[r].reuse
          /\ req'[r].effect = "keep"
      BY <1>0, <1>1, <2>2 DEF Goto, Request
    <3>4. Held(r, j) = jar[j] /\ Held(r, j)' = jar[j]
      BY <1>1, <3>3 DEF Held
    <3>5. jar[j].sid \in SessionIds \cup {NoSession} /\ InSync(jar[j])
      BY <3>4 DEF BrowserAt, TInv, TypeOK, Cookie
    <3>6. InSync(Held(r, j))'
      BY <3>2, <3>4, <3>5 DEF InSync
    <3>7. ~req'[r].reuse
      BY <1>1, <3>3
    <3> QED
      BY <3>3, <3>6, <3>7 DEF BrowserAt, CookiePhases
  <2> QED
    BY <1>3, <2>1, <2>2 DEF SwitchSetTenant
<1> QED
  BY <1>2, <1>3

\* The answer arrives, and the jar is what it was going to be.
LEMMA ReplyKeepsBrowser ==
    ASSUME TInv, NEW r \in Requests, NEW j \in Jars, OneAtATime, BrowserAt(r, j),
           Reply(r)
    PROVE  BrowserAt(r, j)'
<1>1. Deliver(r)
  BY DEF Reply, LoseAnswer, OneAtATime
<1>2. req[r].jar = j /\ req[r].effect \in {"keep", "set", "clear"}
  BY DEF OneAtATime, TInv, TypeOK, Request, CookieEffects
<1>3. jar'[j] = Held(r, j) /\ UNCHANGED sessions
  BY <1>1, <1>2 DEF Deliver, Held, TInv, TypeOK
<1>4. ~req'[r].reuse /\ req'[r].phase = "idle" /\ req'[r].effect = "keep"
  BY <1>1 DEF Deliver, End, NoTask, TInv, TypeOK
<1>5. Held(r, j)' = Held(r, j)
  BY <1>3, <1>4 DEF Held
<1>6. InSync(Held(r, j))'
  BY <1>3, <1>5 DEF BrowserAt, InSync, Live
<1> QED
  BY <1>4, <1>6 DEF BrowserAt, CookiePhases

\* Every step keeps the one browser in step with its session.
LEMMA BrowserStep ==
    ASSUME TInv, OneAtATime, BrowserInv, [Next]_vars PROVE BrowserInv'
<1> SUFFICES ASSUME NEW r \in Requests, NEW j \in Jars PROVE BrowserAt(r, j)'
  BY DEF BrowserInv
<1>0. BrowserAt(r, j)
  BY DEF BrowserInv
<1>1. CASE UNCHANGED vars
  BY <1>0, <1>1, OutsideKeepsBrowser DEF vars
<1>2. CASE Surroundings
  <2>1. ~(\E i, k \in Jars : CopyCookie(i, k))
    BY DEF CopyCookie, OneAtATime
  <2> QED
    BY <1>0, <1>2, <2>1, OutsideKeepsBrowser
    DEF Surroundings, RevokeSession, TtlDelete, Tick
<1>3. CASE AccountStep
  BY <1>0, <1>3, OutsideKeepsBrowser
  DEF AccountStep, BumpVersion, PutUser, PurgeSessions, DeleteUser
<1>4. CASE Work(r)
  <2>1. CASE RefreshMint(r) \/ SwitchMint(r)
    BY <1>0, <2>1, MintKeepsBrowser DEF RefreshMint, SwitchMint
  <2> QED
    BY <1>0, <1>4, <2>1, LoginKeepsBrowser, RefreshKeepsBrowser,
       DeleteKeepsBrowser, SwitchKeepsBrowser DEF Work, ServerStep
<1>5. ASSUME NEW q \in Requests PROVE q = r
  BY DEF OneAtATime
<1> QED
  BY <1>0, <1>1, <1>2, <1>3, <1>4, <1>5, ArrivalKeepsBrowser, ReplyKeepsBrowser
  DEF Next

\* The browser starts with an empty jar.
LEMMA BrowserInit == Init => BrowserInv
<1> SUFFICES ASSUME Init, NEW r \in Requests, NEW j \in Jars PROVE BrowserAt(r, j)
  BY DEF BrowserInv
<1>1. /\ ~req[r].reuse /\ req[r].phase = "idle" /\ req[r].effect = "keep"
      /\ jar[j] = NoCookie
  BY DEF Init, NoTask
<1> QED
  BY <1>1 DEF BrowserAt, Held, InSync, NoCookie, CookiePhases

\* Reuse detection never costs the browser that owns the session: with one
\* request at a time and every answer received, whatever the clock, the account
\* and the sweeps do, no refresh is taken for a replay.
THEOREM OwnBrowserIsNeverAReplay ==
    ASSUME OneAtATime PROVE Spec => []NoFalseReuse
<1>1. BrowserInv => NoFalseReuse
  <2> SUFFICES ASSUME BrowserInv, NEW r \in Requests PROVE ~Reuse(r)
    BY DEF NoFalseReuse
  <2>1. PICK j \in Jars : TRUE
    BY SessionsAssumption DEF SessionsAssumption
  <2> QED
    BY <2>1 DEF BrowserInv, BrowserAt, Reuse
<1>2. TInv /\ BrowserInv /\ [Next]_vars => TInv' /\ BrowserInv'
  BY StepTyped, BrowserStep
<1> QED
  BY <1>1, <1>2, InitTyped, BrowserInit, PTL DEF Spec

\* ... and between two requests its cookie carries the current secret of its
\* session for as long as that session lives.
THEOREM OwnCookieStaysInSync ==
    ASSUME OneAtATime PROVE Spec => []CookieInSync
<1>1. TInv /\ BrowserInv => CookieInSync
  <2> SUFFICES ASSUME TInv, BrowserInv, NEW j \in Jars, InFlight = {},
                      jar[j].sid # NoSession, Live(jar[j].sid)
               PROVE  jar[j].secret = sessions[jar[j].sid].hash
    BY DEF CookieInSync
  <2>1. PICK r \in Requests : IdleRequest(r) /\ BrowserAt(r, j)
    BY DEF OneAtATime, InFlight, BrowserInv
  <2>2. Held(r, j) = jar[j]
    BY <2>1 DEF BrowserAt, Held, IdleRequest
  <2> QED
    BY <2>1, <2>2 DEF BrowserAt, InSync
<1>2. TInv /\ BrowserInv /\ [Next]_vars => TInv' /\ BrowserInv'
  BY StepTyped, BrowserStep
<1> QED
  BY <1>1, <1>2, InitTyped, BrowserInit, PTL DEF Spec

=============================================================================
