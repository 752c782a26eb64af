--------------------------- MODULE AccountsProofs ---------------------------
(***************************************************************************)
(* Theorems about Accounts and AccountsRecovery for every value of their   *)
(* constants.                                                              *)
(***************************************************************************)
EXTENDS AccountsRecovery, TLAPS

\* In the challenges table ls, a confirmation link for address a of account u
\* was redeemed.
Proven(ls, u, a) ==
    \E l \in Links :
        /\ ls[l].status = "redeemed"
        /\ ls[l].purpose = "confirm"
        /\ ls[l].user = u
        /\ ls[l].addr = a

\* What a task relies on when it makes its next call.
Backed(ls, r) ==
    /\ r.phase \in {"confirm", "mark"} => Proven(ls, r.user, r.addr)
    /\ r.phase = "getUser" /\ r.kind = "prefer" => Proven(ls, r.user, r.addr)
    /\ r.phase = "put" /\ r.row.preferred # NoAddress =>
         Proven(ls, r.user, r.row.preferred)
    /\ r.link # NoLink =>
         /\ ls[r.link].status = "redeemed"
         /\ ls[r.link].user = r.user
         /\ ls[r.link].purpose = IF r.kind = "reset" THEN "reset" ELSE "confirm"

Unshared ==
    \A t \in Tasks, other \in Tasks :
        t # other /\ task[t].link # NoLink => task[other].link # task[t].link

Rows ==
    /\ users \in [Users -> UserRow]
    /\ PreferredWasProven

Lists ==
    /\ contacts \in [Users -> [Addresses -> ContactStates]]
    /\ VerifiedByItsOwner

Issued ==
    links \in [Links -> {l \in Link :
         l.status # "unused" => l.user # NoUser /\ l.addr # NoAddress}]

Handlers ==
    /\ task \in [Tasks -> {r \in Task : Carries(r)}]
    /\ \A t \in Tasks : Backed(links, task[t])
    /\ Unshared

\* The inductive invariant: a table at a time.
Inv == Rows /\ Lists /\ Issued /\ Handlers

\* A redeemed link stays what it is.
Grow == \A l \in Links : links[l].status = "redeemed" => links'[l] = links[l]

-----------------------------------------------------------------------------
(* The tables one at a time *)

\* The empty row and the idle task are a row and a task that relies on nothing.
LEMMA Nulls ==
    /\ NoRow \in UserRow
    /\ Idle \in Task /\ Carries(Idle) /\ Idle.link = NoLink
    /\ Idle.phase = "idle"
<1>1. NoRow \in UserRow
  BY AccountsAssumption DEF NoRow, UserRow, AccountsAssumption
<1> QED
  BY <1>1 DEF Idle, Task, Carries, Addressed, Phases, Kinds, Writes

\* What was proven stays proven.
LEMMA ProvenStays ==
    ASSUME Grow, NEW u, NEW a, Proven(links, u, a)
    PROVE  Proven(links', u, a)
BY DEF Grow, Proven

\* The invariants of a table, in terms of Proven.
LEMMA Restated ==
    /\ PreferredWasProven <=>
         \A u \in Users : users[u].preferred # NoAddress =>
            Proven(links, u, users[u].preferred)
    /\ PreferredWasProven' <=>
         \A u \in Users : users'[u].preferred # NoAddress =>
            Proven(links', u, users'[u].preferred)
    /\ VerifiedByItsOwner <=>
         \A u \in Users, a \in Addresses :
            contacts[u][a] = "verified" => Proven(links, u, a)
    /\ VerifiedByItsOwner' <=>
         \A u \in Users, a \in Addresses :
            contacts'[u][a] = "verified" => Proven(links', u, a)
BY DEF PreferredWasProven, VerifiedByItsOwner, Proven

\* The user table keeps its invariant when it is left alone.
LEMMA RowsStay == ASSUME Rows, Grow, UNCHANGED users PROVE Rows'
BY Restated, ProvenStays DEF Rows

\* And when one row is replaced by one whose preference was proven.
LEMMA RowWritten ==
    ASSUME Rows, Grow, NEW u \in Users, NEW row \in UserRow,
           row.preferred # NoAddress => Proven(links, u, row.preferred),
           users' = [users EXCEPT ![u] = row]
    PROVE  Rows'
<1>1. users' \in [Users -> UserRow]
  BY DEF Rows
<1>2. ASSUME NEW v \in Users, users'[v].preferred # NoAddress
      PROVE  Proven(links', v, users'[v].preferred)
  <2>1. CASE v = u
    <3>1. users'[v] = row
      BY <2>1 DEF Rows
    <3> QED
      BY <3>1, <1>2, <2>1, ProvenStays
  <2>2. CASE v # u
    <3>1. users'[v] = users[v]
      BY <2>2 DEF Rows
    <3>2. Proven(links, v, users[v].preferred)
      BY <3>1, <1>2, Restated DEF Rows
    <3> QED
      BY <3>1, <3>2, ProvenStays
  <2> QED
    BY <2>1, <2>2
<1> QED
  BY <1>1, <1>2, Restated DEF Rows

\* The contact lists keep their invariant when they are left alone.
LEMMA ListsStay == ASSUME Lists, Grow, UNCHANGED contacts PROVE Lists'
BY Restated, ProvenStays DEF Lists

\* And when one contact changes, into a verified one only if it was proven.
LEMMA ContactWritten ==
    ASSUME Lists, Grow, NEW u \in Users, NEW a \in Addresses,
           NEW state \in ContactStates, state = "verified" => Proven(links, u, a),
           SetContact(u, a, state)
    PROVE  Lists'
<1>1. contacts' \in [Users -> [Addresses -> ContactStates]]
  BY DEF Lists, SetContact
<1>2. ASSUME NEW v \in Users, NEW b \in Addresses, contacts'[v][b] = "verified"
      PROVE  Proven(links', v, b)
  <2>1. CASE v = u /\ b = a
    <3>1. contacts'[v][b] = state
      BY <2>1 DEF Lists, SetContact
    <3> QED
      BY <3>1, <1>2, <2>1, ProvenStays
  <2>2. CASE ~(v = u /\ b = a)
    <3>1. contacts'[v][b] = contacts[v][b]
      BY <2>2 DEF Lists, SetContact
    <3>2. Proven(links, v, b)
      BY <3>1, <1>2, Restated DEF Lists
    <3> QED
      BY <3>2, ProvenStays
  <2> QED
    BY <2>1, <2>2
<1> QED
  BY <1>1, <1>2, Restated DEF Lists

\* What a task relies on, it may still rely on.
LEMMA BackedStays ==
    ASSUME Grow, NEW r \in Task, Backed(links, r)
    PROVE  Backed(links', r)
<1>1. r.link # NoLink => links'[r.link] = links[r.link]
  BY DEF Backed, Grow, Task
<1> QED
  BY <1>1, ProvenStays DEF Backed

\* The tasks keep their invariant when one of them goes on to a typed and
\* backed state with a link no other task holds.
LEMMA TaskWritten ==
    ASSUME Handlers, Grow, NEW t \in Tasks, NEW r \in Task, Carries(r),
           Backed(links', r),
           r.link # NoLink => \A other \in Tasks \ {t} : task[other].link # r.link,
           task' = [task EXCEPT ![t] = r]
    PROVE  Handlers'
<1>1. task' \in [Tasks -> {q \in Task : Carries(q)}]
  BY DEF Handlers
<1>2. ASSUME NEW o \in Tasks PROVE Backed(links', task'[o])
  <2>1. CASE o = t
    BY <2>1 DEF Handlers
  <2>2. CASE o # t
    BY <2>2, BackedStays DEF Handlers
  <2> QED
    BY <2>1, <2>2
<1>3. Unshared'
  BY DEF Handlers, Unshared
<1> QED
  BY <1>1, <1>2, <1>3 DEF Handlers

\* Ending a task never breaks the invariant of the tasks.
LEMMA TaskEnded ==
    ASSUME Handlers, Grow, NEW t \in Tasks, End(t)
    PROVE  Handlers'
<1>1. Backed(links', Idle)
  BY Nulls DEF Backed
<1> QED
  BY <1>1, Nulls, TaskWritten DEF End

\* Nor does leaving the tasks alone.
LEMMA TasksStay ==
    ASSUME Handlers, Grow, UNCHANGED task
    PROVE  Handlers'
BY BackedStays DEF Handlers, Unshared

\* Moving a task on to a read or to the mail keeps the invariant of the tasks.
LEMMA TaskMoved ==
    ASSUME Handlers, Grow, NEW t \in Tasks, NEW u \in Users,
           NEW a \in Addresses \cup {NoAddress}, NEW kind \in Kinds,
           NEW phase \in Phases \ {"confirm", "mark", "put"},
           phase \in Addressed => a # NoAddress,
           phase = "getUser" /\ kind = "prefer" => Proven(links, u, a),
           Goto(t, phase, kind, u, a)
    PROVE  Handlers'
<1> DEFINE r == [Idle EXCEPT !.phase = phase, !.kind = kind, !.user = u, !.addr = a]
<1>1. r \in Task
  BY Nulls DEF Task
<1>2. /\ r.phase = phase /\ r.kind = kind /\ r.user = u /\ r.addr = a
      /\ r.link = NoLink
  BY Nulls DEF Task
<1>3. task' = [task EXCEPT ![t] = r]
  BY DEF Goto
<1> HIDE DEF r
<1>4. Carries(r)
  BY <1>2, AccountsAssumption DEF Carries, AccountsAssumption
<1>5. Backed(links', r)
  BY <1>2, ProvenStays DEF Backed
<1> QED
  BY <1>1, <1>2, <1>3, <1>4, <1>5, TaskWritten

\* The challenges table keeps its invariant when it is left alone.
LEMMA LinksStay == ASSUME Issued, UNCHANGED links PROVE Issued' /\ Grow
BY DEF Issued, Grow

\* And when one link that is not redeemed yet changes.
LEMMA LinkWritten ==
    ASSUME Issued, NEW l \in Links, NEW row \in Link,
           links[l].status # "redeemed",
           row.status # "unused" => row.user # NoUser /\ row.addr # NoAddress,
           links' = [links EXCEPT ![l] = row]
    PROVE  Issued' /\ Grow
BY DEF Issued, Grow

-----------------------------------------------------------------------------
(* Requests that arrive *)

\* Kinds the actions name are kinds.
LEMMA KindNames ==
    {"profile", "lock", "adminReset", "change", "add", "verify", "finish",
     "forgot", "reset", "remove", "prefer", "delete"} \subseteq Kinds
BY DEF Kinds, Writes

\* A request that touches a contact keeps the invariant.
LEMMA ContactRequest ==
    ASSUME Inv, NEW t \in Tasks, NEW u \in Users, NEW a \in Addresses,
           \/ AddContact(t, u, a)
           \/ StartVerification(t, u, a)
           \/ DeleteContact(t, u, a)
           \/ PreferContact(t, u, a)
    PROVE  Inv'
<1> USE KindNames DEF Inv
<1>0. UNCHANGED links /\ UNCHANGED users
  BY DEF AddContact, StartVerification, DeleteContact, PreferContact
<1>1. Issued' /\ Grow /\ Rows'
  BY <1>0, LinksStay, RowsStay
<1>2. a # NoAddress
  BY AccountsAssumption DEF AccountsAssumption
<1>3. Lists'
  <2>1. CASE AddContact(t, u, a)
    BY <2>1, <1>1, ContactWritten DEF AddContact, ContactStates
  <2>2. CASE DeleteContact(t, u, a)
    BY <2>2, <1>1, ContactWritten DEF DeleteContact, ContactStates
  <2>3. CASE StartVerification(t, u, a) \/ PreferContact(t, u, a)
    BY <2>3, <1>1, ListsStay DEF StartVerification, PreferContact
  <2> QED
    BY <2>1, <2>2, <2>3
<1>4. Handlers'
  <2>1. CASE AddContact(t, u, a)
    BY <2>1, <1>1, <1>2, TaskMoved DEF AddContact, Phases
  <2>2. CASE DeleteContact(t, u, a)
    BY <2>2, <1>1, <1>2, TaskMoved DEF DeleteContact, Phases
  <2>3. CASE StartVerification(t, u, a)
    BY <2>3, <1>1, <1>2, TaskMoved DEF StartVerification, Phases
  <2>4. CASE PreferContact(t, u, a)
    <3>1. Proven(links, u, a)
      BY <2>4, Restated DEF PreferContact, Lists
    <3> QED
      BY <2>4, <3>1, <1>1, <1>2, TaskMoved DEF PreferContact, Phases
  <2> QED
    BY <2>1, <2>2, <2>3, <2>4
<1> QED
  BY <1>1, <1>3, <1>4

\* The copy a handler may write back names no address that was not proven.
LEMMA EditedProven ==
    ASSUME Rows, NEW u \in Users, NEW kind \in Kinds,
           NEW a \in Addresses \cup {NoAddress}, users[u].exists,
           kind = "prefer" /\ a # NoAddress => Proven(links, u, a),
           NEW row \in Edited(kind, a, users[u])
    PROVE  /\ row \in UserRow /\ row.exists
           /\ row.preferred # NoAddress => Proven(links, u, row.preferred)
<1> DEFINE old == users[u]
<1>1. /\ old \in UserRow
      /\ old.preferred # NoAddress => Proven(links, u, old.preferred)
  BY Restated DEF Rows
<1>2. old.exists
  OBVIOUS
<1>3. row \in Edited(kind, a, old)
  OBVIOUS
<1> HIDE DEF old
<1>4. ASSUME row \in NewPassword(old)
      PROVE  row \in UserRow /\ row.exists /\ row.preferred = old.preferred
  <2>1. PICK p \in Passwords : row = [old EXCEPT !.pw = p, !.ver = old.ver + 1]
    BY <1>4 DEF NewPassword
  <2>2. old.ver < MaxVersion
    BY <1>4 DEF NewPassword
  <2>3. old.ver \in 0..MaxVersion /\ MaxVersion \in Nat
    BY <1>1, AccountsAssumption DEF UserRow, AccountsAssumption
  <2>4. old.ver + 1 \in 0..MaxVersion
    BY <2>2, <2>3
  <2> QED
    BY <2>1, <2>4, <1>1, <1>2 DEF UserRow
<1>5. CASE kind = "profile"
  BY <1>1, <1>2, <1>3, <1>5 DEF Edited
<1>6. CASE kind = "lock"
  BY <1>1, <1>2, <1>3, <1>6 DEF Edited, UserRow
<1>7. CASE kind \in {"adminReset", "change", "reset"}
  BY <1>1, <1>3, <1>4, <1>7 DEF Edited
<1>8. CASE kind = "prefer"
  BY <1>1, <1>2, <1>3, <1>8 DEF Edited, UserRow
<1>9. CASE kind = "remove"
  BY <1>1, <1>2, <1>3, <1>9 DEF Edited, UserRow
<1> QED
  BY <1>3, <1>5, <1>6, <1>7, <1>8, <1>9 DEF Edited

\* Reading the row keeps the invariant of the tasks.
LEMMA RowRead ==
    ASSUME Inv, Grow, NEW t \in Tasks, NEW u \in Users, NEW kind \in Kinds,
           NEW a \in Addresses \cup {NoAddress}, NEW l \in Links \cup {NoLink},
           kind = "prefer" /\ a # NoAddress => Proven(links, u, a),
           l # NoLink =>
             /\ links[l].status = "redeemed"
             /\ links[l].user = u
             /\ links[l].purpose = IF kind = "reset" THEN "reset" ELSE "confirm"
             /\ \A other \in Tasks \ {t} : task[other].link # l,
           UNCHANGED links,
           ReadRow(t, kind, u, a, l)
    PROVE  Handlers'
<1>1. CASE End(t)
  BY <1>1, TaskEnded DEF Inv
<1>2. CASE ~End(t)
  <2>1. PICK row \in Edited(kind, a, users[u]) :
          task' = [task EXCEPT ![t] =
                [Idle EXCEPT !.phase = "put", !.kind = kind, !.user = u,
                             !.addr = a, !.link = l, !.row = row]]
    BY <1>2 DEF ReadRow
  <2>2. users[u].exists
    BY <1>2 DEF ReadRow
  <2>3. /\ row \in UserRow /\ row.exists
        /\ row.preferred # NoAddress => Proven(links, u, row.preferred)
    BY <2>2, EditedProven DEF Inv
  <2> DEFINE r == [Idle EXCEPT !.phase = "put", !.kind = kind, !.user = u,
                               !.addr = a, !.link = l, !.row = row]
  <2>4. r \in Task
    BY <2>3, Nulls DEF Task, Phases
  <2>5. /\ r.phase = "put" /\ r.kind = kind /\ r.user = u /\ r.addr = a
        /\ r.link = l /\ r.row = row
    BY Nulls DEF Task
  <2>6. task' = [task EXCEPT ![t] = r]
    BY <2>1
  <2> HIDE DEF r
  <2>7. Carries(r)
    BY <2>3, <2>5, AccountsAssumption DEF Carries, Addressed, AccountsAssumption
  <2>8. Backed(links', r)
    BY <2>3, <2>5 DEF Backed
  <2> QED
    BY <2>4, <2>5, <2>6, <2>7, <2>8, TaskWritten DEF Inv
<1> QED
  BY <1>1, <1>2

\* A request about an account keeps the invariant.
LEMMA AccountRequest ==
    ASSUME Inv, NEW t \in Tasks, NEW u \in Users,
           \/ ForgotByName(t, u)
           \/ ClearPreference(t, u)
           \/ DeleteUser(t, u)
           \/ \E kind \in Writes : StartWrite(t, kind, u)
    PROVE  Inv'
<1> USE KindNames DEF Inv
<1>0. UNCHANGED <<users, contacts, links>>
  BY DEF ForgotByName, ClearPreference, DeleteUser, StartWrite
<1>1. Issued' /\ Grow /\ Rows' /\ Lists'
  BY <1>0, LinksStay, RowsStay, ListsStay
<1>2. CASE ForgotByName(t, u)
  <2> DEFINE r == [Idle EXCEPT !.phase = "listContacts", !.kind = "forgot",
                               !.user = u, !.row = users[u]]
  <2>1. users[u] \in UserRow
    BY DEF Rows
  <2>2. r \in Task
    BY <2>1, Nulls DEF Task, Phases
  <2>3. r.phase = "listContacts" /\ r.user = u /\ r.link = NoLink
    BY Nulls DEF Task
  <2>4. task' = [task EXCEPT ![t] = r]
    BY <1>2 DEF ForgotByName
  <2> HIDE DEF r
  <2>5. Carries(r) /\ Backed(links', r)
    BY <2>3, AccountsAssumption DEF Carries, Addressed, Backed, AccountsAssumption
  <2> QED
    BY <2>2, <2>3, <2>4, <2>5, <1>1, TaskWritten
<1>3. ASSUME NEW kind \in Kinds, StartWrite(t, kind, u) PROVE Inv'
  <2>1. Handlers'
    BY <1>0, <1>1, <1>3, RowRead DEF StartWrite
  <2> QED
    BY <2>1, <1>1
<1>4. CASE DeleteUser(t, u)
  BY <1>4, <1>1, TaskMoved DEF DeleteUser, Phases, Addressed
<1> QED
  BY <1>1, <1>2, <1>3, <1>4 DEF ClearPreference, Kinds

\* A recovery by address keeps the invariant.
LEMMA AddressRequest ==
    ASSUME Inv, NEW t \in Tasks, NEW a \in Addresses, ForgotByAddress(t, a)
    PROVE  Inv'
<1> USE KindNames DEF Inv
<1>1. Issued' /\ Grow /\ Rows' /\ Lists'
  BY LinksStay, RowsStay, ListsStay DEF ForgotByAddress
<1>2. a # NoAddress
  BY AccountsAssumption DEF AccountsAssumption
<1> QED
  BY <1>1, <1>2, TaskMoved DEF ForgotByAddress, Phases

\* Redeeming a link keeps the invariant.
LEMMA LinkRequest ==
    ASSUME Inv, NEW t \in Tasks, NEW l \in Links,
           FinishVerification(t, l) \/ ResetPassword(t, l)
    PROVE  Inv'
<1> USE KindNames DEF Inv
<1>1. PICK purpose \in Purposes, phase \in Phases, kind \in Kinds :
        /\ Redeemed(t, l, purpose, phase, kind)
        /\ \/ purpose = "confirm" /\ phase = "confirm" /\ kind = "finish"
           \/ purpose = "reset" /\ phase = "getUser" /\ kind = "reset"
  <2>1. {"confirm", "reset"} \subseteq Purposes /\ {"confirm", "getUser"} \subseteq Phases
    BY DEF Purposes, Phases
  <2>2. CASE FinishVerification(t, l)
    BY <2>1, <2>2 DEF FinishVerification
  <2>3. CASE ResetPassword(t, l)
    BY <2>1, <2>3 DEF ResetPassword
  <2> QED
    BY <2>2, <2>3
<1>2. /\ links[l] \in Link /\ links[l].status = "out"
      /\ links[l].user \in Users /\ links[l].addr \in Addresses
  BY <1>1 DEF Issued, Redeemed, Consume, Link
<1> DEFINE outcome == IF Redeemable(links[l], purpose) THEN "redeemed" ELSE "void"
           row == [links[l] EXCEPT !.status = outcome]
<1>3. row \in Link /\ row.user # NoUser /\ row.addr # NoAddress
  BY <1>2, AccountsAssumption DEF Link, AccountsAssumption
<1>4. links' = [links EXCEPT ![l] = row]
  BY <1>1 DEF Redeemed, Consume
<1>5. Issued' /\ Grow
  <2> HIDE DEF row
  <2> QED
    BY <1>2, <1>3, <1>4, LinkWritten
<1>6. Rows' /\ Lists'
  BY <1>1, <1>5, RowsStay, ListsStay DEF Redeemed
<1>7. CASE ~Redeemable(links[l], purpose)
  BY <1>1, <1>5, <1>6, <1>7, TaskEnded DEF Redeemed
<1>8. CASE Redeemable(links[l], purpose)
  <2> DEFINE r == [Idle EXCEPT !.phase = phase, !.kind = kind, !.link = l,
                               !.user = links[l].user, !.addr = links[l].addr]
  <2>1. r \in Task
    BY <1>2, Nulls DEF Task
  <2>2. /\ r.phase = phase /\ r.kind = kind /\ r.link = l
        /\ r.user = links[l].user /\ r.addr = links[l].addr
    BY Nulls DEF Task
  <2>3. task' = [task EXCEPT ![t] = r]
    BY <1>1, <1>8 DEF Redeemed
  <2> HIDE DEF r
  <2>4. Carries(r)
    BY <2>2, <1>1, <1>2, AccountsAssumption DEF Carries, Addressed, AccountsAssumption
  <2>5. /\ links'[l].status = "redeemed" /\ links'[l].purpose = purpose
        /\ links'[l].user = links[l].user /\ links'[l].addr = links[l].addr
    BY <1>2, <1>4, <1>8 DEF Issued, Link, Redeemable
  <2>6. Backed(links', r)
    BY <2>2, <2>5, <1>1 DEF Backed, Proven
  <2>7. \A other \in Tasks : task[other].link # l
    BY <1>2, AccountsAssumption DEF Handlers, Backed, AccountsAssumption
  <2>8. Handlers'
    BY <2>1, <2>2, <2>3, <2>4, <2>6, <2>7, <1>5, TaskWritten
  <2> QED
    BY <2>8, <1>5, <1>6
<1> QED
  BY <1>7, <1>8

\* So does every request that arrives.
LEMMA RequestStep == ASSUME Inv, NEW t \in Tasks, Request(t) PROVE Inv'
BY ContactRequest, AccountRequest, AddressRequest, LinkRequest DEF Request

-----------------------------------------------------------------------------
(* Handlers that go on *)

\* What a task in flight has in hand.
LEMMA InFlight ==
    ASSUME Inv, NEW t \in Tasks, task[t].phase # "idle"
    PROVE  /\ task[t] \in Task
           /\ task[t].user \in Users
           /\ task[t].phase \in Addressed => task[t].addr \in Addresses
           /\ task[t].phase = "put" => task[t].row.exists
           /\ Backed(links, task[t])
BY DEF Inv, Handlers, Carries, Task

\* A task that only moves on to a phase that relies on nothing new keeps the
\* invariant of the tasks.
LEMMA PhaseMoved ==
    ASSUME Inv, Grow, NEW t \in Tasks, task[t].phase # "idle",
           NEW phase \in Phases \ {"confirm", "put", "getUser"},
           phase \in Addressed => task[t].addr \in Addresses,
           phase = "mark" => task[t].phase = "confirm",
           NEW left \in SUBSET Addresses,
           task' = [task EXCEPT ![t] = [@ EXCEPT !.phase = phase, !.left = left]]
    PROVE  Handlers'
<1> DEFINE r == [task[t] EXCEPT !.phase = phase, !.left = left]
<1>1. r \in Task
  BY InFlight DEF Task
<1>2. /\ r.phase = phase /\ r.kind = task[t].kind /\ r.user = task[t].user
      /\ r.addr = task[t].addr /\ r.link = task[t].link /\ r.row = task[t].row
  BY InFlight DEF Task
<1>3. task' = [task EXCEPT ![t] = r]
  BY DEF Inv, Handlers
<1> HIDE DEF r
<1>4. Carries(r)
  BY <1>2, InFlight, AccountsAssumption DEF Carries, AccountsAssumption
<1>5. Backed(links, r)
  BY <1>2, InFlight DEF Backed
<1>6. Backed(links', r)
  BY <1>1, <1>5, BackedStays
<1>7. r.link # NoLink => \A other \in Tasks \ {t} : task[other].link # r.link
  BY <1>2 DEF Inv, Handlers, Unshared
<1> QED
  BY <1>1, <1>3, <1>4, <1>6, <1>7, TaskWritten DEF Inv

\* The handlers that prove an address keep the invariant.
LEMMA VerificationStep ==
    ASSUME Inv, NEW t \in Tasks,
           AddGetContact(t) \/ Issue(t) \/ ConfirmAddress(t) \/ MarkVerified(t)
    PROVE  Inv'
<1> USE KindNames DEF Inv
<1>1. CASE AddGetContact(t)
  <2>1. Issued' /\ Grow /\ Rows' /\ Lists'
    BY <1>1, LinksStay, RowsStay, ListsStay DEF AddGetContact
  <2>2. CASE End(t)
    BY <2>1, <2>2, TaskEnded
  <2>3. CASE Goto(t, "issue", "add", task[t].user, task[t].addr)
    <3>1. task[t].user \in Users /\ task[t].addr \in Addresses
      BY <1>1, InFlight DEF AddGetContact, Addressed
    <3> QED
      BY <2>1, <2>3, <3>1, TaskMoved, AccountsAssumption
         DEF Phases, Addressed, AccountsAssumption
  <2> QED
    BY <1>1, <2>2, <2>3 DEF AddGetContact
<1>2. CASE Issue(t)
  <2>1. PICK l \in Links :
          /\ links[l].status = "unused"
          /\ links' = [links EXCEPT ![l] =
               [status |-> "out",
                purpose |-> IF task[t].kind = "forgot" THEN "reset" ELSE "confirm",
                user |-> task[t].user, addr |-> task[t].addr, fresh |-> TRUE]]
    BY <1>2 DEF Issue
  <2>2. /\ task[t].user \in Users /\ task[t].user # NoUser
        /\ task[t].addr \in Addresses /\ task[t].addr # NoAddress
    BY <1>2, InFlight, AccountsAssumption DEF Issue, Addressed, AccountsAssumption
  <2> DEFINE row == [status |-> "out",
                purpose |-> IF task[t].kind = "forgot" THEN "reset" ELSE "confirm",
                user |-> task[t].user, addr |-> task[t].addr, fresh |-> TRUE]
  <2>3. row \in Link /\ row.user # NoUser /\ row.addr # NoAddress
    BY <2>2 DEF Link, Purposes
  <2>4. links' = [links EXCEPT ![l] = row]
    BY <2>1
  <2> HIDE DEF row
  <2>5. Issued' /\ Grow
    BY <2>1, <2>3, <2>4, LinkWritten
  <2> QED
    BY <1>2, <2>5, RowsStay, ListsStay, TaskEnded DEF Issue
<1>3. CASE ConfirmAddress(t)
  <2>1. Issued' /\ Grow /\ Rows' /\ Lists'
    BY <1>3, LinksStay, RowsStay, ListsStay DEF ConfirmAddress
  <2>2. CASE End(t)
    BY <2>1, <2>2, TaskEnded
  <2>3. CASE task' = [task EXCEPT ![t].phase = "mark"]
    <3>1. /\ task[t] \in Task /\ task[t].addr \in Addresses
          /\ task[t].phase = "confirm"
      BY <1>3, InFlight DEF ConfirmAddress, Addressed
    <3>2. task' = [task EXCEPT ![t] = [@ EXCEPT !.phase = "mark", !.left = task[t].left]]
      BY <2>3, <3>1 DEF Task, Handlers
    <3>3. task[t].left \in SUBSET Addresses
      BY <3>1 DEF Task
    <3> QED
      BY <2>1, <3>1, <3>2, <3>3, PhaseMoved DEF Phases
  <2> QED
    BY <1>3, <2>2, <2>3 DEF ConfirmAddress
<1>4. CASE MarkVerified(t)
  <2>1. Issued' /\ Grow /\ Rows'
    BY <1>4, LinksStay, RowsStay DEF MarkVerified
  <2>2. /\ task[t].user \in Users /\ task[t].addr \in Addresses
        /\ Proven(links, task[t].user, task[t].addr)
    BY <1>4, InFlight DEF MarkVerified, Addressed, Backed
  <2>3. Lists'
    BY <1>4, <2>1, <2>2, ListsStay, ContactWritten DEF MarkVerified, ContactStates
  <2> QED
    BY <1>4, <2>1, <2>3, TaskEnded DEF MarkVerified
<1> QED
  BY <1>1, <1>2, <1>3, <1>4

\* So do the handlers that recover a password.
LEMMA RecoveryStep ==
    ASSUME Inv, NEW t \in Tasks, ForgotListContacts(t) \/ ForgotGetUser(t)
    PROVE  Inv'
<1> USE KindNames DEF Inv
<1>1. Issued' /\ Grow /\ Rows' /\ Lists'
  BY LinksStay, RowsStay, ListsStay DEF ForgotListContacts, ForgotGetUser
<1>2. CASE End(t)
  BY <1>1, <1>2, TaskEnded
<1>3. CASE ForgotListContacts(t) /\ ~End(t)
  <2>1. PICK a \in ReachableAddress(task[t].row, task[t].user) :
          Goto(t, "issue", "forgot", task[t].user, a)
    BY <1>3 DEF ForgotListContacts
  <2>2. a \in Addresses
    BY DEF ReachableAddress, Verified
  <2>3. task[t].user \in Users
    BY <1>3, InFlight DEF ForgotListContacts
  <2> QED
    BY <1>1, <2>1, <2>2, <2>3, TaskMoved, AccountsAssumption
       DEF Phases, AccountsAssumption
<1>4. CASE ForgotGetUser(t) /\ ~End(t)
  <2>1. /\ task[t] \in Task /\ task[t].addr \in Addresses
        /\ task[t].phase = "getHolder"
    BY <1>4, InFlight DEF ForgotGetUser, Addressed
  <2>2. task' = [task EXCEPT ![t] = [@ EXCEPT !.phase = "issue", !.left = task[t].left]]
    BY <1>4, <2>1 DEF ForgotGetUser, Task, Handlers
  <2>3. task[t].left \in SUBSET Addresses
    BY <2>1 DEF Task
  <2> QED
    BY <1>1, <2>1, <2>2, <2>3, PhaseMoved DEF Phases
<1> QED
  BY <1>2, <1>3, <1>4

\* So do the reads and writes of whole rows.
LEMMA RowStep ==
    ASSUME Inv, NEW t \in Tasks, GetUser(t) \/ PutUser(t) \/ DeleteRow(t)
    PROVE  Inv'
<1> USE DEF Inv
<1>1. Issued' /\ Grow /\ Lists'
  BY LinksStay, ListsStay DEF GetUser, PutUser, DeleteRow
<1>2. /\ task[t] \in Task /\ task[t].user \in Users
      /\ Backed(links, task[t])
  BY InFlight DEF GetUser, PutUser, DeleteRow
<1>3. CASE GetUser(t)
  <2>1. /\ task[t].kind \in Kinds /\ task[t].addr \in Addresses \cup {NoAddress}
        /\ task[t].link \in Links \cup {NoLink}
    BY <1>2 DEF Task
  <2>2. task[t].link # NoLink => \A other \in Tasks \ {t} : task[other].link # task[t].link
    BY DEF Handlers, Unshared
  <2>3. Handlers'
    BY <1>1, <1>2, <1>3, <2>1, <2>2, RowRead DEF GetUser, Backed
  <2> QED
    BY <1>1, <1>3, <2>3, RowsStay DEF GetUser
<1>4. CASE PutUser(t)
  <2>1. task[t].row \in UserRow
    BY <1>2 DEF Task
  <2>2. task[t].row.preferred # NoAddress =>
          Proven(links, task[t].user, task[t].row.preferred)
    BY <1>2, <1>4 DEF PutUser, Backed
  <2> QED
    BY <1>1, <1>2, <1>4, <2>1, <2>2, RowWritten, TaskEnded DEF PutUser
<1>5. CASE DeleteRow(t)
  <2>1. NoRow.preferred = NoAddress
    BY DEF NoRow
  <2> QED
    BY <1>1, <1>2, <1>5, <2>1, Nulls, RowWritten, TaskEnded DEF DeleteRow
<1> QED
  BY <1>3, <1>4, <1>5

\* So does deleting what hangs on an account.
LEMMA PurgeStep ==
    ASSUME Inv, NEW t \in Tasks, DeleteListContacts(t) \/ DeleteNextContact(t)
    PROVE  Inv'
<1> USE DEF Inv
<1>1. Issued' /\ Grow /\ Rows'
  BY LinksStay, RowsStay DEF DeleteListContacts, DeleteNextContact
<1>2. /\ task[t] \in Task /\ task[t].user \in Users /\ task[t].left \in SUBSET Addresses
  BY InFlight DEF DeleteListContacts, DeleteNextContact, Task
<1>3. task[t].phase \in {"listAll", "purge"}
  BY DEF DeleteListContacts, DeleteNextContact
<1>4. Lists'
  <2>1. CASE UNCHANGED contacts
    BY <2>1, <1>1, ListsStay
  <2>2. CASE \E a \in task[t].left : SetContact(task[t].user, a, "absent")
    BY <2>2, <1>1, <1>2, ContactWritten DEF ContactStates
  <2> QED
    BY <2>1, <2>2 DEF DeleteListContacts, DeleteNextContact
<1>5. PICK phase \in {"purge", "deleteRow"}, left \in SUBSET Addresses :
        task' = [task EXCEPT ![t] = [@ EXCEPT !.phase = phase, !.left = left]]
  <2>1. CASE DeleteListContacts(t)
    BY <2>1, <1>2 DEF DeleteListContacts, Task, Handlers
  <2>2. CASE \E a \in task[t].left :
          task[t].phase = "purge" /\ task' = [task EXCEPT ![t].left = @ \ {a}]
    <3>1. PICK a \in task[t].left :
            task[t].phase = "purge" /\ task' = [task EXCEPT ![t].left = @ \ {a}]
      BY <2>2
    <3> DEFINE rest == task[t].left \ {a}
    <3>2. rest \in SUBSET Addresses
      BY <1>2
    <3>3. [task[t] EXCEPT !.left = rest] = [task[t] EXCEPT !.phase = "purge", !.left = rest]
      BY <1>2, <3>1 DEF Task
    <3>4. task' = [task EXCEPT ![t] = [@ EXCEPT !.phase = "purge", !.left = rest]]
      BY <3>1, <3>3
    <3> QED
      BY <3>2, <3>4
  <2>3. CASE task' = [task EXCEPT ![t].phase = "deleteRow"]
    BY <2>3, <1>2 DEF Task, Handlers
  <2> QED
    BY <2>1, <2>2, <2>3 DEF DeleteNextContact
<1>6. Handlers'
  BY <1>1, <1>3, <1>5, PhaseMoved DEF Phases, Addressed
<1> QED
  BY <1>1, <1>4, <1>6

\* So does every call a handler makes, and a handler that makes no more.
LEMMA ContinueStep == ASSUME Inv, NEW t \in Tasks, Continue(t) PROVE Inv'
<1>1. CASE GiveUp(t)
  BY <1>1, LinksStay, RowsStay, ListsStay, TaskEnded DEF GiveUp, Inv
<1> QED
  BY <1>1, VerificationStep, RecoveryStep, RowStep, PurgeStep DEF Continue

-----------------------------------------------------------------------------
(* The invariant and its theorems *)

\* Bounces, sign-outs everywhere and the clock keep the invariant.
LEMMA EnvironmentStep == ASSUME Inv, Environment PROVE Inv'
<1> USE DEF Inv
<1>1. ASSUME NEW u \in Users, NEW a \in Addresses, MarkUnverified(u, a) PROVE Inv'
  BY <1>1, LinksStay, RowsStay, ContactWritten, TasksStay
     DEF MarkUnverified, ContactStates
<1>2. ASSUME NEW u \in Users, BumpTokenVersion(u) PROVE Inv'
  <2>1. Issued' /\ Grow /\ Lists' /\ Handlers'
    BY <1>2, LinksStay, ListsStay, TasksStay DEF BumpTokenVersion
  <2> DEFINE row == [users[u] EXCEPT !.ver = @ + 1]
  <2>2. /\ users[u] \in UserRow
        /\ users[u].preferred # NoAddress => Proven(links, u, users[u].preferred)
    BY Restated DEF Rows
  <2>3. users[u].ver + 1 \in 0..MaxVersion
    BY <1>2, <2>2, AccountsAssumption DEF BumpTokenVersion, UserRow, AccountsAssumption
  <2>4. row \in UserRow /\ row.preferred = users[u].preferred
    BY <2>2, <2>3 DEF UserRow
  <2>5. users' = [users EXCEPT ![u] = row]
    BY <1>2, <2>2 DEF BumpTokenVersion, Rows, UserRow
  <2> HIDE DEF row
  <2>6. Rows'
    BY <2>1, <2>2, <2>4, <2>5, RowWritten
  <2> QED
    BY <2>1, <2>6
<1>3. ASSUME NEW l \in Links, Lapse(l) PROVE Inv'
  <2> DEFINE row == [links[l] EXCEPT !.fresh = FALSE]
  <2>1. links[l] \in Link /\ links[l].user # NoUser /\ links[l].addr # NoAddress
    BY <1>3 DEF Lapse, Issued
  <2>2. row \in Link /\ row.user # NoUser /\ row.addr # NoAddress
    BY <2>1 DEF Link
  <2>3. links' = [links EXCEPT ![l] = row]
    BY <1>3, <2>1 DEF Lapse, Issued, Link
  <2> HIDE DEF row
  <2>4. Issued' /\ Grow
    BY <1>3, <2>2, <2>3, LinkWritten DEF Lapse
  <2> QED
    BY <1>3, <2>4, RowsStay, ListsStay, TasksStay DEF Lapse
<1> QED
  BY <1>1, <1>2, <1>3 DEF Environment

\* The initial states satisfy the invariant.
LEMMA InitInv == ASSUME Init PROVE Inv
<1>1. Issued
  BY DEF Init, Issued, UnusedLink, Link, Purposes
<1>2. Rows
  <2>1. ASSUME NEW p \in Passwords \cup {NoPassword}
        PROVE  /\ [NoRow EXCEPT !.exists = TRUE, !.pw = p] \in UserRow
               /\ [NoRow EXCEPT !.exists = TRUE, !.pw = p].preferred = NoAddress
    BY Nulls DEF UserRow, NoRow
  <2>2. ASSUME NEW u \in Users
        PROVE  users[u] \in UserRow /\ users[u].preferred = NoAddress
    <3>1. users[u] \in {[NoRow EXCEPT !.exists = TRUE, !.pw = p] :
                          p \in Passwords \cup {NoPassword}}
      BY DEF Init
    <3> QED
      BY <3>1, <2>1
  <2>3. users \in [Users -> UserRow]
    BY <2>2 DEF Init
  <2> QED
    BY <2>2, <2>3 DEF Rows, PreferredWasProven
<1>3. Lists
  BY DEF Init, Lists, ContactStates, VerifiedByItsOwner
<1>4. Handlers
  BY Nulls DEF Init, Handlers, Backed, Unshared
<1> QED
  BY <1>1, <1>2, <1>3, <1>4 DEF Inv

\* Every step keeps the invariant.
LEMMA NextInv == ASSUME Inv, [Next]_vars PROVE Inv'
<1>1. CASE UNCHANGED vars
  BY <1>1, LinksStay, RowsStay, ListsStay, TasksStay DEF vars, Inv
<1> QED
  BY <1>1, EnvironmentStep, RequestStep, ContinueStep DEF Next

\* The invariant holds throughout: the argument of the theorems below.
LEMMA Invariant == Spec => []Inv
BY InitInv, NextInv, PTL DEF Spec

\* Every table and every handler in flight keeps its type, and a handler past
\* its first call knows the account, and where it needs one the address, it
\* works for.
THEOREM TypeCorrect == Spec => []TypeOK
<1>1. Inv => TypeOK
  BY DEF Inv, Rows, Lists, Issued, Handlers, TypeOK
<1> QED
  BY <1>1, Invariant, PTL

\* A verified address was proven by a confirmation link mailed for this account
\* and this address, whatever else runs meanwhile (finish_verification).
THEOREM VerifiedIsProven == Spec => []VerifiedByItsOwner
<1>1. Inv => VerifiedByItsOwner
  BY DEF Inv, Lists
<1> QED
  BY <1>1, Invariant, PTL

\* A preferred address was proven by this account, although the row that names
\* it is overwritten from stale copies (put_user).
THEOREM PreferredIsProven == Spec => []PreferredWasProven
<1>1. Inv => PreferredWasProven
  BY DEF Inv, Rows
<1> QED
  BY <1>1, Invariant, PTL

\* A link authorises one handler, at its endpoint and for its account
\* (consume).
THEOREM LinksAreOneUse == Spec => []LinkAuthorisesOneUse
<1>1. Inv => LinkAuthorisesOneUse
  BY DEF Inv, Handlers, Backed, Unshared, LinkAuthorisesOneUse
<1> QED
  BY <1>1, Invariant, PTL

-----------------------------------------------------------------------------
(* What a recovery rests on *)

\* What the module of the recoveries adds to a step leaves the step as it is.
LEMMA WatchedStep == [RNext]_rvars => [Next]_vars
BY DEF RNext, rvars

\* The history is true of the present, and tells what each phase of a recovery was told before.
Witnessed(t) ==
    /\ task[t].phase \in {"listContacts", "getHolder", "issue"}
    /\ Verified(task[t].user) \subseteq since[t].verified
    /\ Unlocked(task[t].user) => since[t].unlocked
    /\ task[t].phase \in {"listContacts", "issue"} => since[t].unlocked
    /\ task[t].phase \in {"getHolder", "issue"} => task[t].addr \in since[t].verified

Watched ==
    \A t \in Tasks :
        /\ Recovering(t) => Witnessed(t)
        /\ task[t].phase = "listContacts" => task[t].kind = "forgot"

RecoveryCall(t) ==
    \/ \E u \in Users : ForgotByName(t, u)
    \/ \E a \in Addresses : ForgotByAddress(t, a)
    \/ ForgotListContacts(t)
    \/ ForgotGetUser(t)

\* A task that is done, or at other work.
Elsewhere(r) == r.phase = "idle" \/ (r.kind # "forgot" /\ r.phase # "listContacts")

LEMMA LeadsElsewhere ==
    ASSUME Handlers, NEW t \in Tasks, NEW r, task' = [task EXCEPT ![t] = r], Elsewhere(r)
    PROVE  Elsewhere(task'[t])
<1>1. task'[t] = r
  BY DEF Handlers
<1> QED
  BY <1>1

LEMMA EndsElsewhere ==
    ASSUME Handlers, NEW t \in Tasks, End(t)
    PROVE  Elsewhere(task'[t])
BY LeadsElsewhere, Nulls DEF End, Elsewhere

LEMMA GoesElsewhere ==
    ASSUME Handlers, NEW t \in Tasks, NEW phase, NEW kind, NEW u, NEW a,
           phase # "listContacts", kind # "forgot", Goto(t, phase, kind, u, a)
    PROVE  Elsewhere(task'[t])
<1> DEFINE r == [Idle EXCEPT !.phase = phase, !.kind = kind, !.user = u, !.addr = a]
<1>1. r.kind = kind /\ r.phase = phase
  BY DEF Idle
<1>2. task' = [task EXCEPT ![t] = r]
  BY DEF Goto
<1> HIDE DEF r
<1> QED
  BY <1>1, <1>2, LeadsElsewhere DEF Elsewhere

\* A row read for a write is not read for a recovery.
LEMMA ReadElsewhere ==
    ASSUME Handlers, NEW t \in Tasks, NEW kind, NEW u, NEW a, NEW l, kind # "forgot",
           ReadRow(t, kind, u, a, l)
    PROVE  Elsewhere(task'[t])
<1>1. ASSUME NEW row,
             task' = [task EXCEPT ![t] =
                 [Idle EXCEPT !.phase = "put", !.kind = kind, !.user = u, !.addr = a,
                              !.link = l, !.row = row]]
      PROVE  Elsewhere(task'[t])
  <2> DEFINE r == [Idle EXCEPT !.phase = "put", !.kind = kind, !.user = u, !.addr = a,
                               !.link = l, !.row = row]
  <2>1. r.kind = kind /\ r.phase = "put"
    BY DEF Idle
  <2>2. task' = [task EXCEPT ![t] = r]
    BY <1>1
  <2> HIDE DEF r
  <2> QED
    BY <2>1, <2>2, LeadsElsewhere DEF Elsewhere
<1> QED
  BY <1>1, EndsElsewhere DEF ReadRow

\* Only the calls of a recovery lead into one or further.
LEMMA RequestsElsewhere ==
    ASSUME Handlers, NEW t \in Tasks, Request(t), ~RecoveryCall(t)
    PROVE  Elsewhere(task'[t])
<1>1. ASSUME NEW u \in Users, NEW a \in Addresses,
             \/ AddContact(t, u, a) \/ StartVerification(t, u, a)
             \/ DeleteContact(t, u, a) \/ PreferContact(t, u, a)
      PROVE  Elsewhere(task'[t])
  <2>1. \/ Goto(t, "getContact", "add", u, a) \/ Goto(t, "issue", "verify", u, a)
        \/ Goto(t, "getUser", "remove", u, a) \/ Goto(t, "getUser", "prefer", u, a)
    BY <1>1 DEF AddContact, StartVerification, DeleteContact, PreferContact
  <2> QED
    BY <2>1, GoesElsewhere
<1>2. ASSUME NEW u \in Users, ClearPreference(t, u) PROVE Elsewhere(task'[t])
  BY <1>2, ReadElsewhere DEF ClearPreference, StartWrite
<1>3. ASSUME NEW u \in Users, NEW kind \in Writes, StartWrite(t, kind, u)
      PROVE  Elsewhere(task'[t])
  <2>1. kind # "forgot"
    BY DEF Writes
  <2> QED
    BY <1>3, <2>1, ReadElsewhere DEF StartWrite
<1>4. ASSUME NEW u \in Users, DeleteUser(t, u) PROVE Elsewhere(task'[t])
  <2>1. Goto(t, "listAll", "delete", u, NoAddress)
    BY <1>4 DEF DeleteUser
  <2> QED
    BY <2>1, GoesElsewhere
<1>5. ASSUME NEW l \in Links, NEW purpose, NEW phase \in {"confirm", "getUser"},
             NEW kind \in {"finish", "reset"}, Redeemed(t, l, purpose, phase, kind)
      PROVE  Elsewhere(task'[t])
  <2> DEFINE r == [Idle EXCEPT !.phase = phase, !.kind = kind, !.link = l,
                               !.user = links[l].user, !.addr = links[l].addr]
  <2>1. r.kind = kind /\ r.phase = phase
    BY DEF Idle
  <2>2. End(t) \/ task' = [task EXCEPT ![t] = r]
    BY <1>5 DEF Redeemed
  <2> HIDE DEF r
  <2> QED
    BY <2>1, <2>2, EndsElsewhere, LeadsElsewhere DEF Elsewhere
<1> QED
  BY <1>1, <1>2, <1>3, <1>4, <1>5 DEF Request, RecoveryCall, FinishVerification, ResetPassword

LEMMA ContinuesElsewhere ==
    ASSUME Handlers, Watched, NEW t \in Tasks, Continue(t), ~RecoveryCall(t)
    PROVE  Elsewhere(task'[t])
<1> DEFINE r == task[t]
<1>1. r \in Task /\ task \in [Tasks -> Task]
  BY DEF Handlers
<1>2. CASE End(t)
  BY <1>2, EndsElsewhere
<1>3. CASE AddGetContact(t)
  <2>1. End(t) \/ Goto(t, "issue", "add", r.user, r.addr)
    BY <1>3 DEF AddGetContact
  <2> QED
    BY <2>1, EndsElsewhere, GoesElsewhere
<1>4. CASE GetUser(t)
  <2>1. r.phase = "getUser" /\ ReadRow(t, r.kind, r.user, r.addr, r.link)
    BY <1>4 DEF GetUser
  <2>2. r.kind # "forgot"
    BY <2>1 DEF Watched, Recovering, Witnessed
  <2> QED
    BY <2>1, <2>2, ReadElsewhere
<1>5. CASE ConfirmAddress(t) \/ DeleteListContacts(t) \/ DeleteNextContact(t)
  <2>1. r.phase \in {"confirm", "listAll", "purge"}
    BY <1>5 DEF ConfirmAddress, DeleteListContacts, DeleteNextContact
  <2>2. r.kind # "forgot"
    BY <2>1 DEF Watched, Recovering, Witnessed
  <2>3. End(t) \/ (task'[t].kind = r.kind /\ task'[t].phase \in {"mark", "purge", "deleteRow"})
    BY <1>1, <1>5, <2>1 DEF ConfirmAddress, DeleteListContacts, DeleteNextContact, Task
  <2> QED
    BY <1>2, <2>2, <2>3 DEF Elsewhere
<1>6. ~(Issue(t) \/ MarkVerified(t) \/ PutUser(t) \/ DeleteRow(t) \/ GiveUp(t)) \/ End(t)
  BY DEF Issue, MarkVerified, PutUser, DeleteRow, GiveUp
<1> QED
  BY <1>2, <1>3, <1>4, <1>5, <1>6 DEF Continue, RecoveryCall

\* A step moves one task at the most.
LEMMA OthersStand ==
    ASSUME Handlers, [Next]_vars, NEW t \in Tasks
    PROVE  task'[t] = task[t] \/ Request(t) \/ Continue(t)
<1>1. ASSUME NEW s \in Tasks, s # t, Request(s) \/ Continue(s) PROVE task'[t] = task[t]
  <2>1. ASSUME \E r : task' = [task EXCEPT ![s] = r] PROVE task'[t] = task[t]
    BY <1>1, <2>1 DEF Handlers
  <2>2. ASSUME NEW kind, NEW u, NEW a, NEW l, ReadRow(s, kind, u, a, l)
        PROVE  task'[t] = task[t]
    BY <2>1, <2>2 DEF ReadRow, End
  <2>3. CASE Request(s)
    <3>1. \/ \E r : task' = [task EXCEPT ![s] = r]
          \/ \E kind, u, a, l : ReadRow(s, kind, u, a, l)
      BY <2>3
      DEF Request, AddContact, StartVerification, DeleteContact, PreferContact, ForgotByName,
          ClearPreference, StartWrite, DeleteUser, ForgotByAddress, FinishVerification,
          ResetPassword, Redeemed, Goto, End
    <3> QED
      BY <2>1, <2>2, <3>1
  <2>4. CASE Continue(s)
    <3>1. \/ \E r : task' = [task EXCEPT ![s] = r]
          \/ \E kind, u, a, l : ReadRow(s, kind, u, a, l)
      BY <2>4
      DEF Continue, AddGetContact, Issue, ConfirmAddress, MarkVerified, ForgotListContacts,
          ForgotGetUser, GetUser, PutUser, DeleteListContacts, DeleteNextContact, DeleteRow,
          GiveUp, Goto, End
    <3> QED
      BY <2>1, <2>2, <3>1
  <2> QED
    BY <1>1, <2>3, <2>4
<1> QED
  BY <1>1 DEF Next, Environment, MarkUnverified, BumpTokenVersion, Lapse, vars

\* What a call of a recovery learns, it learns in a state the history records.
LEMMA RecoveryIsWatched ==
    ASSUME Inv, Watched, Watch, NEW t \in Tasks, RecoveryCall(t), Recovering(t)'
    PROVE  Witnessed(t)'
<1> DEFINE r == task[t]
           was == since[t]
           q == task'[t]
           now == since'[t]
<1>1. r \in Task /\ task \in [Tasks -> Task] /\ UNCHANGED <<users, contacts>>
  BY DEF RecoveryCall, ForgotByName, ForgotByAddress, ForgotListContacts, ForgotGetUser, Inv,
         Handlers
<1>2. /\ was.verified \subseteq now.verified
      /\ was.unlocked => now.unlocked
      /\ Verified(q.user) \subseteq now.verified
      /\ Unlocked(q.user) => now.unlocked
  BY <1>1 DEF Watch, FactsNow, Verified, Unlocked
<1>3. ASSUME NEW u \in Users, ForgotByName(t, u) PROVE Witnessed(t)'
  <2> DEFINE new == [Idle EXCEPT !.phase = "listContacts", !.kind = "forgot", !.user = u,
                                 !.row = users[u]]
  <2>1. new.phase = "listContacts" /\ new.user = u
    BY DEF Idle
  <2>2. q = new /\ Unlocked(u)
    BY <1>1, <1>3 DEF ForgotByName, Unlocked
  <2> QED
    BY <1>1, <1>2, <2>1, <2>2 DEF Witnessed, Verified, Unlocked
<1>4. ASSUME NEW a \in Addresses, ForgotByAddress(t, a) PROVE Witnessed(t)'
  <2>1. PICK u \in Users : Holders(a) = {u} /\ Goto(t, "getHolder", "forgot", u, a)
    BY <1>4 DEF ForgotByAddress
  <2> DEFINE new == [Idle EXCEPT !.phase = "getHolder", !.kind = "forgot", !.user = u, !.addr = a]
  <2>2. new.phase = "getHolder" /\ new.user = u /\ new.addr = a
    BY DEF Idle
  <2>3. q = new
    BY <1>1, <2>1 DEF Goto
  <2>4. a \in Verified(u)
    BY <2>1 DEF Holders, Verified
  <2> QED
    BY <1>1, <1>2, <2>2, <2>3, <2>4 DEF Witnessed, Verified, Unlocked
<1>5. CASE ForgotListContacts(t)
  <2>1. ~End(t)
    BY EndsElsewhere DEF Inv, Elsewhere, Recovering
  <2>2. PICK a \in ReachableAddress(r.row, r.user) : Goto(t, "issue", "forgot", r.user, a)
    BY <1>5, <2>1 DEF ForgotListContacts
  <2> DEFINE new == [Idle EXCEPT !.phase = "issue", !.kind = "forgot", !.user = r.user, !.addr = a]
  <2>3. new.phase = "issue" /\ new.user = r.user /\ new.addr = a
    BY DEF Idle
  <2>4. q = new
    BY <1>1, <2>2 DEF Goto
  <2>5. a \in Verified(r.user)
    BY <2>2 DEF ReachableAddress
  <2>6. Recovering(t)
    BY <1>5 DEF ForgotListContacts, Recovering, Watched
  <2>7. was.unlocked
    BY <1>5, <2>6 DEF ForgotListContacts, Watched, Witnessed
  <2> QED
    BY <1>1, <1>2, <2>3, <2>4, <2>5, <2>7 DEF Witnessed, Verified, Unlocked
<1>6. CASE ForgotGetUser(t)
  <2>1. ~End(t)
    BY EndsElsewhere DEF Inv, Elsewhere, Recovering
  <2>2. /\ r.phase = "getHolder" /\ Unlocked(r.user)
        /\ task' = [task EXCEPT ![t].phase = "issue"]
    BY <1>6, <2>1 DEF ForgotGetUser, Unlocked
  <2>3. q.phase = "issue" /\ q.user = r.user /\ q.addr = r.addr /\ q.kind = r.kind
    BY <1>1, <2>2 DEF Task
  <2>4. r.addr \in was.verified
    BY <2>2, <2>3 DEF Recovering, Watched, Witnessed
  <2> QED
    BY <1>1, <1>2, <2>2, <2>3, <2>4 DEF Witnessed, Verified, Unlocked
<1> QED
  BY <1>3, <1>4, <1>5, <1>6 DEF RecoveryCall

LEMMA RecoveryKeepsKind ==
    ASSUME Handlers, NEW t \in Tasks, RecoveryCall(t), task'[t].phase = "listContacts"
    PROVE  task'[t].kind = "forgot"
<1>1. ASSUME NEW u \in Users, ForgotByName(t, u) PROVE task'[t].kind = "forgot"
  <2> DEFINE r == [Idle EXCEPT !.phase = "listContacts", !.kind = "forgot", !.user = u,
                               !.row = users[u]]
  <2>1. r.kind = "forgot"
    BY DEF Idle
  <2>2. task'[t] = r
    BY <1>1 DEF ForgotByName, Handlers
  <2> QED
    BY <2>1, <2>2
<1>2. ASSUME NEW phase, NEW u, NEW a, Goto(t, phase, "forgot", u, a)
      PROVE  task'[t].kind = "forgot"
  <2> DEFINE r == [Idle EXCEPT !.phase = phase, !.kind = "forgot", !.user = u, !.addr = a]
  <2>1. r.kind = "forgot"
    BY DEF Idle
  <2>2. task'[t] = r
    BY <1>2 DEF Goto, Handlers
  <2> QED
    BY <2>1, <2>2
<1>3. ~End(t)
  <2> SUFFICES ASSUME End(t) PROVE FALSE
    OBVIOUS
  <2> QED
    BY Nulls DEF End, Handlers
<1>4. CASE ForgotGetUser(t)
  <2>1. task' = [task EXCEPT ![t].phase = "issue"] /\ task[t] \in Task
    BY <1>3, <1>4 DEF ForgotGetUser, Handlers
  <2>2. task'[t].phase = "issue"
    BY <2>1 DEF Handlers, Task
  <2> QED
    BY <2>2
<1> QED
  BY <1>1, <1>2, <1>3, <1>4 DEF RecoveryCall, ForgotByAddress, ForgotListContacts

\* What was witnessed stays so while the recovery waits, whatever becomes of the account.
LEMMA WaitingIsWatched ==
    ASSUME Watched, Watch, NEW t \in Tasks, task'[t] = task[t], Recovering(t)'
    PROVE  Witnessed(t)'
<1>1. /\ since[t].verified \subseteq since'[t].verified
      /\ since[t].unlocked => since'[t].unlocked
      /\ Verified(task[t].user)' \subseteq since'[t].verified
      /\ Unlocked(task[t].user)' => since'[t].unlocked
  BY DEF Watch, FactsNow
<1>2. Witnessed(t)
  BY DEF Watched, Recovering
<1> QED
  BY <1>1, <1>2 DEF Witnessed, Verified, Unlocked

LEMMA WatchedInv == ASSUME Inv, Watched, [RNext]_rvars PROVE Watched'
<1>1. CASE UNCHANGED rvars
  BY <1>1 DEF rvars, vars, Watched, Recovering, Witnessed, Verified, Unlocked
<1>2. CASE RNext
  <2>1. Watch /\ [Next]_vars
    BY <1>2 DEF RNext
  <2>2. Handlers
    BY DEF Inv
  <2>3. ASSUME NEW t \in Tasks
        PROVE  task'[t] = task[t] \/ RecoveryCall(t) \/ Elsewhere(task'[t])
    BY <2>1, <2>2, OthersStand, RequestsElsewhere, ContinuesElsewhere
  <2>4. ASSUME NEW t \in Tasks, Recovering(t)' PROVE Witnessed(t)'
    <3>1. ~Elsewhere(task'[t])
      BY <2>4 DEF Recovering, Elsewhere
    <3> QED
      BY <2>1, <2>3, <2>4, <3>1, RecoveryIsWatched, WaitingIsWatched
  <2>5. ASSUME NEW t \in Tasks, task'[t].phase = "listContacts" PROVE task'[t].kind = "forgot"
    <3>1. CASE RecoveryCall(t)
      BY <2>2, <2>5, <3>1, RecoveryKeepsKind
    <3>2. ~Elsewhere(task'[t])
      <4> SUFFICES ASSUME Elsewhere(task'[t]) PROVE FALSE
        OBVIOUS
      <4> QED
        BY <2>5 DEF Elsewhere
    <3> QED
      BY <2>3, <2>5, <3>1, <3>2 DEF Watched
  <2> QED
    BY <2>4, <2>5 DEF Watched
<1> QED
  BY <1>1, <1>2

\* The properties of the tables hold of the watched accounts as well.
THEOREM WatchedAccounts == RSpec => Spec
<1>1. RInit => Init
  BY DEF RInit
<1> QED
  BY <1>1, WatchedStep, PTL DEF RSpec, Spec

\* A reset link is mailed only to an address the account held verified, and for an account that
\* was unlocked, at a moment between the request and the mail, whatever is withdrawn, preferred
\* or locked between the calls (resolve_target, reachable_address).
THEOREM ResetIsMailedToProven == RSpec => []ResetGoesToProvenAddress
<1>1. RInit => Watched
  BY Nulls DEF RInit, Init, Watched, Recovering
<1>2. Watched => ResetGoesToProvenAddress
  BY DEF Watched, Recovering, Witnessed, ResetGoesToProvenAddress
<1>3. RSpec => []Inv
  BY WatchedAccounts, Invariant, PTL
<1> QED
  BY <1>1, <1>2, <1>3, WatchedInv, PTL DEF RSpec
=============================================================================
