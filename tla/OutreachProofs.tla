--------------------------- MODULE OutreachProofs ---------------------------
(***************************************************************************)
(* Theorems about Recipients and Notify for every value of their           *)
(* constants: any number of tenants, recipients, users, mailed links,      *)
(* handlers and calls in flight, whatever catalogues are published.        *)
(***************************************************************************)
EXTENDS Notify, TLAPS

Agreed(n, address) == <<n, address>> \in clicked

\* A recipient is confirmed only where a link mailed to its address was followed.
RowIsRight(n, row) == row.confirmed => Agreed(n, row.address)

RowsAreRight ==
    /\ rows \in [Ids -> ExternalRecipient]
    /\ \A n \in Ids : RowIsRight(n, rows[n])

\* So is the copy a handler is about to write, and a handler that is about to confirm comes from a
\* link that was followed.
TaskIsRight(k) ==
    /\ k.phase \in {"insert", "mail", "put", "mark"} => k.id \in Ids
    /\ k.phase \in {"insert", "put"} => RowIsRight(k.id, k.copy)
    /\ k.phase \in {"insert", "mail", "put"} => k.copy.live
    /\ k.phase = "mark" => Agreed(k.id, k.copy.address)

\* What is on file, or is about to be, has an address.
Addressed(row) == row.live => row.address \in Addresses

TasksAreRight ==
    /\ tasks \in [Tasks -> Task]
    /\ \A t \in Tasks : TaskIsRight(tasks[t]) /\ Addressed(tasks[t].copy)

LinksAreRight ==
    /\ links \in [Secrets -> Challenge]
    /\ \A s \in Secrets : links[s].state = "live" => links[s].id \in Ids /\ links[s].address \in Addresses

HistoryIsRight ==
    /\ clicked \subseteq Ids \X Addresses
    /\ \A n \in Ids : n \in reached => \E address \in Addresses : Agreed(n, address)

\* A message that is about to be queued goes to a user, or to a recipient that has agreed; an audience
\* is asked about a type there is.
CallIsRight(k) ==
    /\ k.phase = "queue" /\ k.next \in Ids => \E address \in Addresses : Agreed(k.next, address)
    /\ k.phase \in {"users", "reach", "recipients"} => k.type \in Types

CallsAreRight ==
    /\ calls \in [Calls -> Call]
    /\ \A c \in Calls : CallIsRight(calls[c])

Published == catalogue \in [Types -> NotificationTypeDef]

PeopleAreTyped == people \in [Users -> Person]

\* The inductive invariant of double opt-in.
Inv ==
    /\ RowsAreRight /\ \A n \in Ids : Addressed(rows[n])
    /\ TasksAreRight
    /\ LinksAreRight
    /\ HistoryIsRight
    /\ CallsAreRight
    /\ Published /\ PeopleAreTyped

-----------------------------------------------------------------------------
(* Records *)

LEMMA IdleIsRight == Idle \in Task /\ TaskIsRight(Idle) /\ Addressed(Idle.copy) /\ Idle.phase = "idle"
<1>1. NoRecipient \in ExternalRecipient /\ ~NoRecipient.live
  BY DEF NoRecipient, ExternalRecipient, ChoiceMaps
<1> QED
  BY <1>1 DEF Idle, Task, Phases, TaskIsRight, Addressed

LEMMA NobodyHasAgreed ==
    /\ NoRecipient \in ExternalRecipient
    /\ \A n : RowIsRight(n, NoRecipient)
    /\ ~NoRecipient.live
BY DEF NoRecipient, ExternalRecipient, ChoiceMaps, RowIsRight

LEMMA NoCallIsRight == NoCall \in Call /\ CallIsRight(NoCall)
<1>1. Nobody \in Person
  BY DEF Nobody, Person, ChoiceMaps
<1>2. NoDef \in NotificationTypeDef
  BY DEF NoDef, NotificationTypeDef, Never
<1> QED
  BY <1>1, <1>2 DEF NoCall, Call, CallPhases, CallIsRight

-----------------------------------------------------------------------------
(* What a step may do to each variable *)

RowsStep == RowsAreRight' /\ \A n \in Ids : Addressed(rows'[n])
TasksStep == TasksAreRight'
CallsStep == CallsAreRight'

LEMMA RowsStay == ASSUME Inv, UNCHANGED rows, clicked \subseteq clicked' PROVE RowsStep
BY DEF Inv, RowsStep, RowsAreRight, RowIsRight, Agreed, Addressed

LEMMA TasksStay == ASSUME Inv, UNCHANGED tasks, clicked \subseteq clicked' PROVE TasksStep
BY DEF Inv, TasksStep, TasksAreRight, TaskIsRight, RowIsRight, Agreed, Addressed

LEMMA LinksStay == ASSUME Inv, UNCHANGED links PROVE LinksAreRight'
BY DEF Inv, LinksAreRight

LEMMA LinkSpent ==
    ASSUME Inv, NEW s \in Secrets, links' = [links EXCEPT ![s].state = "spent"]
    PROVE  LinksAreRight'
<1> DEFINE row == [links[s] EXCEPT !.state = "spent"]
<1>1. links[s] \in Challenge
  BY DEF Inv, LinksAreRight
<1>2. row \in Challenge /\ row.state = "spent"
  BY <1>1, ZenonT(30) DEF Challenge
<1>3. links' = [links EXCEPT ![s] = row]
  OBVIOUS
<1> HIDE DEF row
<1> QED
  BY <1>2, <1>3 DEF Inv, LinksAreRight

LEMMA CallsStay == ASSUME Inv, UNCHANGED calls, clicked \subseteq clicked' PROVE CallsStep
BY DEF Inv, CallsStep, CallsAreRight, CallIsRight, Agreed

LEMMA HistoryStays == ASSUME Inv, UNCHANGED <<clicked, reached>> PROVE HistoryIsRight'
BY DEF Inv, HistoryIsRight, Agreed

LEMMA RowWritten ==
    ASSUME Inv, NEW n \in Ids, NEW row \in ExternalRecipient, RowIsRight(n, row), Addressed(row),
           rows' = [rows EXCEPT ![n] = row], UNCHANGED clicked
    PROVE  RowsStep
BY DEF Inv, RowsStep, RowsAreRight, RowIsRight, Agreed, Addressed

LEMMA TaskWritten ==
    ASSUME Inv, NEW t \in Tasks, NEW k \in Task, TaskIsRight(k), Addressed(k.copy),
           tasks' = [tasks EXCEPT ![t] = k], UNCHANGED clicked
    PROVE  TasksStep
BY DEF Inv, TasksStep, TasksAreRight, TaskIsRight, RowIsRight, Agreed, Addressed

LEMMA CallWritten ==
    ASSUME Inv, NEW c \in Calls, NEW k \in Call, CallIsRight(k), Continues(c, k), UNCHANGED clicked
    PROVE  CallsStep
BY DEF Inv, CallsStep, CallsAreRight, CallIsRight, Agreed, Continues

LEMMA TaskEnds ==
    ASSUME Inv, NEW t \in Tasks, tasks' = [tasks EXCEPT ![t] = Idle], UNCHANGED clicked
    PROVE  TasksStep
BY IdleIsRight, TaskWritten

LEMMA CallEnds ==
    ASSUME Inv, NEW c \in Calls, Continues(c, NoCall), UNCHANGED clicked
    PROVE  CallsStep
BY NoCallIsRight, CallWritten

\* A call goes on to a phase that queues nothing.
LEMMA CallGoes ==
    ASSUME Inv, NEW c \in Calls, NEW k \in Call, k.phase # "queue",
           k.phase \in {"users", "reach", "recipients"} => k.type \in Types,
           Continues(c, k), UNCHANGED clicked
    PROVE  CallsStep
BY CallWritten DEF CallIsRight

\* Everything but the rows and the handlers stands still.
LEMMA RecipientStep ==
    ASSUME Inv, RowsStep, TasksStep, UNCHANGED <<links, clicked, reached, calls, catalogue, people>>
    PROVE  Inv'
BY LinksStay, CallsStay, HistoryStays
DEF Inv, RowsStep, TasksStep, CallsStep, Published, PeopleAreTyped

\* Everything but the calls and the users stands still.
LEMMA NotifyStep ==
    ASSUME Inv, CallsStep, PeopleAreTyped',
           UNCHANGED <<rows, tasks, links, clicked, reached, catalogue>>
    PROVE  Inv'
BY RowsStay, TasksStay, LinksStay, HistoryStays
DEF Inv, RowsStep, TasksStep, CallsStep, Published

\* A row that was read is right, and so is a copy of it with other choices.
LEMMA CopyIsRight ==
    ASSUME Inv, NEW n \in Ids, NEW choices \in ChoiceMaps
    PROVE  LET row == [rows[n] EXCEPT !.choices = choices] IN
           /\ row \in ExternalRecipient
           /\ row.live = rows[n].live /\ row.address = rows[n].address /\ row.tenant = rows[n].tenant
           /\ RowIsRight(n, row) /\ Addressed(row)
<1> DEFINE row == [rows[n] EXCEPT !.choices = choices]
<1>1. rows[n] \in ExternalRecipient
  BY DEF Inv, RowsAreRight
<1>2. /\ row \in ExternalRecipient
      /\ row.live = rows[n].live /\ row.address = rows[n].address
      /\ row.tenant = rows[n].tenant /\ row.confirmed = rows[n].confirmed
  BY <1>1, ZenonT(30) DEF ExternalRecipient
<1> HIDE DEF row
<1>3. RowIsRight(n, row) /\ Addressed(row)
  BY <1>2 DEF Inv, RowsAreRight, RowIsRight, Addressed
<1> QED
  BY <1>2, <1>3 DEF row

\* A row is marked or unmarked.
LEMMA ConfirmedStep ==
    ASSUME Inv, NEW n \in Ids, NEW value \in BOOLEAN, rows' = SetConfirmed(n, value),
           value => Agreed(n, rows[n].address), UNCHANGED clicked
    PROVE  RowsStep
<1> DEFINE mark == rows[n].live /\ value
           row == [rows[n] EXCEPT !.confirmed = mark]
<1>1. rows[n] \in ExternalRecipient
  BY DEF Inv, RowsAreRight
<1>2. mark \in BOOLEAN /\ (mark => value)
  BY <1>1 DEF ExternalRecipient
<1>3. rows' = [rows EXCEPT ![n] = row]
  BY DEF SetConfirmed
<1> HIDE DEF mark
<1>4. /\ row \in ExternalRecipient
      /\ row.live = rows[n].live /\ row.address = rows[n].address /\ row.confirmed = mark
  BY <1>1, <1>2, ZenonT(30) DEF ExternalRecipient
<1> HIDE DEF row
<1>5. RowIsRight(n, row) /\ Addressed(row)
  BY <1>2, <1>4 DEF Inv, RowIsRight, Addressed
<1> QED
  BY <1>3, <1>4, <1>5, RowWritten

\* A handler that was at rest takes a row along.
LEMMA HandlerMade ==
    ASSUME Inv, NEW t \in Tasks, NEW phase \in {"insert", "mail", "put"}, NEW n \in Ids,
           NEW row \in ExternalRecipient, row.live, RowIsRight(n, row), Addressed(row),
           tasks' = [tasks EXCEPT ![t] = [Idle EXCEPT !.phase = phase, !.id = n, !.copy = row]],
           UNCHANGED clicked
    PROVE  TasksStep
<1> DEFINE k == [Idle EXCEPT !.phase = phase, !.id = n, !.copy = row]
<1>1. phase \in Phases
  BY DEF Phases
<1>2. k \in Task /\ k.phase = phase /\ k.id = n /\ k.copy = row
  BY <1>1, IdleIsRight, ZenonT(30) DEF Task
<1>3. tasks' = [tasks EXCEPT ![t] = k]
  OBVIOUS
<1> HIDE DEF k
<1>4. TaskIsRight(k) /\ Addressed(k.copy)
  BY <1>2 DEF TaskIsRight
<1> QED
  BY <1>2, <1>3, <1>4, TaskWritten

-----------------------------------------------------------------------------
(* Every step of the recipients' handlers keeps the invariant *)

LEMMA NewRowIsRight ==
    ASSUME NEW tenant \in Tenants, NEW address \in Addresses, NEW choices \in ChoiceMaps, NEW n
    PROVE  LET row == NewRecipient(tenant, address, choices) IN
           /\ row \in ExternalRecipient /\ row.live /\ ~row.confirmed
           /\ row.tenant = tenant /\ row.address = address
           /\ RowIsRight(n, row) /\ Addressed(row)
BY DEF NewRecipient, ExternalRecipient, RowIsRight, Addressed

LEMMA CreateKeeps ==
    ASSUME Inv, UNCHANGED notifyVars, NEW t \in Tasks,
           \/ \E n \in Ids, tenant \in Tenants, address \in Addresses, choices \in ChoiceMaps :
                  CreateRecipient(t, n, tenant, address, choices)
           \/ InsertRecipient(t)
    PROVE  Inv'
<1>1. CASE \E n \in Ids, tenant \in Tenants, address \in Addresses, choices \in ChoiceMaps :
             CreateRecipient(t, n, tenant, address, choices)
  <2>1. PICK n \in Ids, tenant \in Tenants, address \in Addresses, choices \in ChoiceMaps :
           CreateRecipient(t, n, tenant, address, choices)
    BY <1>1
  <2> DEFINE row == NewRecipient(tenant, address, choices)
  <2>2. row \in ExternalRecipient /\ row.live /\ RowIsRight(n, row) /\ Addressed(row)
    BY NewRowIsRight
  <2>3. AddAtOnce(t, n, row) \/ LookThenAdd(t, n, row)
    BY <2>1 DEF CreateRecipient
  <2>4. UNCHANGED <<links, clicked, reached, calls, catalogue, people>>
    BY <2>1 DEF CreateRecipient, notifyVars
  <2> HIDE DEF row
  <2>5. TasksStep
    <3>1. CASE AddAtOnce(t, n, row)
      BY <2>2, <2>4, <3>1, HandlerMade DEF AddAtOnce
    <3>2. CASE LookThenAdd(t, n, row)
      BY <2>2, <2>4, <3>2, HandlerMade DEF LookThenAdd
    <3> QED
      BY <2>3, <3>1, <3>2
  <2>6. RowsStep
    BY <2>2, <2>3, <2>4, RowWritten, RowsStay DEF AddAtOnce, LookThenAdd
  <2> QED
    BY <2>4, <2>5, <2>6, RecipientStep
<1>2. CASE InsertRecipient(t)
  <2> DEFINE k == tasks[t]
             next == [k EXCEPT !.phase = "mail"]
  <2>1. k \in Task /\ k.phase = "insert" /\ TaskIsRight(k) /\ Addressed(k.copy)
    BY <1>2 DEF InsertRecipient, At, Inv, TasksAreRight
  <2>2. k.id \in Ids /\ k.copy \in ExternalRecipient
    BY <2>1 DEF TaskIsRight, Task
  <2>3. /\ rows' = [rows EXCEPT ![k.id] = k.copy] /\ tasks' = [tasks EXCEPT ![t] = next]
        /\ UNCHANGED <<links, clicked, reached, calls, catalogue, people>>
    BY <1>2 DEF InsertRecipient, notifyVars
  <2>4. next \in Task /\ next.phase = "mail" /\ next.id = k.id /\ next.copy = k.copy
    <3>1. "mail" \in Phases
      BY DEF Phases
    <3> QED
      BY <2>1, <3>1, ZenonT(30) DEF Task
  <2> HIDE DEF k, next
  <2>5. TaskIsRight(next) /\ Addressed(next.copy)
    BY <2>1, <2>4 DEF TaskIsRight
  <2>6. RowsStep
    BY <2>1, <2>2, <2>3, RowWritten DEF TaskIsRight
  <2>7. TasksStep
    BY <2>3, <2>4, <2>5, TaskWritten
  <2> QED
    BY <2>3, <2>6, <2>7, RecipientStep
<1> QED
  BY <1>1, <1>2

\* A link is mailed to the address that was read; it expires; it is followed.
LEMMA ConfirmationKeeps ==
    ASSUME Inv, UNCHANGED notifyVars,
           \/ \E t \in Tasks, tenant \in Tenants, n \in Ids : ResendConfirmation(t, tenant, n)
           \/ \E t \in Tasks, s \in Secrets : SendConfirmation(t, s) \/ ConsumeLink(t, s)
           \/ \E s \in Secrets : LinkExpires(s)
           \/ \E t \in Tasks : MarkConfirmed(t)
    PROVE  Inv'
<1>1. CASE \E t \in Tasks, tenant \in Tenants, n \in Ids : ResendConfirmation(t, tenant, n)
  <2>1. PICK t \in Tasks, tenant \in Tenants, n \in Ids : ResendConfirmation(t, tenant, n)
    BY <1>1
  <2>2. rows[n] \in ExternalRecipient /\ rows[n].live /\ RowIsRight(n, rows[n]) /\ Addressed(rows[n])
    BY <2>1 DEF ResendConfirmation, OwnRecipient, Inv, RowsAreRight
  <2> QED
    BY <2>1, <2>2, HandlerMade, RowsStay, RecipientStep DEF ResendConfirmation, notifyVars
<1>2. CASE \E t \in Tasks, s \in Secrets : SendConfirmation(t, s)
  <2>1. PICK t \in Tasks, s \in Secrets : SendConfirmation(t, s)
    BY <1>2
  <2>2. /\ tasks[t].id \in Ids /\ tasks[t].copy.address \in Addresses
    BY <2>1 DEF SendConfirmation, At, Inv, TasksAreRight, TaskIsRight, Addressed
  <2>3. LinksAreRight'
    BY <2>1, <2>2 DEF SendConfirmation, Inv, LinksAreRight, Challenge
  <2>4. TasksStep /\ RowsStep
    BY <2>1, TaskEnds, RowsStay DEF SendConfirmation
  <2> QED
    BY <2>1, <2>3, <2>4, CallsStay, HistoryStays
    DEF SendConfirmation, notifyVars, Inv, RowsStep, TasksStep, CallsStep, Published, PeopleAreTyped
<1>3. CASE \E t \in Tasks, s \in Secrets : ConsumeLink(t, s)
  <2>1. PICK t \in Tasks, s \in Secrets : ConsumeLink(t, s)
    BY <1>3
  <2> DEFINE n == links[s].id
             address == links[s].address
             k == [Idle EXCEPT !.phase = "mark", !.id = n, !.copy.address = address]
             copy == [NoRecipient EXCEPT !.address = address]
  <2>2. n \in Ids /\ address \in Addresses
    BY <2>1 DEF ConsumeLink, Inv, LinksAreRight
  <2>3. clicked' = clicked \cup {<<n, address>>} /\ tasks' = [tasks EXCEPT ![t] = k]
    BY <2>1 DEF ConsumeLink
  <2>4. copy \in ExternalRecipient /\ copy.address = address
    BY <2>2, NobodyHasAgreed, ZenonT(30) DEF ExternalRecipient
  <2>5. k = [Idle EXCEPT !.phase = "mark", !.id = n, !.copy = copy]
    BY DEF Idle
  <2> HIDE DEF n, address, copy
  <2>6. k \in Task /\ k.phase = "mark" /\ k.id = n /\ k.copy = copy
    <3>1. "mark" \in Phases
      BY DEF Phases
    <3> QED
      BY <2>2, <2>4, <2>5, <3>1, IdleIsRight, ZenonT(30) DEF Task
  <2> HIDE DEF k
  <2>7. TasksStep
    BY <2>2, <2>3, <2>4, <2>6
    DEF Inv, TasksStep, TasksAreRight, TaskIsRight, RowIsRight, Agreed, Addressed
  <2>8. LinksAreRight'
    <3>1. links' = [links EXCEPT ![s].state = "spent"]
      BY <2>1 DEF ConsumeLink
    <3> QED
      BY <3>1, LinkSpent
  <2>9. HistoryIsRight'
    <3>1. UNCHANGED reached
      BY <2>1 DEF ConsumeLink
    <3>2. clicked' \subseteq Ids \X Addresses
      BY <2>2, <2>3 DEF Inv, HistoryIsRight
    <3> QED
      BY <2>3, <3>1, <3>2 DEF Inv, HistoryIsRight, Agreed
  <2> QED
    BY <2>1, <2>3, <2>7, <2>8, <2>9, RowsStay, CallsStay
    DEF ConsumeLink, notifyVars, Inv, RowsStep, TasksStep, CallsStep, Published, PeopleAreTyped
<1>4. CASE \E s \in Secrets : LinkExpires(s)
  <2>1. PICK s \in Secrets : LinkExpires(s)
    BY <1>4
  <2>2. LinksAreRight'
    BY <2>1, LinkSpent DEF LinkExpires
  <2> QED
    BY <2>1, <2>2, RowsStay, TasksStay, CallsStay, HistoryStays
    DEF LinkExpires, notifyVars, Inv, RowsStep, TasksStep, CallsStep, Published, PeopleAreTyped
<1>5. CASE \E t \in Tasks : MarkConfirmed(t)
  <2>1. PICK t \in Tasks : MarkConfirmed(t)
    BY <1>5
  <2>2. tasks[t].id \in Ids /\ Agreed(tasks[t].id, tasks[t].copy.address)
    BY <2>1 DEF MarkConfirmed, At, Inv, TasksAreRight, TaskIsRight
  <2>3. RowsStep
    BY <2>1, <2>2, ConfirmedStep, RowsStay DEF MarkConfirmed
  <2> QED
    BY <2>1, <2>3, TaskEnds, RecipientStep DEF MarkConfirmed, notifyVars
<1> QED
  BY <1>1, <1>2, <1>3, <1>4, <1>5

\* A row is read, rewritten and put back whole: the copy is as right as the row was, and stays so.
LEMMA RewriteKeeps ==
    ASSUME Inv, UNCHANGED notifyVars, NEW t \in Tasks,
           \/ \E tenant \in Tenants, n \in Ids, choices \in ChoiceMaps :
                  PatchRecipient(t, tenant, n, choices)
           \/ \E n \in Ids, choices \in ChoiceMaps : ManageChoices(t, n, choices)
           \/ PutRecipient(t)
    PROVE  Inv'
<1>1. ASSUME NEW n \in Ids, NEW choices \in ChoiceMaps, rows[n].live, Rewrites(t, n, choices),
             UNCHANGED <<rows, links, clicked, reached, catalogue>>
      PROVE  Inv'
  <2> DEFINE row == [rows[n] EXCEPT !.choices = choices]
  <2>1. row \in ExternalRecipient /\ row.live /\ RowIsRight(n, row) /\ Addressed(row)
    BY <1>1, CopyIsRight
  <2>2. tasks' = [tasks EXCEPT ![t] = [Idle EXCEPT !.phase = "put", !.id = n, !.copy = row]]
    BY <1>1 DEF Rewrites
  <2> HIDE DEF row
  <2> QED
    BY <1>1, <2>1, <2>2, HandlerMade, RowsStay, RecipientStep DEF notifyVars
<1>2. CASE \E tenant \in Tenants, n \in Ids, choices \in ChoiceMaps :
             PatchRecipient(t, tenant, n, choices)
  BY <1>1, <1>2 DEF PatchRecipient, OwnRecipient
<1>3. CASE \E n \in Ids, choices \in ChoiceMaps : ManageChoices(t, n, choices)
  BY <1>1, <1>3 DEF ManageChoices, RecipientForToken
<1>4. CASE PutRecipient(t)
  <2> DEFINE k == tasks[t]
  <2>1. /\ k.id \in Ids /\ k.copy \in ExternalRecipient
        /\ RowIsRight(k.id, k.copy) /\ Addressed(k.copy)
    BY <1>4 DEF PutRecipient, At, Inv, TasksAreRight, TaskIsRight, Task
  <2>2. /\ rows' = IF PutOverwrites(k.id) THEN [rows EXCEPT ![k.id] = k.copy] ELSE rows
        /\ tasks' = [tasks EXCEPT ![t] = Idle]
        /\ UNCHANGED <<links, clicked, reached, calls, catalogue, people>>
    BY <1>4 DEF PutRecipient, notifyVars
  <2> HIDE DEF k
  <2>3. RowsStep
    BY <2>1, <2>2, RowWritten, RowsStay
  <2> QED
    BY <2>2, <2>3, TaskEnds, RecipientStep
<1> QED
  BY <1>2, <1>3, <1>4

\* Rows go, one at a time or all of a tenant; a bounce takes a confirmation back; a handler stops.
LEMMA RemovalKeeps ==
    ASSUME Inv, UNCHANGED notifyVars,
           \/ \E tenant \in Tenants, n \in Ids : DeleteRecipient(tenant, n)
           \/ \E n \in Ids : Unsubscribe(n)
           \/ \E tenant \in Tenants : ClearAtOnce(tenant)
           \/ \E t \in Tasks, tenant \in Tenants : ListTenant(t, tenant)
           \/ \E t \in Tasks, n \in Ids : ClearOne(t, n)
           \/ \E t \in Tasks : StopTask(t)
           \/ \E n \in Ids, address \in Addresses : ReportRecipient(n, address)
    PROVE  Inv'
<1>1. ASSUME NEW n \in Ids, Drop(n)
      PROVE  RowsStep /\ UNCHANGED <<links, clicked, reached, calls, catalogue, people>>
  BY <1>1, NobodyHasAgreed, RowWritten DEF Drop, notifyVars, Addressed
<1>2. CASE \E tenant \in Tenants, n \in Ids : DeleteRecipient(tenant, n)
  BY <1>1, <1>2, TasksStay, RecipientStep DEF DeleteRecipient
<1>3. CASE \E n \in Ids : Unsubscribe(n)
  BY <1>1, <1>3, TasksStay, RecipientStep DEF Unsubscribe
<1>4. CASE \E tenant \in Tenants : ClearAtOnce(tenant)
  <2>1. PICK tenant \in Tenants : ClearAtOnce(tenant)
    BY <1>4
  <2>2. RowsStep
    BY <2>1, NobodyHasAgreed
    DEF ClearAtOnce, Inv, RowsStep, RowsAreRight, RowIsRight, Agreed, Addressed
  <2> QED
    BY <2>1, <2>2, TasksStay, RecipientStep DEF ClearAtOnce, notifyVars
<1>5. CASE \E t \in Tasks, tenant \in Tenants : ListTenant(t, tenant)
  <2>1. PICK t \in Tasks, tenant \in Tenants : ListTenant(t, tenant)
    BY <1>5
  <2> DEFINE listed == OfTenant(tenant)
             k == [Idle EXCEPT !.phase = "clear", !.listed = listed]
  <2>2. tasks' = [tasks EXCEPT ![t] = k]
    BY <2>1 DEF ListTenant
  <2>3. listed \in SUBSET Ids /\ "clear" \in Phases
    BY DEF OfTenant, Phases
  <2> HIDE DEF listed
  <2>4. k \in Task /\ k.phase = "clear" /\ k.copy = Idle.copy
    BY <2>3, IdleIsRight, ZenonT(30) DEF Task
  <2> HIDE DEF k
  <2>5. TaskIsRight(k) /\ Addressed(k.copy)
    BY <2>4, IdleIsRight DEF TaskIsRight
  <2> QED
    BY <2>1, <2>2, <2>4, <2>5, TaskWritten, RowsStay, RecipientStep DEF ListTenant, notifyVars
<1>6. CASE \E t \in Tasks, n \in Ids : ClearOne(t, n)
  <2>1. PICK t \in Tasks, n \in Ids : ClearOne(t, n)
    BY <1>6
  <2> DEFINE rest == tasks[t].listed \ {n}
             k == [tasks[t] EXCEPT !.listed = rest]
  <2>2. tasks[t] \in Task /\ tasks[t].phase = "clear" /\ Addressed(tasks[t].copy)
    BY <2>1 DEF ClearOne, At, Inv, TasksAreRight
  <2>3. tasks' = [tasks EXCEPT ![t] = Idle] \/ tasks' = [tasks EXCEPT ![t] = k]
    <3>1. tasks' = [tasks EXCEPT ![t] = IF tasks[t].listed = {n} THEN Idle ELSE k]
      BY <2>1 DEF ClearOne
    <3> QED
      BY <3>1
  <2>4. rest \in SUBSET Ids
    BY <2>2 DEF Task
  <2> HIDE DEF rest
  <2>5. k \in Task /\ k.phase = "clear" /\ k.copy = tasks[t].copy
    BY <2>2, <2>4, ZenonT(30) DEF Task
  <2> HIDE DEF k
  <2>6. TaskIsRight(k) /\ Addressed(k.copy)
    BY <2>2, <2>5 DEF TaskIsRight
  <2>7. RowsStep /\ UNCHANGED <<links, clicked, reached, calls, catalogue, people>>
    BY <1>1, <2>1 DEF ClearOne
  <2> QED
    BY <2>3, <2>5, <2>6, <2>7, TaskWritten, TaskEnds, RecipientStep
<1>7. CASE \E t \in Tasks : StopTask(t)
  BY <1>7, TaskEnds, RowsStay, RecipientStep DEF StopTask, notifyVars
<1>8. CASE \E n \in Ids, address \in Addresses : ReportRecipient(n, address)
  BY <1>8, ConfirmedStep, TasksStay, RecipientStep DEF ReportRecipient, notifyVars
<1> QED
  BY <1>2, <1>3, <1>4, <1>5, <1>6, <1>7, <1>8

-----------------------------------------------------------------------------
(* Every step of the notifications keeps it *)

\* Catalogues, people and choices: no row, no link and no message is touched.
LEMMA ChoosingKeeps ==
    ASSUME Inv,
           \/ \E draft \in Drafts : Publish(draft)
           \/ \E u \in Users, locked, verified \in BOOLEAN : PersonChanges(u, locked, verified)
           \/ \E c \in Calls, u \in Users, type \in Types, choice \in Choices \cup {Unset} :
                  SetChoice(c, u, type, choice)
           \/ \E c \in Calls : PutChoice(c)
    PROVE  Inv'
<1>1. CASE \E draft \in Drafts : Publish(draft)
  <2>1. Published'
    BY <1>1, OutreachAssumption DEF Publish, Published
  <2>2. UNCHANGED <<rows, tasks, links, clicked, reached, people, calls>>
    BY <1>1 DEF Publish
  <2> QED
    BY <2>1, <2>2, RowsStay, TasksStay, LinksStay, CallsStay, HistoryStays
    DEF Inv, RowsStep, TasksStep, CallsStep, PeopleAreTyped
<1>2. CASE \E u \in Users, locked, verified \in BOOLEAN : PersonChanges(u, locked, verified)
  <2>1. PICK u \in Users, locked \in BOOLEAN, verified \in BOOLEAN :
           PersonChanges(u, locked, verified)
    BY <1>2
  <2> DEFINE person == [people[u] EXCEPT !.locked = locked, !.verified = verified]
  <2>2. people[u] \in Person
    BY DEF Inv, PeopleAreTyped
  <2>3. person \in Person
    BY <2>2, ZenonT(30) DEF Person
  <2>4. people' = [people EXCEPT ![u] = person]
    BY <2>1 DEF PersonChanges
  <2> HIDE DEF person
  <2>5. PeopleAreTyped'
    BY <2>3, <2>4 DEF Inv, PeopleAreTyped
  <2> QED
    BY <2>1, <2>5, CallsStay, NotifyStep DEF PersonChanges, recipientVars
<1>3. CASE \E c \in Calls, u \in Users, type \in Types, choice \in Choices \cup {Unset} :
             SetChoice(c, u, type, choice)
  <2>1. PICK c \in Calls, u \in Users, type \in Types, choice \in Choices \cup {Unset} :
           SetChoice(c, u, type, choice)
    BY <1>3
  <2> DEFINE made == [people[u].choices EXCEPT ![type] = choice]
             copy == [people[u] EXCEPT !.choices = made]
             k == [NoCall EXCEPT !.phase = "choose", !.user = u, !.type = type, !.copy = copy]
  <2>2. people[u] \in Person
    BY DEF Inv, PeopleAreTyped
  <2>3. made \in ChoiceMaps
    BY <2>2 DEF Person, ChoiceMaps
  <2>4. Continues(c, k)
    <3>1. copy = [people[u] EXCEPT !.choices[type] = choice]
      OBVIOUS
    <3> QED
      BY <2>1, <3>1 DEF SetChoice
  <2> HIDE DEF made
  <2>5. copy \in Person
    BY <2>2, <2>3, ZenonT(30) DEF Person
  <2> HIDE DEF copy
  <2>6. k \in Call /\ k.phase = "choose"
    <3>1. "choose" \in CallPhases
      BY DEF CallPhases
    <3> QED
      BY <2>5, <3>1, NoCallIsRight, ZenonT(30) DEF Call
  <2> HIDE DEF k
  <2>7. CallsStep
    BY <2>1, <2>4, <2>6, CallGoes DEF SetChoice, recipientVars
  <2> QED
    BY <2>1, <2>7, NotifyStep DEF SetChoice, recipientVars, Inv, PeopleAreTyped
<1>4. CASE \E c \in Calls : PutChoice(c)
  <2>1. PICK c \in Calls : PutChoice(c)
    BY <1>4
  <2> DEFINE u == calls[c].user
             verified == people[u].verified
             copy == calls[c].copy
             written == [copy EXCEPT !.verified = verified]
  <2>2. people' = [people EXCEPT ![u] = written]
    BY <2>1 DEF PutChoice
  <2>3. copy \in Person
    BY DEF Inv, CallsAreRight, Call
  <2>4. u \in Users => verified \in BOOLEAN
    BY DEF Inv, PeopleAreTyped, Person
  <2> HIDE DEF verified, copy
  <2>5. u \in Users => written \in Person
    BY <2>3, <2>4, ZenonT(30) DEF Person
  <2> HIDE DEF u, written
  <2>6. PeopleAreTyped'
    BY <2>2, <2>5 DEF Inv, PeopleAreTyped
  <2> QED
    BY <2>1, <2>6, CallEnds, NotifyStep DEF PutChoice, recipientVars
<1> QED
  BY <1>1, <1>2, <1>3, <1>4

\* What an audience names is somebody with a choice.
LEMMA EntryTyped ==
    ASSUME NEW def \in NotificationTypeDef, NEW choice \in Choices \cup {Unset},
           NEW who \in Everybody
    PROVE  [who |-> who, choice |-> EffectiveChoice(def, choice)] \in Entry
<1>1. def.default \in Choices \cup {Unset}
  BY DEF NotificationTypeDef
<1>2. EffectiveChoice(def, choice) \in Choices
  BY <1>1 DEF EffectiveChoice, Choices, Reserved
<1> QED
  BY <1>2 DEF Entry

\* A call goes on with what it has found so far.
LEMMA FoundStep ==
    ASSUME Inv, NEW c \in Calls, NEW phase \in CallPhases \ {"queue", "users"},
           NEW found \in SUBSET Entry,
           calls[c].type \in Types \/ phase = "answered",
           Continues(c, [calls[c] EXCEPT !.phase = phase, !.found = found]),
           UNCHANGED <<recipientVars, people>>
    PROVE  Inv'
<1> DEFINE k == [calls[c] EXCEPT !.phase = phase, !.found = found]
<1>1. calls[c] \in Call
  BY DEF Inv, CallsAreRight
<1>2. k \in Call /\ k.phase = phase /\ k.type = calls[c].type
  BY <1>1, ZenonT(30) DEF Call
<1>3. Continues(c, k)
  OBVIOUS
<1> HIDE DEF k
<1>4. CallsStep
  BY <1>2, <1>3, CallGoes DEF recipientVars
<1> QED
  BY <1>4, NotifyStep DEF recipientVars, Inv, PeopleAreTyped

\* Who hears is asked of the users, of their addresses, of the recipients.
LEMMA AudienceKeeps ==
    ASSUME Inv, NEW c \in Calls,
           \/ \E type \in Types, tenant \in Tenants, firing \in SUBSET Choices :
                  Audience(c, type, tenant, firing)
           \/ AudienceUsers(c) \/ AudienceReach(c) \/ AudienceRecipients(c) \/ EndCall(c)
    PROVE  Inv'
<1> DEFINE def == calls[c].def
           type == calls[c].type
<1>1. /\ calls[c] \in Call /\ CallIsRight(calls[c])
      /\ def \in NotificationTypeDef /\ calls[c].found \in SUBSET Entry
  BY DEF Inv, CallsAreRight, Call
<1>2. CASE \E kind \in Types, tenant \in Tenants, firing \in SUBSET Choices :
             Audience(c, kind, tenant, firing)
  <2>1. PICK kind \in Types, tenant \in Tenants, firing \in SUBSET Choices :
           Audience(c, kind, tenant, firing)
    BY <1>2
  <2> DEFINE published == catalogue[kind]
             k == [NoCall EXCEPT !.phase = "users", !.type = kind, !.tenant = tenant,
                                 !.def = published, !.firing = firing]
  <2>2. published \in NotificationTypeDef /\ "users" \in CallPhases
    BY DEF Inv, Published, CallPhases
  <2>3. Continues(c, k)
    BY <2>1 DEF Audience
  <2> HIDE DEF published
  <2>4. k \in Call /\ k.phase = "users" /\ k.type = kind
    BY <2>2, NoCallIsRight, ZenonT(30) DEF Call
  <2> HIDE DEF k
  <2>5. CallsStep
    BY <2>1, <2>3, <2>4, CallGoes DEF Audience, recipientVars
  <2> QED
    BY <2>1, <2>5, NotifyStep DEF Audience, recipientVars, Inv, PeopleAreTyped
<1>3. CASE AudienceUsers(c)
  <2> DEFINE entry(u) == [who |-> u, choice |-> EffectiveChoice(def, people[u].choices[type])]
             hear == {u \in Users : TenantOf[u] = calls[c].tenant /\ Hears(c, u)}
             found == {entry(u) : u \in hear}
  <2>1. type \in Types
    BY <1>1, <1>3 DEF AudienceUsers, Is, CallIsRight
  <2>2. ASSUME NEW u \in Users PROVE entry(u) \in Entry
    <3>1. people[u].choices[type] \in Choices \cup {Unset}
      BY <2>1 DEF Inv, PeopleAreTyped, Person, ChoiceMaps
    <3> QED
      BY <1>1, <3>1, EntryTyped DEF Everybody
  <2>3. Continues(c, [calls[c] EXCEPT !.phase = "reach", !.found = found])
    BY <1>3 DEF AudienceUsers
  <2> HIDE DEF entry
  <2>4. found \in SUBSET Entry
    BY <2>2
  <2> HIDE DEF found
  <2> QED
    BY <1>3, <2>1, <2>3, <2>4, FoundStep DEF AudienceUsers, CallPhases
<1>4. CASE AudienceReach(c)
  <2> DEFINE found == {e \in calls[c].found : people[e.who].verified}
  <2>1. found \in SUBSET Entry
    BY <1>1
  <2>2. Continues(c, [calls[c] EXCEPT !.phase = "recipients", !.found = found])
    BY <1>4 DEF AudienceReach
  <2> HIDE DEF found
  <2>3. type \in Types
    BY <1>1, <1>4 DEF AudienceReach, Is, CallIsRight
  <2> QED
    BY <1>4, <2>1, <2>2, <2>3, FoundStep DEF AudienceReach, CallPhases
<1>5. CASE AudienceRecipients(c)
  <2> DEFINE entry(n) == [who |-> n, choice |-> EffectiveChoice(def, rows[n].choices[type])]
             hear == {n \in OfTenant(calls[c].tenant) : RecipientHears(c, n)}
             found == calls[c].found \cup {entry(n) : n \in hear}
  <2>1. type \in Types
    BY <1>1, <1>5 DEF AudienceRecipients, Is, CallIsRight
  <2>2. ASSUME NEW n \in Ids PROVE entry(n) \in Entry
    <3>1. rows[n].choices[type] \in Choices \cup {Unset}
      BY <2>1 DEF Inv, RowsAreRight, ExternalRecipient, ChoiceMaps
    <3> QED
      BY <1>1, <3>1, EntryTyped DEF Everybody
  <2>3. Continues(c, [calls[c] EXCEPT !.phase = "answered", !.found = found])
    BY <1>5 DEF AudienceRecipients
  <2>4. hear \subseteq Ids
    BY DEF OfTenant
  <2> HIDE DEF entry, hear
  <2>5. found \in SUBSET Entry
    BY <1>1, <2>2, <2>4
  <2> HIDE DEF found
  <2> QED
    BY <1>5, <2>1, <2>3, <2>5, FoundStep DEF AudienceRecipients, CallPhases
<1>6. CASE EndCall(c)
  BY <1>6, CallEnds, NotifyStep DEF EndCall, recipientVars, Inv, PeopleAreTyped
<1> QED
  BY <1>2, <1>3, <1>4, <1>5, <1>6

\* A message is resolved just before it is queued: to a user, or to a recipient confirmed then.
LEMMA SendingKeeps ==
    ASSUME Inv, NEW c \in Calls,
           \/ \E targets \in (SUBSET Everybody) \ {{}}, type \in Types \cup {Unset},
                 message \in Messages : Send(c, targets, type, message)
           \/ \E x \in Everybody : NextMessage(c, x)
           \/ Queue(c) \/ QueueFails(c)
    PROVE  Inv'
<1>1. calls[c] \in Call /\ CallIsRight(calls[c])
  BY DEF Inv, CallsAreRight
<1>2. ASSUME NEW x, Continues(c, AfterMessage(c, x)), UNCHANGED clicked
      PROVE  CallsStep
  <2> DEFINE left == calls[c].left \ {x}
             k == [calls[c] EXCEPT !.phase = "send", !.left = left, !.next = NoId]
  <2>1. left \in SUBSET Everybody /\ "send" \in CallPhases /\ NoId \in Everybody \cup {NoId}
    BY <1>1 DEF Call, CallPhases
  <2>2. Continues(c, NoCall) \/ Continues(c, k)
    BY <1>2 DEF AfterMessage
  <2> HIDE DEF left
  <2>3. k \in Call /\ k.phase = "send"
    BY <1>1, <2>1, ZenonT(30) DEF Call
  <2> HIDE DEF k
  <2> QED
    BY <1>2, <2>2, <2>3, CallEnds, CallGoes
<1>3. CASE \E targets \in (SUBSET Everybody) \ {{}}, type \in Types \cup {Unset},
              message \in Messages : Send(c, targets, type, message)
  <2>1. PICK targets \in (SUBSET Everybody) \ {{}}, type \in Types \cup {Unset}, message \in Messages :
           Send(c, targets, type, message)
    BY <1>3
  <2> DEFINE k == [NoCall EXCEPT !.phase = "send", !.left = targets]
  <2>2. Continues(c, k)
    BY <2>1 DEF Send
  <2>3. k \in Call /\ k.phase = "send"
    <3>1. "send" \in CallPhases
      BY DEF CallPhases
    <3> QED
      BY <3>1, NoCallIsRight, ZenonT(30) DEF Call
  <2> HIDE DEF k
  <2>4. CallsStep
    BY <2>1, <2>2, <2>3, CallGoes DEF Send, recipientVars
  <2> QED
    BY <2>1, <2>4, NotifyStep DEF Send, recipientVars, Inv, PeopleAreTyped
<1>4. CASE \E x \in Everybody : NextMessage(c, x)
  <2>1. PICK x \in Everybody : NextMessage(c, x)
    BY <1>4
  <2> DEFINE k == [calls[c] EXCEPT !.phase = "queue", !.next = x]
  <2>2. k \in Call /\ k.phase = "queue" /\ k.next = x
    <3>1. "queue" \in CallPhases
      BY DEF CallPhases
    <3> QED
      BY <1>1, <3>1, ZenonT(30) DEF Call
  <2>3. /\ \/ (AddressedUser(x) \/ AddressedRecipient(x)) /\ Continues(c, k)
           \/ Continues(c, AfterMessage(c, x))
        /\ UNCHANGED <<recipientVars, people>>
    BY <2>1 DEF NextMessage
  <2> HIDE DEF k
  <2>4. ASSUME AddressedUser(x) \/ AddressedRecipient(x)
        PROVE  CallIsRight(k)
    <3>1. ASSUME x \in Ids PROVE \E address \in Addresses : Agreed(x, address)
      <4>1. rows[x].confirmed
        BY <2>4, <3>1, OutreachAssumption DEF AddressedUser, AddressedRecipient
      <4>2. Agreed(x, rows[x].address)
        BY <3>1, <4>1 DEF Inv, RowsAreRight, RowIsRight
      <4> QED
        BY <4>2 DEF Agreed, Inv, HistoryIsRight
    <3> QED
      BY <2>2, <3>1 DEF CallIsRight
  <2>5. CallsStep
    BY <1>2, <2>2, <2>3, <2>4, CallWritten DEF recipientVars
  <2> QED
    BY <2>3, <2>5, NotifyStep DEF recipientVars, Inv, PeopleAreTyped
<1>5. CASE Queue(c)
  <2>1. CallsStep
    BY <1>2, <1>5 DEF Queue
  <2>2. HistoryIsRight'
    BY <1>1, <1>5 DEF Queue, Is, CallIsRight, Inv, HistoryIsRight, Agreed
  <2> QED
    BY <1>5, <2>1, <2>2, RowsStay, TasksStay, LinksStay
    DEF Queue, Inv, RowsStep, TasksStep, CallsStep, Published, PeopleAreTyped
<1>6. CASE QueueFails(c)
  BY <1>2, <1>6, NotifyStep DEF QueueFails, recipientVars, Inv, PeopleAreTyped
<1> QED
  BY <1>3, <1>4, <1>5, <1>6

\* Nobody is on file and no link was mailed.
LEMMA InitHolds == ASSUME Init PROVE Inv
<1>1. UnusedLink \in Challenge /\ UnusedLink.state = "unused"
  BY DEF UnusedLink, Challenge
<1>2. Nobody \in Person
  BY DEF Nobody, Person, ChoiceMaps
<1>3. NoCall \in Call /\ CallIsRight(NoCall)
  BY NoCallIsRight DEF CallIsRight
<1> QED
  BY <1>1, <1>2, <1>3, IdleIsRight, NobodyHasAgreed, OutreachAssumption
  DEF Init, RecipientsInit, Inv, RowsAreRight, Addressed, TasksAreRight, LinksAreRight,
      HistoryIsRight, CallsAreRight, Published, PeopleAreTyped

LEMMA StepKeeps == ASSUME Inv, [Next]_vars PROVE Inv'
<1>1. CASE RecipientsNext /\ UNCHANGED notifyVars
  BY <1>1, CreateKeeps, ConfirmationKeeps, RewriteKeeps, RemovalKeeps DEF RecipientsNext
<1>2. CASE UNCHANGED vars
  BY <1>2, RowsStay, TasksStay, RecipientStep DEF vars, recipientVars, notifyVars
<1> QED
  BY <1>1, <1>2, ChoosingKeeps, AudienceKeeps, SendingKeeps DEF Next

(***************************************************************************)
(* Double opt-in: however recipients are rewritten, bounced, removed and   *)
(* put back beside batches in flight, on both backends, a notification is  *)
(* mailed to a recipient only after a link was followed that had been      *)
(* mailed to its address (finish_confirmation, resolve_recipient).         *)
(***************************************************************************)
THEOREM MailIsAgreedTo == Spec => []NoMailUnconfirmed
<1>1. Inv => NoMailUnconfirmed
  BY DEF Inv, RowsAreRight, RowIsRight, HistoryIsRight, NoMailUnconfirmed, Agreed
<1> QED
  BY InitHolds, StepKeeps, <1>1, PTL DEF Spec

-----------------------------------------------------------------------------
(* What PostgreSQL keeps *)

Mailbox(row) == <<row.tenant, row.address>>

\* Besides the property: nobody is between looking an address up and inserting it, and what is about
\* to be put back over a row that is there is the same mailbox.
Kept ==
    /\ gone \subseteq Ids
    /\ store = "postgres" =>
        /\ \A n \in gone : ~rows[n].live
        /\ \A n, m \in Ids :
               rows[n].live /\ rows[m].live /\ Mailbox(rows[n]) = Mailbox(rows[m]) => n = m
        /\ \A t \in Tasks :
               /\ tasks[t].phase # "insert"
               /\ tasks[t].phase = "put" /\ rows[tasks[t].id].live =>
                      Mailbox(tasks[t].copy) = Mailbox(rows[tasks[t].id])

\* No row comes to life and none changes hands.
RowsOnlyGo ==
    \A n \in Ids : rows'[n].live => rows[n].live /\ Mailbox(rows'[n]) = Mailbox(rows[n])

\* A handler comes to put a row only with the row it has read.
PutsWhatItRead ==
    \A t \in Tasks :
        \/ tasks'[t] = tasks[t]
        \/ tasks'[t].phase \notin {"insert", "put"}
        \/ /\ tasks'[t].phase = "put"
           /\ Mailbox(tasks'[t].copy) = Mailbox(rows[tasks'[t].id])

LEMMA QuietlyKept ==
    ASSUME Inv, Kept, Inv', UNCHANGED store, gone' \subseteq Ids,
           store = "postgres" => /\ RowsOnlyGo /\ PutsWhatItRead
                                 /\ \A n \in gone' \ gone : ~rows'[n].live
    PROVE  Kept'
<1> SUFFICES ASSUME store = "postgres"
             PROVE  /\ \A n \in gone' : ~rows'[n].live
                    /\ \A n, m \in Ids :
                           rows'[n].live /\ rows'[m].live /\ Mailbox(rows'[n]) = Mailbox(rows'[m])
                               => n = m
                    /\ \A t \in Tasks :
                           /\ tasks'[t].phase # "insert"
                           /\ tasks'[t].phase = "put" /\ rows'[tasks'[t].id].live =>
                                  Mailbox(tasks'[t].copy) = Mailbox(rows'[tasks'[t].id])
  BY DEF Kept, Mailbox
<1>1. \A n \in gone' : ~rows'[n].live
  BY DEF Kept, RowsOnlyGo
<1>2. \A n, m \in Ids :
         rows'[n].live /\ rows'[m].live /\ Mailbox(rows'[n]) = Mailbox(rows'[m]) => n = m
  BY DEF Kept, RowsOnlyGo
<1>3. ASSUME NEW t \in Tasks
      PROVE  /\ tasks'[t].phase # "insert"
             /\ tasks'[t].phase = "put" /\ rows'[tasks'[t].id].live =>
                    Mailbox(tasks'[t].copy) = Mailbox(rows'[tasks'[t].id])
  <2>1. tasks'[t].phase = "put" => tasks'[t].id \in Ids
    BY DEF Inv, TasksAreRight, TaskIsRight
  <2> QED
    BY <2>1 DEF Kept, RowsOnlyGo, PutsWhatItRead
<1> QED
  BY <1>1, <1>2, <1>3

LEMMA RowsStand == ASSUME UNCHANGED rows PROVE RowsOnlyGo
BY DEF RowsOnlyGo

LEMMA TasksStand == ASSUME UNCHANGED tasks PROVE PutsWhatItRead
BY DEF PutsWhatItRead

\* A handler comes to rest, or begins anything but an insertion or a rewrite.
LEMMA TaskStands ==
    ASSUME Inv, NEW t \in Tasks, NEW k, tasks' = [tasks EXCEPT ![t] = k],
           k.phase \notin {"insert", "put"}
    PROVE  PutsWhatItRead
BY DEF Inv, TasksAreRight, PutsWhatItRead

LEMMA PhaseMade ==
    ASSUME NEW phase, NEW n, NEW row
    PROVE  LET k == [Idle EXCEPT !.phase = phase, !.id = n, !.copy = row] IN
           k.phase = phase /\ k.id = n /\ k.copy = row
BY DEF Idle

LEMMA DropKeeps ==
    ASSUME Inv, NEW n \in Ids, Drop(n)
    PROVE  RowsOnlyGo /\ UNCHANGED store /\ gone' = gone \cup {n} /\ ~rows'[n].live
BY NobodyHasAgreed DEF Drop, RowsOnlyGo, Inv, RowsAreRight

\* A new row has an address nobody else has, and an id no handler holds and nobody ever had.
LEMMA CreationKept ==
    ASSUME Inv, Kept, Inv', NEW t \in Tasks, NEW n \in Ids, NEW tenant \in Tenants,
           NEW address \in Addresses, NEW choices \in ChoiceMaps,
           CreateRecipient(t, n, tenant, address, choices)
    PROVE  Kept'
<1> DEFINE row == NewRecipient(tenant, address, choices)
           k == [Idle EXCEPT !.phase = "mail", !.id = n, !.copy = row]
<1>1. UNCHANGED <<store, gone>>
  BY DEF CreateRecipient
<1> SUFFICES ASSUME store = "postgres" PROVE Kept'
  BY <1>1 DEF Kept
<1>2. rows' = [rows EXCEPT ![n] = row] /\ tasks' = [tasks EXCEPT ![t] = k]
  BY DEF CreateRecipient, AddAtOnce, LookThenAdd
<1>3. /\ n \notin gone
      /\ \A other \in Tasks : tasks[other].id # n
      /\ \A m \in Ids : rows[m].live => Mailbox(rows[m]) # <<tenant, address>>
  BY DEF CreateRecipient, Fresh, AddressIsFree, FindByAddress, Mailbox
<1>4. Mailbox(row) = <<tenant, address>>
  BY DEF NewRecipient, Mailbox
<1>5. k.phase = "mail"
  BY PhaseMade
<1>6. \A m \in Ids : rows'[m] = IF m = n THEN row ELSE rows[m]
  BY <1>2 DEF Inv, RowsAreRight
<1>7. \A other \in Tasks : tasks'[other] = IF other = t THEN k ELSE tasks[other]
  BY <1>2 DEF Inv, TasksAreRight
<1> HIDE DEF row, k
<1>8. \A m \in gone' : ~rows'[m].live
  BY <1>1, <1>3, <1>6 DEF Kept
<1>9. \A m, o \in Ids :
         rows'[m].live /\ rows'[o].live /\ Mailbox(rows'[m]) = Mailbox(rows'[o]) => m = o
  BY <1>3, <1>4, <1>6 DEF Kept
<1>10. ASSUME NEW other \in Tasks
       PROVE  /\ tasks'[other].phase # "insert"
              /\ tasks'[other].phase = "put" /\ rows'[tasks'[other].id].live =>
                     Mailbox(tasks'[other].copy) = Mailbox(rows'[tasks'[other].id])
  <2>1. CASE other = t
    BY <1>5, <1>7, <2>1
  <2>2. CASE other # t
    <3>1. tasks'[other] = tasks[other]
      BY <1>7, <2>2
    <3>2. tasks[other].phase = "put" => rows'[tasks[other].id] = rows[tasks[other].id]
      BY <1>3, <1>6 DEF Inv, TasksAreRight, TaskIsRight
    <3> QED
      BY <3>1, <3>2 DEF Kept
  <2> QED
    BY <2>1, <2>2
<1>11. gone' \subseteq Ids
  BY <1>1 DEF Kept
<1> QED
  BY <1>8, <1>9, <1>10, <1>11 DEF Kept, Mailbox

LEMMA RewriteKept ==
    ASSUME Inv, Kept, Inv', NEW t \in Tasks,
           \/ \E tenant \in Tenants, n \in Ids, choices \in ChoiceMaps :
                  PatchRecipient(t, tenant, n, choices)
           \/ \E n \in Ids, choices \in ChoiceMaps : ManageChoices(t, n, choices)
           \/ PutRecipient(t)
    PROVE  Kept'
<1>1. ASSUME NEW n \in Ids, NEW choices \in ChoiceMaps, rows[n].live, Rewrites(t, n, choices),
             UNCHANGED <<store, rows, gone>>
      PROVE  Kept'
  <2> DEFINE row == [rows[n] EXCEPT !.choices = choices]
             k == [Idle EXCEPT !.phase = "put", !.id = n, !.copy = row]
  <2>1. Mailbox(row) = Mailbox(rows[n])
    BY <1>1, CopyIsRight DEF Mailbox
  <2>2. tasks' = [tasks EXCEPT ![t] = k]
    BY <1>1 DEF Rewrites
  <2> HIDE DEF row
  <2>3. k.phase = "put" /\ k.id = n /\ k.copy = row
    BY PhaseMade
  <2> HIDE DEF k
  <2>4. PutsWhatItRead
    BY <2>1, <2>2, <2>3 DEF Inv, TasksAreRight, PutsWhatItRead
  <2> QED
    BY <1>1, <2>4, RowsStand, QuietlyKept DEF Kept
<1>2. CASE PutRecipient(t)
  <2>1. PutsWhatItRead
    BY <1>2, IdleIsRight, TaskStands DEF PutRecipient
  <2>2. store = "postgres" => RowsOnlyGo
    BY <1>2 DEF PutRecipient, At, PutOverwrites, RowsOnlyGo, Kept, Inv, RowsAreRight
  <2> QED
    BY <1>2, <2>1, <2>2, QuietlyKept DEF PutRecipient, Kept
<1> QED
  BY <1>1, <1>2 DEF PatchRecipient, OwnRecipient, ManageChoices, RecipientForToken

LEMMA RemovalKept ==
    ASSUME Inv, Kept, Inv',
           \/ \E tenant \in Tenants, n \in Ids : DeleteRecipient(tenant, n)
           \/ \E n \in Ids : Unsubscribe(n)
           \/ \E tenant \in Tenants : ClearAtOnce(tenant)
           \/ \E t \in Tasks, tenant \in Tenants : ListTenant(t, tenant)
           \/ \E t \in Tasks, n \in Ids : ClearOne(t, n)
           \/ \E t \in Tasks : StopTask(t)
           \/ \E n \in Ids, address \in Addresses : ReportRecipient(n, address)
    PROVE  Kept'
<1>1. CASE \/ \E tenant \in Tenants, n \in Ids : DeleteRecipient(tenant, n)
           \/ \E n \in Ids : Unsubscribe(n)
  <2>1. PICK n \in Ids : Drop(n) /\ UNCHANGED tasks
    BY <1>1 DEF DeleteRecipient, Unsubscribe
  <2> QED
    BY <2>1, DropKeeps, TasksStand, QuietlyKept DEF Kept
<1>2. CASE \E tenant \in Tenants : ClearAtOnce(tenant)
  <2>1. PICK tenant \in Tenants : ClearAtOnce(tenant)
    BY <1>2
  <2>2. OfTenant(tenant) \subseteq Ids
    BY DEF OfTenant
  <2>3. RowsOnlyGo /\ \A n \in OfTenant(tenant) : ~rows'[n].live
    BY <2>1, <2>2, NobodyHasAgreed DEF ClearAtOnce, RowsOnlyGo
  <2> QED
    BY <2>1, <2>2, <2>3, TasksStand, QuietlyKept DEF ClearAtOnce, Kept
<1>3. CASE \E t \in Tasks, tenant \in Tenants : ListTenant(t, tenant)
  BY <1>3, RowsStand, QuietlyKept DEF ListTenant, Kept
<1>4. CASE \E t \in Tasks, n \in Ids : ClearOne(t, n)
  <2>1. PICK t \in Tasks, n \in Ids : ClearOne(t, n)
    BY <1>4
  <2> DEFINE rest == tasks[t].listed \ {n}
             k == [tasks[t] EXCEPT !.listed = rest]
  <2>2. tasks[t] \in Task /\ tasks[t].phase = "clear"
    BY <2>1 DEF ClearOne, At, Inv, TasksAreRight
  <2>3. tasks' = [tasks EXCEPT ![t] = Idle] \/ tasks' = [tasks EXCEPT ![t] = k]
    BY <2>1 DEF ClearOne
  <2> HIDE DEF rest
  <2>4. k.phase = "clear"
    BY <2>2 DEF Task
  <2> HIDE DEF k
  <2>5. PutsWhatItRead
    BY <2>3, <2>4, IdleIsRight, TaskStands
  <2> QED
    BY <2>1, <2>5, DropKeeps, QuietlyKept DEF ClearOne, Kept
<1>5. CASE \E t \in Tasks : StopTask(t)
  BY <1>5, IdleIsRight, TaskStands, RowsStand, QuietlyKept DEF StopTask, Kept
<1>6. CASE \E n \in Ids, address \in Addresses : ReportRecipient(n, address)
  <2>1. PICK n \in Ids, address \in Addresses : ReportRecipient(n, address)
    BY <1>6
  <2>2. RowsOnlyGo
    <3> DEFINE mark == rows[n].live /\ FALSE
               row == [rows[n] EXCEPT !.confirmed = mark]
    <3>1. rows' = [rows EXCEPT ![n] = row]
      BY <2>1 DEF ReportRecipient, SetConfirmed
    <3> HIDE DEF mark
    <3>2. row.live = rows[n].live /\ Mailbox(row) = Mailbox(rows[n])
      BY DEF Inv, RowsAreRight, ExternalRecipient, Mailbox
    <3> HIDE DEF row
    <3> QED
      BY <3>1, <3>2 DEF RowsOnlyGo, Inv, RowsAreRight
  <2> QED
    BY <2>1, <2>2, TasksStand, QuietlyKept DEF ReportRecipient, Kept
<1> QED
  BY <1>1, <1>2, <1>3, <1>4, <1>5, <1>6

LEMMA ConfirmationKept ==
    ASSUME Inv, Kept, Inv',
           \/ \E t \in Tasks : InsertRecipient(t)
           \/ \E t \in Tasks, tenant \in Tenants, n \in Ids : ResendConfirmation(t, tenant, n)
           \/ \E t \in Tasks, s \in Secrets : SendConfirmation(t, s) \/ ConsumeLink(t, s)
           \/ \E s \in Secrets : LinkExpires(s)
           \/ \E t \in Tasks : MarkConfirmed(t)
    PROVE  Kept'
<1>1. CASE \E t \in Tasks : InsertRecipient(t)
  BY <1>1 DEF InsertRecipient, At, Kept
<1>2. CASE \E t \in Tasks, tenant \in Tenants, n \in Ids : ResendConfirmation(t, tenant, n)
  <2>1. PICK t \in Tasks, tenant \in Tenants, n \in Ids : ResendConfirmation(t, tenant, n)
    BY <1>2
  <2>2. PutsWhatItRead
    <3> DEFINE k == [Idle EXCEPT !.phase = "mail", !.id = n, !.copy = rows[n]]
    <3>1. tasks' = [tasks EXCEPT ![t] = k]
      BY <2>1 DEF ResendConfirmation
    <3>2. k.phase = "mail"
      BY PhaseMade
    <3> HIDE DEF k
    <3> QED
      BY <3>1, <3>2, TaskStands
  <2> QED
    BY <2>1, <2>2, RowsStand, QuietlyKept DEF ResendConfirmation, Kept
<1>3. CASE \E t \in Tasks, s \in Secrets : SendConfirmation(t, s)
  BY <1>3, IdleIsRight, TaskStands, RowsStand, QuietlyKept DEF SendConfirmation, Kept
<1>4. CASE \E t \in Tasks, s \in Secrets : ConsumeLink(t, s)
  <2>1. PICK t \in Tasks, s \in Secrets : ConsumeLink(t, s)
    BY <1>4
  <2> DEFINE k == [Idle EXCEPT !.phase = "mark", !.id = links[s].id,
                               !.copy.address = links[s].address]
  <2>2. k.phase = "mark"
    BY DEF Idle
  <2>3. tasks' = [tasks EXCEPT ![t] = k]
    BY <2>1 DEF ConsumeLink
  <2> HIDE DEF k
  <2>4. PutsWhatItRead
    BY <2>2, <2>3, TaskStands
  <2> QED
    BY <2>1, <2>4, RowsStand, QuietlyKept DEF ConsumeLink, Kept
<1>5. CASE \E s \in Secrets : LinkExpires(s)
  BY <1>5, RowsStand, TasksStand, QuietlyKept DEF LinkExpires, Kept
<1>6. CASE \E t \in Tasks : MarkConfirmed(t)
  <2>1. PICK t \in Tasks : MarkConfirmed(t)
    BY <1>6
  <2>2. RowsOnlyGo
    <3> DEFINE n == tasks[t].id
               mark == rows[n].live /\ TRUE
               row == [rows[n] EXCEPT !.confirmed = mark]
    <3>1. n \in Ids
      BY <2>1 DEF MarkConfirmed, At, Inv, TasksAreRight, TaskIsRight
    <3>2. rows' = [rows EXCEPT ![n] = row] \/ rows' = rows
      BY <2>1 DEF MarkConfirmed, SetConfirmed
    <3> HIDE DEF n, mark
    <3>3. row.live = rows[n].live /\ Mailbox(row) = Mailbox(rows[n])
      BY <3>1 DEF Inv, RowsAreRight, ExternalRecipient, Mailbox
    <3> HIDE DEF row
    <3> QED
      BY <3>1, <3>2, <3>3 DEF RowsOnlyGo, Inv, RowsAreRight
  <2>3. PutsWhatItRead
    BY <2>1, IdleIsRight, TaskStands DEF MarkConfirmed
  <2> QED
    BY <2>1, <2>2, <2>3, QuietlyKept DEF MarkConfirmed, Kept
<1> QED
  BY <1>1, <1>2, <1>3, <1>4, <1>5, <1>6

LEMMA StepKeptToo == ASSUME Inv, Kept, Inv', [Next]_vars PROVE Kept'
<1>1. CASE RecipientsNext
  BY <1>1, CreationKept, ConfirmationKept, RewriteKept, RemovalKept DEF RecipientsNext
<1>2. ASSUME UNCHANGED <<store, rows, tasks, gone>> PROVE Kept'
  BY <1>2 DEF Kept, Mailbox
<1>3. CASE \E c \in Calls : Queue(c)
  BY <1>2, <1>3 DEF Queue
<1>4. CASE \E draft \in Drafts : Publish(draft)
  BY <1>2, <1>4 DEF Publish
<1>5. CASE UNCHANGED vars
  BY <1>2, <1>5 DEF vars, recipientVars
<1>6. CASE UNCHANGED recipientVars
  BY <1>2, <1>6 DEF recipientVars
<1>7. CASE \E c \in Calls :
             \/ \E type \in Types, tenant \in Tenants, firing \in SUBSET Choices :
                    Audience(c, type, tenant, firing)
             \/ AudienceUsers(c) \/ AudienceReach(c) \/ AudienceRecipients(c) \/ EndCall(c)
  BY <1>6, <1>7 DEF Audience, AudienceUsers, AudienceReach, AudienceRecipients, EndCall
<1>8. CASE \E c \in Calls :
             \/ \E targets \in (SUBSET Everybody) \ {{}}, type \in Types \cup {Unset},
                   message \in Messages : Send(c, targets, type, message)
             \/ \E x \in Everybody : NextMessage(c, x)
             \/ QueueFails(c)
             \/ \E u \in Users, type \in Types, choice \in Choices \cup {Unset} :
                    SetChoice(c, u, type, choice)
             \/ PutChoice(c)
  BY <1>6, <1>8 DEF Send, NextMessage, QueueFails, SetChoice, PutChoice
<1>9. CASE \E u \in Users, locked, verified \in BOOLEAN : PersonChanges(u, locked, verified)
  BY <1>6, <1>9 DEF PersonChanges
<1> QED
  BY <1>1, <1>3, <1>4, <1>5, <1>7, <1>8, <1>9 DEF Next

(***************************************************************************)
(* On PostgreSQL a recipient that is gone is not on file again, and no     *)
(* tenant has two recipients of one address, whatever was read before and  *)
(* is written back after: an insert is refused by the unique index, and a  *)
(* whole-row write only ever finds the mailbox it was read from            *)
(* (PostgresRecipientRepository::put_recipient, add_recipient).            *)
(***************************************************************************)
THEOREM PostgresNeverResurrects == Spec => []PostgresKeepsItsRows
<1>1. Init => Kept
  <2>1. ~NoRecipient.live /\ Idle.phase = "idle"
    BY NobodyHasAgreed, IdleIsRight
  <2> SUFFICES ASSUME Init PROVE Kept
    OBVIOUS
  <2>2. /\ \A n \in Ids : ~rows[n].live
        /\ \A t \in Tasks : tasks[t].phase = "idle"
        /\ gone = {}
    BY <2>1 DEF Init, RecipientsInit
  <2> QED
    BY <2>2 DEF Kept
<1>2. Inv /\ Kept => PostgresKeepsItsRows
  BY DEF Kept, PostgresKeepsItsRows, RemovedStaysRemoved, Mailbox
<1>3. Inv /\ Kept /\ [Next]_vars => Inv' /\ Kept'
  BY StepKeeps, StepKeptToo
<1> QED
  BY InitHolds, <1>1, <1>2, <1>3, PTL DEF Spec

-----------------------------------------------------------------------------
(* Catalogues *)

\* In a catalogue that may be published, what somebody may store, and what the type does by default,
\* is delivered by a firing of that rhythm alone, or by the plain firing.
LEMMA ValidIsServed ==
    ASSUME NEW cat \in [Types -> NotificationTypeDef], ValidCatalogue(cat), NEW t \in Types,
           NEW choice \in AllowedChoices(cat[t]) \cup {Unset},
           EffectiveChoice(cat[t], choice) # "off"
    PROVE  \E firing \in Firings(cat[t]) : Delivers(cat[t], choice, firing)
<1> DEFINE def == cat[t]
           effective == EffectiveChoice(def, choice)
<1>1. effective \in AllowedChoices(def)
  <2>1. def.default # Unset => def.default \in AllowedChoices(def)
    BY DEF ValidCatalogue, DefaultIsAccepted, Accepts
  <2> QED
    BY <2>1 DEF EffectiveChoice
<1>2. CASE HasRhythm(def)
  <2>1. effective \in def.cadences
    BY <1>1, <1>2 DEF AllowedChoices
  <2>2. {effective} \in SUBSET def.cadences /\ {effective} # {}
    BY <2>1
  <2>3. {effective} \in Firings(def)
    BY <1>2, <2>2 DEF Firings
  <2>4. Delivers(def, choice, {effective})
    BY <1>2 DEF Delivers
  <2> QED
    BY <2>3, <2>4
<1>3. CASE ~HasRhythm(def)
  <2>1. effective = "on"
    BY <1>1, <1>3 DEF AllowedChoices
  <2>2. {} \in Firings(def) /\ Delivers(def, choice, {})
    BY <1>3, <2>1 DEF Firings, Delivers
  <2> QED
    BY <2>2
<1> QED
  BY <1>2, <1>3

\* Only a publication changes the catalogue.
LEMMA CatalogueStays ==
    ASSUME [Next]_vars
    PROVE  UNCHANGED catalogue \/ \E draft \in Drafts : Publish(draft)
<1>1. ASSUME NEW t \in Tasks,
             \/ \E n \in Ids, tenant \in Tenants, address \in Addresses, choices \in ChoiceMaps :
                    CreateRecipient(t, n, tenant, address, choices)
             \/ InsertRecipient(t)
             \/ \E tenant \in Tenants, n \in Ids : ResendConfirmation(t, tenant, n)
             \/ \E s \in Secrets : SendConfirmation(t, s)
             \/ \E s \in Secrets : ConsumeLink(t, s)
             \/ MarkConfirmed(t)
      PROVE  UNCHANGED catalogue
  BY <1>1 DEF CreateRecipient, InsertRecipient, ResendConfirmation, SendConfirmation, ConsumeLink,
              MarkConfirmed
<1>2. ASSUME NEW t \in Tasks,
             \/ \E tenant \in Tenants, n \in Ids, choices \in ChoiceMaps :
                    PatchRecipient(t, tenant, n, choices)
             \/ \E n \in Ids, choices \in ChoiceMaps : ManageChoices(t, n, choices)
             \/ PutRecipient(t)
             \/ \E tenant \in Tenants : ListTenant(t, tenant)
             \/ \E n \in Ids : ClearOne(t, n)
             \/ StopTask(t)
      PROVE  UNCHANGED catalogue
  BY <1>2 DEF PatchRecipient, ManageChoices, PutRecipient, ListTenant, ClearOne, StopTask, Drop
<1>3. CASE RecipientsNext
  BY <1>1, <1>2, <1>3
  DEF RecipientsNext, LinkExpires, DeleteRecipient, Unsubscribe, ClearAtOnce, ReportRecipient, Drop
<1>4. CASE UNCHANGED recipientVars
  BY <1>4 DEF recipientVars
<1>5. ASSUME NEW c \in Calls,
             \/ \E u \in Users, type \in Types, choice \in Choices \cup {Unset} :
                    SetChoice(c, u, type, choice)
             \/ PutChoice(c)
             \/ \E type \in Types, tenant \in Tenants, firing \in SUBSET Choices :
                    Audience(c, type, tenant, firing)
             \/ AudienceUsers(c) \/ AudienceReach(c) \/ AudienceRecipients(c)
             \/ \E targets \in (SUBSET Everybody) \ {{}}, type \in Types \cup {Unset},
                   message \in Messages : Send(c, targets, type, message)
             \/ \E x \in Everybody : NextMessage(c, x)
             \/ Queue(c) \/ QueueFails(c) \/ EndCall(c)
      PROVE  UNCHANGED catalogue
  BY <1>5 DEF SetChoice, PutChoice, Audience, AudienceUsers, AudienceReach, AudienceRecipients,
              Send, NextMessage, Queue, QueueFails, EndCall, recipientVars
<1>6. CASE \E u \in Users, locked, verified \in BOOLEAN : PersonChanges(u, locked, verified)
  BY <1>6 DEF PersonChanges, recipientVars
<1> QED
  BY <1>3, <1>4, <1>5, <1>6 DEF Next, vars

(***************************************************************************)
(* Whatever catalogues are published, no choice that may be stored for a   *)
(* type, nor its default, waits for a firing nobody can ask about          *)
(* (validate, firing_cadences, delivers).                                  *)
(***************************************************************************)
THEOREM ChoicesAreServed == Spec => []EveryChoiceIsServed
<1>1. Init => ValidCatalogue(catalogue)
  BY DEF Init, RecipientsInit
<1>2. ValidCatalogue(catalogue) /\ [Next]_vars => ValidCatalogue(catalogue)'
  <2>1. ASSUME UNCHANGED catalogue PROVE ValidCatalogue(catalogue) => ValidCatalogue(catalogue)'
    BY <2>1 DEF ValidCatalogue
  <2>2. ASSUME NEW draft \in Drafts, Publish(draft) PROVE ValidCatalogue(catalogue)'
    BY <2>2 DEF Publish
  <2> QED
    BY <2>1, <2>2, CatalogueStays
<1>3. Inv /\ ValidCatalogue(catalogue) => EveryChoiceIsServed
  BY ValidIsServed DEF Inv, Published, EveryChoiceIsServed
<1> QED
  BY InitHolds, StepKeeps, <1>1, <1>2, <1>3, PTL DEF Spec

-----------------------------------------------------------------------------
(* Nobody is named without a reason.                                       *)

\* What a map of choices wants was asked for.
RowsChosen ==
    \A n \in Ids : \A type \in Subscribed(rows[n].choices) :
        <<type, rows[n].choices[type]>> \in chosen[n]

PeopleAsked ==
    \A u \in Users : \A type \in Subscribed(people[u].choices) :
        <<type, people[u].choices[type]>> \in asked[u]

DefaultsKept == \A type \in Types : <<type, catalogue[type].default>> \in defaults

\* Why a call names somebody: the reason NamedByChoice asks for, before the answer is complete.
Named(k, e) ==
    /\ e.who \in Ids =>
           /\ <<k.type, e.choice>> \in chosen[e.who]
           /\ \E address \in Addresses : Agreed(e.who, address)
    /\ e.who \in Users => <<k.type, e.choice>> \in asked[e.who] \cup defaults
    /\ Delivers(k.def, e.choice, k.firing)

CallHasReasons(k) ==
    /\ k.phase \in {"users", "reach", "recipients"} => <<k.type, k.def.default>> \in defaults
    /\ k.phase \in {"reach", "recipients", "answered"} => \A e \in k.found : Named(k, e)

Reasons ==
    /\ chosen \in [Ids -> SUBSET (Types \X Choices)]
    /\ asked \in [Users -> SUBSET (Types \X Choices)]
    /\ RowsChosen /\ PeopleAsked /\ DefaultsKept
    /\ \A c \in Calls : CallHasReasons(calls[c])

\* Every choice that was ever made, default that was published and link that was followed stays so.
ReasonsGrow ==
    /\ clicked \subseteq clicked' /\ defaults \subseteq defaults'
    /\ \A n \in Ids : chosen[n] \subseteq chosen'[n]
    /\ \A u \in Users : asked[u] \subseteq asked'[u]

LEMMA CallsKeepReasons ==
    ASSUME Reasons, ReasonsGrow, UNCHANGED calls
    PROVE  \A c \in Calls : CallHasReasons(calls[c])'
<1> SUFFICES ASSUME NEW c \in Calls PROVE CallHasReasons(calls[c])'
  OBVIOUS
<1> DEFINE k == calls[c]
<1>1. CallHasReasons(k)
  BY DEF Reasons
<1>2. ASSUME NEW e, Named(k, e) PROVE Named(k, e)'
  BY <1>2 DEF Named, ReasonsGrow, Agreed
<1> QED
  BY <1>1, <1>2 DEF CallHasReasons, ReasonsGrow

\* One call goes on, to a record that has its reasons; nothing else that matters here moves.
LEMMA CallWithReasons ==
    ASSUME Reasons, NEW c \in Calls, NEW k, Continues(c, k), CallHasReasons(k),
           calls \in [Calls -> Call],
           UNCHANGED <<rows, catalogue, chosen, clicked, people, asked, defaults>>
    PROVE  Reasons'
<1>1. \A d \in Calls : calls'[d] = IF d = c THEN k ELSE calls[d]
  BY DEF Continues
<1>2. ASSUME NEW x, CallHasReasons(x) PROVE CallHasReasons(x)'
  BY <1>2 DEF CallHasReasons, Named, Agreed
<1>3. \A d \in Calls : CallHasReasons(calls[d])'
  <2> SUFFICES ASSUME NEW d \in Calls PROVE CallHasReasons(calls[d])'
    OBVIOUS
  <2>1. CallHasReasons(IF d = c THEN k ELSE calls[d])
    BY DEF Reasons
  <2> QED
    BY <1>1, <2>1 DEF CallHasReasons, Named, Agreed
<1> QED
  BY <1>3 DEF Reasons, RowsChosen, PeopleAsked, DefaultsKept

LEMMA QuietCall ==
    ASSUME Reasons, NEW c \in Calls, NEW k, Continues(c, k),
           k.phase \notin {"users", "reach", "recipients", "answered"},
           calls \in [Calls -> Call],
           UNCHANGED <<rows, catalogue, chosen, clicked, people, asked, defaults>>
    PROVE  Reasons'
<1>1. CallHasReasons(k)
  BY DEF CallHasReasons
<1> QED
  BY <1>1, CallWithReasons

-----------------------------------------------------------------------------
(* The rows: what is written was chosen.                                   *)

\* Made records every choice of the row, and forgets none.
LEMMA MadeRecords ==
    ASSUME Reasons, NEW n \in Ids, NEW choices \in ChoiceMaps, chosen' = Made(n, choices)
    PROVE  /\ chosen' \in [Ids -> SUBSET (Types \X Choices)]
           /\ \A m \in Ids : chosen[m] \subseteq chosen'[m]
           /\ \A type \in Subscribed(choices) : <<type, choices[type]>> \in chosen'[n]
<1> DEFINE made == {<<type, choices[type]>> : type \in Subscribed(choices)}
<1>1. made \subseteq Types \X Choices
  BY DEF Subscribed, ChoiceMaps
<1>2. chosen \in [Ids -> SUBSET (Types \X Choices)] /\ chosen' = [chosen EXCEPT ![n] = @ \cup made]
  BY DEF Reasons, Made
<1>3. \A type \in Subscribed(choices) : <<type, choices[type]>> \in made
  OBVIOUS
<1> HIDE DEF made
<1> QED
  BY <1>1, <1>2, <1>3

\* A step of the recipients' handlers, told by what it does to rows, choices and clicks.
RowsHaveReasons ==
    /\ chosen' \in [Ids -> SUBSET (Types \X Choices)]
    /\ RowsChosen'
    /\ \A n \in Ids : chosen[n] \subseteq chosen'[n]
    /\ clicked \subseteq clicked'

LEMMA RowsQuiet ==
    ASSUME Reasons, UNCHANGED <<rows, chosen>>, clicked \subseteq clicked'
    PROVE  RowsHaveReasons
BY DEF Reasons, RowsHaveReasons, RowsChosen

LEMMA RowChosen ==
    ASSUME Inv, Reasons, NEW n \in Ids, NEW row, rows' = [rows EXCEPT ![n] = row],
           chosen' \in [Ids -> SUBSET (Types \X Choices)], UNCHANGED clicked,
           \A m \in Ids : chosen[m] \subseteq chosen'[m],
           \A type \in Subscribed(row.choices) : <<type, row.choices[type]>> \in chosen'[n]
    PROVE  RowsHaveReasons
<1>1. \A m \in Ids : rows'[m] = IF m = n THEN row ELSE rows[m]
  BY DEF Inv, RowsAreRight
<1> QED
  BY <1>1 DEF Reasons, RowsHaveReasons, RowsChosen

\* A row that goes wants nothing.
LEMMA NothingWanted == Subscribed(NoRecipient.choices) = {}
BY DEF Subscribed, NoRecipient

LEMMA RowDropped ==
    ASSUME Inv, Reasons, NEW n \in Ids, rows' = [rows EXCEPT ![n] = NoRecipient],
           UNCHANGED <<chosen, clicked>>
    PROVE  RowsHaveReasons
BY RowChosen, NothingWanted DEF Reasons

\* A mark moves no choice.
LEMMA RowMarked ==
    ASSUME Inv, Reasons, NEW n \in Ids, NEW value, rows' = SetConfirmed(n, value),
           UNCHANGED <<chosen, clicked>>
    PROVE  RowsHaveReasons
<1> DEFINE mark == rows[n].live /\ value
           row == [rows[n] EXCEPT !.confirmed = mark]
<1>1. row.choices = rows[n].choices
  <2> HIDE DEF mark
  <2> QED
    BY DEF Inv, RowsAreRight, ExternalRecipient
<1>2. rows' = [rows EXCEPT ![n] = row]
  BY DEF SetConfirmed
<1> HIDE DEF row
<1>3. \A type \in Subscribed(row.choices) : <<type, row.choices[type]>> \in chosen[n]
  BY <1>1 DEF Reasons, RowsChosen
<1> QED
  BY <1>2, <1>3, RowChosen DEF Reasons

LEMMA HandlersHaveReasons ==
    ASSUME Inv, Reasons, RecipientsNext
    PROVE  RowsHaveReasons /\ UNCHANGED catalogue
<1>1. ASSUME NEW t \in Tasks,
             \/ \E tenant \in Tenants, n \in Ids : ResendConfirmation(t, tenant, n)
             \/ \E s \in Secrets : SendConfirmation(t, s)
             \/ \E s \in Secrets : ConsumeLink(t, s)
             \/ \E tenant \in Tenants, n \in Ids, choices \in ChoiceMaps :
                    PatchRecipient(t, tenant, n, choices)
             \/ \E n \in Ids, choices \in ChoiceMaps : ManageChoices(t, n, choices)
             \/ \E tenant \in Tenants : ListTenant(t, tenant)
             \/ StopTask(t)
      PROVE  RowsHaveReasons /\ UNCHANGED catalogue
  <2>1. UNCHANGED <<rows, chosen, catalogue>> /\ clicked \subseteq clicked'
    BY <1>1 DEF ResendConfirmation, SendConfirmation, ConsumeLink, PatchRecipient, ManageChoices,
                ListTenant, StopTask
  <2> QED
    BY <2>1, RowsQuiet
<1>2. ASSUME NEW t \in Tasks, NEW n \in Ids, NEW tenant \in Tenants, NEW address \in Addresses,
             NEW choices \in ChoiceMaps, CreateRecipient(t, n, tenant, address, choices)
      PROVE  RowsHaveReasons /\ UNCHANGED catalogue
  <2> DEFINE row == NewRecipient(tenant, address, choices)
  <2>1. row.choices = choices
    BY DEF NewRecipient
  <2>2. /\ AddAtOnce(t, n, row) \/ LookThenAdd(t, n, row)
        /\ UNCHANGED <<catalogue, clicked>>
    BY <1>2 DEF CreateRecipient
  <2> HIDE DEF row
  <2>3. CASE AddAtOnce(t, n, row)
    <3>1. rows' = [rows EXCEPT ![n] = row] /\ chosen' = Made(n, choices)
      BY <2>1, <2>3 DEF AddAtOnce
    <3> QED
      BY <2>1, <2>2, <3>1, MadeRecords, RowChosen
  <2>4. CASE LookThenAdd(t, n, row)
    BY <2>2, <2>4, RowsQuiet DEF LookThenAdd
  <2> QED
    BY <2>2, <2>3, <2>4
<1>3. ASSUME NEW t \in Tasks, InsertRecipient(t) \/ PutRecipient(t)
      PROVE  RowsHaveReasons /\ UNCHANGED catalogue
  <2> DEFINE n == tasks[t].id
             row == tasks[t].copy
  <2>1. n \in Ids /\ row \in ExternalRecipient
    BY <1>3 DEF InsertRecipient, PutRecipient, At, Inv, TasksAreRight, TaskIsRight, Task
  <2>2. row.choices \in ChoiceMaps
    BY <2>1 DEF ExternalRecipient
  <2>3. /\ rows' = [rows EXCEPT ![n] = row] \/ rows' = rows
        /\ chosen' = Made(n, row.choices) /\ UNCHANGED <<catalogue, clicked>>
    BY <1>3 DEF InsertRecipient, PutRecipient
  <2> HIDE DEF n, row
  <2>4. /\ chosen' \in [Ids -> SUBSET (Types \X Choices)]
        /\ \A m \in Ids : chosen[m] \subseteq chosen'[m]
        /\ \A type \in Subscribed(row.choices) : <<type, row.choices[type]>> \in chosen'[n]
    BY <2>1, <2>2, <2>3, MadeRecords
  <2>5. CASE rows' = [rows EXCEPT ![n] = row]
    BY <2>1, <2>3, <2>4, <2>5, RowChosen
  <2>6. CASE rows' = rows
    BY <2>3, <2>4, <2>6 DEF RowsHaveReasons, RowsChosen, Reasons
  <2> QED
    BY <2>3, <2>5, <2>6
<1>4. ASSUME NEW t \in Tasks, MarkConfirmed(t) PROVE RowsHaveReasons /\ UNCHANGED catalogue
  <2>1. /\ tasks[t].id \in Ids
        /\ rows' = SetConfirmed(tasks[t].id, TRUE) \/ rows' = rows
        /\ UNCHANGED <<catalogue, chosen, clicked>>
    BY <1>4 DEF MarkConfirmed, At, Inv, TasksAreRight, TaskIsRight
  <2> QED
    BY <2>1, RowMarked, RowsQuiet
<1>5. ASSUME NEW n \in Ids, Drop(n) PROVE RowsHaveReasons /\ UNCHANGED catalogue
  BY <1>5, RowDropped DEF Drop
<1>6. ASSUME NEW tenant \in Tenants, ClearAtOnce(tenant)
      PROVE  RowsHaveReasons /\ UNCHANGED catalogue
  <2>1. /\ \A n \in Ids : rows'[n] = NoRecipient \/ rows'[n] = rows[n]
        /\ UNCHANGED <<catalogue, chosen, clicked>>
    BY <1>6 DEF ClearAtOnce
  <2> QED
    BY <2>1, NothingWanted DEF RowsHaveReasons, RowsChosen, Reasons
<1>7. ASSUME NEW n \in Ids, NEW address \in Addresses, ReportRecipient(n, address)
      PROVE  RowsHaveReasons /\ UNCHANGED catalogue
  BY <1>7, RowMarked DEF ReportRecipient
<1>8. ASSUME NEW s \in Secrets, LinkExpires(s) PROVE RowsHaveReasons /\ UNCHANGED catalogue
  BY <1>8, RowsQuiet DEF LinkExpires
<1> QED
  BY <1>1, <1>2, <1>3, <1>4, <1>5, <1>6, <1>7, <1>8
  DEF RecipientsNext, ClearOne, DeleteRecipient, Unsubscribe

-----------------------------------------------------------------------------
(* The calls: who hears has asked.                                         *)

\* What is delivered is neither nothing nor the absence of a choice, and is delivered as such.
LEMMA DeliveredChoice ==
    ASSUME NEW def, NEW choice, NEW firing, Delivers(def, choice, firing)
    PROVE  LET effective == EffectiveChoice(def, choice) IN
           /\ effective # "off" /\ Delivers(def, effective, firing)
           /\ \/ choice \notin {Unset, "off"} /\ effective = choice
              \/ choice = Unset /\ effective = def.default
<1> DEFINE effective == EffectiveChoice(def, choice)
<1>1. "off" # Unset
  BY OutreachAssumption DEF Choices, Reserved
<1>2. effective # "off" /\ effective # Unset
  <2>1. effective # "off"
    BY DEF Delivers
  <2>2. effective # Unset
    BY <1>1 DEF EffectiveChoice
  <2> QED
    BY <2>1, <2>2
<1>3. EffectiveChoice(def, effective) = effective
  BY <1>2 DEF EffectiveChoice
<1>4. \/ choice \notin {Unset, "off"} /\ effective = choice
      \/ choice = Unset /\ effective = def.default
  BY <1>2 DEF EffectiveChoice
<1> QED
  BY <1>2, <1>3, <1>4 DEF Delivers

LEMMA AudienceHasReasons ==
    ASSUME Inv, Reasons, NEW c \in Calls,
           \/ \E type \in Types, tenant \in Tenants, firing \in SUBSET Choices :
                  Audience(c, type, tenant, firing)
           \/ AudienceUsers(c) \/ AudienceReach(c) \/ AudienceRecipients(c)
    PROVE  Reasons'
<1> DEFINE r == calls[c]
           def == r.def
           type == r.type
<1>1. /\ calls \in [Calls -> Call] /\ r \in Call /\ CallIsRight(r) /\ CallHasReasons(r)
      /\ r.found \subseteq Entry
  BY DEF Inv, CallsAreRight, Reasons, Call
<1>2. CASE \E kind \in Types, tenant \in Tenants, firing \in SUBSET Choices :
             Audience(c, kind, tenant, firing)
  <2>1. PICK kind \in Types, tenant \in Tenants, firing \in SUBSET Choices :
           Audience(c, kind, tenant, firing)
    BY <1>2
  <2> DEFINE published == catalogue[kind]
             k == [NoCall EXCEPT !.phase = "users", !.type = kind, !.tenant = tenant,
                                 !.def = published, !.firing = firing]
  <2>2. Continues(c, k)
        /\ UNCHANGED <<rows, catalogue, chosen, clicked, people, asked, defaults>>
    BY <2>1 DEF Audience, recipientVars
  <2>3. <<kind, published.default>> \in defaults
    BY DEF Reasons, DefaultsKept
  <2> HIDE DEF published
  <2>4. k.phase = "users" /\ k.type = kind /\ k.def = published
    BY DEF NoCall
  <2> HIDE DEF k
  <2>5. CallHasReasons(k)
    BY <2>3, <2>4 DEF CallHasReasons
  <2> QED
    BY <1>1, <2>2, <2>5, CallWithReasons
<1>3. ASSUME NEW phase \in {"reach", "recipients", "answered"}, NEW found,
             Continues(c, [r EXCEPT !.phase = phase, !.found = found]),
             <<type, def.default>> \in defaults,
             \A e \in found : Named(r, e),
             UNCHANGED <<recipientVars, people, defaults, asked>>
      PROVE  Reasons'
  <2> DEFINE k == [r EXCEPT !.phase = phase, !.found = found]
  <2>1. /\ k.phase = phase /\ k.type = type /\ k.def = def /\ k.firing = r.firing
        /\ k.found = found
    BY <1>1 DEF Call
  <2>2. Continues(c, k)
    BY <1>3
  <2> HIDE DEF k
  <2>3. CallHasReasons(k)
    BY <1>3, <2>1 DEF CallHasReasons, Named
  <2> QED
    BY <1>1, <1>3, <2>2, <2>3, CallWithReasons DEF recipientVars
<1>4. CASE AudienceUsers(c)
  <2> DEFINE entry(u) == [who |-> u, choice |-> EffectiveChoice(def, people[u].choices[type])]
             hear == {u \in Users : TenantOf[u] = r.tenant /\ Hears(c, u)}
             found == {entry(u) : u \in hear}
  <2>1. type \in Types /\ <<type, def.default>> \in defaults
    BY <1>1, <1>4 DEF AudienceUsers, Is, CallIsRight, CallHasReasons
  <2>2. ASSUME NEW u \in hear PROVE Named(r, entry(u))
    <3> DEFINE choice == people[u].choices[type]
               effective == EffectiveChoice(def, choice)
               e == entry(u)
    <3>1. u \in Users /\ Delivers(def, choice, r.firing)
      BY DEF Hears
    <3>2. /\ Delivers(def, effective, r.firing)
          /\ \/ choice \notin {Unset, "off"} /\ effective = choice
             \/ choice = Unset /\ effective = def.default
      BY <3>1, DeliveredChoice
    <3>3. choice \notin {Unset, "off"} => <<type, choice>> \in asked[u]
      BY <2>1, <3>1 DEF Reasons, PeopleAsked, Subscribed
    <3>4. e.who = u /\ e.choice = effective /\ u \notin Ids
      BY <3>1, OutreachAssumption
    <3> HIDE DEF choice, effective, e, entry
    <3>5. Named(r, e)
      BY <2>1, <3>1, <3>2, <3>3, <3>4 DEF Named
    <3> QED
      BY <3>5 DEF e
  <2>3. /\ Continues(c, [r EXCEPT !.phase = "reach", !.found = found])
        /\ UNCHANGED <<recipientVars, people, defaults, asked>>
    BY <1>4 DEF AudienceUsers
  <2>4. \A e \in found : Named(r, e)
    <3> HIDE DEF entry, hear
    <3> QED
      BY <2>2
  <2> HIDE DEF found
  <2> QED
    BY <1>3, <2>1, <2>3, <2>4
<1>5. CASE AudienceReach(c)
  <2> DEFINE found == {e \in r.found : people[e.who].verified}
  <2>1. <<type, def.default>> \in defaults /\ \A e \in r.found : Named(r, e)
    BY <1>1, <1>5 DEF AudienceReach, Is, CallHasReasons
  <2>2. /\ Continues(c, [r EXCEPT !.phase = "recipients", !.found = found])
        /\ UNCHANGED <<recipientVars, people, defaults, asked>>
    BY <1>5 DEF AudienceReach
  <2> QED
    BY <1>3, <2>1, <2>2
<1>6. CASE AudienceRecipients(c)
  <2> DEFINE entry(n) == [who |-> n, choice |-> EffectiveChoice(def, rows[n].choices[type])]
             hear == {n \in OfTenant(r.tenant) : RecipientHears(c, n)}
             found == r.found \cup {entry(n) : n \in hear}
  <2>1. /\ type \in Types /\ <<type, def.default>> \in defaults
        /\ \A e \in r.found : Named(r, e)
    BY <1>1, <1>6 DEF AudienceRecipients, Is, CallIsRight, CallHasReasons
  <2>2. ASSUME NEW n \in hear PROVE Named(r, entry(n))
    <3> DEFINE choice == rows[n].choices[type]
               effective == EffectiveChoice(def, choice)
               e == entry(n)
    <3>1. n \in Ids /\ rows[n].confirmed /\ Delivers(def, RecipientChoice(choice), r.firing)
      BY DEF RecipientHears, OfTenant
    <3>2. choice \notin {Unset, "off"} /\ RecipientChoice(choice) = choice
      BY <3>1, OutreachAssumption DEF RecipientChoice, Delivers, EffectiveChoice, Choices, Reserved
    <3>3. Delivers(def, effective, r.firing) /\ effective = choice
      BY <3>1, <3>2, DeliveredChoice
    <3>4. <<type, choice>> \in chosen[n]
      BY <2>1, <3>1, <3>2 DEF Reasons, RowsChosen, Subscribed
    <3>5. \E address \in Addresses : Agreed(n, address)
      BY <3>1 DEF Inv, RowsAreRight, RowIsRight, HistoryIsRight, Agreed
    <3>6. e.who = n /\ e.choice = effective /\ n \notin Users
      BY <3>1, OutreachAssumption
    <3> HIDE DEF choice, effective, e, entry
    <3>7. Named(r, e)
      BY <3>1, <3>3, <3>4, <3>5, <3>6 DEF Named
    <3> QED
      BY <3>7 DEF e
  <2>3. /\ Continues(c, [r EXCEPT !.phase = "answered", !.found = found])
        /\ UNCHANGED <<recipientVars, people, defaults, asked>>
    BY <1>6 DEF AudienceRecipients
  <2>4. \A e \in found : Named(r, e)
    <3> HIDE DEF entry, hear
    <3> QED
      BY <2>1, <2>2
  <2> HIDE DEF found
  <2> QED
    BY <1>3, <2>1, <2>3, <2>4
<1> QED
  BY <1>2, <1>4, <1>5, <1>6

\* A user's choices are written back whole, and each of them is one it has made.
LEMMA PutChoiceHasReasons ==
    ASSUME Inv, Reasons, NEW c \in Calls, PutChoice(c)
    PROVE  Reasons'
<1> DEFINE u == calls[c].user
           verified == people[u].verified
           written == [calls[c].copy EXCEPT !.verified = verified]
           made == {<<type, written.choices[type]>> : type \in Subscribed(written.choices)}
<1>1. /\ people' = [people EXCEPT ![u] = written]
      /\ asked' = [asked EXCEPT ![u] = @ \cup made]
      /\ Continues(c, NoCall)
      /\ UNCHANGED <<recipientVars, defaults>>
  BY DEF PutChoice
<1>2. /\ asked \in [Users -> SUBSET (Types \X Choices)] /\ people \in [Users -> Person]
      /\ calls \in [Calls -> Call] /\ calls[c].copy \in Person
  BY DEF Inv, PeopleAreTyped, CallsAreRight, Reasons, Call
<1>3. written.choices = calls[c].copy.choices /\ written.choices \in ChoiceMaps
  <2> HIDE DEF verified
  <2> QED
    BY <1>2 DEF Person
<1> HIDE DEF written
<1>4. made \subseteq Types \X Choices
  BY <1>3 DEF Subscribed, ChoiceMaps
<1>5. \A type \in Subscribed(written.choices) : <<type, written.choices[type]>> \in made
  OBVIOUS
<1> HIDE DEF made, u
<1>7. /\ asked' \in [Users -> SUBSET (Types \X Choices)]
      /\ \A v \in Users : asked[v] \subseteq asked'[v]
      /\ u \in Users => made \subseteq asked'[u]
  BY <1>1, <1>2, <1>4
<1>8. PeopleAsked'
  <2>1. \A v \in Users : people'[v] = IF v = u THEN written ELSE people[v]
    BY <1>1, <1>2
  <2> QED
    BY <1>5, <1>7, <2>1 DEF Reasons, PeopleAsked
<1>9. ReasonsGrow
  BY <1>1, <1>7 DEF ReasonsGrow, recipientVars
<1>10. \A d \in Calls : calls'[d] = IF d = c THEN NoCall ELSE calls[d]
  BY <1>1, <1>2 DEF Continues
<1>11. ASSUME NEW d \in Calls PROVE CallHasReasons(calls[d])'
  <2>1. CASE d = c
    BY <1>10, <2>1 DEF CallHasReasons, NoCall
  <2>2. CASE d # c
    <3>1. CallHasReasons(calls[d]) /\ calls'[d] = calls[d]
      BY <1>10, <2>2 DEF Reasons
    <3>2. ASSUME NEW e, Named(calls[d], e)
          PROVE  Named(calls[d], e)'
      BY <1>9, <3>1, <3>2 DEF Named, ReasonsGrow, Agreed
    <3> QED
      BY <1>9, <3>1, <3>2 DEF CallHasReasons, ReasonsGrow
  <2> QED
    BY <2>1, <2>2
<1> QED
  BY <1>1, <1>7, <1>8, <1>11 DEF Reasons, RowsChosen, DefaultsKept, recipientVars

LEMMA ReasonsStep == ASSUME Inv, Reasons, [Next]_vars PROVE Reasons'
<1>1. CASE RecipientsNext /\ UNCHANGED notifyVars
  <2>1. RowsHaveReasons /\ UNCHANGED <<catalogue, people, calls, defaults, asked>>
    BY <1>1, HandlersHaveReasons DEF notifyVars
  <2>2. ReasonsGrow
    BY <2>1 DEF RowsHaveReasons, ReasonsGrow
  <2>3. \A c \in Calls : CallHasReasons(calls[c])'
    BY <2>1, <2>2, CallsKeepReasons
  <2> QED
    BY <2>1, <2>3 DEF Reasons, RowsHaveReasons, PeopleAsked, DefaultsKept
<1>2. CASE UNCHANGED vars
  <2>1. /\ UNCHANGED <<rows, catalogue, chosen, clicked, people, asked, defaults>>
        /\ UNCHANGED calls
    BY <1>2 DEF vars, recipientVars, notifyVars
  <2>2. \A c \in Calls : CallHasReasons(calls[c])'
    BY <2>1, CallsKeepReasons DEF ReasonsGrow
  <2> QED
    BY <2>1, <2>2 DEF Reasons, RowsChosen, PeopleAsked, DefaultsKept
<1>3. ASSUME NEW draft \in Drafts, Publish(draft) PROVE Reasons'
  <2>1. /\ catalogue' = draft
        /\ defaults' = defaults \cup {<<t, draft[t].default>> : t \in Types}
        /\ UNCHANGED <<rows, chosen, clicked, people, asked>> /\ UNCHANGED calls
    BY <1>3 DEF Publish
  <2>2. \A c \in Calls : CallHasReasons(calls[c])'
    BY <2>1, CallsKeepReasons DEF ReasonsGrow
  <2>3. DefaultsKept'
    BY <2>1 DEF DefaultsKept
  <2> QED
    BY <2>1, <2>2, <2>3 DEF Reasons, RowsChosen, PeopleAsked
<1>4. ASSUME NEW u \in Users, NEW locked \in BOOLEAN, NEW verified \in BOOLEAN,
             PersonChanges(u, locked, verified)
      PROVE  Reasons'
  <2> DEFINE person == [people[u] EXCEPT !.locked = locked, !.verified = verified]
  <2>1. people \in [Users -> Person] /\ people[u] \in Person
    BY DEF Inv, PeopleAreTyped
  <2>2. person.choices = people[u].choices
    BY <2>1 DEF Person
  <2>3. people' = [people EXCEPT ![u] = person]
        /\ UNCHANGED <<rows, catalogue, chosen, clicked, asked, defaults>> /\ UNCHANGED calls
    BY <1>4 DEF PersonChanges, recipientVars
  <2> HIDE DEF person
  <2>4. \A v \in Users : people'[v].choices = people[v].choices
    BY <2>1, <2>2, <2>3
  <2>5. \A c \in Calls : CallHasReasons(calls[c])'
    BY <2>3, CallsKeepReasons DEF ReasonsGrow
  <2> QED
    BY <2>3, <2>4, <2>5 DEF Reasons, RowsChosen, PeopleAsked, DefaultsKept
<1>5. ASSUME NEW c \in Calls,
             \/ \E u \in Users, type \in Types, choice \in Choices \cup {Unset} :
                    SetChoice(c, u, type, choice)
             \/ \E targets \in (SUBSET Everybody) \ {{}}, type \in Types \cup {Unset},
                   message \in Messages : Send(c, targets, type, message)
             \/ \E x \in Everybody : NextMessage(c, x)
             \/ Queue(c) \/ QueueFails(c) \/ EndCall(c)
      PROVE  Reasons'
  <2>1. calls \in [Calls -> Call] /\ calls[c] \in Call
    BY DEF Inv, CallsAreRight
  <2>2. ASSUME NEW x, Continues(c, AfterMessage(c, x))
        PROVE  \E k : Continues(c, k) /\ k.phase \in {"idle", "send"}
    <3>1. NoCall.phase = "idle"
      BY DEF NoCall
    <3> DEFINE left == calls[c].left \ {x}
               k == [calls[c] EXCEPT !.phase = "send", !.left = left, !.next = NoId]
    <3>2. k.phase = "send"
      <4> HIDE DEF left
      <4> QED
        BY <2>1 DEF Call
    <3>3. Continues(c, NoCall) \/ Continues(c, k)
      BY <2>2 DEF AfterMessage
    <3> HIDE DEF k
    <3> QED
      BY <3>1, <3>2, <3>3
  <2>3. \E k : Continues(c, k) /\ k.phase \in {"idle", "choose", "send", "queue"}
    <3>1. ASSUME NEW u, NEW type, NEW choice, SetChoice(c, u, type, choice)
          PROVE  \E k : Continues(c, k) /\ k.phase = "choose"
      <4> DEFINE copy == [people[u] EXCEPT !.choices[type] = choice]
                 k == [NoCall EXCEPT !.phase = "choose", !.user = u, !.type = type, !.copy = copy]
      <4>1. Continues(c, k)
        BY <3>1 DEF SetChoice
      <4> HIDE DEF copy
      <4>2. k.phase = "choose"
        BY DEF NoCall
      <4> QED
        BY <4>1, <4>2
    <3>2. ASSUME NEW targets, NEW type, NEW message, Send(c, targets, type, message)
          PROVE  \E k : Continues(c, k) /\ k.phase = "send"
      <4> DEFINE k == [NoCall EXCEPT !.phase = "send", !.left = targets]
      <4>1. Continues(c, k)
        BY <3>2 DEF Send
      <4>2. k.phase = "send"
        BY DEF NoCall
      <4> QED
        BY <4>1, <4>2
    <3>3. ASSUME NEW x, NextMessage(c, x)
          PROVE  \E k : Continues(c, k) /\ k.phase \in {"idle", "send", "queue"}
      <4> DEFINE k == [calls[c] EXCEPT !.phase = "queue", !.next = x]
      <4>1. Continues(c, k) \/ Continues(c, AfterMessage(c, x))
        BY <3>3 DEF NextMessage
      <4>2. k.phase = "queue"
        BY <2>1 DEF Call
      <4> HIDE DEF k
      <4> QED
        BY <2>2, <4>1, <4>2
    <3>4. CASE Queue(c) \/ QueueFails(c)
      BY <2>2, <3>4 DEF Queue, QueueFails
    <3>5. CASE EndCall(c)
      BY <3>5 DEF EndCall, NoCall
    <3> QED
      BY <1>5, <3>1, <3>2, <3>3, <3>4, <3>5
  <2>4. UNCHANGED <<rows, catalogue, chosen, clicked, people, asked, defaults>>
    BY <1>5 DEF SetChoice, Send, NextMessage, Queue, QueueFails, EndCall, recipientVars
  <2> QED
    BY <2>1, <2>3, <2>4, QuietCall
<1>6. ASSUME NEW c \in Calls, PutChoice(c) PROVE Reasons'
  BY <1>6, PutChoiceHasReasons
<1> QED
  BY <1>1, <1>2, <1>3, <1>4, <1>5, <1>6, AudienceHasReasons DEF Next

(***************************************************************************)
(* Whoever is named to an app has asked for it, or hears a default that    *)
(* was published: an external recipient is named for a choice made for it  *)
(* after it agreed, whatever rows, catalogues and choices change while the *)
(* audience is put together (audience_users, audience_recipients).         *)
(***************************************************************************)
THEOREM NobodyIsNamedUnasked == Spec => []NamedByChoice
<1>1. Init => Reasons
  <2> SUFFICES ASSUME Init PROVE Reasons
    OBVIOUS
  <2>1. Subscribed(Nobody.choices) = {}
    BY DEF Subscribed, Nobody
  <2> QED
    BY <2>1, NothingWanted
    DEF Init, RecipientsInit, Reasons, RowsChosen, PeopleAsked, DefaultsKept, CallHasReasons, NoCall
<1>2. Reasons => NamedByChoice
  BY DEF Reasons, CallHasReasons, Named, Agreed, NamedByChoice, Is
<1> QED
  BY InitHolds, StepKeeps, ReasonsStep, <1>1, <1>2, PTL DEF Spec
=============================================================================
