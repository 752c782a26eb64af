----------------------------- MODULE Recipients -----------------------------
(***************************************************************************)
(* The external recipients of a tenant (recipients/service.rs and its two  *)
(* repositories): mailboxes without an account that an administrator signs *)
(* up, that confirm by following a mailed link, and that change or remove  *)
(* themselves through the management link every later mail carries.  A     *)
(* handler is one step per store call; `store' says which backend runs.    *)
(***************************************************************************)
EXTENDS Catalogue, Naturals, FiniteSets

CONSTANTS
    Granted,     \* the features of each tenant
    Addresses,
    Ids,         \* generated recipient ids, never used twice
    Secrets,     \* what confirmation links carry
    Tasks,       \* handlers in flight
    Drafts,      \* the catalogues somebody tries to publish
    Workloads,   \* the sets of requests a behaviour may be about
    NoId, NoSecret, NoTenant, NoAddress

VARIABLES
    store,       \* the backend
    load,        \* the requests of this behaviour
    catalogue,   \* the published notification types
    rows,        \* the recipients table
    links,       \* the confirmation challenges
    tasks,       \* the handlers
    clicked,     \* history: the recipients that have followed a link, and where it was mailed
    reached,     \* history: whom a notification mail was queued for
    gone,        \* history: the recipients that were deleted
    chosen       \* history: the choices somebody has made for a recipient

recipientVars == <<store, load, catalogue, rows, links, tasks, clicked, reached, gone, chosen>>

Stores == {"postgres", "dynamodb"}

ChoiceMaps == [Types -> Choices \cup {Unset}]

ExternalRecipient ==
    [ live : BOOLEAN, tenant : Tenants \cup {NoTenant}, address : Addresses \cup {NoAddress},
      confirmed : BOOLEAN, choices : ChoiceMaps ]

NoRecipient ==
    [ live |-> FALSE, tenant |-> NoTenant, address |-> NoAddress,
      confirmed |-> FALSE, choices |-> [t \in Types |-> Unset] ]

Challenge ==
    [state : {"unused", "live", "spent"}, id : Ids \cup {NoId}, address : Addresses \cup {NoAddress}]

UnusedLink == [state |-> "unused", id |-> NoId, address |-> NoAddress]

Phases == {"idle", "insert", "mail", "put", "mark", "clear"}

Task ==
    [ phase : Phases, id : Ids \cup {NoId}, copy : ExternalRecipient, listed : SUBSET Ids ]

Idle == [phase |-> "idle", id |-> NoId, copy |-> NoRecipient, listed |-> {}]

At(t, phase) == tasks[t].phase = phase

Fresh(n) ==
    /\ ~rows[n].live
    /\ n \notin gone
    /\ \A t \in Tasks : tasks[t].id # n

\* What a session of the tenant's administrator may ask for, and what a mailed link alone allows.
AdminRoutes == {"create", "resend", "patch", "delete"}
MailboxRoutes == {"manage", "unsubscribe"}

Requested(kind) == kind \in load

\* One of the administrator's own; a recipient of another tenant reads as missing.
OwnRecipient(tenant, n) == rows[n].live /\ rows[n].tenant = tenant

\* The mailbox has the management link once a notification was mailed to it.
RecipientForToken(n) == rows[n].live /\ n \in reached

-----------------------------------------------------------------------------
\* Every type somebody wants has to be open to this tenant's recipients, and every value one the
\* type accepts.
CheckChoices(choices, tenant) ==
    \A type \in Types :
        choices[type] # Unset =>
            /\ EligibleForRecipients(catalogue[type], tenant, Granted[tenant])
            /\ Accepts(catalogue[type], choices[type])

Subscribed(choices) == {type \in Types : choices[type] \notin {Unset, "off"}}

SubscribesToAnything(choices) == Subscribed(choices) # {}

Made(n, choices) ==
    [chosen EXCEPT ![n] = @ \cup {<<type, choices[type]>> : type \in Subscribed(choices)}]

FindByAddress(tenant, address) ==
    {n \in Ids : rows[n].live /\ rows[n].tenant = tenant /\ rows[n].address = address}

NewRecipient(tenant, address, choices) ==
    [ live |-> TRUE, tenant |-> tenant, address |-> address,
      confirmed |-> FALSE, choices |-> choices ]

\* PostgreSQL: the unique index refuses a second row of the address in the insert itself.
AddAtOnce(t, n, row) ==
    /\ store = "postgres"
    /\ rows' = [rows EXCEPT ![n] = row]
    /\ tasks' = [tasks EXCEPT ![t] = [Idle EXCEPT !.phase = "mail", !.id = n, !.copy = row]]
    /\ chosen' = Made(n, row.choices)

\* DynamoDB: the address is looked up in an index, and the row inserted by its fresh id.
LookThenAdd(t, n, row) ==
    /\ store = "dynamodb"
    /\ tasks' = [tasks EXCEPT ![t] = [Idle EXCEPT !.phase = "insert", !.id = n, !.copy = row]]
    /\ UNCHANGED <<rows, chosen>>

AddressIsFree(tenant, address) == FindByAddress(tenant, address) = {}

CreateRecipient(t, n, tenant, address, choices) ==
    /\ Requested("create")
    /\ At(t, "idle")
    /\ Fresh(n)
    /\ CheckChoices(choices, tenant)
    /\ SubscribesToAnything(choices)
    /\ AddressIsFree(tenant, address)
    /\ LET row == NewRecipient(tenant, address, choices) IN
       AddAtOnce(t, n, row) \/ LookThenAdd(t, n, row)
    /\ UNCHANGED <<store, load, catalogue, links, clicked, reached, gone>>

InsertRecipient(t) ==
    /\ At(t, "insert")
    /\ rows' = [rows EXCEPT ![tasks[t].id] = tasks[t].copy]
    /\ tasks' = [tasks EXCEPT ![t].phase = "mail"]
    /\ chosen' = Made(tasks[t].id, tasks[t].copy.choices)
    /\ UNCHANGED <<store, load, catalogue, links, clicked, reached, gone>>

-----------------------------------------------------------------------------
\* A confirmed recipient is not mailed again.
ResendConfirmation(t, tenant, n) ==
    /\ Requested("resend")
    /\ At(t, "idle")
    /\ OwnRecipient(tenant, n)
    /\ ~rows[n].confirmed
    /\ tasks' = [tasks EXCEPT ![t] = [Idle EXCEPT !.phase = "mail", !.id = n, !.copy = rows[n]]]
    /\ UNCHANGED <<store, load, catalogue, rows, links, clicked, reached, gone, chosen>>

\* The challenge is issued and its secret mailed to the address that was read.
SendConfirmation(t, s) ==
    /\ At(t, "mail")
    /\ links[s].state = "unused"
    /\ links' = [links EXCEPT ![s] =
           [state |-> "live", id |-> tasks[t].id, address |-> tasks[t].copy.address]]
    /\ tasks' = [tasks EXCEPT ![t] = Idle]
    /\ UNCHANGED <<store, load, catalogue, rows, clicked, reached, gone, chosen>>

LinkExpires(s) ==
    /\ links[s].state = "live"
    /\ links' = [links EXCEPT ![s].state = "spent"]
    /\ UNCHANGED <<store, load, catalogue, rows, tasks, clicked, reached, gone, chosen>>

\* The mailbox follows its link: the challenge is consumed, then the row marked.
ConsumeLink(t, s) ==
    /\ At(t, "idle")
    /\ links[s].state = "live"
    /\ links' = [links EXCEPT ![s].state = "spent"]
    /\ clicked' = clicked \cup {<<links[s].id, links[s].address>>}
    /\ tasks' = [tasks EXCEPT ![t] =
           [Idle EXCEPT !.phase = "mark", !.id = links[s].id, !.copy.address = links[s].address]]
    /\ UNCHANGED <<store, load, catalogue, rows, reached, gone, chosen>>

SetConfirmed(n, value) == [rows EXCEPT ![n].confirmed = rows[n].live /\ value]

\* The row has to be there still, under the address that was mailed; its address never changes, so
\* the read and the conditional update see the same answer.
MarkConfirmed(t) ==
    /\ At(t, "mark")
    /\ rows' = IF rows[tasks[t].id].address = tasks[t].copy.address
               THEN SetConfirmed(tasks[t].id, TRUE)
               ELSE rows
    /\ tasks' = [tasks EXCEPT ![t] = Idle]
    /\ UNCHANGED <<store, load, catalogue, links, clicked, reached, gone, chosen>>

-----------------------------------------------------------------------------
\* A handler that has read a row, and will write back all of it with other choices.
Rewrites(t, n, choices) ==
    tasks' = [tasks EXCEPT ![t] =
        [Idle EXCEPT !.phase = "put", !.id = n, !.copy = [rows[n] EXCEPT !.choices = choices]]]

\* An administrator changes what the recipient receives, or only its name or language.
PatchRecipient(t, tenant, n, choices) ==
    /\ Requested("patch")
    /\ At(t, "idle")
    /\ OwnRecipient(tenant, n)
    /\ choices # rows[n].choices => CheckChoices(choices, tenant)
    /\ Rewrites(t, n, choices)
    /\ UNCHANGED <<store, load, catalogue, rows, links, clicked, reached, gone, chosen>>

\* The mailbox itself does, with the link a notification mail brought it.
ManageChoices(t, n, choices) ==
    /\ Requested("manage")
    /\ At(t, "idle")
    /\ RecipientForToken(n)
    /\ CheckChoices(choices, rows[n].tenant)
    /\ Rewrites(t, n, choices)
    /\ UNCHANGED <<store, load, catalogue, rows, links, clicked, reached, gone, chosen>>

\* Mutant: PostgreSQL upserts.
PutUpserts(n) == store \in Stores

\* PostgreSQL updates the row if it is there.  DynamoDB puts it, there or not.
PutOverwrites(n) == store = "dynamodb" \/ rows[n].live

PutRecipient(t) ==
    /\ At(t, "put")
    /\ LET n == tasks[t].id IN
       /\ rows' = IF PutOverwrites(n) THEN [rows EXCEPT ![n] = tasks[t].copy] ELSE rows
       /\ chosen' = Made(n, tasks[t].copy.choices)
    /\ tasks' = [tasks EXCEPT ![t] = Idle]
    /\ UNCHANGED <<store, load, catalogue, links, clicked, reached, gone>>

\* The row is read and then deleted by an id no other row ever gets, so one step stands for both.
Drop(n) ==
    /\ rows' = [rows EXCEPT ![n] = NoRecipient]
    /\ gone' = gone \cup {n}
    /\ UNCHANGED <<store, load, catalogue, links, clicked, reached, chosen>>

DeleteRecipient(tenant, n) ==
    /\ Requested("delete")
    /\ OwnRecipient(tenant, n)
    /\ Drop(n)
    /\ UNCHANGED tasks

Unsubscribe(n) ==
    /\ Requested("unsubscribe")
    /\ RecipientForToken(n)
    /\ Drop(n)
    /\ UNCHANGED tasks

-----------------------------------------------------------------------------
OfTenant(tenant) == {n \in Ids : rows[n].live /\ rows[n].tenant = tenant}

\* A tenant's recipients go with it: one statement on PostgreSQL, one call a row on DynamoDB.
ClearAtOnce(tenant) ==
    /\ Requested("clear")
    /\ store = "postgres"
    /\ OfTenant(tenant) # {}
    /\ rows' = [n \in Ids |-> IF n \in OfTenant(tenant) THEN NoRecipient ELSE rows[n]]
    /\ gone' = gone \cup OfTenant(tenant)
    /\ UNCHANGED <<store, load, catalogue, links, tasks, clicked, reached, chosen>>

ListTenant(t, tenant) ==
    /\ Requested("clear")
    /\ store = "dynamodb"
    /\ At(t, "idle")
    /\ OfTenant(tenant) # {}
    /\ tasks' = [tasks EXCEPT ![t] = [Idle EXCEPT !.phase = "clear", !.listed = OfTenant(tenant)]]
    /\ UNCHANGED <<store, load, catalogue, rows, links, clicked, reached, gone, chosen>>

ClearOne(t, n) ==
    /\ At(t, "clear")
    /\ n \in tasks[t].listed
    /\ Drop(n)
    /\ tasks' = [tasks EXCEPT ![t] =
           IF tasks[t].listed = {n} THEN Idle ELSE [tasks[t] EXCEPT !.listed = @ \ {n}]]

\* A handler is cut short, a store call fails, or the mail is refused by the limiter or the notifier.
StopTask(t) ==
    /\ ~At(t, "idle")
    /\ tasks' = [tasks EXCEPT ![t] = Idle]
    /\ UNCHANGED <<store, load, catalogue, rows, links, clicked, reached, gone, chosen>>

\* An app reports that mail to an address of a recipient came back.
ReportRecipient(n, address) ==
    /\ Requested("bounce")
    /\ rows[n].address = address
    /\ rows[n].confirmed
    /\ rows' = SetConfirmed(n, FALSE)
    /\ UNCHANGED <<store, load, catalogue, links, tasks, clicked, reached, gone, chosen>>

-----------------------------------------------------------------------------
RecipientsInit ==
    /\ store \in Stores
    /\ load \in Workloads
    /\ catalogue \in {draft \in Drafts : ValidCatalogue(draft)}
    /\ rows = [n \in Ids |-> NoRecipient]
    /\ links = [s \in Secrets |-> UnusedLink]
    /\ tasks = [t \in Tasks |-> Idle]
    /\ clicked = {}
    /\ reached = {}
    /\ gone = {}
    /\ chosen = [n \in Ids |-> {}]

RecipientsNext ==
    \/ \E t \in Tasks :
        \/ \E n \in Ids, tenant \in Tenants, address \in Addresses, choices \in ChoiceMaps :
               CreateRecipient(t, n, tenant, address, choices)
        \/ InsertRecipient(t)
        \/ \E tenant \in Tenants, n \in Ids : ResendConfirmation(t, tenant, n)
        \/ \E s \in Secrets : SendConfirmation(t, s)
        \/ \E s \in Secrets : ConsumeLink(t, s)
        \/ MarkConfirmed(t)
        \/ \E tenant \in Tenants, n \in Ids, choices \in ChoiceMaps :
               PatchRecipient(t, tenant, n, choices)
        \/ \E n \in Ids, choices \in ChoiceMaps : ManageChoices(t, n, choices)
        \/ PutRecipient(t)
        \/ \E tenant \in Tenants : ListTenant(t, tenant)
        \/ \E n \in Ids : ClearOne(t, n)
        \/ StopTask(t)
    \/ \E s \in Secrets : LinkExpires(s)
    \/ \E tenant \in Tenants, n \in Ids : DeleteRecipient(tenant, n)
    \/ \E n \in Ids : Unsubscribe(n)
    \/ \E tenant \in Tenants : ClearAtOnce(tenant)
    \/ \E n \in Ids, address \in Addresses : ReportRecipient(n, address)
=============================================================================
