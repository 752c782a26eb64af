------------------------------- MODULE Notify -------------------------------
(***************************************************************************)
(* Notifications (notify/service.rs) over the recipients of a tenant and   *)
(* its users: publishing a catalogue, choosing, asking for the audience of *)
(* a firing, and sending a batch of addressed messages.  An app first asks *)
(* who hears about a firing and later sends, so either side may change in  *)
(* between.                                                                *)
(***************************************************************************)
EXTENDS Recipients

CONSTANTS
    Users,
    TenantOf,    \* the tenant of each user
    RolesOf,     \* the roles of each user
    Messages,    \* the shapes of message an app tries to send
    Calls        \* the calls of apps and users in flight

\* A recipient is not a user, no choice is a choice, and what is drafted is at least a catalogue.
ASSUME OutreachAssumption ==
    /\ Ids \cap Users = {}
    /\ Unset \notin Choices
    /\ Drafts \subseteq [Types -> NotificationTypeDef]

VARIABLES
    people,      \* the users: locked or not, their choices, a verified address or none
    calls,       \* the calls in flight
    defaults,    \* history: the defaults a published catalogue has had
    asked        \* history: the choices each user has made

notifyVars == <<people, calls, defaults, asked>>
vars == <<recipientVars, notifyVars>>

Person == [locked : BOOLEAN, verified : BOOLEAN, choices : ChoiceMaps]

Everybody == Ids \cup Users

CallPhases == {"idle", "choose", "users", "reach", "recipients", "answered", "send", "queue"}

\* What an audience names: somebody, and the choice that made it so.
Entry == [who : Everybody, choice : Choices]

Call ==
    [ phase : CallPhases, user : Users \cup {Unset}, copy : Person, type : Types \cup {Unset},
      tenant : Tenants \cup {NoTenant}, def : NotificationTypeDef, firing : SUBSET Choices,
      found : SUBSET Entry, left : SUBSET Everybody, next : Everybody \cup {NoId} ]

Nobody == [locked |-> FALSE, verified |-> FALSE, choices |-> [t \in Types |-> Unset]]

NoDef == [cadences |-> {}, default |-> Unset, eligibleIf |-> Never, recipientsIf |-> Never]

NoCall ==
    [ phase |-> "idle", user |-> Unset, copy |-> Nobody, type |-> Unset, tenant |-> NoTenant,
      def |-> NoDef, firing |-> {}, found |-> {}, left |-> {}, next |-> NoId ]

\* What users and apps ask of the notifications, and what happens beside them.
AppRoutes == {"choose", "fire", "send", "bounce", "clear", "publish", "people"}

Is(c, phase) == calls[c].phase = phase

Continues(c, call) == calls' = [calls EXCEPT ![c] = call]

-----------------------------------------------------------------------------

Publish(draft) ==
    /\ Requested("publish")
    /\ draft # catalogue
    /\ ValidCatalogue(draft)
    /\ catalogue' = draft
    /\ defaults' = defaults \cup {<<t, draft[t].default>> : t \in Types}
    /\ UNCHANGED <<store, load, rows, links, tasks, clicked, reached, gone, chosen, people, calls, asked>>

\* The account is locked or unlocked, its address proven or withdrawn: the Accounts module's doing.
PersonChanges(u, locked, verified) ==
    /\ Requested("people")
    /\ <<locked, verified>> # <<people[u].locked, people[u].verified>>
    /\ people' = [people EXCEPT ![u].locked = locked, ![u].verified = verified]
    /\ UNCHANGED <<recipientVars, calls, defaults, asked>>

\* A user chooses for one type or clears the choice; the row is read, and written back whole.
SetChoice(c, u, type, choice) ==
    /\ Requested("choose")
    /\ Is(c, "idle")
    /\ choice = Unset \/ Accepts(catalogue[type], choice)
    /\ Continues(c, [NoCall EXCEPT !.phase = "choose", !.user = u, !.type = type,
                                   !.copy = [people[u] EXCEPT !.choices[type] = choice]])
    /\ UNCHANGED <<recipientVars, people, defaults, asked>>

\* The address is kept in a table of its own.
PutChoice(c) ==
    /\ Is(c, "choose")
    /\ LET u == calls[c].user
           written == [calls[c].copy EXCEPT !.verified = people[u].verified]
       IN  /\ people' = [people EXCEPT ![u] = written]
           /\ asked' = [asked EXCEPT ![u] =
                  @ \cup {<<type, written.choices[type]>> : type \in Subscribed(written.choices)}]
    /\ Continues(c, NoCall)
    /\ UNCHANGED <<recipientVars, defaults>>

-----------------------------------------------------------------------------
\* An app asks who hears about a firing of a type in a tenant.
Audience(c, type, tenant, firing) ==
    /\ Requested("fire")
    /\ Is(c, "idle")
    /\ firing \in Firings(catalogue[type])
    /\ Continues(c, [NoCall EXCEPT !.phase = "users", !.type = type, !.tenant = tenant,
                                   !.def = catalogue[type], !.firing = firing])
    /\ UNCHANGED <<recipientVars, people, defaults, asked>>

Hears(c, u) ==
    /\ ~people[u].locked
    /\ Eligible(calls[c].def, TenantOf[u], Granted[TenantOf[u]], RolesOf[u])
    /\ Delivers(calls[c].def, people[u].choices[calls[c].type], calls[c].firing)

AudienceUsers(c) ==
    /\ Is(c, "users")
    /\ LET hear == {u \in Users : TenantOf[u] = calls[c].tenant /\ Hears(c, u)} IN
       Continues(c, [calls[c] EXCEPT !.phase = "reach", !.found =
           {[who |-> u,
             choice |-> EffectiveChoice(calls[c].def, people[u].choices[calls[c].type])] :
                u \in hear}])
    /\ UNCHANGED <<recipientVars, people, defaults, asked>>

\* Only somebody mail can reach is named.
AudienceReach(c) ==
    /\ Is(c, "reach")
    /\ Continues(c, [calls[c] EXCEPT !.phase = "recipients",
                                     !.found = {e \in @ : people[e.who].verified}])
    /\ UNCHANGED <<recipientVars, people, defaults, asked>>

\* Mutant: a recipient that has not confirmed is named as well.
RecipientHearsUnconfirmed(c, n) ==
    /\ EligibleForRecipients(calls[c].def, calls[c].tenant, Granted[calls[c].tenant])
    /\ Delivers(calls[c].def, RecipientChoice(rows[n].choices[calls[c].type]), calls[c].firing)

RecipientHears(c, n) ==
    /\ rows[n].confirmed
    /\ EligibleForRecipients(calls[c].def, calls[c].tenant, Granted[calls[c].tenant])
    /\ Delivers(calls[c].def, RecipientChoice(rows[n].choices[calls[c].type]), calls[c].firing)

AudienceRecipients(c) ==
    /\ Is(c, "recipients")
    /\ LET hear == {n \in OfTenant(calls[c].tenant) : RecipientHears(c, n)} IN
       Continues(c, [calls[c] EXCEPT !.phase = "answered", !.found = @ \cup
           {[who |-> n,
             choice |-> EffectiveChoice(calls[c].def, rows[n].choices[calls[c].type])] :
                n \in hear}])
    /\ UNCHANGED <<recipientVars, people, defaults, asked>>

-----------------------------------------------------------------------------
\* Something has to be renderable: a whole text, a template that is not one of umami's own, or
\* both; and a rhythm is one the type it is sent under is fired at.
CheckMessage(message, type) ==
    /\ message.subject = message.body
    /\ message.template # "umami"
    /\ message.subject \/ message.template # "none"
    /\ message.cadence # Unset =>
           type # Unset /\ message.cadence \in catalogue[type].cadences

\* An app sends to whom it likes; the audience it was given binds nobody.
Send(c, targets, type, message) ==
    /\ Requested("send")
    /\ Is(c, "idle")
    /\ CheckMessage(message, type)
    /\ Continues(c, [NoCall EXCEPT !.phase = "send", !.left = targets])
    /\ UNCHANGED <<recipientVars, people, defaults, asked>>

AfterMessage(c, x) ==
    IF calls[c].left = {x} THEN NoCall
    ELSE [calls[c] EXCEPT !.phase = "send", !.left = @ \ {x}, !.next = NoId]

AddressedUser(x) == x \in Users /\ ~people[x].locked /\ people[x].verified

\* Mutant: it is enough that the recipient is on file.
AddressedOnFile(x) == x \in Ids /\ rows[x].live

AddressedRecipient(x) == x \in Ids /\ rows[x].confirmed

\* The next message is resolved to where it goes, or told to have no address.
NextMessage(c, x) ==
    /\ Is(c, "send")
    /\ x \in calls[c].left
    /\ IF AddressedUser(x) \/ AddressedRecipient(x)
       THEN Continues(c, [calls[c] EXCEPT !.phase = "queue", !.next = x])
       ELSE Continues(c, AfterMessage(c, x))
    /\ UNCHANGED <<recipientVars, people, defaults, asked>>

Queue(c) ==
    /\ Is(c, "queue")
    /\ reached' = reached \cup {calls[c].next}
    /\ Continues(c, AfterMessage(c, calls[c].next))
    /\ UNCHANGED <<store, load, catalogue, rows, links, tasks, clicked, gone, chosen>>
    /\ UNCHANGED <<people, defaults, asked>>

\* A message that cannot be queued is told apart and the batch goes on.
QueueFails(c) ==
    /\ Is(c, "queue")
    /\ Continues(c, AfterMessage(c, calls[c].next))
    /\ UNCHANGED <<recipientVars, people, defaults, asked>>

\* The audience is handed over; or a store call fails and the whole call with it.
EndCall(c) ==
    /\ ~Is(c, "idle")
    /\ Continues(c, NoCall)
    /\ UNCHANGED <<recipientVars, people, defaults, asked>>

-----------------------------------------------------------------------------
Init ==
    /\ RecipientsInit
    /\ people = [u \in Users |-> Nobody]
    /\ calls = [c \in Calls |-> NoCall]
    /\ defaults = {<<t, catalogue[t].default>> : t \in Types}
    /\ asked = [u \in Users |-> {}]

Next ==
    \/ RecipientsNext /\ UNCHANGED notifyVars
    \/ \E draft \in Drafts : Publish(draft)
    \/ \E u \in Users, locked, verified \in BOOLEAN : PersonChanges(u, locked, verified)
    \/ \E c \in Calls :
        \/ \E u \in Users, type \in Types, choice \in Choices \cup {Unset} :
               SetChoice(c, u, type, choice)
        \/ PutChoice(c)
        \/ \E type \in Types, tenant \in Tenants, firing \in SUBSET Choices :
               Audience(c, type, tenant, firing)
        \/ AudienceUsers(c)
        \/ AudienceReach(c)
        \/ AudienceRecipients(c)
        \/ \E targets \in (SUBSET Everybody) \ {{}}, type \in Types \cup {Unset},
              message \in Messages : Send(c, targets, type, message)
        \/ \E x \in Everybody : NextMessage(c, x)
        \/ Queue(c)
        \/ QueueFails(c)
        \/ EndCall(c)

Spec == Init /\ [][Next]_vars

-----------------------------------------------------------------------------
\* Every variable keeps its shape, and the published catalogue is one that may be published.
TypeOK ==
    /\ store \in Stores
    /\ load \in Workloads /\ load \subseteq AdminRoutes \cup MailboxRoutes \cup AppRoutes
    /\ catalogue \in [Types -> NotificationTypeDef] /\ ValidCatalogue(catalogue)
    /\ rows \in [Ids -> ExternalRecipient]
    /\ links \in [Secrets -> Challenge]
    /\ tasks \in [Tasks -> Task]
    /\ clicked \subseteq Ids \X Addresses
    /\ reached \subseteq Everybody
    /\ gone \subseteq Ids
    /\ chosen \in [Ids -> SUBSET (Types \X Choices)]
    /\ people \in [Users -> Person]
    /\ calls \in [Calls -> Call]
    /\ defaults \subseteq Types \X (Choices \cup {Unset})
    /\ asked \in [Users -> SUBSET (Types \X Choices)]

\* No notification is mailed to a mailbox that has not agreed: a recipient is confirmed, and is
\* mailed to, only after a link was followed that had been mailed to its own address for it,
\* however its row is rewritten, withdrawn or put back in between.
NoMailUnconfirmed ==
    \A n \in Ids :
        /\ rows[n].confirmed => <<n, rows[n].address>> \in clicked
        /\ n \in reached => \E address \in Addresses : <<n, address>> \in clicked

\* Whoever is named to an app heard nothing it had not asked for: an external recipient is named
\* for a choice somebody made for it, never for the type's default, a user for a choice of its own
\* or for a default that was published, and each of them for a rhythm the firing represents.
NamedByChoice ==
    \A c \in Calls : Is(c, "answered") =>
        \A e \in calls[c].found :
            LET reason == <<calls[c].type, e.choice>> IN
            /\ e.who \in Ids =>
                   /\ reason \in chosen[e.who]
                   /\ \E address \in Addresses : <<e.who, address>> \in clicked
            /\ e.who \in Users => reason \in asked[e.who] \cup defaults
            /\ Delivers(calls[c].def, e.choice, calls[c].firing)

\* Nobody waits forever for a type as it is published: every choice that may be stored for it, and
\* its default, is off or is what some firing that may be asked about delivers.
EveryChoiceIsServed ==
    \A t \in Types : \A choice \in AllowedChoices(catalogue[t]) \cup {Unset} :
        EffectiveChoice(catalogue[t], choice) # "off" =>
            \E firing \in Firings(catalogue[t]) : Delivers(catalogue[t], choice, firing)

\* A recipient that has removed itself, or was removed, is not on file again.
RemovedStaysRemoved == \A n \in gone : ~rows[n].live

\* On PostgreSQL it is not, whatever was read before and is written back after, and no tenant has
\* two recipients of one address.
PostgresKeepsItsRows ==
    store = "postgres" =>
        /\ RemovedStaysRemoved
        /\ \A n, m \in Ids :
            /\ rows[n].live /\ rows[m].live
            /\ <<rows[n].tenant, rows[n].address>> = <<rows[m].tenant, rows[m].address>>
            => n = m
=============================================================================
