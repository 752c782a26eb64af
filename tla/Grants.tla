------------------------------- MODULE Grants -------------------------------
(***************************************************************************)
(* Who may be given what, and what a token says of it.                     *)
(*                                                                         *)
(* A tenant is granted features, its users roles and its service keys      *)
(* scopes, each only where the configured condition of that code holds     *)
(* over the tenant's features.  A token's subjects are the labels of its   *)
(* bearer, the features of the tenant it acts in, and synthetic markers;   *)
(* the rules of the target API turn them into permissions, in order.  One  *)
(* of those is the permission to switch into another tenant.               *)
(*                                                                         *)
(* Handlers read the configuration and the row, and write the row back;    *)
(* the tenant's row is compared by version.                                *)
(***************************************************************************)
EXTENDS PermissionRules

CONSTANTS
    Tenants, System,    \* the system tenant is one of them
    Users,
    HomeOf,             \* the tenant a user belongs to
    Documents,          \* the configurations that may be published
    Handlers,
    Loads,              \* what one behaviour is about
    MaxVersion          \* bound: writes of a tenant's row

GrantsAssumption ==
    /\ System \in Tenants
    /\ HomeOf \in [Users -> Tenants]
    /\ \A d \in Documents : IsDocument(d)
    /\ Loads \subseteq SUBSET {"grant", "revoke", "label", "switch", "publish"}
    /\ MaxVersion \in Nat

VARIABLES
    load,           \* what this behaviour is about
    published,      \* the configuration in force
    tenants,        \* the tenants' rows
    labels,         \* the labels of the users
    active,         \* per user, the tenant its session acts in
    strong,         \* per user, whether its session rests on a second factor
    task,           \* handlers in flight
    steady,         \* history: the configuration has not changed
    answered        \* history: the features granted, and not revoked since, by answers of success

grantVars == <<load, published, tenants, labels, active, strong, task, steady, answered>>

-----------------------------------------------------------------------------
(* Subjects *)

\* eval_feature_set: assignability is decided on the features and the tenant's own marker.
EvalFeatureSet(t, features) == features \cup (IF t = System THEN {SystemTenant} ELSE {})

\* mint_for_api: the subjects of a token of u that acts in t.
TokenSubjects(u, t) ==
    labels[u] \cup tenants[t].features
    \cup (IF t = System THEN {SystemTenant} ELSE {})
    \cup (IF HomeOf[u] = System THEN {Member} ELSE {})
    \cup (IF strong[u] THEN {TwoFactor} ELSE {})

\* Mutant of SwitchSubjects: the re-check forgets the second factor the session rests on.
SwitchSubjectsUnproven(u) ==
    labels[u] \cup (IF HomeOf[u] = System THEN {SystemTenant, Member} ELSE {})

\* switch_subjects: what a refresh decides on whether the session may stay where it is.
SwitchSubjects(u) ==
    labels[u]
    \cup (IF HomeOf[u] = System THEN {SystemTenant, Member} ELSE {})
    \cup (IF strong[u] THEN {TwoFactor} ELSE {})

MaySwitchTenant(d, u) == SwitchTenant \in Resolve(d, SwitchSubjects(u))

-----------------------------------------------------------------------------
(* State *)

Row == [version: 1..(MaxVersion + 1), features: SUBSET Features]

Ops == {"grant", "revoke", "label", "switch"}

Task ==
    [phase: {"idle", "read", "put"}, op: Ops, tenant: Tenants, user: Users,
     code: Features \cup Labels, doc: Documents, row: Row]

NoTask ==
    [phase |-> "idle", op |-> "grant", tenant |-> System, user |-> CHOOSE u \in Users : TRUE,
     code |-> CHOOSE f \in Features : TRUE, doc |-> CHOOSE d \in Documents : TRUE,
     row |-> [version |-> 1, features |-> {}]]

GrantsTypeOK ==
    /\ load \in Loads
    /\ published \in Documents
    /\ tenants \in [Tenants -> Row]
    /\ labels \in [Users -> SUBSET Labels]
    /\ active \in [Users -> Tenants]
    /\ strong \in [Users -> BOOLEAN]
    /\ task \in [Handlers -> Task]
    /\ steady \in BOOLEAN
    /\ answered \in [Tenants -> SUBSET Features]

GrantsInit ==
    /\ load \in Loads
    /\ published \in Documents
    /\ tenants = [t \in Tenants |-> [version |-> 1, features |-> {}]]
    /\ labels = [u \in Users |-> {}]
    /\ active = HomeOf
    /\ strong \in [Users -> IF "switch" \in load THEN BOOLEAN ELSE {FALSE}]
    /\ task = [h \in Handlers |-> NoTask]
    /\ steady = TRUE
    /\ answered = [t \in Tenants |-> {}]

Phase(h, phase) == task[h].phase = phase
Ends(h) == task' = [task EXCEPT ![h] = NoTask]

-----------------------------------------------------------------------------
(* Granting and revoking *)

\* Every handler takes the configuration first.
Begin(h, op, t, u, code) ==
    /\ op \in load /\ Phase(h, "idle")
    /\ task' = [task EXCEPT ![h] =
           [NoTask EXCEPT !.phase = "read", !.op = op, !.tenant = t, !.user = u, !.code = code,
                          !.doc = published]]
    /\ UNCHANGED <<load, published, tenants, labels, active, strong, steady, answered>>

WritesBack(h, row) == task' = [task EXCEPT ![h].phase = "put", ![h].row = row]

\* grant_feature: what is granted already is answered without a look at the rules.
GrantFeature(h) ==
    LET k == task[h]
        row == tenants[k.tenant]
    IN /\ Phase(h, "read") /\ k.op = "grant"
       /\ IF k.code \notin row.features
             /\ Assignable(k.doc, k.code, EvalFeatureSet(k.tenant, row.features))
          THEN WritesBack(h, [row EXCEPT !.features = @ \cup {k.code}])
          ELSE Ends(h)
       /\ UNCHANGED <<load, published, tenants, labels, active, strong, steady, answered>>

\* revoke_feature: refused while a feature that stays needs the one that goes.
RevokeFeature(h) ==
    LET k == task[h]
        row == tenants[k.tenant]
        remaining == row.features \ {k.code}
        blocked == k.code \in row.features /\ Dependents(k.doc, remaining) # {}
    IN /\ Phase(h, "read") /\ k.op = "revoke"
       /\ IF k.code \in row.features /\ ~blocked
          THEN WritesBack(h, [row EXCEPT !.features = remaining])
          ELSE Ends(h)
       /\ UNCHANGED <<load, published, tenants, labels, active, strong, steady, answered>>

\* Mutant of Unwritten: the row is put whatever it has become.
PutAnyway(row, was) == TRUE

Unwritten(row, was) == row.version = was.version

\* put_tenant: written if nobody has written since it was read.
PutTenant(h) ==
    LET k == task[h]
        was == tenants[k.tenant]
    IN /\ Phase(h, "put") /\ k.op \in {"grant", "revoke"}
       /\ was.version <= MaxVersion
       /\ IF Unwritten(k.row, was)
          THEN /\ tenants' = [tenants EXCEPT ![k.tenant] = [k.row EXCEPT !.version = @ + 1]]
               /\ answered' = [answered EXCEPT ![k.tenant] =
                      IF k.op = "grant" THEN @ \cup {k.code} ELSE @ \ {k.code}]
          ELSE UNCHANGED <<tenants, answered>>
       /\ Ends(h)
       /\ UNCHANGED <<load, published, labels, active, strong, steady>>

\* validate_roles (and a key's scopes): only a label that is new is looked at.
AssignLabel(h) ==
    LET k == task[h]
        features == tenants[HomeOf[k.user]].features
    IN /\ Phase(h, "read") /\ k.op = "label"
       /\ IF k.code \in labels[k.user]
             \/ Assignable(k.doc, k.code, EvalFeatureSet(HomeOf[k.user], features))
          THEN labels' = [labels EXCEPT ![k.user] = @ \cup {k.code}]
          ELSE UNCHANGED labels
       /\ Ends(h)
       /\ UNCHANGED <<load, published, tenants, active, strong, steady, answered>>

DropLabel(u, code) ==
    /\ "label" \in load /\ code \in labels[u]
    /\ labels' = [labels EXCEPT ![u] = @ \ {code}]
    /\ UNCHANGED <<load, published, tenants, active, strong, task, steady, answered>>

HandlerStops(h) ==
    /\ ~Phase(h, "idle")
    /\ Ends(h)
    /\ UNCHANGED <<load, published, tenants, labels, active, strong, steady, answered>>

Publish(d) ==
    /\ "publish" \in load /\ d # published
    /\ published' = d
    /\ steady' = FALSE
    /\ UNCHANGED <<load, tenants, labels, active, strong, task, answered>>

-----------------------------------------------------------------------------
(* Switching *)

\* switch-tenant: the bearer shows a token that carries the permission, minted for where it acts.
Switch(u, t) ==
    /\ "switch" \in load
    /\ SwitchTenant \in Resolve(published, TokenSubjects(u, active[u]))
    /\ active' = [active EXCEPT ![u] = t]
    /\ UNCHANGED <<load, published, tenants, labels, strong, task, steady, answered>>

\* refresh mints for the session's tenant, or for the home tenant of a user who may no longer switch.
RefreshTenant(u) ==
    IF active[u] # HomeOf[u] /\ ~MaySwitchTenant(published, u) THEN HomeOf[u] ELSE active[u]

-----------------------------------------------------------------------------
GrantsNext ==
    \/ \E h \in Handlers :
        \/ \E t \in Tenants, f \in Features, op \in {"grant", "revoke"} :
               Begin(h, op, t, NoTask.user, f)
        \/ \E u \in Users, code \in Labels : Begin(h, "label", HomeOf[u], u, code)
        \/ GrantFeature(h) \/ RevokeFeature(h) \/ PutTenant(h) \/ AssignLabel(h) \/ HandlerStops(h)
    \/ \E u \in Users :
        \/ \E code \in Labels : DropLabel(u, code)
        \/ \E t \in Tenants : Switch(u, t)
    \/ \E d \in Documents : Publish(d)

GrantsSpec == GrantsInit /\ [][GrantsNext]_grantVars

-----------------------------------------------------------------------------
(* Properties *)

(***************************************************************************)
(* A tenant has the features its administrators were told it has, whoever  *)
(* wrote the row in between; and under one configuration whose conditions  *)
(* ask for features and never against them, each is one it could be        *)
(* granted now: no order of grants and revocations takes away what a       *)
(* remaining feature rests on.                                             *)
(***************************************************************************)
FeaturesHold ==
    \A t \in Tenants :
        /\ tenants[t].features = answered[t]
        /\ steady /\ (\A code \in DOMAIN published.codes : Positive(published.codes[code])) =>
               \A f \in tenants[t].features :
                   Assignable(published, f, EvalFeatureSet(t, tenants[t].features))

NamesNoFeature(condition) ==
    condition = Always \/ \A a \in condition : (a.has \cup a.lacks) \cap Features = {}

(***************************************************************************)
(* A switched session stays where it is over a refresh exactly as long as  *)
(* a token minted at home would still carry the permission to switch: the  *)
(* re-check, made from subjects of its own, gives the broker's answer, for *)
(* every configuration whose rules do not depend on the home tenant's      *)
(* features (those the re-check leaves out).                               *)
(***************************************************************************)
SwitchLastsAsLongAsAllowed ==
    NamesNoFeature(published.eligibility)
    /\ (\A i \in DOMAIN published.rules : NamesNoFeature(published.rules[i].when)) =>
        \A u \in Users :
            LET allowed == SwitchTenant \in Resolve(published, TokenSubjects(u, HomeOf[u])) IN
            RefreshTenant(u) = IF allowed THEN active[u] ELSE HomeOf[u]
=============================================================================
