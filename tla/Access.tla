------------------------------- MODULE Access -------------------------------
(***************************************************************************)
(* From a credential to a token and through a route.  A session or an API  *)
(* key is traded for an access token that carries the permissions its      *)
(* bearer has at that moment; routes look at the token alone.  The bearers *)
(* change what others, and they themselves, may be given: roles, locks,    *)
(* keys, features.                                                         *)
(*                                                                         *)
(* A trade reads the credential, then the account, then the tenant, and    *)
(* issues the token; everything else may happen in between.  Accounts,     *)
(* keys and tenants are looked at elsewhere as rows (Directory, Grants,    *)
(* Sessions); here a write of one is a single step.                        *)
(***************************************************************************)
EXTENDS PermissionRules, Routes, FiniteSets

CONSTANTS
    Roles, Scopes,          \* the labels users and service keys carry
    Tenants, System,
    Users, HomeOf,
    Keys,                   \* key ids the store can draw
    NoUser,
    Documents,              \* configurations a deployment may run under
    FirstRoles,             \* the roles users are created with
    AccessTtl, KeyTtls,     \* lifetimes of tokens: the configured one, those keys may ask for
    Scenes,                 \* what one behaviour is about: the routes its administrators use
    MaxDelay,               \* bound: how long a trade takes from its first read
    MaxTokens, MaxNow       \* bounds: tokens alive at once, time

\* The names of a kind have a prefix of their own; those of permissions have none.
NamesApart ==
    /\ Features \cap Labels = {} /\ (Features \cup Labels) \cap Synthetic = {}
    /\ (Features \cup Labels \cup Synthetic) \cap (Permissions \cup CrossTenant) = {}

ASSUME AccessAssumption ==
    /\ NamesApart
    /\ Labels = Roles \cup Scopes /\ Roles \cap Scopes = {}
    /\ System \in Tenants
    /\ HomeOf \in [Users -> Tenants]
    /\ Keys \cap Users = {} /\ Keys \cap Tenants = {} /\ Users \cap Tenants = {}
    /\ NoUser \notin Users
    /\ \A d \in Documents : IsDocument(d)
    /\ FirstRoles \in [Users -> SUBSET Roles]
    /\ Scenes \subseteq SUBSET AllRoutes
    /\ AccessTtl \in Nat \ {0} /\ KeyTtls \subseteq Nat \ {0}
    /\ {MaxDelay, MaxTokens, MaxNow} \subseteq Nat

VARIABLES
    scene, document, clock,
    people,         \* the users' rows: roles and lock
    sessions,       \* one session per user: the tenant it acts in, the strength of its login
    keyRing,        \* the keys' rows
    licences,       \* the tenants' features
    trade,          \* the exchange, login, refresh or switch in flight
    tokens,         \* access tokens somebody holds
    changedAt       \* history: when something of a user, a key or a tenant last changed

accessVars ==
    <<scene, document, clock, people, sessions, keyRing, licences, trade, tokens, changedAt>>

-----------------------------------------------------------------------------
(* State *)

Person == [roles: SUBSET Roles, locked: BOOLEAN]
Session == [live: BOOLEAN, tenant: Tenants, strong: BOOLEAN]

\* owner is the user a personal token acts as, or nobody: then the key acts as itself.  A personal
\* token's labels restrict its owner's roles.  madeIn is a history: the tenant its maker belongs to,
\* for the makers of the system tenant the one they made it in.
Key == [owner: Users \cup {NoUser}, tenant: Tenants, labels: SUBSET Labels, ttl: KeyTtls \cup {AccessTtl},
        madeIn: Tenants]
Unused == [issued |-> FALSE]
Gone == [issued |-> TRUE]

\* via is the credential a token was traded for, proof how its bearer showed to be who it is; switched
\* is a history: it was got by a switch.
Proofs == {TwoFactor, Pat, HmacPat}
Token == [via: Users \cup Keys, user: Users \cup {NoUser}, origin: Tenants, tenant: Tenants,
          granted: SUBSET Permissions, proof: SUBSET Proofs, switched: BOOLEAN,
          ttl: KeyTtls \cup {AccessTtl}, exp: Nat]

\* key: its row is read.  account: its owner's, and what the owner holds.  tenant: the tenant to act
\* in as well, and its features are among the subjects.  opens: a login, which leaves a session.
Trade == [phase: {"idle", "key", "account", "tenant"}, via: Users \cup Keys, user: Users \cup {NoUser},
          key: Key \cup {Unused, Gone}, origin: Tenants, tenant: Tenants, home: Tenants,
          subjects: SUBSET Subjects, ttl: KeyTtls \cup {AccessTtl}, proof: SUBSET Proofs, opens: BOOLEAN,
          since: Nat]

NoTrade == [phase |-> "idle", via |-> CHOOSE u \in Users : TRUE, user |-> NoUser, key |-> Unused,
            origin |-> System, tenant |-> System, home |-> System, subjects |-> {}, ttl |-> AccessTtl,
            proof |-> {}, opens |-> FALSE, since |-> 0]

\* create_tenant: an owner gets roles an empty tenant allows; the first of the system tenant, its own.
OwnerRoles(u) ==
    {role \in FirstRoles[u] :
        Assignable(document, role, IF HomeOf[u] = System THEN {SystemTenant} ELSE {})}

AccessInit ==
    /\ scene \in Scenes
    /\ document \in Documents
    /\ clock = 0
    /\ people = [u \in Users |-> [roles |-> OwnerRoles(u), locked |-> FALSE]]
    /\ sessions = [u \in Users |-> [live |-> FALSE, tenant |-> HomeOf[u], strong |-> FALSE]]
    /\ keyRing = [k \in Keys |-> Unused]
    /\ licences = [t \in Tenants |-> {}]
    /\ trade = NoTrade
    /\ tokens = {}
    /\ changedAt = [x \in Users \cup Keys \cup Tenants |-> 0]

Changed(x) == changedAt' = [changedAt EXCEPT ![x] = clock]

Alive(token) == clock < token.exp

\* with_user, with_user_with_any_permission: the token is all a route looks at.
Presents(token, route) ==
    token \in tokens /\ Alive(token)
    /\ (Needs[route] = {} \/ Needs[route] \cap token.granted # {})

Acts(token, route) == route \in scene /\ Presents(token, route)

-----------------------------------------------------------------------------
(* What a subject set grants *)

Markers(t, home) ==
    (IF t = System THEN {SystemTenant} ELSE {}) \cup (IF home = System THEN {Member} ELSE {})

\* eval_feature_set.
FeatureSet(t) == licences[t] \cup (IF t = System THEN {SystemTenant} ELSE {})

\* umami_grants: asked only of a principal of the system tenant.
UmamiGrants(subjects, permission) ==
    permission \in Resolve(document, subjects \cup {SystemTenant, Member})

Proven(strong) == IF strong THEN {TwoFactor} ELSE {}

\* may_switch_tenant: the home tenant's features are not among what it asks with.
MayStay(user, strong) ==
    SwitchTenant \in Resolve(document, people[user].roles \cup Markers(HomeOf[user], HomeOf[user])
                                       \cup Proven(strong))

Restricted(roles, labels) == IF labels = {} THEN roles ELSE roles \cap labels

-----------------------------------------------------------------------------
(* Sessions *)

Idle == trade.phase = "idle"

Starts(u, t, strong, opens) ==
    trade' = [NoTrade EXCEPT
        !.phase = "account", !.via = u, !.user = u, !.origin = HomeOf[u], !.tenant = t,
        !.home = HomeOf[u], !.subjects = people[u].roles \cup Proven(strong), !.proof = Proven(strong),
        !.opens = opens, !.since = clock]

\* login: the token is minted before the session is created.  A second factor is shown where something
\* depends on it.
SignIn(u, strong) ==
    /\ Idle /\ ~people[u].locked /\ ~sessions[u].live
    /\ strong => "switch_tenant" \in scene
    /\ Starts(u, HomeOf[u], strong, TRUE)
    /\ UNCHANGED <<scene, document, clock, people, sessions, keyRing, licences, tokens, changedAt>>

Logout(u) ==
    /\ sessions[u].live
    /\ sessions' = [sessions EXCEPT ![u].live = FALSE]
    /\ Changed(u)
    /\ UNCHANGED <<scene, document, clock, people, keyRing, licences, trade, tokens>>

\* refresh: the account is read, a locked one loses the session; the session's tenant is kept while
\* its user may still switch.
Refresh(u) ==
    LET s == sessions[u]
        t == IF s.tenant # HomeOf[u] /\ ~MayStay(u, s.strong) THEN HomeOf[u] ELSE s.tenant
    IN /\ Idle /\ s.live
       /\ IF people[u].locked
          THEN sessions' = [sessions EXCEPT ![u].live = FALSE] /\ Changed(u) /\ UNCHANGED trade
          ELSE Starts(u, t, s.strong, FALSE)
               /\ UNCHANGED <<sessions, changedAt>>
       /\ UNCHANGED <<scene, document, clock, people, keyRing, licences, tokens>>

\* switch_tenant: account and tenant are read, the bearer's session is moved, and the token is minted
\* with the second factors of the one presented.  The tenant asked for exists: none comes or goes here.
SwitchTo(token, t) ==
    LET u == token.user
        factors == token.proof \cap {TwoFactor}
    IN
    /\ Idle /\ Acts(token, "switch_tenant") /\ u # NoUser
    /\ ~people[u].locked /\ sessions[u].live
    /\ sessions' = [sessions EXCEPT ![u].tenant = t]
    /\ trade' = [NoTrade EXCEPT
           !.phase = "tenant", !.via = u, !.user = u, !.origin = HomeOf[u], !.tenant = t,
           !.home = System, !.subjects = people[u].roles \cup licences[t] \cup factors,
           !.proof = factors, !.since = clock]
    /\ UNCHANGED <<scene, document, clock, people, keyRing, licences, tokens, changedAt>>

-----------------------------------------------------------------------------
(* Keys *)

InUse(k) == keyRing[k] \notin {Unused, Gone}

\* exchange, up to the possession proof: the key's row is read; what it is asked for is a tenant.
ReadKey(k, t) ==
    /\ Idle /\ InUse(k)
    /\ trade' = [NoTrade EXCEPT
           !.phase = "key", !.via = k, !.key = keyRing[k], !.tenant = t, !.ttl = keyRing[k].ttl,
           !.since = clock]
    /\ UNCHANGED <<scene, document, clock, people, sessions, keyRing, licences, tokens, changedAt>>

Ends == trade' = NoTrade

\* Mutant of OwnerSubjects: the account is loaded, and its lock overlooked.
OwnerSubjectsLocked(proof) ==
    LET u == trade.key.owner
        subjects == Restricted(people[u].roles, trade.key.labels)
        home == HomeOf[u]
        foreign == trade.tenant # home
        gate == subjects \cup licences[home] \cup proof
    IN IF foreign /\ ~(home = System /\ UmamiGrants(gate, SwitchTenant))
       THEN Ends
       ELSE trade' = [trade EXCEPT !.phase = "account", !.user = u, !.origin = home, !.home = home,
                                   !.key = Unused, !.subjects = subjects \cup proof, !.proof = proof]

\* exchange of a personal token: a locked owner is refused; it acts elsewhere where its owner, by a
\* session that showed this proof, could switch to.
OwnerSubjects(proof) ==
    LET u == trade.key.owner
        subjects == Restricted(people[u].roles, trade.key.labels)
        home == HomeOf[u]
        foreign == trade.tenant # home
        gate == subjects \cup licences[home] \cup proof
    IN IF people[u].locked \/ (foreign /\ ~(home = System /\ UmamiGrants(gate, SwitchTenant)))
       THEN Ends
       ELSE trade' = [trade EXCEPT !.phase = "account", !.user = u, !.origin = home, !.home = home,
                                   !.key = Unused, !.subjects = subjects \cup proof, !.proof = proof]

LoadOwner(proof) ==
    /\ trade.phase = "key" /\ trade.key.owner # NoUser
    /\ OwnerSubjects(proof)
    /\ UNCHANGED <<scene, document, clock, people, sessions, keyRing, licences, tokens, changedAt>>

\* may_exchange_for_any_tenant.
ExchangesAnywhere(key) ==
    key.tenant = System /\ UmamiGrants(key.labels, "exchange:any-tenant")

\* exchange of a service key.
KeySubjects ==
    /\ trade.phase = "key" /\ trade.key.owner = NoUser
    /\ IF trade.tenant # trade.key.tenant /\ ~ExchangesAnywhere(trade.key)
       THEN Ends
       ELSE trade' = [trade EXCEPT !.phase = "account", !.origin = trade.key.madeIn,
                                   !.home = trade.key.tenant, !.key = Unused,
                                   !.subjects = trade.key.labels]
    /\ UNCHANGED <<scene, document, clock, people, sessions, keyRing, licences, tokens, changedAt>>

\* mint_for_api: unless they were read before, the features of the tenant acted in are; nobody who is
\* not eligible gets a token, nor by a login a session.
Mint ==
    LET features == IF trade.phase = "tenant" THEN {} ELSE licences[trade.tenant]
        granted == Resolve(document, trade.subjects \cup features \cup Markers(trade.tenant, trade.home))
        token == [via |-> trade.via, user |-> trade.user, origin |-> trade.origin,
                  tenant |-> trade.tenant, granted |-> granted, proof |-> trade.proof,
                  switched |-> trade.phase = "tenant", ttl |-> trade.ttl, exp |-> clock + trade.ttl]
    IN /\ trade.phase \in {"account", "tenant"}
       /\ Cardinality({o \in tokens : Alive(o)}) < MaxTokens
       /\ tokens' = (IF granted = {} THEN {} ELSE {token}) \cup tokens
       /\ sessions' = IF trade.opens /\ granted # {}
                      THEN [sessions EXCEPT ![trade.user] =
                                [live |-> TRUE, tenant |-> trade.tenant, strong |-> TwoFactor \in trade.proof]]
                      ELSE sessions
       /\ Ends
       /\ UNCHANGED <<scene, document, clock, people, keyRing, licences, changedAt>>

TradeFails ==
    /\ ~Idle /\ Ends
    /\ UNCHANGED <<scene, document, clock, people, sessions, keyRing, licences, tokens, changedAt>>

-----------------------------------------------------------------------------
(* Administration: by bearers of tokens *)

\* patch_user, create_user: only a role that is added is looked at.
SetRoles(token, u, roles) ==
    /\ Acts(token, "patch_user") /\ HomeOf[u] = token.tenant
    /\ roles # people[u].roles
    /\ \A role \in roles \ people[u].roles : Assignable(document, role, FeatureSet(HomeOf[u]))
    /\ people' = [people EXCEPT ![u].roles = roles]
    /\ Changed(u)
    /\ UNCHANGED <<scene, document, clock, sessions, keyRing, licences, trade, tokens>>

\* patch_user.
SetLocked(token, u) ==
    /\ Acts(token, "patch_user") /\ HomeOf[u] = token.tenant
    /\ people' = [people EXCEPT ![u].locked = ~@]
    /\ Changed(u)
    /\ UNCHANGED <<scene, document, clock, sessions, keyRing, licences, trade, tokens>>

Issued(k, row) == keyRing' = [keyRing EXCEPT ![k] = row] /\ Changed(k)

\* Mutant of ScopesAllowed: a key is given the scopes it is asked for.
ScopesAsAsked(scopes, t) == scopes \subseteq Scopes

\* create_api_key: each scope is one the tenant's features license.
ScopesAllowed(scopes, t) == \A scope \in scopes : Assignable(document, scope, FeatureSet(t))

CreateApiKey(token, k, t, scopes, ttl) ==
    /\ Acts(token, "create_api_key") /\ keyRing[k] = Unused
    /\ token.tenant = t
    /\ ScopesAllowed(scopes, t)
    /\ Issued(k, [owner |-> NoUser, tenant |-> t, labels |-> scopes, ttl |-> ttl,
                  madeIn |-> IF token.origin = System THEN t ELSE token.origin])
    /\ UNCHANGED <<scene, document, clock, people, sessions, licences, trade, tokens>>

\* create_my_pat: stored under the tenant its maker acts in; the lifetime is the configured one.
CreateMyPat(token, k, roles) ==
    /\ Acts(token, "create_my_pat") /\ keyRing[k] = Unused
    /\ token.user # NoUser
    /\ Issued(k, [owner |-> token.user, tenant |-> token.tenant, labels |-> roles, ttl |-> AccessTtl,
                  madeIn |-> HomeOf[token.user]])
    /\ UNCHANGED <<scene, document, clock, people, sessions, licences, trade, tokens>>

\* delete_api_key and delete_my_pat: a service key of the tenant acted in, a personal token of one's own.
DeleteKey(token, k) ==
    /\ InUse(k)
    /\ \/ Acts(token, "delete_api_key") /\ keyRing[k].owner = NoUser /\ keyRing[k].tenant = token.tenant
       \/ Acts(token, "delete_my_pat") /\ keyRing[k].owner = token.user /\ token.user # NoUser
    /\ Issued(k, Gone)
    /\ UNCHANGED <<scene, document, clock, people, sessions, licences, trade, tokens>>

GrantLicence(token, t, f) ==
    /\ Acts(token, "grant_feature") /\ f \notin licences[t]
    /\ Assignable(document, f, FeatureSet(t))
    /\ licences' = [licences EXCEPT ![t] = @ \cup {f}]
    /\ Changed(t)
    /\ UNCHANGED <<scene, document, clock, people, sessions, keyRing, trade, tokens>>

RevokeLicence(token, t, f) ==
    /\ Acts(token, "revoke_feature") /\ f \in licences[t]
    /\ Dependents(document, licences[t] \ {f}) = {}
    /\ licences' = [licences EXCEPT ![t] = @ \ {f}]
    /\ Changed(t)
    /\ UNCHANGED <<scene, document, clock, people, sessions, keyRing, trade, tokens>>

\* A token that has run out is of no use to anybody.
ClockTicks ==
    /\ clock < MaxNow
    /\ ~Idle => clock < trade.since + MaxDelay
    /\ clock' = clock + 1
    /\ tokens' = {token \in tokens : clock + 1 < token.exp}
    /\ UNCHANGED <<scene, document, people, sessions, keyRing, licences, trade, changedAt>>

AccessNext ==
    \/ \E u \in Users :
        \/ \E strong \in BOOLEAN : SignIn(u, strong)
        \/ Logout(u) \/ Refresh(u)
    \/ \E k \in Keys, t \in Tenants : ReadKey(k, t)
    \/ \E proof \in {{Pat}, {Pat, HmacPat}} : LoadOwner(proof)
    \/ KeySubjects \/ Mint \/ TradeFails
    \/ \E token \in tokens :
        \/ \E t \in Tenants : SwitchTo(token, t)
        \/ \E u \in Users : SetLocked(token, u) \/ \E roles \in SUBSET Roles : SetRoles(token, u, roles)
        \/ \E k \in Keys :
            \/ \E t \in Tenants, scopes \in SUBSET Scopes, ttl \in KeyTtls :
                   CreateApiKey(token, k, t, scopes, ttl)
            \/ \E roles \in SUBSET Roles : CreateMyPat(token, k, roles)
            \/ DeleteKey(token, k)
        \/ \E t \in Tenants, f \in Features : GrantLicence(token, t, f) \/ RevokeLicence(token, t, f)
    \/ ClockTicks

AccessSpec == AccessInit /\ [][AccessNext]_accessVars

-----------------------------------------------------------------------------
(* Properties *)

\* enforce_read_scope and the tenancy checks of the handlers: the tenants a route opens to a token.
Opens(token, route) ==
    CASE Rows[route] = Self -> {}
      [] Rows[route] = Acting -> {token.tenant}
      [] Rows[route] = Reading ->
             IF "manage:limits" \in token.granted THEN Tenants ELSE {token.tenant}
      [] OTHER -> Tenants

\* A label nobody carries outside the system tenant.
OfTheSystem(d, label) ==
    label \in DOMAIN d.codes =>
        d.codes[label] # Always /\ \A a \in d.codes[label] : SystemTenant \in a.has

\* The configuration hands what leads beyond one tenant only to principals of the system tenant: every
\* way to it asks for a marker or a label of the system tenant, or for something it has handed out so.
Guarded(d) ==
    \A i \in DOMAIN d.rules : d.rules[i].grant \cap CrossTenant # {} =>
        /\ d.rules[i].when # Always
        /\ \A a \in d.rules[i].when :
               \/ a.has \cap ({SystemTenant, Member} \cup CrossTenant) # {}
               \/ \E label \in a.has \cap Labels : OfTheSystem(d, label)

(***************************************************************************)
(* Whoever is not of the system tenant touches, through any route, only    *)
(* rows of the tenant it belongs to; and a key it made reaches no further, *)
(* whatever the key was asked to carry and wherever it was asked to act    *)
(* (enforce_own, can_assign_role, can_assign_scope, exchange,              *)
(* mint_for_api and the routes' permissions).                              *)
(***************************************************************************)
Confined ==
    Guarded(document) =>
        \A token \in tokens : token.origin # System =>
            \A route \in AllRoutes : Opens(token, route) \subseteq {token.origin} \/ ~Presents(token, route)

\* What a user's credential claims now, and the tenant it is taken to belong to: a switch takes whoever
\* it lets go for a member of the system tenant.
OwnLabels(token) ==
    IF token.via \in Keys THEN Restricted(people[token.user].roles, keyRing[token.via].labels)
    ELSE people[token.user].roles
TakenHome(token) == IF token.switched THEN System ELSE HomeOf[token.user]

\* Beyond its owner's tenant, a key leads as it may be exchanged, a session as it may be refreshed; and
\* a switch as the token presented let it.
MayAct(token) ==
    LET home == TakenHome(token) IN
    \/ token.switched \/ token.tenant = home
    \/ token.via \in Keys /\ home = System
          /\ UmamiGrants(OwnLabels(token) \cup licences[home] \cup token.proof, SwitchTenant)
    \/ token.via \in Users /\ MayStay(token.user, TwoFactor \in token.proof)

Standing(token) ==
    /\ token.via \in Keys => InUse(token.via)
    /\ token.via \in Users => sessions[token.via].live
    /\ token.user # NoUser => ~people[token.user].locked /\ MayAct(token)
    /\ token.user = NoUser =>
           \/ token.tenant = keyRing[token.via].tenant
           \/ ExchangesAnywhere(keyRing[token.via])

Carried(token) ==
    IF token.user = NoUser
    THEN keyRing[token.via].labels \cup Markers(token.tenant, keyRing[token.via].tenant)
    ELSE OwnLabels(token) \cup token.proof \cup Markers(token.tenant, TakenHome(token))

\* What the credential would be given now, for the tenant of the token and with the proof it showed.
Entitlement(token) ==
    IF Standing(token) THEN Resolve(document, Carried(token) \cup licences[token.tenant]) ELSE {}

\* What the token rests on, and when something of it last changed.
Touched(token) ==
    {token.via, token.tenant}
    \cup IF token.user = NoUser THEN {} ELSE {token.user, HomeOf[token.user]}

LastChange(token) ==
    CHOOSE at \in {changedAt[x] : x \in Touched(token)} : \A x \in Touched(token) : changedAt[x] <= at

(***************************************************************************)
(* What is taken away, a role, a lock, a key, a feature, a session, is     *)
(* gone with the tokens that carry it: no token outlives the change by     *)
(* more than its lifetime and the time a trade takes, whichever reads the  *)
(* change fell between (exchange, refresh, switch_tenant; the comment on   *)
(* DEFAULT_ACCESS_TTL_SECS).  The permission to switch is one of those: a  *)
(* token that has outlived it buys one more lifetime elsewhere.            *)
(***************************************************************************)
RightsLapse ==
    \A token \in tokens :
        \/ token.granted \subseteq Entitlement(token)
        \/ token.exp <= LastChange(token) + MaxDelay + token.ttl
=============================================================================
