# umami in TLA+

umami is an identity service: it keeps tenants, users and their addresses, signs
people in, issues access tokens for a set of APIs, keeps quotas, and delivers
notifications. It is an async Rust server (`src/src`) of which several processes
may run side by side, over one of two stores, DynamoDB or PostgreSQL. A handler
is a task that calls the store a few times; there are no transactions that span
calls (a few single calls are transactions of their own), so what the program
guarantees rests on conditional single-row statements and on the order of calls.
That is what these specifications are about: **every store call is an action,
and anything may happen between two of them.**

- [Inventory](#inventory)
- [What is modelled](#what-is-modelled)
- [The runs](#the-runs)
- [Bounds, deadlock, fairness](#bounds-deadlock-fairness)
- [Where code and documentation disagree](#where-code-and-documentation-disagree)
- [The proofs](#the-proofs)
- [What is not modelled](#what-is-not-modelled)
- [What is left](#what-is-left)

Paths below are relative to the repository (`src/...`), so `src/src/auth/login.rs`
is the file `src/auth/login.rs` of the crate.

## Inventory

State is what the component keeps between requests. "Hard" is what makes it
worth a model; the last column names the modules and the properties in them.

| Component | State | Operations | Hard | Modelled in, and correct when |
|---|---|---|---|---|
| **Login sessions** `auth/login.rs`, `auth/session/`, `auth/cookies.rs`, `auth/switch_tenant.rs` | `sessions` table: user, tenant, current and previous secret hash, grace end, token version, expiry; the browser's cookie | login, refresh (rotate, grace, reuse detection), logout, revoke one, revoke all, switch tenant | secret judged on one read, user on another, written by a third call; lost answers; copied cookies; TTL | `Sessions*`: no grant on facts that never held together; a replay revokes; a closed session stays closed; the owner is not taken for a thief |
| **Accounts** `users/`, `auth/me.rs`, `auth/totp.rs` | `users` table | patch, lock, set or change password, choices, log out everywhere, delete | read–change–write of the *whole* row without a condition, from a dozen handlers | `Accounts*`: a stale write installs nothing unproven, a new password ends old sessions (it does not: `AccountsConcurrent`) |
| **User directory** `users/`, `user-usernames` guard table | user rows and the names reserved for them | create, rename, delete with everything that hangs on the account | guard and row are two tables, on DynamoDB two calls; a cascade of single deletes | `Directory*`: names and accounts agree, nothing outlives its owner, nothing returns |
| **Contacts** `contacts/` | `user-contacts` table: pending or verified; `preferredContact` in the user row | add, verify, remove, prefer; derived target address | mailboxes shared by accounts, removal and re-adding between mail and click, bounces | `Accounts`: verified means proven by this account |
| **One-time links** `auth/challenge/` | `auth-challenges` table: hash, purpose, subject, address, ttl | issue, consume (delete, then judge) | two clicks at once, wrong endpoint, lapsed but not yet deleted | `Accounts`: one link, one use, one purpose |
| **Password recovery** `auth/recovery.rs` | none of its own | forgot (by name, by address), reset | three reads from three tables at three times; ambiguity must end in silence | `AccountsRecovery`: a reset link goes only to a proven address of an unlocked account |
| **Tenant quotas** `limits/` | a versioned state row per tenant and limit, a ledger, a history; the limit's settings in the `tenants` row | consume, top up, report a gauge, change settings, lazy turn of the month; four overrun policies | compare-and-swap loop around arithmetic over three buckets, a debt and two calendars; clock and settings read before the loop | `Limits`: no booking lost or doubled, entries exact, never credit and debt at once, closed months final |
| **Tenants** `tenants/` | `tenants` table, versioned | create, patch, delete | "is it empty?" and "delete it" are two calls over a lagging index; an id may be used again | `Directory`: no edit lost, deleted only when nobody could be seen in it |
| **API keys and tokens** `auth/apikeys/` | keys per tenant or user | create, delete, exchange, touch | revocation, owner, tenant and scopes are read apart; a key is stored where its maker acts | rows in `DirectoryKeys`; what they are worth in `Access` |
| **Messaging links** `messaging/` | link codes, identity → user links | show or regenerate a code, redeem it, unlink, purge | code is read, deleted, inserted; an identity can change hands | `MessagingLinks`, composed in `DirectoryMessaging`: a code links once, a loss is reported once |
| **External recipients** `recipients/` | `recipients` table, confirmation challenges | sign up, confirm (double opt-in), patch, manage by link, unsubscribe, bounce, clear a tenant | whole-row writes against conditional confirmations and removals | `Recipients`: mail only where a mailbox agreed; removed stays removed |
| **Notifications** `notify/` | published types, users' choices | publish, choose, ask for an audience, send a batch, report a bounce | choice, features, confirmation read at different times, the send much later | `Catalogue`, `Notify`: named by choice; every choice is served |
| **Rate limiter** `auth/ratelimit/` | counters and blocks in the store, a block cache per node | check, record failure and success, block, rehydrate | several calls per decision, one node's cache stale for another, fails open | `RateLimit`: the caps hold over all nodes; nobody is refused without cause |
| **Second factors** `auth/totp.rs`, `auth/webauthn/` | secrets in the user row, credentials, pending ceremonies | set up, verify, disable; register, sign in with or without a name | a pending secret in a stale copy; a ceremony offered twice, at another endpoint, after its account went | `SecondFactors`: what guards an account was proven by its holder |
| **Configuration** `config/` | one versioned document, cached by every node | load, publish, seed, repair | S3 compares and then puts; a cache is refreshed by loads that overlap | `ConfigStore`: no acknowledged edit lost; staleness bounded |
| **Audit** `audit/` | append-only log with retention, two indexes | record, page through | entries arrive late, share a millisecond, expire between pages | `AuditTrail`: a walk is complete |
| **Permission rules** `authz.rs`, `auth/authorize.rs`, `auth/broker.rs`, `api/auth.rs` | features in the tenant's row, labels in the users' | grant, revoke, label, switch, mint, filter a route | order of rules, mutual implication, two administrators at once, second derivations of one answer | `PermissionRules`, `Grants`, `Routes`, `Access`: tenants are confined; lost rights lapse |
| **Tokens, sealing, hashing** `auth/tokens.rs`, `auth/secretbox.rs`, `auth/password.rs` | keys | sign, seal, verify | cryptography | used as ideal functions |
| **Home and tasks, languages, hosted login, boot, web server, seed, TypeScript client** | none or start-up only | — | one refresh in flight *per tab* | not modelled; premise of the browser run |

How they interact: a session row and an access token carry the `tokenVersion`
of the user row, and every refresh compares the two: that counter is how
accounts end sessions. Contacts, links and messaging are keyed by user id and
hold no reference back; deleting a user deletes them one table at a time, the
row last. Recovery joins users, contacts, links and the mail queue. The broker
turns user, tenant and configuration into a token, and from then on a route
looks at the token alone. Handlers share no memory apart from caches.

## What is modelled

### Sessions

| Module | Role |
|---|---|
| `Sessions` | the session service: table, users, cookie jars, request tasks, clock |
| `SessionLifecycle` | the abstract life of a session: free, open, closed |
| `SessionsWitness` | history variables `seen` and `regressed`, and the properties of a grant |
| `SessionsRefinement` | the refinement mapping to `SessionLifecycle` |
| `SessionsBrowser` | what reuse detection may never do to the owner; liveness |
| `MCSessions`, `MCSessionsBrowser` | instances for TLC |
| `SessionsProofs` | theorems |

State ↔ code. `sessions[s]` is the row of the `Session` struct
(`auth/session/mod.rs:22`); `hash` and `prev` name secrets by their generation
in the session, which is sound because `generate_refresh_secret` draws 32 random
bytes, and 0 is "none". `users[u]` has the columns refresh, login and switching
read. `jar[j]` is the refresh cookie of one browser. `req[r]` is a task: its
phase is the await it has reached, and its other fields are the handler's local
variables. `Backend` selects between the two stores where they differ:
PostgreSQL filters expired rows in its reads and conditions, and sweeps them on
every login; DynamoDB serves them until its TTL removes them.

One refresh (`refresh`, `auth/login.rs:698`) is `StartRefresh`,
`RefreshGetSession` (not found, expired, current, graced, or replayed),
`DeleteSession` for the last of these, `RefreshGetUser` (gone, locked, wrong
version), `RefreshRotate` (conditional on the row, and only when the secret was
the current one), `RefreshMint` (an API the user is not eligible for ends in an
error *after* the rotation), then `Deliver` or `LoseAnswer`. Logout, revocation,
login and switching are treated the same way. The environment copies a cookie
jar, moves the clock, removes expired rows, bumps versions, writes and deletes
user rows. A granted request is one whose answer carries a token.

Sessions see of the accounts what the other handlers do to a user row: the
atomic counter (`BumpVersion`), the deletion in two steps, and `PutUser`, the
whole-row write from a copy that was read at some earlier time. The copy may
lock, unlock or change roles, and it may be old: it may carry any version the
row has shown and bring a deleted row back. How the handlers come to hold such a
copy is the subject of `Accounts`; a run there (`AccountsConcurrent`) shows that
a version really is moved back. `regressed` marks the users it happened to.

### Accounts

| Module | Role |
|---|---|
| `Accounts` | user rows, contacts, one-time links and the handlers over them |
| `AccountsRecovery` | history variable `since`: what a recovery may rest on; derived target addresses |
| `AccountsSessions` | history variable `ended`: the token versions whose sessions a revocation was to end |
| `MCAccountsRecovery` | symmetric instances for TLC |
| `AccountsProofs` | theorems |

State ↔ code. `users[u]` has the columns that decide something here: password,
token version, lock, preferred contact; the rest of the `User` struct is data a
whole-row write carries along and is represented by the write itself (kind
`profile`: `patch_me`, the three TOTP handlers, `set_choice`). `contacts[u][a]`
is absent, pending or verified. `links[l]` is a challenge row with what became
of it: `consume` deletes the row first and judges it afterwards, so a lapsed or
misdirected link is spent (`void`), and `redeemed` remembers the ones that were
honoured. `task[t]` is a handler in flight; `row` in it is the copy that
`put_user` writes back. That write is unconditional in both stores
(`users/repository/postgres.rs:216` says so), so it undoes what others wrote
since the read and brings back a row deleted meanwhile; the model does both.

Handlers: `add_my_contact` with its `start_verification`, `start_verification`,
`finish_verification`, `delete_my_contact`, `preferred_contact`,
`report_undeliverable` for users, `forgot_password` by name and by address,
`reset_password` by link, `patch_user`, `patch_me`, `set_choice`, TOTP,
`change_password`, the administrator's `reset_password`, `logout_all`,
`delete_user` with its contacts. `GiveUp` ends a handler between any two calls:
a stopped process, a failing store call, a validation that refuses late (the
reset link is consumed before the new password is validated).

Where a recovery mails to is `ReachableAddress`.

### Limits

| Module | Role |
|---|---|
| `LimitAccounting` | the arithmetic of `limits/accounting.rs`: pure operators from a row, settings, policy and day to an outcome |
| `Limits` | requests on one limit of one tenant: settings and clock are read, then the loop of `commit_state` |
| `MCLimits` | definitions, settings and amounts for TLC |
| `LimitsProofs` | theorems |

State ↔ code. `row` is the `LimitState` row, version 0 meaning that there is none;
`ledger` the appended `LedgerEntry`s in the order of their commits (an entry is
written as the balances before and after, from which the code's resulting
amounts and signed deltas follow); `history[m]` the history row of a month;
`tenant` the limit's settings in the tenant row with the row's version. `task[t]`
is a request: its phase is the await it has reached, and it carries what the
handler holds — the settings and the clock taken before the loop, the loaded row,
the attempts so far. A day belongs to a month by division; the four policies and
the kind of the limit are chosen once, as the configuration is not changed by a
request.

`consume_limit`, `topup_limit` and `report_gauge` read tenant and clock in
`Begins` and enter the loop: the definition does not change, and the clock is taken
as soon as the tenant has arrived, without an await in between.
`set_limit_settings` is `SetLimitSettings`, `Preview` (asks back if the overrun
would move), `ReadTenant`, `SaveTenant` (conditional on the version read, else
409), `ReconcileLimitState` (a preview on a row of its own, which may find
nothing to do), then the loop. The loop is `Load`, then one of `Commit` (row,
entries and history row in one transaction, if the version is the loaded one and
the month it closes is still open), `Conflict` (load again, or answer 503 after
the last attempt) and `Refuse` (429). A request may stop anywhere.

Amounts are unbounded integers. The code stores i64 without checking for
overflow. Which facets a definition enables is left to the settings: a definition
here allows any of them that its kind gives a meaning, which includes the ones a
narrower definition would allow.

### Directory

| Module | Role |
|---|---|
| `Directory` | tenants, accounts, login names: create, patch, delete, the delete cascade |
| `DirectoryKeys` | API keys and personal tokens over it, the exchange's last-used stamp, the world around (late rows, indexes that catch up, handlers that stop), the properties |
| `MessagingLinks` | link codes and linked chat identities |
| `DirectoryMessaging` | both composed: what `delete_user` calls in "links" is the purge of `MessagingLinks` |
| `MCDirectory`, `MCMessaging` | instances for TLC |
| `MessagingProofs`, `DirectoryProofs` | theorems |

State ↔ code. `tenants[id]` is the row with its version; `edits` is what it has
absorbed, which makes a lost update visible, and `born` counts how often the id was
created, since an id may be used again and its version restarts. `users[u]` is
the row, `guards[n]` the account a login name is reserved for, `keys[k]` a key
with the tenant it is stored under. `rows` are the rows of other tables that
hang on an account or a tenant. `listed` says whether a DynamoDB index shows a row
yet. In `MessagingLinks` a link row *is* the code it was claimed with, so
that it can be asked by which act an identity is held. `task[t]` and `call[t]`
are handlers at an await.

`create_user` is `ReserveName` and `InsertUser` on DynamoDB and `CreateAtOnce` in the
transaction of PostgreSQL; `patch_user` moves the guard before it validates the
roles (`RefusePatch` is the refusal in between), then puts the whole row
unconditionally (`PutUser`). `delete_user` is `ClearTable` along `Cascade`,
the tokens one by one or at once, the row, then the guard. `delete_tenant` looks for
users, then for keys, clears the recipients and drops the row. A
caller acts by a token that outlives account and tenant, so requests are about any
id that ever existed. `redeem_code` is `ConsumeCode` (deletes, then looks at
what was deleted) and `ClaimIdentity`, which takes an identity over and reports the
displaced claim from the write's own answer. Regenerating replaces all codes in
a transaction on PostgreSQL; on DynamoDB it finds one, deletes it, inserts.

### Outreach

| Module | Role |
|---|---|
| `Catalogue` | notification types, their conditions and rhythms, who hears about a firing: pure operators |
| `Recipients` | the external recipients of tenants and their confirmation links |
| `Notify` | catalogue, choices, audiences, batches, over the recipients and users |
| `MCOutreach` | instance for TLC |
| `OutreachProofs` | theorems |

State ↔ code. `rows[n]` is a recipient's row, `links[s]` a confirmation challenge,
`tasks[t]` a handler with the row it has read, `catalogue` the published types,
`people[u]` what a send looks at of a user, `calls[c]` an app's audience or
batch in flight. `clicked`, `gone`, `chosen`, `defaults` and `asked` are histories:
who followed which link, who was deleted, who chose what. A condition is a set of
alternatives, each a set of terms, as `config` has it. An app first asks who
hears about a firing (users, then whether they can be reached, then
recipients) and later sends a batch, which looks at the addressees again, at
confirmation and lock, and never at choices. PostgreSQL updates a recipient only if it
is there; DynamoDB puts it whatever is there.

### Platform

| Module | Role |
|---|---|
| `RateLimit` | password logins behind the limiter, on several nodes |
| `SecondFactors` | TOTP secrets and passkeys |
| `ConfigStore` | the configuration document, its two stores, every node's cache |
| `AuditTrail` | recording, expiry and paging of the trail |
| `PermissionRules` | conditions, ordered rules, eligibility: pure operators |
| `Grants` | features, roles and the permission to act in another tenant |
| `Platform`, `MCPlatform` | all of them over one backend, one moving at a time |
| `PlatformProofs` | theorems |

These parts meet in nothing but the backend: no step of one reads or writes what
another keeps. So `Platform` picks a `subject` and moves that part alone, which looks
at every interleaving of the part with itself and lets the state spaces add up
instead of multiplying.

State ↔ code. `counters`, `failures` and `blocks` are the limiter's rows with
their TTLs, `cache[n]` the block cache of a node, `login[t]` a login at one of its
awaits with the time it took at its start. `accounts[u]` are the TOTP columns,
`passkeys[u]` the credentials, `ceremonies[k]` what a start handler leaves for its
finish. `stored` is the document, a set of the edits it has absorbed with a version
and a generation (the revision of PostgreSQL, the ETag of S3), `cached[i]` what an
instance serves, `writing` the mutex in `S3ConfigStore`. `log` and `index` are the audit
table and what its DynamoDB index has caught up with; `walk[w]` a client that
pages through it. `tenants`, `labels`, `active` and `strong` in `Grants` are a tenant's
features, a user's labels, the tenant its session acts in and whether it showed a
second factor; `answered` is a history of what administrators were told.

### Access

| Module | Role |
|---|---|
| `Routes` | the matrix of authorised routes: what a token must carry, whose rows the handler opens |
| `Access`, `MCAccess` | from a credential to a token and through a route |
| `AccessProofs` | theorems |

A trade (login, refresh, switch, exchange) reads the credential, then the
account, then the tenant, and mints; everything else may happen in between.
`tokens` are the access tokens somebody holds, with the permissions they were minted
with. What tokens permit is done through the routes of `Routes`, which have the names of
their handlers: an administrator patches users, creates keys, grants features, and
so changes what the next trade yields. The rows themselves are looked at more closely in
`Directory`, `Grants` and `Sessions`; here a write is one step.

### Workloads

`DirectoryLife`, `OutreachLife`, `PlatformLife` and `AccessLife` choose in the initial
state what a behaviour is about (`load`, `subject`, `scene`, `errands`, `mishap`,
`traffic`): a set of request kinds that touch the same rows. Each behaviour serves
only these, and any number of them in any order up to the bounds. Kinds that share no row
need not be interleaved; the sets are chosen so that kinds that do share one meet in at
least one of them.

## The runs

| Run | Instance | Shows |
|---|---|---|
| `SessionsGrants` | 1 session, 1 browser, 2 requests of all kinds in flight, home and a foreign tenant, 2 secrets, clock 0–2, answers get lost, stale writes of the user row, DynamoDB | `GrantHonoured`, `GrantUnlocked`: whatever happens between the awaits of a refresh, it grants only what was right at one moment since it was sent. `ForeignGrantEntitled`: entitlement is re-decided by every refresh, although the switch is stored |
| `SessionsTheft` | 1 session, 2 browsers with copies of a cookie, 2 requests in flight, an API the user is not eligible for, 3 secrets, PostgreSQL | `ReuseRevokes`: a replay ends the session. `ImplementsLifecycle`: no write based on an earlier read reopens a session or skips a secret |
| `SessionsBrowser` | 1 browser, 1 request at a time, every answer arrives, 2 sessions, 4 secrets, clock 0–3 | `NoFalseReuse`: the owner is never taken for a thief. `CookieInSync`: the browser holds a secret the server knows. Under fairness `EveryRequestEnds` |
| `AccountsRecovery` | 2 accounts × 2 shared mailboxes, 2 handlers, 2 links, the contact and recovery handlers | `VerifiedByItsOwner`, `PreferredWasProven`, `LinkAuthorisesOneUse`: addresses are proven by the account that has them. `ResetGoesToProvenAddress`: no reset is mailed on facts that did not hold since it was asked for |
| `AccountsWrites` | 1 account × 2 addresses, 2 handlers, 2 links, *all* handlers | `ResetGoesToProvenAddress` under stale writes, locks, deletion and resurrection |
| `AccountsConcurrent` | 2 handlers among edits, password changes and sign-outs everywhere | refutes `RevocationEndsSessions` |
| `LimitsBooking` | 3 requests of any kind on one limit, all four policies and a gauge, 4 settings, three days of which the last begins a month, 2 attempts per request | `NeverCreditAndDebt`, `LedgerChains`, `EntriesAreExact`, `BookedOnce`, `HistoryIsFinal`, `UsageIsKept` |
| `DirectoryLife` | the system tenant and another, 2 accounts, 2 names, 1 key, 2 handlers, 1 link code, 1 identity, ten workloads, both backends | `NamesAgree`: guard and row agree unless a change was cut short or two overlapped. `NothingOutlivesItsOwner`, `LinksLeaveWithTheirUser`: a deletion takes along all it can see. `NothingReturns`: no late write resurrects. `EditsAreKept`: no tenant edit is lost within one life of the id. `DeletedWhenEmpty` |
| `MessagingLife` | 2 accounts, 2 codes, 2 identities, 2 handlers, both backends | `CodeLinksOnce`; `DisplacedIsToldOnce`: two claims of one identity never report the same loss |
| `OutreachLife` | 2 recipients of 1 address, 1 user, 2 links, 2 handlers, 1 call of an app, 4 drafts of a catalogue of which 2 may not be published, seven workloads, both backends | `NoMailUnconfirmed`; `NamedByChoice`: nobody is named for a default of a type it never chose, except users for a published one; `EveryChoiceIsServed`; `PostgresKeepsItsRows` |
| `PlatformLife` | 2 nodes, 2 handlers, clock 0–4, one part at a time in each of its settings, both backends | `ThrottlingIsJust` (the volume cap holds over all nodes, guesses are bounded, a block has a cause and an end, a quiet period resets); `FactorsAreTheHolders`; `NoEditIsLost`; `StaleIsBounded`; `WalksAreComplete`; `FeaturesHold`; `SwitchLastsAsLongAsAllowed` |
| `AccessLife` | an administrator of the system tenant and one of a customer, 1 key, 2 tokens at once, clock 0–2, 2 configurations, five scenes | `Confined`: whoever is not of the system tenant reaches only rows of its own tenant through any route, with any key it can make. `RightsLapse`: a token outlives the loss of what it rests on by no more than its lifetime and the trade that minted it, the permission to switch included |

State spaces lie between 0.2 and 2.5 million distinct states; a run takes 10
seconds to 3 minutes with two workers.

**Why properties use history variables.** A refresh never sees session and user
at the same moment, and a recovery never sees row and contacts at the same
moment, so "the facts were right in the state where the token was granted" is
false, and "each fact was right when it was read" restates the guards. What a
careful reader expects is in between: there is *one* moment since the request
was sent at which the grant was right (`seen`), or each fact the mail rests on
held since the recovery was asked for (`since`). In the same way `clicked`,
`scanned` and `enroled` say what a person really did, whatever rows say later;
`late`, `unseen`, `missed` and `excused` mark exactly the rows that a deletion could
not have seen, so that the properties of a cascade promise everything else.
Both kinds are about several steps of several actors, and a stale copy carried across
an await breaks them.

`GrantHonoured` speaks of the users whose row no stale copy has moved back. For
the others it is false, and that is the disagreement of `AccountsConcurrent`: a version
that returns makes sessions good again that were ended. `NamesAgree` speaks of the
directory in which no rename was cut short; what happens otherwise is described
below.

## Bounds, deadlock, fairness

**Bounds and why they suffice.** `MaxSecret`, `MaxVersion`, `MaxTime`, `MaxBorn`,
`MaxGeneration`, `MaxDelay`, `MaxCount` and their like end the counters; they sit in
the guards of the actions that count. Three secrets are
the least that distinguish current, graced and spent (`SessionsTheft`, and four
for one browser alone); what a grant rests on shows with two, since a graced
secret is as good as a current one there. The grace window is one tick and the
ttl two, so that all orders of grace end, expiry and request occur.
Two requests in flight are enough for a read of one to be outdated by the other
and, with the environment's own steps, for a chain of three. Two accounts and two
addresses are the least with a shared mailbox and an ambiguous choice, two links the
least with a confusion of purposes. For `Limits`, a month of two days and the first
day of the next one, with the clock moving at any time, cover a request that straddles
a midnight, a turn of the month, or both; three requests are two that race and one that
comes after, or one that comes between the two; two attempts tell a retry from giving
up. In the directory, two names and two accounts are the least for a collision and
for a rename that frees what another reserves; an id that is created twice shows the
version that restarts. Two recipients of one address show the duplicate, two links a
superseded confirmation. Two nodes are the least with caches that differ; a window of
one or two seconds, a block of three and a clock of five values contain two windows, a
block that ends and a quiet period. Pages of two and three entries make a walk cross a
page between entries of one millisecond. Of the configurations of `Access`, one
keeps administration to the system tenant, lets its administrators switch unless by a signed key and
grants by absence; the other allows administration everywhere, asks for a second factor or a signed key
beyond a tenant, and has importers; `Grants` has three for features that imply, exclude or are reserved.
`AccessLife` was also run with administrators who may switch from
customers too (6.4 million states, five minutes).

**Symmetry** is used for requests, sessions, tasks, links, users,
addresses, names, codes and nodes of which no definition prefers one (the mailing order of
`preference_for` is abstracted to the existence of an answer); it is not used
with liveness, and nowhere for values that an operator orders or chooses from.

**Deadlock** is not checked: the bounded counters and the finite supply of
ids, links and requests really do end a behaviour. That no request of a browser hangs is
`EveryRequestEnds`.

**Fairness** is weak fairness of a session request that can run (`Work(r)`) and of its
answer leaving the server (`Reply(r)`): the tokio runtime polls every ready task
again, and store calls have timeouts. Nothing is assumed of clients, the
environment or the clock. The other components state no fairness and no liveness: their
handlers are straight lines of store calls that wait for nobody, the loop of `Limits` is bounded
by its attempts, the one mutex (`ConfigStore`) is held over store calls that time
out, and what happens eventually beyond that, the TTL's sweep, an index that catches up,
a person who clicks, is promised by nobody in this code.

## Where code and documentation disagree

One run refutes what the documentation says.

**A revocation undone** (`AccountsConcurrent`). `auth/me.rs:4` says
`logout-all` invalidates every session, `auth/me.rs:412` and ADR 0013 that
setting a password invalidates every other one. `put_user` writes the whole
row, token version included, from a copy read earlier. An edit of the profile
or of an account that read the row before the revocation writes the old
version back after it, and the ended sessions are honoured again; two password
changes that read the same row write one version between them.

The others were met while modelling. The models do what the code does, so each of them
is the reason for a premise in some property, or for a case its history excuses.

*Sessions*

- The grace window is there so that racing tabs do not trip reuse detection
  (`src/README.md:66`). Two refreshes that read the same current secret both rotate,
  since the update is conditional on the row and not on the hash that was judged; the
  shared secret is then two generations old, and a third tab within the window revokes
  the session.
- `auth/login.rs:797` leaves the cookie alone on a grace hit because "the winning request
  already set the current one". If that answer was lost, nobody did.
- `get_session` on DynamoDB is an eventually consistent read; a lagging copy can make the
  current secret look replayed.
- The re-check of a tenant switch is documented to use the subjects a token would carry
  (`auth/login.rs:265`). It leaves out the features of the home tenant; a rule that asks for one
  ends the switch at the first refresh. `SwitchLastsAsLongAsAllowed` is about the
  configurations without such a rule. A switch hands on the second factors of the token that was
  presented, not those of the session (`auth/switch_tenant.rs:151`).

*Accounts and directory*

- `contacts/preference.rs` promises one derivation of the target
  address for every sender, and recovery has its own (ADR 0013 describes the
  difference).
- `users/service.rs:643` moves the guard of a login name before the roles are
  validated. A refused role leaves the new name reserved for a row that still has the old one,
  whose name is free again: two accounts then answer to one name, against
  `users/repository/mod.rs:60`. A crash in between does the same. That is why `NamesAgree` asks for
  `broken = {}`.
- A creation on DynamoDB that stops between guard and row leaves a name nobody can use.
- A personal token made in a switched session is stored under the tenant acted in
  (`auth/apikeys/mod.rs:1088`); `delete_user` looks in the user's own tenant and misses it. The
  exchange's comment says that the key and its user share the tenant (`:920`), and the module's
  (`:12`) that it respects the user's `tokenVersion`, which it does not compare: it looks at the
  lock and at whether the row exists.
- A caller whose account is gone may still create a token or ask for a link code while its
  access token lasts.
- `put_user` brings back an account deleted since the read; a tenant id that is used again restarts
  its version at 0, and an edit begun before passes; a stale copy of a tenant can take `lastActive`
  back on DynamoDB.

*Messaging links*

- `create_link` is documented to answer a conflict with a client error
  (`messaging/repository/mod.rs:60`); it takes the identity over, as the next sentence there says.
  On PostgreSQL a contended claim may still end in a 409, after the code was consumed.
- On DynamoDB a regeneration and a purge find and delete one code, though several may be
  live, and a purge deletes the links it has listed by key, whoever holds them by then.

*Recipients and notifications*

- On DynamoDB a put brings back a removed recipient (`recipients/repository/dynamodb.rs:220`), though
  the handler expects a missing row to stay missing (`recipients/service.rs:1087`), and two
  sign-ups of one address may both succeed. A whole-row put restores a confirmation
  that a bounce withdrew meanwhile, on both backends.
- A batch ends at the first store error, though its comment promises that one message cannot
  hold up the others.
- Choices stored under an earlier catalogue, of a rhythm the new one does not have, fire never and
  are not reported. Two choices of one user made at once may lose one of them.

*Limits*

- The row of a gauge has two months, that of its counters and that of its value, and both are
  closed into the same history row. Whoever closes second is refused for ever; the loop
  takes it for a race and ends in a 503 (`limits/service.rs:971`, `accounting.rs:416`).
- `rolled_over` takes any month but its own for a prior one, and the clock is read before the loop. A
  booking of last month that commits after the first one of this month turns the
  row back, refills it and books in a month whose history is already written.
- The configuration and `docs/LIMITS.md:289` call `carry` "like `track`"; a booking under it drops what
  it cannot cover, as under `ignore` (`accounting.rs:313`).
- A cut of the settings draws the custom balance through
  `settle_overrun`, although the comment of `apply_settings_change` says it is never
  touched; an overrun can stand under `reject` and `ignore` after a cut, although
  `limits/mod.rs:48` says it is 0; ADR 0017 and `docs/LIMITS.md:449` describe a
  `POST …/rollover` that does not exist.

*Platform*

- A block is carried to another node only by the first request of a fresh window
  (`Rehydrate`): a request that is not the first passes although `block_secs` is not over.
- On DynamoDB a failure counter is not reset by a quiet period, only by the TTL's sweep.
  A success clears the counter and then the block in two calls, and no other node's cache hears of
  it.
- On S3 two instances may publish over one another (documented), any failed read at boot, not only
  an absent document, seeds the default over the stored one (`config/repository/s3.rs:91`), and
  a repaired document starts at the default's version again, so that an editor of long ago
  passes the comparison.
- `take_ceremony` on DynamoDB hands out a ceremony that has expired and is not yet swept.
  Two sign-ins with one passkey may set its signature counter back; the finish of a ceremony may
  write a credential of an account whose purge is over.
- A stale whole-row write drops a TOTP secret that was just enabled. It never installs one
  that was not proven, which is what `FactorsAreTheHolders` says.
- `revoke_feature` looks for dependents in the remaining features without the system tenant's
  marker, which `docs/PERMISSIONS.md` and `config/mod.rs:867` count among them: a feature of the
  system tenant that rests on the marker cannot have others revoked beside it.
- An audit entry whose id was drawn before is refused on DynamoDB, and lost; PostgreSQL draws another id.

## The proofs

`tlapm` checks `SessionsProofs`, `AccountsProofs`, `LimitsProofs`, `DirectoryProofs`,
`MessagingProofs`, `OutreachProofs`, `PlatformProofs` and `AccessProofs`. The assumptions are those
named in the modules (`SessionsAssumption`, `AccountsAssumption`, `CalendarAssumption`,
`LimitAssumptions`, `DirectoryAssumption`, `MessagingAssumption`, `ChatAssumption`, `OutreachAssumption`,
`AccessAssumption`, `PlatformAssumption` with the assumptions of its parts): the null values are none of the real ones
(nobody is neither an instance nor an edit, unset is no choice), bounds are natural numbers, the
sets a default value is chosen from are not empty, a handler behind the limiter is through within half the grace
its rows are kept for (`TTL_GRACE_SECS`, a minute), its handlers are finitely many and its history counts
guesses at least up to the cap, ids of different kinds differ (a recipient is not
a user, an account not a tenant), what is drafted is at least shaped like a catalogue. Codes of different
kinds differ as well (`NamesApart`): features, roles, scopes and markers have prefixes of their own and
permissions have none (`docs/PERMISSIONS.md`, section 2). That is the naming convention of every
configuration in the repository, of which the code enforces the part about markers (`is_synthetic`).
Other sets may have any size. Two theorems, about the browser that owns a session, have a premise besides, `OneAtATime`,
which is what the client promises and what the run of `SessionsBrowser` is an instance of.

**Sessions.**

- `TypeCorrect`: `WSpec => []WTypeOK`. The type alone is not inductive: a task
  past its first call uses its cookie to index the table, so the strengthening
  `TInv` adds `CookieNamed`, that such a task's cookie names a session.
- `GrantsAreHonoured`, `GrantsAreUnlocked`, `ForeignGrantsAreEntitled`:
  `WSpec => []...` through the inductive invariant `GInv`. Its parts:
  `KindOfPhase` (which handler can be at which await), `VersionsBehind` (the
  version in a session, or in the hand of a login, is never ahead of the user's,
  unless a stale copy moved the row back),
  `HonouredOrDoomed` (a refresh whose secret was accepted was honourable when it
  was judged, unless the user was already gone or ahead, in which case the user
  read will refuse it, as without stale copies versions only grow and a deleted
  user stays deleted: `UsersForward`),
  and `CheckedIsRight` (past the user read, the facts are in `seen`). The middle
  one is the argument: session and user are read in this order, and a user
  outside `regressed` can only move *away* from a session's version.
- `SessionsImplementLifecycle`: `Spec => ImplementsLifecycle`, a step at a time
  (`StepSimulates`).
- `ReuseEndsTheSession`: `Spec => ReuseRevokes`. A task that judged a secret a replay has read a
  row, so its session was created (`ReuseReadARow`), and its next step leaves it gone. No premise.
- `OwnBrowserIsNeverAReplay`, `OwnCookieStaysInSync`: `Spec => []...` where `OneAtATime`. The
  invariant `BrowserInv` looks through the request in flight: the cookie the browser will hold once
  it has the answer (`Held`) carries the current secret of a live session, at every moment between
  the rotation of the row and the delivery of the cookie. A lost answer is just where that breaks.

**Accounts.** The inductive invariant `Inv` is a conjunction of one part per
table: `Rows` (typed, and a preferred address was proven), `Lists` (typed, and a
verified contact was proven), `Issued`, and `Handlers` (typed, no two tasks share
a link, and each is *backed*: what it is about to do rests on a redeemed link,
including the preference in a copy that has yet to be written back). The last
is why the properties are not inductive alone: an unproven address could sit in
a stale copy. Proven facts never go away (`Grow`), because a redeemed link is
never touched again; so a step is safe if it leaves a table alone (`RowsStay`,
`ListsStay`, `TasksStay`, `LinksStay`) or writes one entry that is backed
(`RowWritten`, `ContactWritten`, `TaskWritten`, `LinkWritten`), and each action
is one of these per table. Theorems: `TypeCorrect`, `VerifiedIsProven`,
`PreferredIsProven`, `LinksAreOneUse`. For recoveries, `WatchedAccounts` shows that the history
`since` only watches (`RSpec => Spec`), so all of this holds there too, and `ResetIsMailedToProven`
says what each phase of a recovery was told before (`Watched`): the history contains all that is
verified and unlocked at present, so what a call reads of the tables is in it from then on.

**Limits.** First the arithmetic: a row is `Sound` if it is typed, has no debt
beside credit and no bucket above the budget in force, and every operator keeps
that (`DrawFacts`, `SettleFacts`, `OpenedFacts`, `ReconciledFacts`, ...). An
operation's outcome is a `GoodOutcome`: its row is sound, its entries are exact
and lead from the loaded row to the new one (`Explains`). Then the loop. The
inductive invariant `IInv` adds to the properties that every row a request has
loaded is sound and `VersionIdentifies`: as long as the version in its hand is
the stored one, so is the row in its hand. That is the whole argument for the
swap (`SwapFacts`): what was computed from the loaded row was computed from the
stored one, so the ledger goes on where it ended (`ChainExtends`). All other
steps write no row (`LocalStepKeeps`). Theorems: `TypeCorrect`, `AccountsBalance`,
`LedgerHasNoGap`, `BookingsAreExact`, and, as action properties of the same
invariant, `ClosedFiguresAreFinal` and `UsageIsNeverLost`. `RequestsBookOnce` has an invariant of its
own on top (`Receipts`): a request has no entry before it is answered. What a commit appends is the
turn of the month and at most one entry of the request (`Signed`), and a committed request is done.

**Directory.** `NamesAndAccountsAgree`, `OwnersLeaveNothing`, and, as action properties,
`DeletedStaysDeleted`, `TenantEditsAreKept`, `TenantsGoWhenEmpty`, for every number of handlers at
once. None is inductive, as all five depend on what handlers have read and not yet acted on.
`Inv` therefore says of each handler what of its reading is still true (`TaskFine`): an account to be
created is not there; one to be changed is there and as read unless another change of it overlapped
(`UsersFine`); a tenant's copy is of an earlier incarnation or version, or is the row (`CopyFine`),
from which `EditsAreKept` follows as a put is conditional on the version; whoever is in a tenant that
was looked at came, or was listed, later (`UnseenFine`); what is in a table the cascade has passed came
later (`RowsFine`, `TokensFine`). To these come `Alone`, that no two handlers change one account
unless it shows, and `NamesRight`, which states for every handler half-way which names its account
holds (`HoldsName`), so that a guard leads to an account exactly if that account holds the name. The
proof is in the rely-guarantee style: `Stays(s)` is what the other handlers may rely on, one lemma per
table says which writes leave it true (`UsersStay`, `CopiesStay`, `UnseenStay`, `RowsStay`,
`TokensStay`), and each action is shown to be such a write and to leave its own handler fine.
`Inv` was checked by TLC on the instance of `DirectoryLife` before it was proved.

**Messaging.** `CodesLinkOnce` and `LossesAreToldOnce`, through the inductive invariant
`Inv`. A code is redeemed by a delete that returns the row, so a handler that is about to claim
an identity holds a redeemed code that nobody else holds and nothing is linked by yet
(`ClaimsAreTheirs`); the claim hands the code from the handler to the link row, and so
it stays in one place. For the reports: what was displaced is a redeemed code that nothing links any more
and no handler claims with (`Lost`), which never changes again; a handler with a report to make is the
only one to have that loss in its hand (`ReportsAreTrue`). Both need that the displaced holder comes
from the write itself.

**Chat links of a deleted account.** `LinksGoWithTheirUser` joins the two. `MessagingProofs` shows what a
purge has reached by phase (`PurgeFine`) and that it lasts: once a purge has been over the codes and
links of a user, any step can add only what is excused (`StepAdds`, `PurgedForGood`), since a link comes
from a claim in flight, a claim from a live code, and a code drawn later is one drawn too late.
`DirectoryProofs` adds how the parts share a slot (`ChatInv`): a call inside a deletion is the purge of
that account and leaves "links" only when it is done, so a deletion further on has it behind
(`Departing`), an account is gone only through such a deletion (`AccountsGo`), and `Departed` holds from
then on, whatever comes back by a stale put.

**Outreach.** `MailIsAgreedTo` rests on `Inv`: not only is every confirmed row agreed to by its own mailbox,
but so is every confirmed *copy* a handler will write back (`TasksAreRight`), and a link that can still
be followed names the address it was mailed to (`LinksAreRight`). A whole-row put may thus restore any confirmation it
likes: it was true once, and agreeing is history. `PostgresNeverResurrects` adds
`Kept`: a row that is gone is gone, ids are drawn once, an insertion and a put are conditional on
what is there, so rows only go. `ChoicesAreServed` is about the catalogue: what may be published is
served (`ValidIsServed`), and only what may be published is. `NobodyIsNamedUnasked` compares the present with three
histories (`Reasons`): what is chosen or the default now was chosen or published once, and a call
carries a reason for everybody it has found so far, which histories that only grow cannot take away.

**Rate limiter.** `ThrottlesAreJust`, through `LimiterInv`, a part for each thing the property says. The volume
cap (`VolumeInv`): who is about to be let pass is counted and has a place of its own, and a window's counter is
kept until nobody can still be counted in it. Causes (`WindowCauses`, `LoginCauses`, `BlocksCaused`): a
count, in the row or in the hand of a handler, is matched by requests or guesses made, and so is a block, stored or
remembered, which began no later than now. The quiet period (`QuietInv`): the rolling counter is no
longer than the streak of failures without a pause, until that reaches the cap. The guesses (`GuessInv`) need
books, whose entries the
invariant asserts to exist: a number of runs that are over, the run at hand, and an `excess` of guesses
beyond a run's quota or not yet counted, one per handler and span of time. A handler with an excess guess
tests no other password before the block it tripped, or ran into, has ended, so its guesses fall in different spans,
and counting the pairs bounds them. An earlier version of the bound was false, and the attempt to prove it showed
where: a slow handler renews the counter's time to live from the time it took at its start, so that two runs can lie
closer than window and grace. With a cap of 4, a window of 1, a grace of 2 and a delay of 1, TLC finds the ninth guess
where eight were allowed; `GuessesAllowed` now takes the delay off that distance.

**Second factors.** `SecretsAreProven` and `PasskeysAreEnroled`, through one inductive invariant. For
secrets, every active secret in a *copy* a handler has yet to put was proven too
(`SecretsAreRight`): a stale write restores a secret that was right once. For passkeys,
`CeremoniesAreTakenOnce` says that whoever is past its ceremony has taken it, that no two handlers
hold one ceremony and that it has led nowhere yet, which is what deleting the row and
looking at what was deleted gives; and the list a named login's state carries holds credentials of its
own account (`PasskeysAreRight`).

**Grants.** `FeaturesKeepTheirGround`. A handler checks the row it has read, so the check is about the
stored row exactly as long as the version is (`WritesFollow`): a write that still succeeds adds
what is assignable there (`GrantGrounded`; a condition that asks for no absence cannot fail when something is
added, `PositiveGrows`) or takes away what nothing there rests on (`RevokeGrounded`). While
the configuration stands, all handlers work on the one in force (`DocsInForce`).

**Switching.** `SwitchesLast`: where no condition names a feature, the refresh asks, without the home tenant's
features, a question that has the answer a token with them would get (`FeaturesMakeNoDifference`). What rules grant is
a recursive function over their sequence. That rules which fire alike grant alike needs no
induction: both functions satisfy the same equation, and `CHOOSE` picks the same one (`SameRulesFire`).

**Configuration.** `PublicationsAreKept` and `CachesAreFresh`, through `ConfigInv`. For the caches, a
history says when each generation was replaced: what a handler has loaded was the stored document
when it took its last step, and it takes the next in time (`WorkTimely`), so what an instance serves
was stored a step before it last looked (`CacheTimely`), even where an older load is stored over a newer one.
For publications, an edit is written by a step that compares versions (PostgreSQL) or under the
instance's mutex (`Locks`); the document in the hand of a save that is about to put is
the stored one (`EditorInStep`), so the documents of orderly stores build on one another.

**Audit trail.** `TrailsAreReadWhole`, through `AuditInv`: what a walk was owed, and what is still there, it has met
or has ahead of it, behind the last entry it met (`WalkFine`). A page takes the newest of what lies ahead, and a page
that leaves something ends with an entry the rest is older than (`TurnedPage`). What is recorded meanwhile is never
owed, since its id is new to the index, and what is gone from a listing does not come back (`NothingReappears`). That the
pages are sorted rests on ids that differ (`OwnIds`): a finite set of entries has an oldest one, by the
well-foundedness of the subset order (`OldestExists`), and so a sequence of them that runs from new to old (`SortedExists`).

**Access.** `LostRightsLapse`, for any rules and any timing. Nothing looks at a token but itself, so the
argument is about what a credential, its owner and the tenants would yield, and every change of that is
*marked* (`changedAt`, `Marked`). A trade in flight that would no longer be given what it is
collecting has seen a mark no older than its start (`TradeFollows`), and it mints within `MaxDelay`; a token
carries what the trade carried (`TokensLapse`). An earlier version of the property was false beyond the
configurations it was checked on, and the attempt to prove it showed where: a switch asks the token, not
the account, whether it may, so a token that has outlived that permission buys one more lifetime in
another tenant; it hands on only a second factor of the proofs the token shows, also for a personal key's token;
it takes whoever it lets go for a member of the system tenant; and a rule that grants by absence
gives more when something is lost. The entitlement now follows the code in each of these, and the
configurations were chosen anew so that TLC meets them.

`NobodyReachesAbroad` is `Confined`, for all configurations that are guarded (`Guarded`), whatever labels, rules,
tenants and keys there are. It rests on three things. *What rules grant*: a subject set without a
label of the system tenant, its markers or a permission beyond one tenant (`Tame`) is granted no such permission.
A rule may ask for what earlier ones granted, so this is an induction over the sequence of
rules; the library's induction theorem cannot be instantiated, but that a set with 0 and all
successors is all of `Nat` follows from the well-foundedness of `<` (`NaturalsAreReached`), and with it that
the recursive function is what its equation says (`GrantsAccrue`, `TameIsGrantedTame`). *The matrix of routes*:
a token without such a permission enters no route that opens more than its own tenant
(`TameStaysAtHome`), which needs that every route without a permission opens nobody's rows
(`EveryNeedIsAsked`, `EveryOpenRouteIsSelf`). *Who holds what* (`Held`): outside the system tenant nobody is
assigned a label of the system, since the tenant's feature set lacks the marker (`AssignedIsPlain`); a session stays in
the home tenant, since nobody can switch (`SwitchingIsFar`); a service key belongs to the tenant
it was made in, and is exchanged for it alone; a personal token is restricted to its
owner's roles; and the markers `mint_for_api` adds are those of the system tenant only.
`ConfinedInv` was checked by TLC on the instance of `AccessLife` before it was proved.

**Deployment.** `ThrottlesAreJust`, `FactorsStayTheHolders`, `FeaturesHoldEverywhere`, `SwitchesLast`,
`PublicationsAreKept`, `CachesAreFresh` and `TrailsAreReadWhole` are stated of `Platform`,
where the run checks them: whichever part moves, the part in question makes a step of its own or
stands still in all its invariant reads (`LimiterStepOrStand`, `FactorsStepOrStand`, `GrantsStepOrStand`,
`TrailStepOrStand`).

**Only model-checked.** Liveness (`EveryRequestEnds`) is out of the prover's reach; every other property of a
run that passes is stated by a theorem. The type invariants of the modules without proofs
(`DirectoryTypeOK`, `FactorsTypeOK`, ...) were used while modelling and are no property of a run: a type
says nothing about the code; those of sessions, accounts and limits are proved (`TypeCorrect`).

## What is not modelled

Components left out: **cryptography** (tokens, sealing, hashing: ideal
functions); **home page and tasks** (a read for the user interface; its routes are
in `Routes`); **languages** and all wording; **hosted login** (a page, and the check of
where it may return; it ends in the refresh of `Sessions`); **boot, storage seams and web
server**; the **development seed**; the **TypeScript client**, whose one
stateful part, one refresh in flight per tab, is a premise of `Sessions`: the tabs of one cookie
jar do not wait for each other.

Within the modelled ones: requests that only read (listings, views, previews other than the
settings one, resolving a chat identity); the mail budget and the delivery
of mail (a link nobody follows); lagging reads of sessions, users and of
the address index, although lagging indexes of the directory, keys, codes and the audit trail are modelled;
the rendering and the transports of notifications; overflow of amounts, a limit's definition
changed while requests run, quotas of a deleted tenant; names, addresses and custom fields of
tenants and users (they are the "edits" a row absorbs); key expiry, pinned origins and per-key
limits (guards that only refuse); claim mappings (they copy fields into a token); names of claims that
collide with standard ones; the contents of audit entries. `Routes` has the routes that ask
for a token; those that ask none are the handlers of the other modules.

## What is left

The code that remains is reading, wording, rendering and wiring. What could still be said about the
modelled part: what the reconciliations of two settings changes converge to, and the booking
loop as a refinement of an atomic account.
