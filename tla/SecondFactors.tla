--------------------------- MODULE SecondFactors ---------------------------
(***************************************************************************)
(* TOTP secrets and passkeys.                                              *)
(*                                                                         *)
(* A TOTP secret is a column of the user row, which is written whole: the  *)
(* enrolment stores a pending secret, a first right code makes it the      *)
(* active one.  A passkey is enroled, and later used, in a ceremony of two *)
(* requests; what the first one leaves in the store for the second one is  *)
(* taken out by a delete that returns the row.  A login's ceremony names   *)
(* the account, or (discoverable) leaves it to the credential.             *)
(*                                                                         *)
(* Signatures, attestations and codes are ideal: a credential signs for    *)
(* the person who enroled it, a code is right for one secret.  Start       *)
(* handlers are one action: their only effect is the ceremony they store.  *)
(***************************************************************************)
EXTENDS Naturals

CONSTANTS
    Users, Secrets, Credentials, Ceremonies,
    Handlers,               \* handlers that can be in flight at once
    Errands,                \* sets of routes called in one behaviour
    NoUser, NoSecret, NoCredential, NoCeremony

Routes ==
    {"totpSetup", "totpVerify", "totpDisable", "profile", "password",
     "register", "named", "discoverable", "delete"}

FactorsAssumption ==
    /\ NoUser \notin Users /\ NoSecret \notin Secrets
    /\ NoCredential \notin Credentials /\ NoCeremony \notin Ceremonies
    /\ Errands \subseteq SUBSET Routes

VARIABLES
    backend,        \* which backend the deployment runs on
    errands,        \* the routes called in this behaviour
    accounts,       \* the columns of the user rows a sign-in reads
    passkeys,       \* webauthn-credentials, by account
    ceremonies,     \* webauthn-ceremonies
    handler,        \* the handlers in flight
    scanned,        \* history: <<account, secret>> a right code was given for
    enroled,        \* history: <<account, credential>> attested to a registration
    signed,         \* history: sign-ins, each with the factors it rests on
    spent           \* history: how often a ceremony led somewhere

factorVars ==
    <<backend, errands, accounts, passkeys, ceremonies, handler, scanned, enroled,
      signed, spent>>

-----------------------------------------------------------------------------
(* State *)

\* live: the account is there and not locked.
Account ==
    [live: BOOLEAN, secret: Secrets \cup {NoSecret}, pending: Secrets \cup {NoSecret}]

\* allowed is the list of credentials a named login's state carries.
Ceremony ==
    [status: {"unused", "open", "expired", "taken"},
     kind: {"register", "named", "discoverable"},
     user: Users \cup {NoUser}, allowed: SUBSET Credentials]

Phases ==
    {"idle", "put", "attested", "find", "list", "update", "rewrite", "account",
     "purge", "purging", "drop"}

\* copy is the row a handler has read and will write; left the credentials a
\* purge has listed.
Handler ==
    [phase: Phases, route: Routes, user: Users \cup {NoUser}, copy: Account,
     credential: Credentials \cup {NoCredential},
     ceremony: Ceremonies \cup {NoCeremony}, left: SUBSET Credentials]

SignIn ==
    [user: Users, secret: Secrets \cup {NoSecret},
     credential: Credentials \cup {NoCredential}]

Blank == [live |-> FALSE, secret |-> NoSecret, pending |-> NoSecret]

Unused == [status |-> "unused", kind |-> "register", user |-> NoUser, allowed |-> {}]

Idle ==
    [phase |-> "idle", route |-> "profile", user |-> NoUser, copy |-> Blank,
     credential |-> NoCredential, ceremony |-> NoCeremony, left |-> {}]

FactorsTypeOK ==
    /\ backend \in {"dynamodb", "postgres"} /\ errands \in Errands
    /\ accounts \in [Users -> Account]
    /\ passkeys \in [Users -> SUBSET Credentials]
    /\ ceremonies \in [Ceremonies -> Ceremony]
    /\ handler \in [Handlers -> Handler]
    /\ scanned \subseteq Users \X Secrets /\ enroled \subseteq Users \X Credentials
    /\ signed \subseteq SignIn
    /\ spent \in [Ceremonies -> Nat]

FactorsInit ==
    /\ backend \in {"dynamodb", "postgres"} /\ errands \in Errands
    /\ accounts = [u \in Users |-> [Blank EXCEPT !.live = TRUE]]
    /\ passkeys = [u \in Users |-> {}]
    /\ ceremonies = [k \in Ceremonies |-> Unused]
    /\ handler = [t \in Handlers |-> Idle]
    /\ scanned = {} /\ enroled = {} /\ signed = {}
    /\ spent = [k \in Ceremonies |-> 0]

At(t, phase) == handler[t].phase = phase
To(t, phase) == handler' = [handler EXCEPT ![t].phase = phase]
Ends(t) == handler' = [handler EXCEPT ![t] = Idle]

Calls(t, route) == At(t, "idle") /\ route \in errands

-----------------------------------------------------------------------------
(* TOTP *)

InUse(s) ==
    \/ \E u \in Users : s \in {accounts[u].secret, accounts[u].pending}
    \/ \E p \in scanned : p[2] = s
    \/ \E t \in Handlers : s \in {handler[t].copy.secret, handler[t].copy.pending}

WritesBack(t, route, u, copy) ==
    handler' = [handler EXCEPT ![t] =
        [Idle EXCEPT !.phase = "put", !.route = route, !.user = u, !.copy = copy]]

\* totp_setup: the row as read, with a new pending secret.
TotpSetup(t, u, s) ==
    /\ Calls(t, "totpSetup")
    /\ accounts[u].live /\ ~InUse(s)
    /\ WritesBack(t, "totpSetup", u, [accounts[u] EXCEPT !.pending = s])
    /\ UNCHANGED <<backend, errands, accounts, passkeys, ceremonies, scanned, enroled, signed, spent>>

\* totp_verify: a right code of the pending secret makes it the active one.
TotpVerify(t, u, s) ==
    /\ Calls(t, "totpVerify")
    /\ accounts[u].live /\ s = accounts[u].pending
    /\ WritesBack(t, "totpVerify", u, [accounts[u] EXCEPT !.secret = s, !.pending = NoSecret])
    /\ scanned' = scanned \cup {<<u, s>>}
    /\ UNCHANGED <<backend, errands, accounts, passkeys, ceremonies, enroled, signed, spent>>

TotpDisable(t, u, s) ==
    /\ Calls(t, "totpDisable")
    /\ accounts[u].live /\ s = accounts[u].secret
    /\ WritesBack(t, "totpDisable", u,
           [accounts[u] EXCEPT !.secret = NoSecret, !.pending = NoSecret])
    /\ UNCHANGED <<backend, errands, accounts, passkeys, ceremonies, scanned, enroled, signed, spent>>

\* Any other handler that writes the whole row back.
OtherEdit(t, u) ==
    /\ Calls(t, "profile")
    /\ accounts[u].live
    /\ WritesBack(t, "profile", u, accounts[u])
    /\ UNCHANGED <<backend, errands, accounts, passkeys, ceremonies, scanned, enroled, signed, spent>>

PutUser(t) ==
    /\ At(t, "put")
    /\ accounts' = [accounts EXCEPT ![handler[t].user] = handler[t].copy]
    /\ Ends(t)
    /\ UNCHANGED <<backend, errands, passkeys, ceremonies, scanned, enroled, signed, spent>>

\* login, past the password: an account with a secret needs a code of it.
PasswordLogin(t, u, code) ==
    /\ Calls(t, "password")
    /\ accounts[u].live
    /\ accounts[u].secret = NoSecret \/ code = accounts[u].secret
    /\ signed' = signed \cup
           {[user |-> u, secret |-> accounts[u].secret, credential |-> NoCredential]}
    /\ UNCHANGED <<backend, errands, accounts, passkeys, ceremonies, handler, scanned, enroled, spent>>

-----------------------------------------------------------------------------
(* Passkeys *)

StoreCeremony(k, kind, u, allowed) ==
    /\ ceremonies[k].status = "unused"
    /\ ceremonies' = [ceremonies EXCEPT ![k] =
           [status |-> "open", kind |-> kind, user |-> u, allowed |-> allowed]]
    /\ UNCHANGED <<backend, errands, accounts, passkeys, handler, scanned, enroled, signed, spent>>

RegisterStart(k, u) ==
    /\ "register" \in errands
    /\ accounts[u].live
    /\ StoreCeremony(k, "register", u, {})

LoginStart(k, u) ==
    /\ "named" \in errands
    /\ accounts[u].live /\ passkeys[u] # {}
    /\ StoreCeremony(k, "named", u, passkeys[u])

DiscoverableStart(k) ==
    /\ "discoverable" \in errands
    /\ StoreCeremony(k, "discoverable", NoUser, {})

\* Mutant of TakeCeremony: the row is read, and left.
ReadCeremony(k) == UNCHANGED ceremonies

\* take_ceremony deletes the row and answers with what it was; only PostgreSQL looks at its expiry.
TakeCeremony(k) ==
    ceremonies' = [ceremonies EXCEPT ![k].status = IF @ = "unused" THEN @ ELSE "taken"]

Taken(k) ==
    \/ ceremonies[k].status = "open"
    \/ ceremonies[k].status = "expired" /\ backend = "dynamodb"

\* register_finish: the ceremony must be a registration, and the caller's own; the credential is
\* one the caller's authenticator has just made.
RegisterFinish(t, u, k, c) ==
    /\ Calls(t, "register")
    /\ ceremonies[k].status # "unused"
    /\ \A v \in Users : <<v, c>> \notin enroled
    /\ TakeCeremony(k)
    /\ IF Taken(k) /\ ceremonies[k].kind = "register" /\ ceremonies[k].user = u
       THEN /\ handler' = [handler EXCEPT ![t] =
                   [Idle EXCEPT !.phase = "attested", !.route = "register", !.credential = c,
                                !.user = ceremonies[k].user, !.ceremony = k]]
            /\ enroled' = enroled \cup {<<u, c>>}
       ELSE UNCHANGED <<handler, enroled>>
    /\ UNCHANGED <<backend, errands, accounts, passkeys, scanned, signed, spent>>

PutCredential(t) ==
    LET u == handler[t].user IN
    /\ At(t, "attested")
    /\ passkeys' = [passkeys EXCEPT ![u] = @ \cup {handler[t].credential}]
    /\ spent' = [spent EXCEPT ![handler[t].ceremony] = @ + 1]
    /\ Ends(t)
    /\ UNCHANGED <<backend, errands, accounts, ceremonies, scanned, enroled, signed>>

\* login_finish: a ceremony that names its account checks the signature against its own list.
LoginFinish(t, k, c) ==
    /\ At(t, "idle") /\ {"named", "discoverable"} \cap errands # {}
    /\ ceremonies[k].status # "unused"
    /\ \E u \in Users : <<u, c>> \in enroled
    /\ TakeCeremony(k)
    /\ LET kind == ceremonies[k].kind
           accepted == kind = "discoverable" \/ (kind = "named" /\ c \in ceremonies[k].allowed)
           next == IF kind = "named" THEN "update" ELSE "find"
       IN IF Taken(k) /\ accepted
          THEN handler' = [handler EXCEPT ![t] =
                   [Idle EXCEPT !.phase = next, !.route = kind, !.user = ceremonies[k].user,
                                !.credential = c, !.ceremony = k]]
          ELSE UNCHANGED handler
    /\ UNCHANGED <<backend, errands, accounts, passkeys, scanned, enroled, signed, spent>>

\* find_user_by_credential; the handle in the credential must name the same account.
FindByCredential(t) ==
    LET c == handler[t].credential IN
    /\ At(t, "find")
    /\ \/ \E u \in Users :
            /\ c \in passkeys[u] /\ <<u, c>> \in enroled
            /\ handler' = [handler EXCEPT ![t].user = u, ![t].phase = "list"]
       \/ ~(\E u \in Users : c \in passkeys[u] /\ <<u, c>> \in enroled) /\ Ends(t)
    /\ UNCHANGED <<backend, errands, accounts, passkeys, ceremonies, scanned, enroled, signed, spent>>

\* The signature is checked against the account's keys as they are now.
ListPasskeys(t) ==
    /\ At(t, "list")
    /\ IF handler[t].credential \in passkeys[handler[t].user] THEN To(t, "update") ELSE Ends(t)
    /\ UNCHANGED <<backend, errands, accounts, passkeys, ceremonies, scanned, enroled, signed, spent>>

\* The signature counter, if it moved, is written back into the credential, if it is still listed.
UpdateCounter(t) ==
    /\ At(t, "update")
    /\ IF handler[t].credential \in passkeys[handler[t].user]
       THEN To(t, "rewrite") \/ To(t, "account")
       ELSE To(t, "account")
    /\ UNCHANGED <<backend, errands, accounts, passkeys, ceremonies, scanned, enroled, signed, spent>>

RewriteCredential(t) ==
    /\ At(t, "rewrite")
    /\ passkeys' = [passkeys EXCEPT ![handler[t].user] = @ \cup {handler[t].credential}]
    /\ To(t, "account")
    /\ UNCHANGED <<backend, errands, accounts, ceremonies, scanned, enroled, signed, spent>>

\* The account must still be there, and open, for the session to be issued.
PasskeySession(t) ==
    LET u == handler[t].user IN
    /\ At(t, "account")
    /\ IF accounts[u].live
       THEN /\ signed' = signed \cup
                   {[user |-> u, secret |-> NoSecret, credential |-> handler[t].credential]}
            /\ spent' = [spent EXCEPT ![handler[t].ceremony] = @ + 1]
       ELSE UNCHANGED <<signed, spent>>
    /\ Ends(t)
    /\ UNCHANGED <<backend, errands, accounts, passkeys, ceremonies, scanned, enroled>>

CeremonyExpires(k) ==
    /\ ceremonies[k].status = "open"
    /\ ceremonies' = [ceremonies EXCEPT ![k].status = "expired"]
    /\ UNCHANGED <<backend, errands, accounts, passkeys, handler, scanned, enroled, signed, spent>>

-----------------------------------------------------------------------------
(* The account is deleted: its passkeys first, its ceremonies not at all *)

DeleteUser(t, u) ==
    /\ Calls(t, "delete")
    /\ accounts[u].live
    /\ handler' = [handler EXCEPT ![t] =
           [Idle EXCEPT !.phase = "purge", !.route = "delete", !.user = u]]
    /\ UNCHANGED <<backend, errands, accounts, passkeys, ceremonies, scanned, enroled, signed, spent>>

\* delete_all_for_user: PostgreSQL deletes what there is, DynamoDB what it has listed.
DeleteAllForUser(t) ==
    LET u == handler[t].user IN
    /\ At(t, "purge")
    /\ IF backend = "postgres"
       THEN passkeys' = [passkeys EXCEPT ![u] = {}] /\ To(t, "drop")
       ELSE /\ handler' = [handler EXCEPT ![t].phase = "purging", ![t].left = passkeys[u]]
            /\ UNCHANGED passkeys
    /\ UNCHANGED <<backend, errands, accounts, ceremonies, scanned, enroled, signed, spent>>

DeleteListed(t) ==
    /\ At(t, "purging")
    /\ IF handler[t].left = {} THEN To(t, "drop") /\ UNCHANGED passkeys
       ELSE \E c \in handler[t].left :
                /\ handler' = [handler EXCEPT ![t].left = @ \ {c}]
                /\ passkeys' = [passkeys EXCEPT ![handler[t].user] = @ \ {c}]
    /\ UNCHANGED <<backend, errands, accounts, ceremonies, scanned, enroled, signed, spent>>

DropUser(t) ==
    /\ At(t, "drop")
    /\ accounts' = [accounts EXCEPT ![handler[t].user] = Blank]
    /\ Ends(t)
    /\ UNCHANGED <<backend, errands, passkeys, ceremonies, scanned, enroled, signed, spent>>

\* A handler is dropped between two store calls, or its next one fails.
HandlerStops(t) ==
    /\ ~At(t, "idle")
    /\ Ends(t)
    /\ UNCHANGED <<backend, errands, accounts, passkeys, ceremonies, scanned, enroled, signed, spent>>

-----------------------------------------------------------------------------
FactorsNext ==
    \/ \E t \in Handlers :
        \/ \E u \in Users :
            \/ OtherEdit(t, u) \/ DeleteUser(t, u)
            \/ \E s \in Secrets : TotpSetup(t, u, s) \/ TotpVerify(t, u, s) \/ TotpDisable(t, u, s)
            \/ \E code \in Secrets \cup {NoSecret} : PasswordLogin(t, u, code)
            \/ \E k \in Ceremonies, c \in Credentials : RegisterFinish(t, u, k, c)
        \/ \E k \in Ceremonies, c \in Credentials : LoginFinish(t, k, c)
        \/ PutUser(t) \/ PutCredential(t) \/ FindByCredential(t) \/ ListPasskeys(t)
        \/ UpdateCounter(t) \/ RewriteCredential(t) \/ PasskeySession(t)
        \/ DeleteAllForUser(t) \/ DeleteListed(t) \/ DropUser(t) \/ HandlerStops(t)
    \/ \E k \in Ceremonies :
        \/ \E u \in Users : RegisterStart(k, u) \/ LoginStart(k, u)
        \/ DiscoverableStart(k) \/ CeremonyExpires(k)

FactorsSpec == FactorsInit /\ [][FactorsNext]_factorVars

-----------------------------------------------------------------------------
(* Properties *)

(***************************************************************************)
(* A secret guards an account only if its holder has shown a code of it,   *)
(* however setups, verifications and other writes of the row overlap, and  *)
(* a sign-in that claims a second factor rests on such a secret.           *)
(***************************************************************************)
SecretsWereProven ==
    /\ \A u \in Users :
        accounts[u].secret # NoSecret => <<u, accounts[u].secret>> \in scanned
    /\ \A s \in signed : s.secret # NoSecret => <<s.user, s.secret>> \in scanned

(***************************************************************************)
(* A passkey signs in the account it was enroled for in a registration of  *)
(* that account's own, and a ceremony leads to one credential or one       *)
(* sign-in, however often and at whichever endpoint its id is offered.     *)
(***************************************************************************)
PasskeysWereEnroled ==
    /\ \A u \in Users : \A c \in passkeys[u] : <<u, c>> \in enroled
    /\ \A s \in signed : s.credential # NoCredential => <<s.user, s.credential>> \in enroled
    /\ \A k \in Ceremonies : spent[k] <= 1
=============================================================================
