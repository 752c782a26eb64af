------------------------------ MODULE Accounts ------------------------------
(***************************************************************************)
(* User accounts, their e-mail contacts, and the one-time links that prove *)
(* an address or reset a password.                                         *)
(*                                                                         *)
(* A user row is changed by reading it whole, changing a copy and writing  *)
(* it back whole and unconditionally; contacts and challenges are changed  *)
(* by single conditional statements.  Every handler is an async task, so   *)
(* every store call is an action of its own; the first one is the action   *)
(* that starts the task.  Contact and link changes travel with a user id,  *)
(* the id of the caller's access token, whether or not that account still  *)
(* exists.                                                                 *)
(***************************************************************************)
EXTENDS Naturals

CONSTANTS
    Users,          \* account ids; each is created once, before the run
    Addresses,      \* normalised e-mail addresses
    Passwords,      \* password hashes
    Tasks,          \* handlers that can be in flight at once
    Links,          \* secrets the challenge repository can draw
    Sent,           \* the kinds of request sent in this instance
    MaxVersion,     \* bound: tokenVersion
    NoUser, NoAddress, NoPassword, NoLink

\* Handlers that only rewrite the user row: any change of columns this model
\* leaves out (profile, language, choices, TOTP), lock or unlock, a password
\* set by an administrator, a password changed by its owner.
Writes == {"profile", "lock", "adminReset", "change"}

Kinds == Writes \cup
    {"add", "verify", "finish", "forgot", "reset", "remove", "prefer", "bounce",
     "logoutAll", "delete"}

ASSUME AccountsAssumption ==
    /\ Sent \subseteq Kinds
    /\ MaxVersion \in Nat
    /\ NoUser \notin Users
    /\ NoAddress \notin Addresses
    /\ NoPassword \notin Passwords
    /\ NoLink \notin Links

VARIABLES
    users,      \* the users table
    contacts,   \* contacts[u][a]: the row of address a in the list of user u
    links,      \* the challenges table, each row with what became of it
    task        \* the handlers in flight

vars == <<users, contacts, links, task>>

-----------------------------------------------------------------------------
(* State *)

ContactStates == {"absent", "pending", "verified"}

Purposes == {"confirm", "reset"}

UserRow ==
    [exists: BOOLEAN, pw: Passwords \cup {NoPassword}, ver: 0..MaxVersion,
     locked: BOOLEAN, preferred: Addresses \cup {NoAddress}]

\* What is left of a deleted user, and the copy of a task that holds none.
NoRow ==
    [exists |-> FALSE, pw |-> NoPassword, ver |-> 0, locked |-> FALSE,
     preferred |-> NoAddress]

\* A challenge row is there while it is out.  Deleting it is the consumption;
\* redeemed and void tell the two outcomes of that delete apart.
Link ==
    [status: {"unused", "out", "redeemed", "void"}, purpose: Purposes,
     user: Users \cup {NoUser}, addr: Addresses \cup {NoAddress}, fresh: BOOLEAN]

UnusedLink ==
    [status |-> "unused", purpose |-> "confirm", user |-> NoUser,
     addr |-> NoAddress, fresh |-> FALSE]

Phases ==
    {"idle", "getContact", "issue", "confirm", "mark", "listContacts",
     "getHolder", "getUser", "put", "listAll", "purge", "deleteRow"}

\* row is the copy to be written back (or, for a recovery by name, the one
\* read); left is what delete_all_for_user listed and has yet to delete.
Task ==
    [phase: Phases, kind: Kinds, user: Users \cup {NoUser},
     addr: Addresses \cup {NoAddress}, link: Links \cup {NoLink}, row: UserRow,
     left: SUBSET Addresses]

Idle ==
    [phase |-> "idle", kind |-> "profile", user |-> NoUser, addr |-> NoAddress,
     link |-> NoLink, row |-> NoRow, left |-> {}]

\* A task in flight is about an account, in these phases about one of its
\* addresses; a copy to be written back was read from a row that was there.
Addressed == {"getContact", "issue", "confirm", "mark", "getHolder"}

Carries(r) ==
    /\ r.phase # "idle" => r.user # NoUser
    /\ r.phase \in Addressed => r.addr # NoAddress
    /\ r.phase = "put" => r.row.exists

TypeOK ==
    /\ users \in [Users -> UserRow]
    /\ contacts \in [Users -> [Addresses -> ContactStates]]
    /\ links \in [Links -> {l \in Link :
         l.status # "unused" => l.user # NoUser /\ l.addr # NoAddress}]
    /\ task \in [Tasks -> {r \in Task : Carries(r)}]

Init ==
    /\ users \in [Users -> {[NoRow EXCEPT !.exists = TRUE, !.pw = p] :
                              p \in Passwords \cup {NoPassword}}]
    /\ contacts = [u \in Users |-> [a \in Addresses |-> "absent"]]
    /\ links = [l \in Links |-> UnusedLink]
    /\ task = [t \in Tasks |-> Idle]

-----------------------------------------------------------------------------
(* Contacts and links *)

Verified(u) == {a \in Addresses : contacts[u][a] = "verified"}

\* The holders contacts_for_address leaves once unverified ones are dropped.
Holders(a) == {u \in Users : contacts[u][a] = "verified"}

\* Mutant of ReachableAddress: a stored preference is trusted as it is.
ReachablePreference(row, u) ==
    IF row.preferred # NoAddress
    THEN {row.preferred}
    ELSE {a \in Addresses : Verified(u) = {a}}

\* Where a recovery by name goes, given the row it read: the preferred address
\* while it is verified, else the single verified one, else nowhere.
ReachableAddress(row, u) ==
    IF row.preferred \in Verified(u)
    THEN {row.preferred}
    ELSE {a \in Addresses : Verified(u) = {a}}

SetContact(u, a, state) == contacts' = [contacts EXCEPT ![u][a] = state]

Redeemable(link, purpose) == link.purpose = purpose /\ link.fresh

\* Mutant of Consume: the row is read now and left for its ttl to delete.
ReadOnly(l, purpose) ==
    /\ links[l].status = "out"
    /\ links' = [links EXCEPT ![l].status =
         IF Redeemable(links[l], purpose) THEN "out" ELSE "void"]

\* consume: the row is deleted whatever it says, and judged afterwards.
Consume(l, purpose) ==
    /\ links[l].status = "out"
    /\ links' = [links EXCEPT ![l].status =
         IF Redeemable(links[l], purpose) THEN "redeemed" ELSE "void"]

Starts(t, kind) == task[t].phase = "idle" /\ kind \in Sent

\* The task goes on with its next store call, or ends.
Goto(t, phase, kind, u, a) ==
    task' = [task EXCEPT ![t] =
        [Idle EXCEPT !.phase = phase, !.kind = kind, !.user = u, !.addr = a]]

End(t) == task' = [task EXCEPT ![t] = Idle]

-----------------------------------------------------------------------------
(* Proving an address *)

\* Mutant of AddContact: an address is verified on arrival.
AddVerified(t, u, a) ==
    /\ Starts(t, "add")
    /\ contacts[u][a] = "absent"
    /\ SetContact(u, a, "verified")
    /\ Goto(t, "getContact", "add", u, a)
    /\ UNCHANGED <<users, links>>

\* add_my_contact: the conditional insert refuses an address already on file;
\* start_verification follows in the same request.
AddContact(t, u, a) ==
    /\ Starts(t, "add")
    /\ contacts[u][a] = "absent"
    /\ SetContact(u, a, "pending")
    /\ Goto(t, "getContact", "add", u, a)
    /\ UNCHANGED <<users, links>>

\* start_verification, asked for by itself.
StartVerification(t, u, a) ==
    /\ Starts(t, "verify")
    /\ contacts[u][a] = "pending"
    /\ Goto(t, "issue", "verify", u, a)
    /\ UNCHANGED <<users, contacts, links>>

\* start_verification behind an add: the row may be gone or proven by now.
AddGetContact(t) ==
    LET r == task[t] IN
    /\ r.phase = "getContact"
    /\ IF contacts[r.user][r.addr] = "pending"
       THEN Goto(t, "issue", "add", r.user, r.addr)
       ELSE End(t)
    /\ UNCHANGED <<users, contacts, links>>

\* A fresh secret and its mail.  A mail that is never sent or never arrives is
\* a link nobody follows.
Issue(t) ==
    LET r == task[t] IN
    /\ r.phase = "issue"
    /\ \E l \in Links :
         /\ links[l].status = "unused"
         /\ links' = [links EXCEPT ![l] =
              [status |-> "out",
               purpose |-> IF r.kind = "forgot" THEN "reset" ELSE "confirm",
               user |-> r.user, addr |-> r.addr, fresh |-> TRUE]]
    /\ End(t)
    /\ UNCHANGED <<users, contacts>>

\* The task that redeemed link l goes on with what the link proves.
Redeemed(t, l, purpose, phase, kind) ==
    /\ Consume(l, purpose)
    /\ IF Redeemable(links[l], purpose)
       THEN task' = [task EXCEPT ![t] =
              [Idle EXCEPT !.phase = phase, !.kind = kind, !.link = l,
                           !.user = links[l].user, !.addr = links[l].addr]]
       ELSE End(t)
    /\ UNCHANGED <<users, contacts>>

FinishVerification(t, l) ==
    /\ Starts(t, "finish")
    /\ Redeemed(t, l, "confirm", "confirm", "finish")

\* confirm_address: look the contact up, then mark it.
ConfirmAddress(t) ==
    LET r == task[t] IN
    /\ r.phase = "confirm"
    /\ IF contacts[r.user][r.addr] = "absent"
       THEN End(t)
       ELSE task' = [task EXCEPT ![t].phase = "mark"]
    /\ UNCHANGED <<users, contacts, links>>

\* mark_verified is conditional on the row: an address removed in between
\* stays removed.
MarkVerified(t) ==
    LET r == task[t] IN
    /\ r.phase = "mark"
    /\ IF contacts[r.user][r.addr] = "absent"
       THEN UNCHANGED contacts
       ELSE SetContact(r.user, r.addr, "verified")
    /\ End(t)
    /\ UNCHANGED <<users, links>>

\* A delivery report withdraws the confirmation; nothing to do for a row that
\* is gone.
MarkUnverified(u, a) ==
    /\ "bounce" \in Sent
    /\ contacts[u][a] = "verified"
    /\ SetContact(u, a, "pending")
    /\ UNCHANGED <<users, links, task>>

\* The clock passes a link's ttl.
Lapse(l) ==
    /\ links[l].status = "out"
    /\ links[l].fresh
    /\ links' = [links EXCEPT ![l].fresh = FALSE]
    /\ UNCHANGED <<users, contacts, task>>

-----------------------------------------------------------------------------
(* Forgotten passwords *)

\* resolve_target with a username: find_by_username, refused when locked.
ForgotByName(t, u) ==
    /\ Starts(t, "forgot")
    /\ users[u].exists
    /\ ~users[u].locked
    /\ task' = [task EXCEPT ![t] =
         [Idle EXCEPT !.phase = "listContacts", !.kind = "forgot", !.user = u,
                      !.row = users[u]]]
    /\ UNCHANGED <<users, contacts, links>>

\* reachable_address: the row is the one read before.
ForgotListContacts(t) ==
    LET r == task[t] IN
    /\ r.phase = "listContacts"
    /\ \/ \E a \in ReachableAddress(r.row, r.user) :
            Goto(t, "issue", "forgot", r.user, a)
       \/ ReachableAddress(r.row, r.user) = {} /\ End(t)
    /\ UNCHANGED <<users, contacts, links>>

\* resolve_target with an address: exactly one account may hold it verified.
ForgotByAddress(t, a) ==
    /\ Starts(t, "forgot")
    /\ \E u \in Users :
         /\ Holders(a) = {u}
         /\ Goto(t, "getHolder", "forgot", u, a)
    /\ UNCHANGED <<users, contacts, links>>

\* Mutant of ForgotGetUser: a locked account is mailed as well.
ForgotGetAnyUser(t) ==
    /\ task[t].phase = "getHolder"
    /\ task' = [task EXCEPT ![t].phase = "issue"]
    /\ UNCHANGED <<users, contacts, links>>

ForgotGetUser(t) ==
    LET r == task[t] IN
    /\ r.phase = "getHolder"
    /\ IF users[r.user].exists /\ ~users[r.user].locked
       THEN task' = [task EXCEPT ![t].phase = "issue"]
       ELSE End(t)
    /\ UNCHANGED <<users, contacts, links>>

ResetPassword(t, l) ==
    /\ Starts(t, "reset")
    /\ Redeemed(t, l, "reset", "getUser", "reset")

-----------------------------------------------------------------------------
(* Whole-row writes *)

NewPassword(row) ==
    {[row EXCEPT !.pw = p, !.ver = row.ver + 1] :
        p \in IF row.ver < MaxVersion THEN Passwords ELSE {}}

\* The rows a handler may write back after reading row; none when it refuses.
\* change_password proves the current password, a caller may or may not know
\* it, so with one set the handler may go through.
Edited(kind, a, row) ==
    CASE kind = "profile"    -> {row}
      [] kind = "lock"       -> {[row EXCEPT !.locked = b] : b \in BOOLEAN}
      [] kind = "adminReset" -> NewPassword(row)
      [] kind = "change"     -> IF row.pw = NoPassword THEN {} ELSE NewPassword(row)
      [] kind = "reset"      -> IF row.locked THEN {} ELSE NewPassword(row)
      [] kind = "prefer"     -> {[row EXCEPT !.preferred = a]}
      [] kind = "remove"     -> IF row.preferred = a
                                THEN {[row EXCEPT !.preferred = NoAddress]} ELSE {}
      [] OTHER               -> {}

\* get_user on behalf of a task that ends in put_user.
ReadRow(t, kind, u, a, l) ==
    \/ /\ users[u].exists
       /\ \E row \in Edited(kind, a, users[u]) :
            task' = [task EXCEPT ![t] =
                [Idle EXCEPT !.phase = "put", !.kind = kind, !.user = u,
                             !.addr = a, !.link = l, !.row = row]]
    \/ /\ ~users[u].exists \/ Edited(kind, a, users[u]) = {}
       /\ End(t)

GetUser(t) ==
    LET r == task[t] IN
    /\ r.phase = "getUser"
    /\ ReadRow(t, r.kind, r.user, r.addr, r.link)
    /\ UNCHANGED <<users, contacts, links>>

\* Handlers whose first store call is the read of the row.
StartWrite(t, kind, u) ==
    /\ Starts(t, kind)
    /\ users[u].exists
    /\ ReadRow(t, kind, u, NoAddress, NoLink)
    /\ UNCHANGED <<users, contacts, links>>

\* An unconditional overwrite.
PutUser(t) ==
    LET r == task[t] IN
    /\ r.phase = "put"
    /\ users' = [users EXCEPT ![r.user] = r.row]
    /\ End(t)
    /\ UNCHANGED <<contacts, links>>

\* delete_my_contact: the row goes first, then a preference that named it.
DeleteContact(t, u, a) ==
    /\ Starts(t, "remove")
    /\ SetContact(u, a, "absent")
    /\ Goto(t, "getUser", "remove", u, a)
    /\ UNCHANGED <<users, links>>

\* Mutant of PreferContact: an address on file is enough.
PreferPending(t, u, a) ==
    /\ Starts(t, "prefer")
    /\ contacts[u][a] # "absent"
    /\ Goto(t, "getUser", "prefer", u, a)
    /\ UNCHANGED <<users, contacts, links>>

\* preferred_contact: only an address that is verified can be chosen.
PreferContact(t, u, a) ==
    /\ Starts(t, "prefer")
    /\ contacts[u][a] = "verified"
    /\ Goto(t, "getUser", "prefer", u, a)
    /\ UNCHANGED <<users, contacts, links>>

\* preferred_contact with an empty address.
ClearPreference(t, u) == StartWrite(t, "prefer", u)

\* bump_token_version: one statement, no copy.
BumpTokenVersion(u) ==
    /\ "logoutAll" \in Sent
    /\ users[u].exists
    /\ users[u].ver < MaxVersion
    /\ users' = [users EXCEPT ![u].ver = @ + 1]
    /\ UNCHANGED <<contacts, links, task>>

-----------------------------------------------------------------------------
(* Deleting an account: what hangs on it first, the row last *)

DeleteUser(t, u) ==
    /\ Starts(t, "delete")
    /\ users[u].exists
    /\ Goto(t, "listAll", "delete", u, NoAddress)
    /\ UNCHANGED <<users, contacts, links>>

DeleteListContacts(t) ==
    LET r == task[t] IN
    /\ r.phase = "listAll"
    /\ task' = [task EXCEPT ![t].phase = "purge",
         ![t].left = {a \in Addresses : contacts[r.user][a] # "absent"}]
    /\ UNCHANGED <<users, contacts, links>>

DeleteNextContact(t) ==
    LET r == task[t] IN
    /\ r.phase = "purge"
    /\ \/ \E a \in r.left :
            /\ SetContact(r.user, a, "absent")
            /\ task' = [task EXCEPT ![t].left = @ \ {a}]
       \/ /\ r.left = {}
          /\ task' = [task EXCEPT ![t].phase = "deleteRow"]
          /\ UNCHANGED contacts
    /\ UNCHANGED <<users, links>>

DeleteRow(t) ==
    LET r == task[t] IN
    /\ r.phase = "deleteRow"
    /\ users' = [users EXCEPT ![r.user] = NoRow]
    /\ End(t)
    /\ UNCHANGED <<contacts, links>>

-----------------------------------------------------------------------------

\* A handler ends between two of its calls: the process stops, the store
\* answers with an error, or the input fails a later validation.
GiveUp(t) ==
    /\ task[t].phase # "idle"
    /\ End(t)
    /\ UNCHANGED <<users, contacts, links>>

Request(t) ==
    \/ \E u \in Users, a \in Addresses :
         \/ AddContact(t, u, a)
         \/ StartVerification(t, u, a)
         \/ DeleteContact(t, u, a)
         \/ PreferContact(t, u, a)
    \/ \E u \in Users :
         \/ ForgotByName(t, u)
         \/ ClearPreference(t, u)
         \/ DeleteUser(t, u)
         \/ \E kind \in Writes : StartWrite(t, kind, u)
    \/ \E a \in Addresses : ForgotByAddress(t, a)
    \/ \E l \in Links : FinishVerification(t, l) \/ ResetPassword(t, l)

Continue(t) ==
    \/ AddGetContact(t) \/ Issue(t) \/ ConfirmAddress(t) \/ MarkVerified(t)
    \/ ForgotListContacts(t) \/ ForgotGetUser(t)
    \/ GetUser(t) \/ PutUser(t)
    \/ DeleteListContacts(t) \/ DeleteNextContact(t) \/ DeleteRow(t)
    \/ GiveUp(t)

Environment ==
    \/ \E u \in Users, a \in Addresses : MarkUnverified(u, a)
    \/ \E u \in Users : BumpTokenVersion(u)
    \/ \E l \in Links : Lapse(l)

Next == Environment \/ \E t \in Tasks : Request(t) \/ Continue(t)

Spec == Init /\ [][Next]_vars

-----------------------------------------------------------------------------
(* Properties *)

\* An address counts as verified only after a confirmation link mailed for
\* exactly this account and address was redeemed: not because it was typed in,
\* not by a link for another account that shares the mailbox, not by a reset
\* link (finish_verification, redeemable, add_contact).
VerifiedByItsOwner ==
    \A u \in Users, a \in Addresses :
        contacts[u][a] = "verified" =>
            \E l \in Links :
                /\ links[l].status = "redeemed"
                /\ links[l].purpose = "confirm"
                /\ links[l].user = u
                /\ links[l].addr = a

\* The preferred address, which every mail including a reset link goes to, was
\* at some time proven by this account; racing whole-row writes, bounces,
\* removals and re-adds never install one that was not (preferred_contact).
PreferredWasProven ==
    \A u \in Users :
        users[u].preferred # NoAddress =>
            \E l \in Links :
                /\ links[l].status = "redeemed"
                /\ links[l].purpose = "confirm"
                /\ links[l].user = u
                /\ links[l].addr = users[u].preferred

\* One link authorises one use: of all handlers that were offered it, at most
\* one acts on it, at the endpoint it was issued for and for the account it was
\* issued to (consume: the delete is the consumption).
LinkAuthorisesOneUse ==
    \A t \in Tasks :
        LET r == task[t] IN
        r.link # NoLink =>
            /\ links[r.link].status = "redeemed"
            /\ links[r.link].user = r.user
            /\ links[r.link].purpose = IF r.kind = "reset" THEN "reset" ELSE "confirm"
            /\ \A other \in Tasks \ {t} : task[other].link # r.link
=============================================================================
