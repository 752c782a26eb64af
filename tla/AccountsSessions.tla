-------------------------- MODULE AccountsSessions --------------------------
(***************************************************************************)
(* Whole-row writes against the revocation counter.  A login session       *)
(* carries the tokenVersion the row showed when it was opened and is       *)
(* refused once the row shows another one.  The history variable ended     *)
(* records, for each account, the versions whose sessions were to end.     *)
(***************************************************************************)
EXTENDS Accounts

VARIABLE ended

\* A sign-out everywhere, or a password that has just been set.
Revokes(u) ==
    \/ BumpTokenVersion(u)
    \/ \E t \in Tasks :
         /\ PutUser(t)
         /\ task[t].user = u
         /\ task[t].kind \in {"adminReset", "change", "reset"}

SInit == Init /\ ended = [u \in Users |-> {}]

SNext ==
    /\ Next
    /\ ended' = [u \in Users |->
         IF Revokes(u) THEN ended[u] \cup {users[u].ver} ELSE ended[u]]

SSpec == SInit /\ [][SNext]_<<vars, ended>>

\* A revocation ends every session there is: the version they were opened under
\* is never shown again (logout_all, recovery::reset_password, change_password,
\* the administrator's reset_password, against put_user).
RevocationEndsSessions ==
    \A u \in Users : users[u].exists => users[u].ver \notin ended[u]
=============================================================================
