-------------------------- MODULE AccountsRecovery --------------------------
(***************************************************************************)
(* What a password recovery may rest on.  It reads the user row and the    *)
(* contacts in two calls and mails in a third, so no single state shows    *)
(* whether mailing was right: the history variable since records, for each *)
(* recovery in flight, the addresses its user has held verified and        *)
(* whether the account has been unlocked since the request came in.        *)
(***************************************************************************)
EXTENDS Accounts

VARIABLE since

Nothing == [verified |-> {}, unlocked |-> FALSE]

Unlocked(u) == users[u].exists /\ ~users[u].locked

Recovering(t) == task[t].phase # "idle" /\ task[t].kind = "forgot"

FactsNow(t) ==
    IF ~Recovering(t) THEN Nothing
    ELSE [verified |-> Verified(task[t].user), unlocked |-> Unlocked(task[t].user)]

\* A recovery reads nothing in the step before its first, and that step changes
\* no row: the states after each step are all it may have seen.
Watch ==
    since' = [t \in Tasks |->
        IF ~Recovering(t)' THEN Nothing
        ELSE [verified |-> since[t].verified \cup FactsNow(t)'.verified,
              unlocked |-> since[t].unlocked \/ FactsNow(t)'.unlocked]]

RInit == Init /\ since = [t \in Tasks |-> Nothing]

RNext == Next /\ Watch

rvars == <<vars, since>>

RSpec == RInit /\ [][RNext]_rvars

RTypeOK ==
    /\ TypeOK
    /\ since \in [Tasks -> [verified: SUBSET Addresses, unlocked: BOOLEAN]]

\* A reset link is mailed only to an address the account held verified, and
\* only for an account that was unlocked, at some moment since the recovery was
\* asked for: a withdrawn or removed address, a stale preference or a shared
\* mailbox never receives one (resolve_target, reachable_address).
ResetGoesToProvenAddress ==
    \A t \in Tasks :
        task[t].phase = "issue" /\ task[t].kind = "forgot" =>
            task[t].addr \in since[t].verified /\ since[t].unlocked
=============================================================================
