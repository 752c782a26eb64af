--------------------------- MODULE SessionsWitness ---------------------------
(***************************************************************************)
(* The properties of Sessions.  A refresh reads the session, then the user *)
(* row, then writes, then mints, so no single state shows whether granting *)
(* the token was right.  The history variable seen records, per request in *)
(* flight, which facts held in some state since the request was sent; a    *)
(* token is right when the facts it stands for are among them.  The        *)
(* history variable regressed marks the users whose row a write from an    *)
(* older copy has moved back.                                              *)
(***************************************************************************)
EXTENDS Sessions

VARIABLES seen, regressed

Facts == {"honoured", "unlocked", "entitled"}

\* The user a refresh is about: the session's, as the task read it or will.
Owner(r) ==
    IF req[r].phase = "getSession" THEN RowOf(r).user ELSE req[r].user

\* The session is open and unexpired, the secret is the current or the graced
\* one, and the user still exists at the session's version - all at once.
Honoured(r) ==
    LET row == RowOf(r)
        secret == req[r].cookie.secret
    IN
    /\ row.status = "live"
    /\ ~Expired(row)
    /\ \/ secret = row.hash
       \/ secret = row.prev /\ now < row.prevUntil
    /\ users[row.user].exists
    /\ users[row.user].ver = row.ver

FactsNow(r) ==
    IF req[r].kind # "refresh" \/ req[r].phase \in {"idle", "answer"} THEN {}
    ELSE {f \in Facts :
            \/ f = "honoured" /\ Honoured(r)
            \/ f = "unlocked" /\ ~users[Owner(r)].locked
            \/ f = "entitled" /\ users[Owner(r)].maySwitch}

\* The row shows an older version, or is back after it was deleted.
MovesBack(u) ==
    \/ users'[u].ver < users[u].ver
    \/ users'[u].exists /\ ~users[u].exists

Watch ==
    /\ seen' = [r \in Requests |->
                  IF req'[r].phase = "idle" THEN {} ELSE seen[r] \cup FactsNow(r)']
    /\ regressed' = regressed \cup {u \in Users : MovesBack(u)}

WInit == Init /\ seen = [r \in Requests |-> {}] /\ regressed = {}

WNext == Next /\ Watch

wvars == <<vars, seen, regressed>>

WSpec == WInit /\ [][WNext]_wvars

WTypeOK ==
    /\ TypeOK
    /\ seen \in [Requests -> SUBSET Facts]
    /\ regressed \subseteq Users

-----------------------------------------------------------------------------
(* Safety *)

Granted(r) ==
    req[r].kind = "refresh" /\ req[r].phase = "answer" /\ req[r].token

\* A refresh answers with a token only if, at one single moment since it was
\* sent, the session was open and unexpired, its secret was acceptable and the
\* account stood at the session's token version.  refresh() never checks these
\* together: the secret is judged on one read, the version on a later one, and
\* a logout, rotation, version bump or deletion may fall between any two.  The
\* argument needs versions that only grow, so it covers the users whose row no
\* stale copy has moved back.
GrantHonoured ==
    \A r \in Requests :
        Granted(r) /\ req[r].user \notin regressed => "honoured" \in seen[r]

\* ... and the account was unlocked at some moment since it was sent, so that
\* a lock nobody lifted stops every refresh sent after it.
GrantUnlocked == \A r \in Requests : Granted(r) => "unlocked" \in seen[r]

\* A refresh names a foreign tenant only if the user was entitled to switch at
\* some moment since it was sent: the switch is session state and survives
\* rotations, the entitlement is re-checked by every refresh.
ForeignGrantEntitled ==
    \A r \in Requests :
        Granted(r) /\ req[r].tenant # Home[req[r].user] => "entitled" \in seen[r]

=============================================================================
