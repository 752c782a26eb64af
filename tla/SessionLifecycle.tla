-------------------------- MODULE SessionLifecycle --------------------------
(***************************************************************************)
(* What a login session promises, with no tasks, no cookies and no clock:  *)
(* it is opened once for one user at one token version, is only ever       *)
(* rotated or re-scoped while it is open, and a closed session stays       *)
(* closed.  Sessions implements it through the mapping in SessionsWitness. *)
(***************************************************************************)
EXTENDS Naturals

CONSTANTS SessionIds, Users, Tenants, Home, Versions

VARIABLE life   \* life[s]: what became of session s so far

Unopened == [stage |-> "free"]

Closed == [stage |-> "gone"]

\* The tenant may be switched; generation counts the secrets given out so far,
\* graced is the generation that is still honoured beside it.
Held(user, ver, tenant, generation, graced) ==
    [stage |-> "live", user |-> user, ver |-> ver, tenant |-> tenant,
     generation |-> generation, graced |-> graced]

Opened(u, v) == Held(u, v, Home[u], 1, 0)

Rotated(l) == Held(l.user, l.ver, l.tenant, l.generation + 1, l.generation)

Init == life = [s \in SessionIds |-> Unopened]

\* A session starts in its user's home tenant with its first secret.
Open(s) ==
    /\ life[s] = Unopened
    /\ \E u \in Users, v \in Versions : life' = [life EXCEPT ![s] = Opened(u, v)]

\* One secret at a time; the one it replaces is the one that stays graced.
Rotate(s) ==
    /\ life[s].stage = "live"
    /\ life' = [life EXCEPT ![s] = Rotated(life[s])]

\* A tenant switch changes the scope and nothing else.
Rescope(s) ==
    /\ life[s].stage = "live"
    /\ \E t \in Tenants : life' = [life EXCEPT ![s].tenant = t]

\* Any number of sessions end at once when a user's are deleted together.
Close(S) ==
    /\ \A s \in S : life[s].stage = "live"
    /\ life' = [s \in SessionIds |-> IF s \in S THEN Closed ELSE life[s]]

Next ==
    \/ \E s \in SessionIds : Open(s) \/ Rotate(s) \/ Rescope(s)
    \/ \E S \in SUBSET SessionIds : Close(S)

Spec == Init /\ [][Next]_life

=============================================================================
