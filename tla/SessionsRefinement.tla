------------------------- MODULE SessionsRefinement -------------------------
(***************************************************************************)
(* Sessions implements SessionLifecycle: the abstract life of a session is *)
(* read off its row.                                                       *)
(***************************************************************************)
EXTENDS Sessions

\* What SessionLifecycle sees of a row.
LifeOf(row) ==
    CASE row.status = "free" -> [stage |-> "free"]
      [] row.status = "gone" -> [stage |-> "gone"]
      [] row.status = "live" ->
           [stage |-> "live", user |-> row.user, ver |-> row.ver,
            tenant |-> row.tenant, generation |-> row.hash, graced |-> row.prev]

Life == [s \in SessionIds |-> LifeOf(sessions[s])]

Lifecycle == INSTANCE SessionLifecycle WITH Versions <- 0..MaxVersion, life <- Life

\* Every write keeps within the life of a session: no handler that acts on an
\* earlier read reopens a deleted row, skips a generation of the secret, or
\* graces anything but the secret it replaces.
ImplementsLifecycle == Lifecycle!Spec
=============================================================================
