------------------------------ MODULE MCSessions ------------------------------
(***************************************************************************)
(* Instances of Sessions for TLC.  Users live in tenant "home"; tenants    *)
(* other than home are only reached by switching.                          *)
(***************************************************************************)
EXTENDS SessionsWitness, TLC

MCHome == [u \in Users |-> "home"]

\* Requests are interchangeable, and so are session ids; nothing compares them.
MCSymmetry == Permutations(Requests) \cup Permutations(SessionIds)

=============================================================================
