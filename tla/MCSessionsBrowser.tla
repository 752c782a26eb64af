-------------------------- MODULE MCSessionsBrowser --------------------------
(***************************************************************************)
(* Instances of Sessions for TLC without the history variables.            *)
(***************************************************************************)
EXTENDS SessionsBrowser, SessionsRefinement, TLC

MCHome == [u \in Users |-> "home"]

\* Requests are interchangeable; nothing compares them.
MCSymmetry == Permutations(Requests)

=============================================================================
