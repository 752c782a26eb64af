------------------------- MODULE MCAccountsRecovery -------------------------
(***************************************************************************)
(* Instances of AccountsRecovery for TLC.  No definition tells one user,   *)
(* address, link or task from another.                                     *)
(***************************************************************************)
EXTENDS AccountsRecovery, TLC

MCSymmetry ==
    Permutations(Tasks) \cup Permutations(Links) \cup Permutations(Users)
        \cup Permutations(Addresses)
=============================================================================
