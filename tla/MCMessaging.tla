---------------------------- MODULE MCMessaging ----------------------------
EXTENDS MessagingLinks, TLC

\* Handlers, accounts, codes and identities are interchangeable.
Interchangeable ==
    Permutations(Tasks) \cup Permutations(Users) \cup Permutations(Codes)
        \cup Permutations(Identities)
==========================================================================
