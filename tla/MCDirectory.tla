---------------------------- MODULE MCDirectory ----------------------------
EXTENDS DirectoryMessaging, TLC

\* Accounts, login names and handlers are interchangeable.
Interchangeable == Permutations(Tasks) \cup Permutations(Users) \cup Permutations(Names)

\* What one behaviour is about; the state spaces add up instead of multiplying.
Loads ==
    { {"createUser", "patchUser", "deleteUser"},
      {"createUser", "patchUser", "stop"},
      {"createUser", "deleteUser", "rows"},
      {"createUser", "deleteUser", "messaging"},
      {"createUser", "deleteUser", "createPat", "deletePat", "stop"},
      {"createUser", "deleteUser", "createPat", "exchange"},
      {"createTenant", "patchTenant", "deleteTenant"},
      {"createTenant", "deleteTenant", "rows"},
      {"createTenant", "deleteTenant", "createKey", "exchange"},
      {"createTenant", "deleteTenant", "createUser", "createKey", "deleteKey"} }

==========================================================================
