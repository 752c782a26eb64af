----------------------------- MODULE MCPlatform -----------------------------
EXTENDS Platform, TLC

Interchangeable == Permutations(Nodes) \cup Permutations(Handlers)

\* The volume path alone with a window of two, the brute-force path alone, each with what may go wrong.
Off == [max |-> 0, window |-> 1, block |-> 0]
ByAddress == [perIp |-> [max |-> 2, window |-> 2, block |-> 3], login |-> Off]
ByAccount == [perIp |-> Off, login |-> [max |-> 2, window |-> 1, block |-> 3]]
MCSettings ==
    {[rules |-> ByAddress, traffic |-> {"guess", "evict"}]} \cup
    {[rules |-> ByAccount, traffic |-> t] :
        t \in {{"guess", "evict", "know"}, {"guess", "lag"}, {"guess", "outage"}}}

MCErrands ==
    {{"totpSetup", "totpVerify", "totpDisable", "profile", "password"},
     {"register", "named", "discoverable"},
     {"register", "discoverable", "delete"}}

MCMishaps == {{"clock"}, {"drop"}, {"restart", "drop"}, {"restart", "readError"}, {"corruption"}}

MCOrigins == {<<"acme", "ann">>, <<Nobody, "ann">>}

If(subjects) == {[has |-> subjects, lacks |-> {}]}
Unless(subjects) == {[has |-> {}, lacks |-> subjects]}
Rule(condition, permission) == [when |-> condition, grant |-> {permission}]

MCHomeOf == [u \in Staff |-> IF u = "root" THEN "sys" ELSE "acme"]

\* A chain of features with a switch for members who showed a second factor; a feature and a switch of
\* the system tenant only; a feature one may have instead of another.
MCDocuments ==
    { [codes |-> ("feature:base" :> Always) @@ ("feature:more" :> If({"feature:base"}))
                 @@ ("role:op" :> If({"feature:base"})),
       rules |-> <<Rule(If({"role:op", "is:system-tenant-member", "is:2fa"}), "switch:tenant")>>,
       eligibility |-> Always],
      [codes |-> ("feature:base" :> Always) @@ ("feature:more" :> If({"is:system-tenant"}))
                 @@ ("role:op" :> Always),
       rules |-> <<Rule(If({"role:op"}), "switch:tenant")>>,
       eligibility |-> If({"is:system-tenant-member"})],
      [codes |-> ("feature:base" :> Unless({"feature:more"})) @@ ("feature:more" :> Always)
                 @@ ("role:op" :> Always),
       rules |-> <<Rule(If({"role:op", "feature:base"}), "switch:tenant")>>,
       eligibility |-> Always] }

MCLoads ==
    {{"grant", "revoke"}, {"grant", "label", "switch"}, {"publish", "switch", "label"}}
=============================================================================
