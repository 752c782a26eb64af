------------------------------ MODULE MCAccess ------------------------------
EXTENDS Access, TLC

MCHomeOf == [u \in Users |-> IF u = "root" THEN "sys" ELSE "acme"]
MCFirst == [u \in Users |-> {"role:admin"}]

If(subjects) == {[has |-> subjects, lacks |-> {}]}
Rule(condition, permissions) == [when |-> condition, grant |-> permissions]

\* Administrators of the system tenant only, who may switch unless by a signed key, and what is granted
\* by absence; administrators everywhere, whose reach beyond a tenant rests on a second factor or such a
\* key, and importers.
MCDocuments ==
    { [codes |-> "role:admin" :> If({"is:system-tenant"}),
       rules |-> <<Rule(Always, {"manage:personal-tokens"}),
                   Rule(If({"role:admin"}), {"manage:users", "manage:config"}),
                   Rule(If({"is:system-tenant-member"}), {"manage:tenants"}),
                   Rule({[has |-> {"role:admin"}, lacks |-> {"is:hmac-pat"}]}, {"switch:tenant"}),
                   Rule({[has |-> {}, lacks |-> {"is:system-tenant"}]}, {"view:audit"})>>,
       eligibility |-> Always],
      [codes |-> ("role:admin" :> Always) @@ ("scope:importer" :> If({"is:system-tenant"}))
                 @@ ("feature:audit" :> Always),
       rules |-> <<Rule(If({"role:admin"}),
                        {"manage:users", "manage:service-keys", "manage:personal-tokens"}),
                   Rule(If({"role:admin", "feature:audit"}), {"view:audit"}),
                   Rule(If({"is:system-tenant-member", "is:2fa"})
                            \cup If({"is:system-tenant-member", "is:hmac-pat"}),
                        {"manage:tenants", "switch:tenant"}),
                   Rule(If({"scope:importer"}), {"book:limits"}),
                   Rule(If({"scope:importer", "is:system-tenant"}), {"messaging:link"}),
                   Rule(If({"scope:importer", "is:system-tenant-member"}), {"exchange:any-tenant"})>>,
       eligibility |-> If({"role:admin"}) \cup If({"scope:importer"})] }

MCScenes ==
    {{"create_api_key", "delete_api_key", "grant_feature", "revoke_feature"},
     {"create_my_pat", "delete_my_pat"}, {"create_my_pat", "patch_user"},
     {"switch_tenant", "create_api_key"}, {"patch_user", "switch_tenant"}}
=============================================================================
