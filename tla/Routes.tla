------------------------------- MODULE Routes -------------------------------
(***************************************************************************)
(* The matrix of authorised routes: what a bearer must hold to enter each, *)
(* as its filter declares (one of the permissions, or none but a token),   *)
(* and whose rows the handler behind it lets the bearer touch.  A route    *)
(* has the name of its handler.  Routes that ask no token are not here.    *)
(***************************************************************************)

Each(routes, value) == [r \in routes |-> value]

\* A part of the matrix from parts that name different routes.
Joined(parts) ==
    [r \in UNION {DOMAIN p : p \in parts} |-> (CHOOSE p \in parts : r \in DOMAIN p)[r]]

\* Whose rows: the bearer's own, those of the tenant the token acts in, of the tenant named in the
\* path unless the bearer only reads, of any tenant, or what belongs to no tenant.
Self == "self"
Acting == "acting"
Reading == "reading"
Anywhere == "anywhere"
Deployment == "deployment"

-----------------------------------------------------------------------------
(* Permissions: the constants the filters name *)

SelfService ==
    {"manage:profile", "manage:passwords", "manage:personal-tokens", "manage:sessions",
     "manage:contacts", "manage:messaging"}

TenantAdministration ==
    {"view:audit", "manage:users", "manage:service-keys", "manage:recipients", "view:limits"}

BeyondOneTenant ==
    {"view:ratelimits", "manage:config", "manage:tenants", "switch:tenant", "exchange:any-tenant",
     "manage:limits", "book:limits", "messaging:link", "messaging:resolve",
     "notifications:audience", "notifications:send", "notifications:report"}

AllPermissions == SelfService \cup TenantAdministration \cup BeyondOneTenant

-----------------------------------------------------------------------------
(* limits *)

LimitSettingsNeeds ==
    Joined({Each({"list_limits"}, {"manage:limits", "view:limits"}),
            Each({"set_limit_settings"}, {"manage:limits"})})

LimitBookingNeeds ==
    Joined({Each({"check_limit", "consume_limit", "report_gauge"}, {"book:limits"}),
            Each({"topup_limit"}, {"manage:limits"})})

LimitLedgerNeeds == Each({"ledger", "history"}, {"manage:limits", "view:limits"})

LimitBillingNeeds == Each({"billing", "billing_month"}, {"manage:limits"})

\* enforce_read_scope.
LimitReads == Each({"list_limits", "ledger", "history"}, Reading)

\* Bookings and settings name the tenant in the path, and nobody compares it.
LimitBookings ==
    Each({"set_limit_settings", "check_limit", "consume_limit", "report_gauge", "topup_limit",
          "billing", "billing_month"}, Anywhere)

-----------------------------------------------------------------------------
(* users and tenants *)

UserNeeds ==
    Each({"create_user", "list_users", "get_user", "patch_user", "delete_user", "reset_password"},
         {"manage:users"})

UserDetailNeeds == Each({"user_audit", "user_sessions", "logout_user"}, {"manage:users"})

\* scoped_user: a user of another tenant reads as missing.
UserRows ==
    Each({"create_user", "list_users", "get_user", "patch_user", "delete_user", "reset_password",
          "user_audit", "user_sessions", "logout_user"}, Acting)

TenantNeeds ==
    Joined({Each({"create_tenant", "delete_tenant", "get_tenant", "patch_tenant"},
                 {"manage:tenants"}),
            Each({"list_tenants"}, {"manage:tenants", "switch:tenant"})})

TenantRows ==
    Each({"create_tenant", "delete_tenant", "get_tenant", "patch_tenant", "list_tenants"}, Anywhere)

AssignmentNeeds ==
    Joined({Each({"assignable_roles"}, {"manage:users"}),
            Each({"assignable_scopes"}, {"manage:service-keys"}),
            Each({"assignable_features", "grant_feature", "revoke_feature"}, {"manage:tenants"})})

\* enforce_own, where a route is a tenant administrator's.
AssignmentRows ==
    Joined({Each({"assignable_roles", "assignable_scopes"}, Acting),
            Each({"assignable_features", "grant_feature", "revoke_feature"}, Anywhere)})

-----------------------------------------------------------------------------
(* keys *)

KeyNeeds ==
    Joined({Each({"create_api_key", "list_api_keys", "delete_api_key"}, {"manage:service-keys"}),
            Each({"list_user_pats"}, {"manage:users"}),
            Each({"create_my_pat", "list_my_pats", "delete_my_pat"}, {"manage:personal-tokens"})})

\* enforce_own, and a key of another tenant reads as missing.
ServiceKeyRows == Each({"create_api_key", "list_api_keys", "delete_api_key"}, Acting)

UserPatRows == Each({"list_user_pats"}, Acting)

MyPatRows == Each({"create_my_pat", "list_my_pats", "delete_my_pat"}, Self)

RateLimitNeeds ==
    Joined({Each({"my_rate_limit"}, {}),
            Each({"user_rate_limit", "user_pat_rate_limit"}, {"manage:users"}),
            Each({"api_key_rate_limit"}, {"manage:service-keys"}),
            Each({"my_pat_rate_limit"}, {"manage:personal-tokens"}),
            Each({"rate_limit_blocks"}, {"view:ratelimits"})})

RateLimitRows ==
    Joined({Each({"my_rate_limit", "my_pat_rate_limit"}, Self),
            Each({"user_rate_limit", "user_pat_rate_limit", "api_key_rate_limit"}, Acting),
            Each({"rate_limit_blocks"}, Deployment)})

-----------------------------------------------------------------------------
(* one's own account *)

MeNeeds ==
    Joined({Each({"me"}, {}),
            Each({"logout_all"}, {"manage:sessions"})})

ProfileNeeds ==
    Joined({Each({"change_password"}, {"manage:passwords"}),
            Each({"patch_me"}, {"manage:profile"})})

SessionNeeds == Each({"list_sessions", "delete_session"}, {"manage:sessions"})

\* Everything is looked up under the token's subject.
MyRows ==
    Each({"me", "logout_all", "change_password", "patch_me", "list_sessions", "delete_session"}, Self)

FactorNeeds ==
    Each({"totp_setup", "totp_verify", "totp_disable", "register_start", "register_finish"},
         {"manage:passwords"})

FactorRows ==
    Each({"totp_setup", "totp_verify", "totp_disable", "register_start", "register_finish"}, Self)

ContactNeeds ==
    Joined({Each({"my_contacts", "add_my_contact", "delete_my_contact", "preferred_contact",
                  "start_verification"}, {"manage:contacts"}),
            Each({"user_contacts"}, {"manage:users"})})

\* user_contacts lists by user and keeps what was stored under the token's tenant.
ContactRows ==
    Joined({Each({"my_contacts", "add_my_contact", "delete_my_contact", "preferred_contact",
                  "start_verification"}, Self),
            Each({"user_contacts"}, Acting)})

MessagingNeeds ==
    Joined({Each({"my_code", "regenerate_code", "my_links", "delete_my_link"},
                  {"manage:messaging"}),
            Each({"user_links"}, {"manage:users"}),
            Each({"create_link"}, {"messaging:link"}),
            Each({"resolve"}, {"messaging:resolve"})})

MessagingRows ==
    Joined({Each({"my_code", "regenerate_code", "my_links", "delete_my_link"}, Self),
            Each({"user_links"}, Acting),
            Each({"create_link", "resolve"}, Anywhere)})

-----------------------------------------------------------------------------
(* notifications, recipients, the document, the trail *)

NotifyNeeds ==
    Joined({Each({"my_notifications", "set_choice", "clear_choice"}, {"manage:contacts"}),
            Each({"audience"}, {"notifications:audience"}),
            Each({"send"}, {"notifications:send"}),
            Each({"report_undeliverable"}, {"notifications:report"})})

NotifyRows ==
    Joined({Each({"my_notifications", "set_choice", "clear_choice"}, Self),
            Each({"audience", "send", "report_undeliverable"}, Anywhere)})

RecipientNeeds ==
    Each({"list_recipients", "create_recipient", "patch_recipient", "delete_recipient",
          "resend_confirmation"}, {"manage:recipients"})

\* require_own_tenant, and a recipient of another tenant reads as missing.
RecipientRows ==
    Each({"list_recipients", "create_recipient", "patch_recipient", "delete_recipient",
          "resend_confirmation"}, Acting)

ConfigNeeds ==
    Joined({Each({"get_config", "put_config"}, {"manage:config"}),
            Each({"custom_fields", "catalogue"}, {})})

\* Labels and field definitions are shown to everybody who is signed in: no row of anybody.
ConfigRows ==
    Joined({Each({"get_config", "put_config"}, Deployment),
            Each({"custom_fields", "catalogue"}, Self)})

AuditNeeds ==
    Joined({Each({"tenant_audit"}, {"view:audit"}),
            Each({"my_audit"}, {})})

AuditRows ==
    Joined({Each({"tenant_audit"}, Acting),
            Each({"my_audit"}, Self)})

HomeNeeds == Each({"home"}, {})

HomeRows == Each({"home"}, Self)

SwitchNeeds == Each({"switch_tenant"}, {"switch:tenant"})

SwitchRows == Each({"switch_tenant"}, Anywhere)

-----------------------------------------------------------------------------
Needs ==
    Joined({LimitSettingsNeeds, LimitBookingNeeds, LimitLedgerNeeds, LimitBillingNeeds,
            UserNeeds, UserDetailNeeds, TenantNeeds, AssignmentNeeds, KeyNeeds, RateLimitNeeds,
            MeNeeds, ProfileNeeds, SessionNeeds, FactorNeeds, ContactNeeds, MessagingNeeds,
            NotifyNeeds, RecipientNeeds, ConfigNeeds, AuditNeeds, HomeNeeds, SwitchNeeds})

Rows ==
    Joined({LimitReads, LimitBookings, UserRows, TenantRows, AssignmentRows, ServiceKeyRows,
            UserPatRows, MyPatRows, RateLimitRows, MyRows, FactorRows, ContactRows,
            MessagingRows, NotifyRows, RecipientRows, ConfigRows, AuditRows, HomeRows,
            SwitchRows})

AllRoutes == DOMAIN Needs

\* The permissions that lead further than one tenant: to be granted with care.
CrossTenant ==
    {"exchange:any-tenant", "manage:limits"}
    \cup UNION {Needs[r] : r \in {q \in AllRoutes : Rows[q] \in {Anywhere, Deployment}}}

ASSUME RoutesAssumption ==
    /\ DOMAIN Rows = AllRoutes
    /\ \A r \in AllRoutes : Needs[r] \subseteq AllPermissions
    /\ CrossTenant = BeyondOneTenant
=============================================================================
