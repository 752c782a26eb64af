--------------------------- MODULE PermissionRules ---------------------------
(***************************************************************************)
(* The permission model, as pure operators.  A catalogue says on what      *)
(* condition a code (a feature, a role, a scope) may be given in a tenant; *)
(* an API's ordered rules turn the subjects of a token, its labels,        *)
(* features and markers, into permissions.                                 *)
(***************************************************************************)
EXTENDS Naturals, SequencesExt

CONSTANTS
    Features, Labels,   \* feature codes; role and scope codes
    Permissions,        \* what rules may grant
    Always              \* no condition

\* The markers: computed, never stored.
SystemTenant == "is:system-tenant"
Member == "is:system-tenant-member"
TwoFactor == "is:2fa"
Pat == "is:pat"
HmacPat == "is:hmac-pat"
SwitchTenant == "switch:tenant"

Synthetic == {SystemTenant, Member, TwoFactor, Pat, HmacPat}

Subjects == Features \cup Labels \cup Permissions \cup Synthetic

\* A condition is a set of alternatives: what must be there, and what must not.
Alternative == [has: SUBSET Subjects, lacks: SUBSET Subjects]

\* eval_expression.
Holds(condition, set) ==
    condition # Always => \E a \in condition : a.has \subseteq set /\ a.lacks \cap set = {}

Condition == {Always} \cup SUBSET Alternative

\* codes is the part of the catalogue that is defined; rules are the umami API's permission mapping.
IsDocument(d) ==
    /\ DOMAIN d = {"codes", "rules", "eligibility"}
    /\ DOMAIN d.codes \subseteq Features \cup Labels
    /\ \A code \in DOMAIN d.codes : d.codes[code] \in Condition
    /\ d.rules \in Seq([when: Condition, grant: SUBSET Permissions])
    /\ d.eligibility \in Condition

Positive(condition) == condition = Always \/ \A a \in condition : a.lacks = {}

\* can_assign_role, can_assign_scope, can_grant_feature.
Assignable(d, code, set) == code \in DOMAIN d.codes /\ Holds(d.codes[code], set)

\* The features whose own condition does not hold over what would remain.
Dependents(d, remaining) ==
    {f \in remaining \cap DOMAIN d.codes : ~Holds(d.codes[f], remaining)}

\* resolve: rules fire in order, a later one seeing what earlier ones have granted.
Granted(d, subjects) ==
    LET after[n \in 0..Len(d.rules)] ==
            IF n = 0 THEN {}
            ELSE LET before == after[n - 1]
                     rule == d.rules[n]
                 IN before \cup IF Holds(rule.when, subjects \cup before) THEN rule.grant ELSE {}
    IN after[Len(d.rules)]

Resolve(d, subjects) ==
    LET granted == Granted(d, subjects) IN
    IF Holds(d.eligibility, subjects \cup granted) THEN granted ELSE {}
=============================================================================
