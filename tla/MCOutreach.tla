----------------------------- MODULE MCOutreach -----------------------------
EXTENDS Notify, TLC

Interchangeable ==
    Permutations(Ids) \cup Permutations(Secrets) \cup Permutations(Tasks) \cup Permutations(Calls)

\* Tenant "a" has been granted the feature, the system tenant nothing.
MCGranted == [tenant \in Tenants |-> IF tenant = "a" THEN Features ELSE {}]
MCTenantOf == [u \in Users |-> "a"]
MCRolesOf == [u \in Users |-> Roles]

Needs(subjects) == {{[subject |-> x, wanted |-> TRUE] : x \in subjects}}

\* A plain type open to everybody, a weekly one that is on by default, and two drafts that may not
\* be published: a default nothing delivers, and recipients gated on a role.
MCDrafts ==
    { [t \in Types |-> def] : def \in
        { [cadences |-> {}, default |-> Unset, eligibleIf |-> Always, recipientsIf |-> Always],
          [cadences |-> {"weekly"}, default |-> "weekly", eligibleIf |-> Needs(Roles),
           recipientsIf |-> Needs(Features)],
          [cadences |-> {"weekly"}, default |-> "on", eligibleIf |-> Always,
           recipientsIf |-> Never],
          Upgraded([cadences |-> {}, default |-> "on", eligibleIf |-> Needs(Roles),
                    recipientsIf |-> Never], TRUE) } }

\* What one behaviour is about; the state spaces add up instead of multiplying.
Loads ==
    { {"create", "resend", "bounce"},
      {"create", "patch", "delete", "bounce"},
      {"create", "manage", "unsubscribe", "send"},
      {"create", "clear", "patch"},
      {"create", "fire", "patch"},
      {"create", "fire", "publish"},
      {"choose", "fire", "people", "publish"} }

\* Texts with and without a template, one in the reserved namespace, half a text, nothing at all.
MCMessages ==
    { [subject |-> s, body |-> b, template |-> p, cadence |-> c] :
        s \in BOOLEAN, b \in BOOLEAN, p \in {"none", "app", "umami"}, c \in {Unset, "weekly"} }

=============================================================================
