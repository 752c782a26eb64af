----------------------------- MODULE Catalogue -----------------------------
(***************************************************************************)
(* The notification catalogue of a deployment (notify/types.rs) as pure    *)
(* operators: what a type is, which catalogues may be published, and who   *)
(* hears about a firing.  Nothing here has state; Recipients and Notify    *)
(* evaluate these definitions against the catalogue they have published.   *)
(***************************************************************************)
CONSTANTS
    Types,       \* the codes of the notification types
    Cadences,    \* the rhythms a deployment may declare
    Features,    \* what a tenant may have been granted
    Roles,       \* what a user may be
    Tenants,
    System,      \* the tenant the deployment itself belongs to
    Marker,      \* the subject only members of the system tenant carry
    Unset        \* no choice stored, or no default declared

Reserved == {"off", "on"}

Choices == Cadences \cup Reserved

\* A condition is a set of alternatives, an alternative a set of terms, and a term asks for a
\* subject to be there or not to be.  No condition at all is Always, a closed door is Never.
Term == [subject : Features \cup Roles \cup {Marker}, wanted : BOOLEAN]
Always == {{}}
Never == {}

Holds(condition, subjects) ==
    \E alternative \in condition :
        \A term \in alternative : (term.subject \in subjects) = term.wanted

NotificationTypeDef ==
    [ cadences     : SUBSET Choices,
      default      : Choices \cup {Unset},
      eligibleIf   : SUBSET SUBSET Term,
      recipientsIf : SUBSET SUBSET Term ]

HasRhythm(def) == def.cadences # {}

AllowedChoices(def) == {"off"} \cup (IF HasRhythm(def) THEN def.cadences ELSE {"on"})

Accepts(def, choice) == choice \in AllowedChoices(def)

NamesNoRole(condition) ==
    \A alternative \in condition : \A term \in alternative : term.subject \notin Roles

\* Mutant: any word may be the default.
DefaultIsAWord(def) == def.default \in Choices \cup {Unset}

DefaultIsAccepted(def) == def.default # Unset => Accepts(def, def.default)

ValidCatalogue(catalogue) ==
    \A t \in Types :
        LET def == catalogue[t] IN
        /\ def.cadences \cap Reserved = {}
        /\ NamesNoRole(def.recipientsIf)
        /\ DefaultIsAccepted(def)

\* What an entry that still says "recipients" becomes when it is read.
Upgraded(def, recipients) ==
    [def EXCEPT !.recipientsIf = IF recipients THEN def.eligibleIf ELSE Never]

\* The firings an app may ask about: some of the declared rhythms, or none for a plain type.
Firings(def) == IF HasRhythm(def) THEN (SUBSET def.cadences) \ {{}} ELSE {{}}

EffectiveChoice(def, choice) ==
    IF choice # Unset THEN choice ELSE IF def.default # Unset THEN def.default ELSE "off"

Delivers(def, choice, firing) ==
    LET effective == EffectiveChoice(def, choice) IN
    /\ effective # "off"
    /\ IF HasRhythm(def) THEN effective \in firing ELSE effective = "on"

TenantSubjects(tenant, features) ==
    features \cup (IF tenant = System THEN {Marker} ELSE {})

OfflineSubjects(tenant, features, roles) == roles \cup TenantSubjects(tenant, features)

Eligible(def, tenant, features, roles) ==
    Holds(def.eligibleIf, OfflineSubjects(tenant, features, roles))

EligibleForRecipients(def, tenant, features) ==
    Holds(def.recipientsIf, TenantSubjects(tenant, features))

\* An absent choice of a recipient is off: nobody ever showed it the default.
RecipientChoice(choice) == IF choice = Unset THEN "off" ELSE choice
=============================================================================
