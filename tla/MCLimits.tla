------------------------------ MODULE MCLimits ------------------------------
(* Small definitions, settings and amounts for checking Limits with TLC.     *)
EXTENDS Limits, TLC

Consumable(policy) == [kind |-> "consumable", policy |-> policy, topup |-> TRUE]
Gauge == [kind |-> "gauge", policy |-> "track", topup |-> FALSE]

MCDefinitions == {Consumable(p) : p \in OverrunPolicy} \cup {Gauge}

\* A generous and a tight budget, and a bound for the gauge.
Generous == [monthly |-> 2, extra |-> 1, daily |-> 1, max |-> Unset]
Tight == [monthly |-> 0, extra |-> 0, daily |-> Unset, max |-> Unset]
Bounded == [EmptySettings EXCEPT !.max = 1]
MCSettings == {EmptySettings, Generous, Tight, Bounded}

Requests == Permutations(Tasks)
=============================================================================
