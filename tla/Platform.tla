------------------------------ MODULE Platform ------------------------------
(***************************************************************************)
(* The parts of a deployment that meet in nothing but its backend: the     *)
(* rate limiter, the second factors, the configuration store, the audit    *)
(* trail and the grants.  No step of one reads or writes what another      *)
(* keeps, so a behaviour moves one of them, its subject, and leaves the    *)
(* others as they started: every interleaving of a part with itself is     *)
(* looked at, and the state spaces add up.                                 *)
(***************************************************************************)
EXTENDS Naturals

CONSTANTS
    Parts,                                              \* the parts to look at
    Nodes, Handlers, Readers, Nobody,                   \* instances and requests
    Users, NoUser,
    Grace, MaxSeconds, MaxDelay, MaxWins, MaxCount, MaxGuesses, Settings,
    Secrets, Credentials, Ceremonies, NoSecret, NoCredential, NoCeremony, Errands,
    Stores, Mishaps, Ttl, MaxGeneration,
    Ids, Origins, Limits, MaxListResults, Retention, MaxClock,
    Features, Labels, Tenants, System, Staff, HomeOf, Documents, Loads, MaxVersion, Always

VARIABLES
    subject,    \* the part this behaviour is about
    backend,    \* which backend the deployment runs on
    traffic, rules, now, counters, failures, blocks, cache, login,
    admitted, asked, guessed, streak, wins,
    errands, accounts, passkeys, ceremonies, handler, scanned, enroled, signed, spent,
    kind, mishap, time, stored, cached, writing, work, acked, editedAt, replacedAt,
    clock, log, index, recorder, walk,
    load, published, tenants, labels, active, strong, task, steady, answered

Limiter == INSTANCE RateLimit WITH Logins <- Handlers, NoNode <- Nobody, MaxNow <- MaxSeconds

Factors == INSTANCE SecondFactors

Config == INSTANCE ConfigStore WITH
    Instances <- Nodes, Editors <- Handlers, MaxNow <- MaxSeconds

Audit == INSTANCE AuditTrail WITH Recorders <- Readers, Walkers <- Readers

Authority == INSTANCE Grants WITH Users <- Staff, Permissions <- {"switch:tenant"}

ASSUME PlatformAssumption ==
    /\ Limiter!RateLimitAssumption
    /\ Factors!FactorsAssumption
    /\ Config!ConfigAssumption
    /\ Audit!AuditAssumption
    /\ Authority!GrantsAssumption

-----------------------------------------------------------------------------
limiterOnly ==
    <<traffic, rules, now, counters, failures, blocks, cache, login,
      admitted, asked, guessed, streak, wins>>
factorsOnly ==
    <<errands, accounts, passkeys, ceremonies, handler, scanned, enroled, signed, spent>>
configOnly ==
    <<kind, mishap, time, stored, cached, writing, work, acked, editedAt, replacedAt>>
auditOnly == <<clock, log, index, recorder, walk>>
grantsOnly ==
    <<load, published, tenants, labels, active, strong, task, steady, answered>>

vars ==
    <<subject, backend, limiterOnly, factorsOnly, configOnly, auditOnly, grantsOnly>>

\* A part that stands still is in one setting of those it could be in.
Still(part, setting, settings) == subject # part => setting = CHOOSE s \in settings : TRUE

Init ==
    /\ subject \in Parts
    /\ Limiter!LimiterInit
    /\ Still("limiter", [rules |-> rules, traffic |-> traffic], Settings)
    /\ Factors!FactorsInit
    /\ Still("factors", errands, Errands)
    /\ Config!ConfigInit
    /\ Still("configuration", kind, Stores) /\ Still("configuration", mishap, Mishaps)
    /\ Audit!AuditInit
    /\ Authority!GrantsInit
    /\ Still("grants", load, Loads) /\ Still("grants", published, Documents)
    /\ Still("grants", strong, [Staff -> BOOLEAN])
    /\ subject \in {"configuration", "grants"} => backend = "postgres"

ThrottleMoves ==
    /\ subject = "limiter" /\ Limiter!LimiterNext
    /\ UNCHANGED <<subject, factorsOnly, configOnly, auditOnly, grantsOnly>>

FactorsMove ==
    /\ subject = "factors" /\ Factors!FactorsNext
    /\ UNCHANGED <<subject, limiterOnly, configOnly, auditOnly, grantsOnly>>

ConfigurationMoves ==
    /\ subject = "configuration" /\ Config!ConfigNext
    /\ UNCHANGED <<subject, backend, limiterOnly, factorsOnly, auditOnly, grantsOnly>>

TrailMoves ==
    /\ subject = "audit" /\ Audit!AuditNext
    /\ UNCHANGED <<subject, limiterOnly, factorsOnly, configOnly, grantsOnly>>

GrantsMove ==
    /\ subject = "grants" /\ Authority!GrantsNext
    /\ UNCHANGED <<subject, backend, limiterOnly, factorsOnly, configOnly, auditOnly>>

Next ==
    \/ ThrottleMoves \/ FactorsMove
    \/ ConfigurationMoves \/ TrailMoves \/ GrantsMove

Spec == Init /\ [][Next]_vars

-----------------------------------------------------------------------------
(* Properties: those of the parts, under one roof *)

(***************************************************************************)
(* A throttle is neither evaded nor unearned.  No window lets more         *)
(* requests pass than its cap, and no account is tested with more wrong    *)
(* passwords than its policy allows, whichever nodes count, forget or are  *)
(* asked late; behind every block, stored or remembered, stands a cause    *)
(* the policy names, no block outlasts it, and a quiet period resets the   *)
(* count (check, is_blocked, record_failure, trip_block, increment).       *)
(***************************************************************************)
ThrottlingIsJust ==
    /\ Limiter!VolumeCapped /\ Limiter!GuessesBounded
    /\ Limiter!BlockedForCause /\ Limiter!QuietPeriodResets

(***************************************************************************)
(* A second factor is its holder's.  A secret guards an account only if    *)
(* its holder has shown a code of it, whatever whole-row writes overlap; a *)
(* passkey signs in the account it was enroled for, and a ceremony leads   *)
(* to one credential or one sign-in (totp_setup, totp_verify, put_user,    *)
(* take_ceremony, register_finish, login_finish).                          *)
(***************************************************************************)
FactorsAreTheHolders == Factors!SecretsWereProven /\ Factors!PasskeysWereEnroled

(***************************************************************************)
(* A publication that was answered with success is not lost to another     *)
(* one, within what the store's save orders (put_config, save).            *)
(***************************************************************************)
NoEditIsLost == Config!NoEditIsLost

(***************************************************************************)
(* A configuration served from a cache was in force within the TTL         *)
(* (current, refresh).                                                     *)
(***************************************************************************)
StaleIsBounded == Config!StaleIsBounded

(***************************************************************************)
(* A trail read page by page to its end misses nothing, repeats nothing    *)
(* and shows nobody else's entries (list_page, encode, decode).            *)
(***************************************************************************)
WalksAreComplete == Audit!WalksAreComplete

(***************************************************************************)
(* A tenant has the features its administrators were told it has, and none *)
(* loses the ground it was granted on (grant_feature, revoke_feature,      *)
(* put_tenant).                                                            *)
(***************************************************************************)
FeaturesHold == Authority!FeaturesHold

(***************************************************************************)
(* A switched session stays where it is exactly as long as the permission  *)
(* to switch lasts (switch_subjects, mint_for_api, refresh).               *)
(***************************************************************************)
SwitchLastsAsLongAsAllowed == Authority!SwitchLastsAsLongAsAllowed
=============================================================================
