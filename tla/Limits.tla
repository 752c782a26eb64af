------------------------------- MODULE Limits -------------------------------
(***************************************************************************)
(* One limit of one tenant under concurrent requests (limits/service.rs):  *)
(* bookings, top-ups, gauge reports and settings changes, each of which    *)
(* reads the tenant's settings and the clock first, and only then runs the *)
(* compare-and-swap loop of commit_state around the arithmetic of          *)
(* LimitAccounting.  A task is one request on some node, with its own copy *)
(* of everything it has read; one action is the work between two awaits.   *)
(* Nothing obliges a task to go on: a process that dies, a client that     *)
(* goes away and an answer that is lost are tasks that take no more steps. *)
(*                                                                         *)
(* Stored: the tenant row with the limit's settings, the state row, the    *)
(* ledger (in the order of the commits) and the history, one row a month.  *)
(***************************************************************************)
EXTENDS LimitAccounting, FiniteSets

CONSTANTS
    Tasks,          \* requests
    Definitions,    \* the definitions the limit may have: [kind, policy, topup]
    Settings,       \* the settings an administrator may store
    Amounts,        \* amounts of bookings and top-ups, and gauge values (the code also takes
                    \* negative gauge values; nothing it does with one depends on the sign)
    MaxDay,         \* bound of the clock
    MaxAttempts     \* LIMIT_CAS_MAX_ATTEMPTS

LimitKind == {"consumable", "gauge"}
LimitDef == [kind : LimitKind, policy : OverrunPolicy, topup : BOOLEAN]

ASSUME LimitAssumptions ==
    /\ Definitions \subseteq LimitDef
    /\ Settings \subseteq LimitSettings
    /\ EmptySettings \in Settings
    /\ Amounts \subseteq Nat
    /\ MaxDay \in Nat
    /\ MaxAttempts \in Nat \ {0}

VARIABLES
    def,        \* the limit's definition in the configuration
    clock,      \* the day it is
    tenant,     \* the tenant row: the limit's settings and the version of the row
    row,        \* the state row
    ledger,     \* the ledger
    history,    \* the history row of each month, or NotClosed
    task        \* the requests

stored == <<tenant, row, ledger, history>>
vars == <<def, clock, tenant, row, ledger, history, task>>

Months == 0 .. MonthOf(MaxDay)

(***************************************************************************)
(* A task: where it is, what it was asked, what it has read.               *)
(***************************************************************************)
Phases == {"idle", "preview", "tenant", "save", "reconcile", "load", "commit", "done"}
Operations == {"none", "consume", "topup", "report", "settings"}
Answers == {"none", "booked", "exhausted", "contended", "confirm", "stale"}

Task == [phase : Phases, op : Operations, amount : Nat, settings : LimitSettings,
         now : Int, seen : LimitState, tenantSeen : [settings : LimitSettings, version : Nat],
         tries : Nat, answer : Answers]

NoTenant == [settings |-> EmptySettings, version |-> 0]

Idle == [phase |-> "idle", op |-> "none", amount |-> 0, settings |-> EmptySettings,
         now |-> 0, seen |-> NoState, tenantSeen |-> NoTenant,
         tries |-> 0, answer |-> "none"]

\* validate_limit_settings: only the values the definition's kind gives a meaning.  Settings that
\* are all unset clear the limit and are allowed for any definition.
Clearing(s) == s = EmptySettings

Suits(s, kind) ==
    IF kind = "gauge"
    THEN s.monthly = Unset /\ s.extra = Unset /\ s.daily = Unset
    ELSE /\ s.max = Unset
         /\ s.daily # Unset /\ s.monthly # Unset => s.daily <= s.monthly

Goes(t, phase) == task' = [task EXCEPT ![t].phase = phase]

\* The request is answered and forgets what it has read.
Ended(t, answer) == [Idle EXCEPT !.phase = "done", !.op = task[t].op,
                                 !.amount = task[t].amount, !.answer = answer]
Ends(t, answer) == task' = [task EXCEPT ![t] = Ended(t, answer)]

Init ==
    /\ def \in Definitions
    /\ clock = 0
    /\ \E s \in Settings : /\ Clearing(s) \/ Suits(s, def.kind)
                          /\ tenant = [settings |-> s, version |-> 1]
    /\ row = NoState
    /\ ledger = << >>
    /\ history = [m \in Months |-> NotClosed]
    /\ task = [t \in Tasks |-> Idle]

Tick ==
    /\ clock < MaxDay
    /\ clock' = clock + 1
    /\ UNCHANGED <<def, stored, task>>

-----------------------------------------------------------------------------
(***************************************************************************)
(* Bookings: consume_limit, topup_limit, report_gauge up to the loop.  The *)
(* definition is looked up, the tenant is read, the clock is taken.        *)
(***************************************************************************)
Begins(t, op, amount) ==
    /\ task[t].phase = "idle"
    /\ task' = [task EXCEPT ![t] = [Idle EXCEPT !.phase = "load", !.op = op,
                                                !.amount = amount,
                                                !.settings = tenant.settings,
                                                !.now = clock]]
    /\ UNCHANGED <<def, clock, stored>>

ConsumeLimit(t) ==
    /\ def.kind = "consumable"
    /\ \E amount \in Amounts : Begins(t, "consume", amount)

TopupLimit(t) ==
    /\ def.kind = "consumable" /\ def.topup
    /\ \E amount \in Amounts : Begins(t, "topup", amount)

ReportGauge(t) ==
    /\ def.kind = "gauge"
    /\ \E value \in Amounts : Begins(t, "report", value)

(***************************************************************************)
(* set_limit_settings.  Without confirmation a change that would move the  *)
(* overrun is previewed and asked back.                                    *)
(***************************************************************************)
SetLimitSettings(t) ==
    /\ task[t].phase = "idle"
    /\ \E s \in Settings, confirm \in BOOLEAN :
         /\ Clearing(s) \/ Suits(s, def.kind)
         /\ task' = [task EXCEPT ![t] =
                [Idle EXCEPT !.phase = IF Clearing(s) \/ confirm THEN "tenant" ELSE "preview",
                             !.op = "settings", !.settings = s]]
    /\ UNCHANGED <<def, clock, stored>>

Preview(t) ==
    /\ task[t].phase = "preview"
    /\ IF Exists(row) /\ MovesOverrun(row, task[t].settings, def.policy, clock)
       THEN Ends(t, "confirm")
       ELSE Goes(t, "tenant")
    /\ UNCHANGED <<def, clock, stored>>

\* Where the request goes once the tenant row holds its settings.
AfterSave(t) == IF Clearing(task[t].settings) THEN Ends(t, "booked") ELSE Goes(t, "reconcile")

ReadTenant(t) ==
    /\ task[t].phase = "tenant"
    /\ IF tenant.settings = task[t].settings
       THEN AfterSave(t)
       ELSE task' = [task EXCEPT ![t].phase = "save", ![t].tenantSeen = tenant]
    /\ UNCHANGED <<def, clock, stored>>

\* put_tenant is conditional on the version that was read; the loser gets a 409.
SaveTenant(t) ==
    /\ task[t].phase = "save"
    /\ \/ /\ tenant.version = task[t].tenantSeen.version
          /\ tenant' = [settings |-> task[t].settings, version |-> tenant.version + 1]
          /\ AfterSave(t)
       \/ /\ tenant.version # task[t].tenantSeen.version
          /\ Ends(t, "stale")
          /\ UNCHANGED tenant
    /\ UNCHANGED <<def, clock, row, ledger, history>>

\* reconcile_limit_state up to the loop: without a row, or with nothing to change, it is done.
ReconcileLimitState(t) ==
    /\ task[t].phase = "reconcile"
    /\ IF Exists(row) /\ ~ ChangesNothing(row, task[t].settings, def.policy, clock)
       THEN task' = [task EXCEPT ![t].phase = "load", ![t].now = clock]
       ELSE Ends(t, "booked")
    /\ UNCHANGED <<def, clock, stored>>

-----------------------------------------------------------------------------
(***************************************************************************)
(* commit_state: load, compute, compare-and-swap, at most MaxAttempts      *)
(* times.                                                                  *)
(***************************************************************************)
Load(t) ==
    /\ task[t].phase = "load"
    /\ task' = [task EXCEPT ![t].phase = "commit", ![t].seen = row]
    /\ UNCHANGED <<def, clock, stored>>

Produced(t) ==
    LET r == task[t]
    IN  CASE r.op = "consume" -> Consume(r.seen, r.settings, def.policy, r.amount, r.now, t)
          [] r.op = "topup"   -> Topup(r.seen, r.settings, def.policy, r.amount, r.now, t)
          [] r.op = "report"  -> SetGauge(r.seen, r.amount, r.settings.max, r.now)
          [] OTHER            -> ApplySettings(r.seen, r.settings, def.policy, r.now, t)

\* compare_and_swap: the row is the one that was loaded, and the month it closes is still open.
\* Mutant of VersionHolds: the write is conditional on the row's existence only.
ExistenceHolds(t) == Exists(row) = Exists(task[t].seen)
VersionHolds(t) == row.version = task[t].seen.version
\* Mutant of MonthIsOpen: the history row is put unconditionally.
AnyMonth(out) == out.closes # Unset => out.closes \in Months
MonthIsOpen(out) == out.closes # Unset => history[out.closes] = NotClosed
Swaps(t, out) == VersionHolds(t) /\ MonthIsOpen(out)

\* State, ledger entries and history row are one transaction.
Commit(t) ==
    /\ task[t].phase = "commit"
    /\ LET out == Produced(t)
       IN  /\ ~ out.rejected
           /\ Swaps(t, out)
           /\ row' = [out.row EXCEPT !.version = task[t].seen.version + 1]
           /\ ledger' = ledger \o out.entries
           /\ history' = IF out.closes = Unset THEN history
                         ELSE [history EXCEPT ![out.closes] = out.closed]
    /\ Ends(t, "booked")
    /\ UNCHANGED <<def, clock, tenant>>

Refuse(t) ==
    /\ task[t].phase = "commit"
    /\ Produced(t).rejected
    /\ Ends(t, "exhausted")
    /\ UNCHANGED <<def, clock, stored>>

\* Mutant of Conflict: the ledger is written before the guards are looked at.
ConflictAfterAppend(t) ==
    /\ task[t].phase = "commit"
    /\ ~ Produced(t).rejected
    /\ ~ Swaps(t, Produced(t))
    /\ ledger' = ledger \o Produced(t).entries
    /\ IF task[t].tries + 1 = MaxAttempts
       THEN Ends(t, "contended")
       ELSE task' = [task EXCEPT ![t].phase = "load", ![t].seen = NoState,
                                 ![t].tries = @ + 1]
    /\ UNCHANGED <<def, clock, tenant, row, history>>

Conflict(t) ==
    /\ task[t].phase = "commit"
    /\ ~ Produced(t).rejected
    /\ ~ Swaps(t, Produced(t))
    /\ IF task[t].tries + 1 = MaxAttempts
       THEN Ends(t, "contended")
       ELSE task' = [task EXCEPT ![t].phase = "load", ![t].seen = NoState,
                                 ![t].tries = @ + 1]
    /\ UNCHANGED <<def, clock, stored>>

Next ==
    \/ Tick
    \/ \E t \in Tasks :
         \/ ConsumeLimit(t) \/ TopupLimit(t) \/ ReportGauge(t)
         \/ SetLimitSettings(t) \/ Preview(t) \/ ReadTenant(t) \/ SaveTenant(t)
         \/ ReconcileLimitState(t)
         \/ Load(t) \/ Commit(t) \/ Refuse(t) \/ Conflict(t)

Spec == Init /\ [][Next]_vars
-----------------------------------------------------------------------------
LedgerEntry == [kind : LedgerType, id : Tasks, amount : Nat, month : Int,
                before : BalanceRecord, after : BalanceRecord]

\* Types: no bucket, debt or counter is ever negative.
TypeOK ==
    /\ def \in Definitions
    /\ clock \in 0 .. MaxDay
    /\ tenant \in [settings : LimitSettings, version : Nat]
    /\ row \in LimitState
    /\ ledger \in Seq(LedgerEntry)
    /\ history \in [Months -> HistoryRow \cup {NotClosed}]
    /\ task \in [Tasks -> Task]

\* The balance invariant of docs/LIMITS.md: an account never has credit and debt at once,
\* whatever bookings, top-ups, settings and month turns meet, under every policy.
NeverCreditAndDebt == Solvent(row)

\* No booking is lost and none is made on an outdated row: every entry starts from the balances
\* the one before it left, the stored row is what the last one left, and only the marker of a
\* turned month may start from refilled budgets, never from another custom balance.
Turn == {"carry", "reset"}
Chained(earlier, later) ==
    IF later.kind \in Turn
    THEN later.before.custom = earlier.after.custom /\ later.before.overrun = 0
    ELSE later.before = earlier.after
LedgerChains ==
    /\ \A i \in 1 .. Len(ledger) - 1 : Chained(ledger[i], ledger[i + 1])
    /\ ledger # << >> => Balances(row) = ledger[Len(ledger)].after

\* A movement changes the account by exactly what was asked: a booking draws what is covered and,
\* under track, owes the rest; a refused one leaves no trace; a top-up adds itself to the
\* worth; a settings change moves only what the month's budgets moved, and a turn of the
\* month carries the debt in full.
ExactEntry(e, policy) ==
    LET drawn == Available(e.before) - Available(e.after)
        owed == e.after.overrun - e.before.overrun
    IN  CASE e.kind = "consume" ->
               /\ drawn = Least(Available(e.before), e.amount)
               /\ owed = IF policy = "track" THEN e.amount - drawn ELSE 0
               /\ policy = "reject" => drawn = e.amount
          [] e.kind = "topup" -> Worth(e.after) = Worth(e.before) + e.amount
          [] e.kind = "settings" -> e.after.custom <= e.before.custom
          [] OTHER -> Worth(e.after) = Worth(e.before) - e.amount
EntriesAreExact == \A i \in DOMAIN ledger : ExactEntry(ledger[i], def.policy)

\* A request books at most once however often it retries, and its answer tells whether it did:
\* booked with one entry of its own; refused, contended, asked back or outdated with none.
OwnEntries(t) == {i \in DOMAIN ledger : ledger[i].id = t /\ ledger[i].kind \notin Turn}
BookedOnce ==
    \A t \in Tasks :
        /\ Cardinality(OwnEntries(t)) <= 1
        /\ task[t].answer \in {"none", "exhausted", "contended", "confirm", "stale"}
             => OwnEntries(t) = {}
        /\ task[t].answer = "booked" /\ task[t].op \in {"consume", "topup"}
             => OwnEntries(t) # {}

\* Billing figures are final: the history row of a closed month never changes (a month closes
\* once, limits/repository), though a late request may reopen the month and a gauge and
\* its settings close the same month.
HistoryIsFinal ==
    [][\A m \in Months : history[m] # NotClosed => history'[m] = history[m]]_vars

\* What is used stays used: a settings change committed within a month leaves the month's usage,
\* debt included, as it is, however budgets rise and fall and whatever else is booked
\* meanwhile.
UsageIsKept ==
    [][ /\ ledger' # ledger /\ ledger'[Len(ledger')].kind = "settings"
        /\ Exists(row) /\ row'.month = row.month
        => Used(row') = Used(row)]_vars

=============================================================================
