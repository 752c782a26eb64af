-------------------------- MODULE LimitAccounting --------------------------
(***************************************************************************)
(* The booking arithmetic of one limit of one tenant (limits/accounting.rs *)
(* and limits/mod.rs): what an operation makes of the state row it loaded, *)
(* which ledger entries it appends and which month it closes.  Everything  *)
(* here is a pure operator; Limits puts it under the compare-and-swap loop *)
(* of limits/service.rs.                                                   *)
(*                                                                         *)
(* Amounts are unbounded integers (i64 in the code), days and months are   *)
(* numbered from 0, an absent Option is Unset.                             *)
(***************************************************************************)
EXTENDS Integers, Sequences

CONSTANT DaysPerMonth   \* how many days a month of the model's calendar has

ASSUME CalendarAssumption == DaysPerMonth \in Nat \ {0}

Unset == -1

MonthOf(day) == day \div DaysPerMonth

Least(a, b) == IF a < b THEN a ELSE b
NonNeg(x) == IF x < 0 THEN 0 ELSE x

(***************************************************************************)
(* LimitSettings (config/mod.rs): the per-tenant values of a limit.        *)
(***************************************************************************)
Option == Nat \cup {Unset}
LimitSettings == [monthly : Option, extra : Option, daily : Option, max : Option]
EmptySettings == [monthly |-> Unset, extra |-> Unset, daily |-> Unset, max |-> Unset]
OrZero(v) == IF v = Unset THEN 0 ELSE v

OverrunPolicy == {"track", "reject", "ignore", "carry"}

(***************************************************************************)
(* LimitState: the row.  Version 0 stands for "no row yet": the first      *)
(* write stores version 1 under the condition that there is none.          *)
(***************************************************************************)
LimitState == [month : Int,
               monthly : Nat, extra : Nat, monthlySnap : Nat, extraSnap : Nat,
               custom : Nat, overrun : Nat,
               daily : Nat, dailyDay : Int, dailySnap : Option,
               gauge : Option, gaugeMonth : Int,
               version : Nat]

Fresh(s, month) ==
    [month |-> month,
     monthly |-> OrZero(s.monthly), extra |-> OrZero(s.extra),
     monthlySnap |-> OrZero(s.monthly), extraSnap |-> OrZero(s.extra),
     custom |-> 0, overrun |-> 0,
     daily |-> 0, dailyDay |-> Unset, dailySnap |-> Unset,
     gauge |-> Unset, gaugeMonth |-> Unset,
     version |-> 0]

NoState == Fresh(EmptySettings, Unset)
Exists(row) == row.version # 0

\* LimitState::available, and what an account is worth once its debt is counted.
Available(b) == b.monthly + b.custom + b.extra
Worth(b) == Available(b) - b.overrun

\* An account in balance: no debt stands beside credit.
Solvent(b) == Available(b) = 0 \/ b.overrun = 0

\* What the month has used of its budgets, top-ups counted against it.
Used(row) == row.monthlySnap + row.extraSnap - Worth(row)

(***************************************************************************)
(* Ledger entries.  The code stores what an account holds after a movement *)
(* and the signed change; before = after - change, so the entry is written *)
(* here as the balances before and after.                                  *)
(***************************************************************************)
Balances(row) == [monthly |-> row.monthly, custom |-> row.custom,
                  extra |-> row.extra, overrun |-> row.overrun]
BalanceRecord == [monthly : Nat, custom : Nat, extra : Nat, overrun : Nat]
LedgerType == {"consume", "topup", "settings", "carry", "reset"}

Entry(kind, id, amount, month, before, after) ==
    [kind |-> kind, id |-> id, amount |-> amount, month |-> month,
     before |-> Balances(before), after |-> Balances(after)]

(***************************************************************************)
(* The monthly close: the history row of a limit's month.                  *)
(***************************************************************************)
HistoryRow == [included : Nat, forfeited : Nat, allowance : Nat, unspent : Nat,
               overrun : Nat, custom : Nat, gauge : Option, max : Option]
NotClosed == [open |-> TRUE]

UsageRow(row) ==
    [included |-> row.monthlySnap, forfeited |-> row.monthly,
     allowance |-> row.extraSnap, unspent |-> row.extra,
     overrun |-> row.overrun, custom |-> row.custom,
     gauge |-> Unset, max |-> Unset]

GaugeRow(row, max) ==
    [included |-> 0, forfeited |-> 0, allowance |-> 0, unspent |-> 0,
     overrun |-> 0, custom |-> 0, gauge |-> row.gauge, max |-> max]

-----------------------------------------------------------------------------
(***************************************************************************)
(* Drawing.  A booking empties monthly, then custom, then extra allowance; *)
(* a carried debt starts with the custom balance.                          *)
(***************************************************************************)
\* Mutant of Draw: what monthly has paid is asked of the custom balance again.
DrawOverlapping(row, want) ==
    LET m == Least(row.monthly, want)
        c == Least(row.custom, want)
        e == Least(row.extra, NonNeg(want - m - c))
    IN  [row EXCEPT !.monthly = @ - m, !.custom = @ - c, !.extra = @ - e]

Draw(row, want) ==
    LET m == Least(row.monthly, want)
        c == Least(row.custom, want - m)
        e == Least(row.extra, want - m - c)
    IN  [row EXCEPT !.monthly = @ - m, !.custom = @ - c, !.extra = @ - e]

DrawDebt(row, debt) ==
    LET c == Least(row.custom, debt)
        m == Least(row.monthly, debt - c)
        e == Least(row.extra, debt - c - m)
    IN  [row EXCEPT !.monthly = @ - m, !.custom = @ - c, !.extra = @ - e,
                    !.overrun = debt - c - m - e]

\* settle_overrun: what is available retires the debt.
SettleOverrun(row) ==
    [Draw(row, row.overrun) EXCEPT !.overrun = @ - Least(Available(row), @)]

RefreshDaily(row, s, day) ==
    IF s.daily = Unset \/ row.dailyDay = day
    THEN row
    ELSE [row EXCEPT !.daily = s.daily, !.dailyDay = day, !.dailySnap = s.daily]

(***************************************************************************)
(* rolled_over: the row as it applies to the month of `day'.  Any other    *)
(* month than the row's is taken for a turn of the month, an earlier one   *)
(* too.                                                                    *)
(***************************************************************************)
Crosses(row, day) == Exists(row) /\ row.month # MonthOf(day)

Reset(row, s, month) ==
    [row EXCEPT !.month = month, !.overrun = 0,
                !.monthly = OrZero(s.monthly), !.monthlySnap = OrZero(s.monthly),
                !.extra = OrZero(s.extra), !.extraSnap = OrZero(s.extra)]

Opened(row, s, policy, day) ==
    IF ~ Exists(row) THEN Fresh(s, MonthOf(day))
    ELSE IF ~ Crosses(row, day) THEN row
    ELSE IF policy = "carry" THEN DrawDebt(Reset(row, s, MonthOf(day)), row.overrun)
    ELSE Reset(row, s, MonthOf(day))

RolledOver(row, s, policy, day) == RefreshDaily(Opened(row, s, policy, day), s, day)

\* The one ledger entry a turn of the month leaves, before that of the operation.
RolloverEntries(row, s, policy, day, id) ==
    IF ~ Crosses(row, day) THEN << >>
    ELSE << Entry(IF policy = "carry" /\ row.overrun > 0 THEN "carry" ELSE "reset",
                  id, IF policy = "carry" THEN row.overrun ELSE 0, MonthOf(day),
                  Reset(row, s, MonthOf(day)), RolledOver(row, s, policy, day)) >>

-----------------------------------------------------------------------------
(***************************************************************************)
(* The operations.  An outcome is the row to store, the entries to append, *)
(* the month to close (Unset: none) with its history row, and whether the  *)
(* booking is refused.                                                     *)
(***************************************************************************)
Outcome(row, entries, closes, closed, rejected) ==
    [row |-> row, entries |-> entries, closes |-> closes, closed |-> closed,
     rejected |-> rejected]

\* The outcome of an operation that found `row', rolled it over to `open' and made it `new'.
Rolled(row, s, policy, day, id, kind, amount, open, new) ==
    Outcome(new,
            Append(RolloverEntries(row, s, policy, day, id),
                   Entry(kind, id, amount, MonthOf(day), open, new)),
            IF Crosses(row, day) THEN row.month ELSE Unset,
            UsageRow(row),
            FALSE)

Booked(open, s, policy, amount) ==
    LET covered == Least(Available(open), amount)
    IN  [Draw(open, amount) EXCEPT
            !.overrun = IF policy = "track" THEN @ + (amount - covered) ELSE @,
            !.daily = IF s.daily = Unset THEN @ ELSE NonNeg(@ - covered)]

Consume(row, s, policy, amount, day, id) ==
    LET open == RolledOver(row, s, policy, day)
    IN  IF policy = "reject" /\ amount > Available(open)
        THEN Outcome(row, << >>, Unset, UsageRow(row), TRUE)
        ELSE Rolled(row, s, policy, day, id, "consume", amount, open,
                    Booked(open, s, policy, amount))

\* Mutant of Topup: the debt is left standing beside the new balance.
TopupUnsettled(row, s, policy, amount, day, id) ==
    LET open == RolledOver(row, s, policy, day)
    IN  Rolled(row, s, policy, day, id, "topup", amount, open,
               [open EXCEPT !.custom = @ + amount])

Topup(row, s, policy, amount, day, id) ==
    LET open == RolledOver(row, s, policy, day)
    IN  Rolled(row, s, policy, day, id, "topup", amount, open,
               SettleOverrun([open EXCEPT !.custom = @ + amount]))

\* set_gauge: no rollover of the counters, no ledger; the gauge's own month is closed.
SetGauge(row, value, max, day) ==
    LET base == IF Exists(row) THEN row ELSE Fresh(EmptySettings, MonthOf(day))
        turned == base.gaugeMonth # Unset /\ base.gaugeMonth # MonthOf(day)
    IN  Outcome([base EXCEPT !.gauge = value, !.gaugeMonth = MonthOf(day)],
                << >>,
                IF turned THEN base.gaugeMonth ELSE Unset,
                GaugeRow(base, max),
                FALSE)

ReconcileDaily(row, s) ==
    IF s.daily = Unset \/ row.dailySnap = Unset
    THEN row
    ELSE [row EXCEPT !.dailySnap = s.daily,
                     !.daily = NonNeg(s.daily - NonNeg(row.dailySnap - row.daily))]

\* Mutant of Reconciled: new budgets are granted in full, whatever is used.
ReconciledRefilled(open, s) ==
    SettleOverrun([open EXCEPT
        !.monthlySnap = OrZero(s.monthly), !.monthly = OrZero(s.monthly),
        !.extraSnap = OrZero(s.extra), !.extra = OrZero(s.extra)])

\* apply_settings_change on the rolled row: what is used stays used, a shortfall is debt.
Reconciled(open, s) ==
    LET rawM == OrZero(s.monthly) - NonNeg(open.monthlySnap - open.monthly)
        rawE == OrZero(s.extra) - NonNeg(open.extraSnap - open.extra)
        rebooked == [open EXCEPT
                        !.monthlySnap = OrZero(s.monthly), !.monthly = NonNeg(rawM),
                        !.extraSnap = OrZero(s.extra), !.extra = NonNeg(rawE),
                        !.overrun = @ + NonNeg(-rawM) + NonNeg(-rawE)]
    IN  SettleOverrun(ReconcileDaily(rebooked, s))

ApplySettings(row, s, policy, day, id) ==
    LET open == RolledOver(row, s, policy, day)
    IN  Rolled(row, s, policy, day, id, "settings", 0, open, Reconciled(open, s))

\* The previews of set_limit_settings and reconcile_limit_state.
MovesOverrun(row, s, policy, day) ==
    LET open == RolledOver(row, s, policy, day)
    IN  Reconciled(open, s).overrun # open.overrun

ChangesNothing(row, s, policy, day) ==
    LET open == RolledOver(row, s, policy, day)
    IN  Reconciled(open, s) = open /\ ~ Crosses(row, day)
=============================================================================
