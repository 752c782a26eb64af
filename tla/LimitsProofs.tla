---------------------------- MODULE LimitsProofs ----------------------------
(***************************************************************************)
(* Proofs about Limits, for every set of requests, definitions, settings   *)
(* and amounts, every calendar and every number of attempts.               *)
(*                                                                         *)
(* First the arithmetic: what each operator of LimitAccounting keeps of a  *)
(* row.  Then the loop: a successful swap writes what was computed from a  *)
(* row that was stored before, so what the arithmetic keeps the system     *)
(* keeps.                                                                  *)
(***************************************************************************)
EXTENDS Limits, SequenceTheorems, FiniteSetTheorems, TLAPS

-----------------------------------------------------------------------------
(* Arithmetic.                                                             *)

\* A day belongs to a month.
LEMMA MonthType == \A day \in Int : MonthOf(day) \in Int
  BY CalendarAssumption, SMT DEF MonthOf

\* A row in order: typed, in balance, nothing left beyond the budget in force.
Sound(r) ==
    /\ r \in LimitState
    /\ Solvent(r)
    /\ r.monthly <= r.monthlySnap
    /\ r.extra <= r.extraSnap

\* A first row is in order.
LEMMA FreshFacts ==
  ASSUME NEW s \in LimitSettings, NEW month \in Int
  PROVE  Sound(Fresh(s, month))
  BY SMT DEF Sound, Fresh, LimitState, LimitSettings, Option, OrZero, Unset, Solvent, Available

\* Drawing takes what is covered, from the buckets only.
LEMMA DrawFacts ==
  ASSUME NEW r \in LimitState, NEW want \in Nat
  PROVE  /\ Draw(r, want) \in LimitState
         /\ Available(Draw(r, want)) = Available(r) - Least(Available(r), want)
         /\ Draw(r, want).overrun = r.overrun
         /\ Draw(r, want).custom <= r.custom
         /\ Draw(r, want).monthlySnap = r.monthlySnap
         /\ Draw(r, want).extraSnap = r.extraSnap
         /\ Draw(r, want).month = r.month
         /\ Draw(r, want).daily = r.daily
         /\ Draw(r, want).monthly <= r.monthly
         /\ Draw(r, want).extra <= r.extra
  <1> DEFINE m == Least(r.monthly, want)
             c == Least(r.custom, want - m)
             e == Least(r.extra, want - m - c)
  <1>1. /\ r.monthly \in Nat /\ r.custom \in Nat /\ r.extra \in Nat
        /\ m \in Nat /\ c \in Nat /\ e \in Nat
        /\ m <= r.monthly /\ c <= r.custom /\ e <= r.extra
        /\ m + c + e = Least(r.monthly + r.custom + r.extra, want)
    BY SMT DEF Least, LimitState
  <1>2. Draw(r, want) = [r EXCEPT !.monthly = r.monthly - m, !.custom = r.custom - c,
                                  !.extra = r.extra - e]
    BY DEF Draw
  <1> HIDE DEF m, c, e
  <1>3. Draw(r, want) \in LimitState
    <2>1. r.monthly - m \in Nat /\ r.custom - c \in Nat /\ r.extra - e \in Nat
      BY <1>1, SMT
    <2> QED
      BY <1>2, <2>1, ZenonT(30) DEF LimitState
  <1> QED
    BY <1>1, <1>2, <1>3, SMT DEF LimitState, Available

\* A carried debt is paid as far as the buckets reach; the rest stays debt.
LEMMA DrawDebtFacts ==
  ASSUME NEW r \in LimitState, NEW debt \in Nat, r.overrun = 0
  PROVE  /\ DrawDebt(r, debt) \in LimitState
         /\ Solvent(DrawDebt(r, debt))
         /\ Worth(DrawDebt(r, debt)) = Worth(r) - debt
         /\ DrawDebt(r, debt).monthly <= r.monthly
         /\ DrawDebt(r, debt).extra <= r.extra
         /\ DrawDebt(r, debt).monthlySnap = r.monthlySnap
         /\ DrawDebt(r, debt).extraSnap = r.extraSnap
         /\ DrawDebt(r, debt).month = r.month
  <1> DEFINE c == Least(r.custom, debt)
             m == Least(r.monthly, debt - c)
             e == Least(r.extra, debt - c - m)
             left == debt - c - m - e
  <1>1. /\ r.monthly \in Nat /\ r.custom \in Nat /\ r.extra \in Nat
        /\ m \in Nat /\ c \in Nat /\ e \in Nat /\ left \in Nat
        /\ m <= r.monthly /\ c <= r.custom /\ e <= r.extra
        /\ left = 0 \/ (m = r.monthly /\ c = r.custom /\ e = r.extra)
    BY SMT DEF Least, LimitState
  <1>2. DrawDebt(r, debt) = [r EXCEPT !.monthly = r.monthly - m, !.custom = r.custom - c,
                                      !.extra = r.extra - e, !.overrun = left]
    BY DEF DrawDebt
  <1>3. left = debt - c - m - e
    OBVIOUS
  <1> HIDE DEF m, c, e, left
  <1>4. DrawDebt(r, debt) \in LimitState
    <2>1. r.monthly - m \in Nat /\ r.custom - c \in Nat /\ r.extra - e \in Nat
      BY <1>1, SMT
    <2> QED
      BY <1>1, <1>2, <2>1, ZenonT(30) DEF LimitState
  <1> QED
    BY <1>1, <1>2, <1>3, <1>4, SMT DEF LimitState, Available, Worth, Solvent

\* Settling nets credit against debt: the worth stays, one of the two is gone.
LEMMA SettleFacts ==
  ASSUME NEW r \in LimitState
  PROVE  /\ SettleOverrun(r) \in LimitState
         /\ Solvent(SettleOverrun(r))
         /\ Worth(SettleOverrun(r)) = Worth(r)
         /\ SettleOverrun(r).custom <= r.custom
         /\ SettleOverrun(r).monthly <= r.monthly
         /\ SettleOverrun(r).extra <= r.extra
         /\ SettleOverrun(r).monthlySnap = r.monthlySnap
         /\ SettleOverrun(r).extraSnap = r.extraSnap
         /\ SettleOverrun(r).month = r.month
  <1> DEFINE d == Draw(r, r.overrun)
             paid == Least(Available(r), r.overrun)
  <1>1. r.overrun \in Nat /\ Available(r) \in Nat
    BY SMT DEF LimitState, Available
  <1>2. /\ d \in LimitState /\ Available(d) = Available(r) - paid /\ d.overrun = r.overrun
        /\ d.custom <= r.custom /\ d.monthlySnap = r.monthlySnap
        /\ d.extraSnap = r.extraSnap /\ d.month = r.month
        /\ d.monthly <= r.monthly /\ d.extra <= r.extra
    BY <1>1, DrawFacts
  <1>3. /\ paid \in Nat /\ paid <= r.overrun /\ paid <= Available(r)
        /\ paid = r.overrun \/ paid = Available(r)
    BY <1>1, SMT DEF Least
  <1>4. SettleOverrun(r) = [d EXCEPT !.overrun = r.overrun - paid]
    BY <1>2, SMT DEF SettleOverrun, LimitState
  <1> HIDE DEF d, paid
  <1>5. SettleOverrun(r) \in LimitState
    BY <1>1, <1>2, <1>3, <1>4, SMT DEF LimitState
  <1> QED
    BY <1>1, <1>2, <1>3, <1>4, <1>5, SMT DEF LimitState, Available, Worth, Solvent

\* The daily throttle is a counter of its own: resetting it moves no balance.
LEMMA RefreshDailyFacts ==
  ASSUME NEW r \in LimitState, NEW s \in LimitSettings, NEW day \in Int
  PROVE  /\ RefreshDaily(r, s, day) \in LimitState
         /\ Balances(RefreshDaily(r, s, day)) = Balances(r)
         /\ RefreshDaily(r, s, day).monthlySnap = r.monthlySnap
         /\ RefreshDaily(r, s, day).extraSnap = r.extraSnap
         /\ RefreshDaily(r, s, day).month = r.month
  <1>1. CASE s.daily = Unset \/ r.dailyDay = day
    BY <1>1, SMT DEF RefreshDaily
  <1>2. CASE ~ (s.daily = Unset \/ r.dailyDay = day)
    <2>1. s.daily \in Nat
      BY <1>2, SMT DEF LimitSettings, Option
    <2>2. RefreshDaily(r, s, day) =
            [r EXCEPT !.daily = s.daily, !.dailyDay = day, !.dailySnap = s.daily]
      BY <1>2 DEF RefreshDaily
    <2>3. RefreshDaily(r, s, day) \in LimitState
      BY <2>1, <2>2, ZenonT(30) DEF LimitState, Option
    <2> QED
      BY <2>2, <2>3, SMT DEF LimitState, Balances
  <1> QED
    BY <1>1, <1>2

\* Refilling for a new month keeps the custom balance and forgets the debt.
LEMMA ResetFacts ==
  ASSUME NEW r \in LimitState, NEW s \in LimitSettings, NEW month \in Int
  PROVE  /\ Sound(Reset(r, s, month))
         /\ Reset(r, s, month).custom = r.custom
         /\ Reset(r, s, month).overrun = 0
         /\ Reset(r, s, month).month = month
  <1> DEFINE mo == OrZero(s.monthly)
             ex == OrZero(s.extra)
  <1>1. mo \in Nat /\ ex \in Nat
    BY SMT DEF LimitSettings, Option, OrZero
  <1> DEFINE turned == [r EXCEPT !.month = month, !.overrun = 0]
             refilled == [turned EXCEPT !.monthly = mo, !.monthlySnap = mo]
             both == [refilled EXCEPT !.extra = ex, !.extraSnap = ex]
  <1>2. Reset(r, s, month) = [r EXCEPT !.month = month, !.overrun = 0,
                                       !.monthly = mo, !.monthlySnap = mo,
                                       !.extra = ex, !.extraSnap = ex]
    BY DEF Reset
  <1>3. Reset(r, s, month) \in LimitState
    <2>1. turned \in LimitState
      BY ZenonT(30) DEF LimitState
    <2> HIDE DEF mo, ex
    <2>2. refilled \in LimitState
      <3> HIDE DEF turned
      <3> QED
        BY <1>1, <2>1, ZenonT(30) DEF LimitState
    <2>3. both \in LimitState
      <3> HIDE DEF refilled
      <3> QED
        BY <1>1, <2>2, ZenonT(30) DEF LimitState
    <2> QED
      BY <1>2, <2>3
  <1> HIDE DEF mo, ex
  <1> QED
    BY <1>1, <1>2, <1>3, SMT DEF Sound, Solvent, LimitState

\* The row an operation works on is in order, in the month of its day.
LEMMA OpenedFacts ==
  ASSUME NEW r, Sound(r), NEW s \in LimitSettings, NEW policy \in OverrunPolicy,
         NEW day \in Int
  PROVE  /\ Sound(Opened(r, s, policy, day))
         /\ Opened(r, s, policy, day).month = MonthOf(day)
  <1> DEFINE month == MonthOf(day)
             fresh == Fresh(s, month)
             reset == Reset(r, s, month)
  <1>0. month \in Int
    BY MonthType
  <1>1. CASE ~ Exists(r)
    <2>1. Opened(r, s, policy, day) = fresh
      BY <1>1 DEF Opened
    <2>2. Sound(fresh) /\ fresh.month = month
      BY <1>0, FreshFacts DEF Fresh
    <2> QED
      BY <2>1, <2>2
  <1>2. CASE Exists(r) /\ ~ Crosses(r, day)
    BY <1>2 DEF Opened, Crosses
  <1>3. CASE Exists(r) /\ Crosses(r, day)
    <2>1. /\ Sound(reset) /\ reset.overrun = 0 /\ reset.month = month
          /\ reset \in LimitState /\ r.overrun \in Nat
      <3>1. r \in LimitState /\ r.overrun \in Nat
        BY SMT DEF Sound, LimitState
      <3> QED
        BY <1>0, <3>1, ResetFacts DEF Sound
    <2>2. CASE policy = "carry"
      <3>1. Opened(r, s, policy, day) = DrawDebt(reset, r.overrun)
        BY <1>3, <2>2 DEF Opened
      <3> DEFINE d == DrawDebt(reset, r.overrun)
      <3>2. /\ d \in LimitState /\ Solvent(d) /\ d.month = reset.month
            /\ d.monthly <= reset.monthly /\ d.extra <= reset.extra
            /\ d.monthlySnap = reset.monthlySnap /\ d.extraSnap = reset.extraSnap
        BY <2>1, DrawDebtFacts
      <3> HIDE DEF d
      <3>3. Sound(d)
        BY <2>1, <3>2, SMT DEF Sound, LimitState
      <3> QED
        BY <2>1, <3>1, <3>2, <3>3 DEF d
    <2>3. CASE policy # "carry"
      BY <1>3, <2>1, <2>3 DEF Opened
    <2> QED
      BY <2>2, <2>3
  <1> QED
    BY <1>1, <1>2, <1>3

LEMMA RolledOverFacts ==
  ASSUME NEW r, Sound(r), NEW s \in LimitSettings, NEW policy \in OverrunPolicy,
         NEW day \in Int
  PROVE  /\ Sound(RolledOver(r, s, policy, day))
         /\ RolledOver(r, s, policy, day).month = MonthOf(day)
         /\ Balances(RolledOver(r, s, policy, day)) = Balances(Opened(r, s, policy, day))
  <1> DEFINE o == Opened(r, s, policy, day)
             d == RefreshDaily(o, s, day)
  <1>1. Sound(o) /\ o.month = MonthOf(day) /\ o \in LimitState
    BY OpenedFacts DEF Sound
  <1>2. /\ d \in LimitState /\ Balances(d) = Balances(o) /\ d.month = o.month
        /\ d.monthlySnap = o.monthlySnap /\ d.extraSnap = o.extraSnap
    BY <1>1, RefreshDailyFacts
  <1>3. RolledOver(r, s, policy, day) = d
    BY DEF RolledOver
  <1> HIDE DEF o, d
  <1>4. Sound(d)
    BY <1>1, <1>2, SMT DEF Sound, Solvent, Available, Balances
  <1> QED
    BY <1>1, <1>2, <1>3, <1>4 DEF o

-----------------------------------------------------------------------------
(* Outcomes: what an operation hands to the store.                         *)

\* Entries that lead from the loaded row to the new one.
Explains(seen, out) ==
    \/ out.entries = << >> /\ (Exists(seen) => Balances(out.row) = Balances(seen))
    \/ \E e \in LedgerEntry :
         /\ out.entries = <<e>>
         /\ e.kind \notin Turn /\ e.after = Balances(out.row)
         /\ Exists(seen) => e.before = Balances(seen)
    \/ \E turn, e \in LedgerEntry :
         /\ out.entries = <<turn, e>>
         /\ turn.kind \in Turn /\ turn.before.custom = seen.custom /\ turn.before.overrun = 0
         /\ e.kind \notin Turn /\ e.before = turn.after /\ e.after = Balances(out.row)

GoodOutcome(seen, out, policy) ==
    /\ Sound(out.row)
    /\ out.entries \in Seq(LedgerEntry)
    /\ \A i \in DOMAIN out.entries : ExactEntry(out.entries[i], policy)
    /\ out.closes \in Int
    /\ out.closed \in HistoryRow
    /\ Explains(seen, out)

LEMMA BalancesType ==
  ASSUME NEW r \in LimitState
  PROVE  Balances(r) \in BalanceRecord
  BY SMT DEF Balances, BalanceRecord, LimitState

LEMMA UsageRowType ==
  ASSUME NEW r \in LimitState
  PROVE  UsageRow(r) \in HistoryRow
  BY SMT DEF UsageRow, HistoryRow, LimitState, Option

LEMMA GaugeRowType ==
  ASSUME NEW r \in LimitState, NEW max \in Option
  PROVE  GaugeRow(r, max) \in HistoryRow
  BY SMT DEF GaugeRow, HistoryRow, LimitState, Option

\* The marker of a turned month: it starts without debt and carries the old one in full.
LEMMA TurnFacts ==
  ASSUME NEW r, Sound(r), NEW s \in LimitSettings, NEW policy \in OverrunPolicy,
         NEW day \in Int, NEW id \in Tasks, Crosses(r, day)
  PROVE  \E turn \in LedgerEntry :
            /\ RolloverEntries(r, s, policy, day, id) = <<turn>>
            /\ turn.kind \in Turn
            /\ turn.before.custom = r.custom /\ turn.before.overrun = 0
            /\ turn.after = Balances(RolledOver(r, s, policy, day))
            /\ ExactEntry(turn, policy)
  <1> DEFINE month == MonthOf(day)
             reset == Reset(r, s, month)
             open == RolledOver(r, s, policy, day)
             kind == IF policy = "carry" /\ r.overrun > 0 THEN "carry" ELSE "reset"
             amount == IF policy = "carry" THEN r.overrun ELSE 0
             turn == Entry(kind, id, amount, month, reset, open)
  <1>1. /\ month \in Int /\ r \in LimitState /\ r.overrun \in Nat /\ amount \in Nat
        /\ kind \in Turn
    BY MonthType, SMT DEF Sound, LimitState, Turn
  <1>2. /\ reset \in LimitState /\ reset.custom = r.custom /\ reset.overrun = 0
    BY <1>1, ResetFacts DEF Sound
  <1>3. open \in LimitState /\ Balances(open) = Balances(Opened(r, s, policy, day))
    BY RolledOverFacts DEF Sound
  <1>4. Worth(Balances(Opened(r, s, policy, day))) = Worth(Balances(reset)) - amount
    <2>1. CASE policy = "carry"
      <3>1. Opened(r, s, policy, day) = DrawDebt(reset, r.overrun)
        BY <2>1 DEF Opened, Crosses
      <3>2. Worth(DrawDebt(reset, r.overrun)) = Worth(reset) - r.overrun
        BY <1>1, <1>2, DrawDebtFacts
      <3> QED
        BY <2>1, <3>1, <3>2, SMT DEF Worth, Available, Balances
    <2>2. CASE policy # "carry"
      <3>1. Opened(r, s, policy, day) = reset
        BY <2>2 DEF Opened, Crosses
      <3>2. Worth(Balances(reset)) \in Int
        BY <1>2, SMT DEF Worth, Available, Balances, LimitState
      <3> QED
        BY <2>2, <3>1, <3>2, SMT
    <2> QED
      BY <2>1, <2>2
  <1>5. RolloverEntries(r, s, policy, day, id) = <<turn>>
    BY DEF RolloverEntries
  <1>6. /\ turn.kind = kind /\ turn.id = id /\ turn.amount = amount /\ turn.month = month
        /\ turn.before = Balances(reset) /\ turn.after = Balances(open)
        /\ turn = [kind |-> kind, id |-> id, amount |-> amount, month |-> month,
                   before |-> Balances(reset), after |-> Balances(open)]
    BY DEF Entry
  <1>7. Balances(reset) \in BalanceRecord /\ Balances(open) \in BalanceRecord
    BY <1>2, <1>3, BalancesType
  <1> HIDE DEF month, reset, open, kind, amount, turn
  <1>8. turn \in LedgerEntry
    BY <1>1, <1>6, <1>7, Zenon DEF LedgerEntry, LedgerType, Turn
  <1>9. Balances(reset).custom = r.custom /\ Balances(reset).overrun = 0
    BY <1>2 DEF Balances
  <1>10. ExactEntry(turn, policy)
    BY <1>1, <1>3, <1>4, <1>6, SMT DEF ExactEntry, Turn
  <1> QED
    BY <1>1, <1>5, <1>6, <1>8, <1>9, <1>10 DEF open

\* An operation on the rolled row makes a good outcome when its own entry is exact.
LEMMA RolledFacts ==
  ASSUME NEW r, Sound(r), NEW s \in LimitSettings, NEW policy \in OverrunPolicy,
         NEW day \in Int, NEW id \in Tasks, NEW amount \in Nat,
         NEW kind \in {"consume", "topup", "settings"}, NEW new, Sound(new),
         NEW open, open = RolledOver(r, s, policy, day),
         ExactEntry(Entry(kind, id, amount, MonthOf(day), open, new), policy)
  PROVE  GoodOutcome(r, Rolled(r, s, policy, day, id, kind, amount, open, new), policy)
  <1> DEFINE e == Entry(kind, id, amount, MonthOf(day), open, new)
             turns == RolloverEntries(r, s, policy, day, id)
             out == Rolled(r, s, policy, day, id, kind, amount, open, new)
  <1>1. /\ r \in LimitState /\ r.month \in Int /\ open \in LimitState
        /\ new \in LimitState /\ MonthOf(day) \in Int
    BY MonthType, RolledOverFacts, SMT DEF Sound, LimitState
  <1>2. /\ out.row = new /\ out.entries = Append(turns, e)
        /\ out.closes = (IF Crosses(r, day) THEN r.month ELSE Unset)
        /\ out.closed = UsageRow(r)
    BY DEF Rolled, Outcome
  <1>3. /\ e \in LedgerEntry /\ e.kind \notin Turn
        /\ e.before = Balances(open) /\ e.after = Balances(new)
    <2>1. Balances(open) \in BalanceRecord /\ Balances(new) \in BalanceRecord
      BY <1>1, BalancesType
    <2> QED
      BY <1>1, <2>1, SMT DEF Entry, LedgerEntry, LedgerType, Turn
  <1>4. out.closes \in Int /\ out.closed \in HistoryRow
    BY <1>1, <1>2, UsageRowType, SMT DEF Unset
  <1>5. ExactEntry(e, policy)
    OBVIOUS
  <1>6. CASE Crosses(r, day)
    <2>1. PICK turn \in LedgerEntry :
            /\ turns = <<turn>> /\ turn.kind \in Turn
            /\ turn.before.custom = r.custom /\ turn.before.overrun = 0
            /\ turn.after = Balances(open) /\ ExactEntry(turn, policy)
      BY <1>6, TurnFacts
    <2> HIDE DEF e, turns, out
    <2>2. out.entries = <<turn, e>>
      <3> DEFINE two == Append(<<turn>>, e)
      <3>1. /\ two \in Seq(LedgerEntry) /\ Len(two) = 2
            /\ two[1] = turn /\ two[2] = e
        BY <1>3, SMT
      <3>2. <<turn, e>> \in Seq(LedgerEntry) /\ Len(<<turn, e>>) = 2
        BY <1>3
      <3>3. \A i \in 1 .. Len(two) : two[i] = <<turn, e>>[i]
        BY <3>1, SMT
      <3>4. two = <<turn, e>>
        <4> HIDE DEF two
        <4> QED
          BY <3>1, <3>2, <3>3, SeqEqual
      <3> QED
        BY <1>2, <2>1, <3>4
    <2>3. out.entries \in Seq(LedgerEntry)
      BY <1>3, <2>2
    <2>4. \A i \in DOMAIN out.entries : ExactEntry(out.entries[i], policy)
      <3>1. \A i \in DOMAIN out.entries : out.entries[i] = turn \/ out.entries[i] = e
        BY <2>2, SMT
      <3> QED
        BY <1>5, <2>1, <3>1
    <2>5. Explains(r, out)
      BY <1>2, <1>3, <2>1, <2>2 DEF Explains
    <2> QED
      BY <1>2, <1>4, <2>3, <2>4, <2>5 DEF GoodOutcome, out
  <1>7. CASE ~ Crosses(r, day)
    <2>1. turns = << >>
      BY <1>7 DEF RolloverEntries
    <2>2. Exists(r) => Balances(open) = Balances(r)
      BY <1>7, RolledOverFacts DEF Opened
    <2> HIDE DEF e, turns, out
    <2>3. out.entries = <<e>>
      BY <1>2, <2>1, SMT
    <2>4. out.entries \in Seq(LedgerEntry)
      BY <1>3, <2>3
    <2>5. \A i \in DOMAIN out.entries : ExactEntry(out.entries[i], policy)
      <3>1. \A i \in DOMAIN out.entries : out.entries[i] = e
        BY <2>3, SMT
      <3> QED
        BY <1>5, <3>1
    <2>6. Explains(r, out)
      BY <1>2, <1>3, <2>2, <2>3 DEF Explains
    <2> QED
      BY <1>2, <1>4, <2>4, <2>5, <2>6 DEF GoodOutcome, out
  <1> QED
    BY <1>6, <1>7

\* A booking under any policy: what is covered is drawn, only track sums the rest.
LEMMA ConsumeFacts ==
  ASSUME NEW r, Sound(r), NEW s \in LimitSettings, NEW policy \in OverrunPolicy,
         NEW amount \in Nat, NEW day \in Int, NEW id \in Tasks,
         ~ Consume(r, s, policy, amount, day, id).rejected
  PROVE  GoodOutcome(r, Consume(r, s, policy, amount, day, id), policy)
  <1> DEFINE open == RolledOver(r, s, policy, day)
             covered == Least(Available(open), amount)
             drawn == Draw(open, amount)
             owes == IF policy = "track" THEN open.overrun + (amount - covered)
                                         ELSE open.overrun
             left == IF s.daily = Unset THEN open.daily ELSE NonNeg(open.daily - covered)
             new == Booked(open, s, policy, amount)
             e == Entry("consume", id, amount, MonthOf(day), open, new)
  <1>1. /\ Sound(open) /\ open \in LimitState /\ Solvent(open)
        /\ open.monthly <= open.monthlySnap /\ open.extra <= open.extraSnap
    BY RolledOverFacts DEF Sound
  <1>2. /\ open.overrun \in Nat /\ open.daily \in Nat /\ Available(open) \in Nat
        /\ open.monthly \in Nat /\ open.extra \in Nat
        /\ open.monthlySnap \in Nat /\ open.extraSnap \in Nat
    BY <1>1, SMT DEF LimitState, Available
  <1>3. /\ covered \in Nat /\ covered <= amount /\ covered <= Available(open)
        /\ covered = amount \/ covered = Available(open)
    BY <1>2, SMT DEF Least
  <1>4. /\ drawn \in LimitState /\ Available(drawn) = Available(open) - covered
        /\ drawn.overrun = open.overrun /\ drawn.daily = open.daily
        /\ drawn.monthlySnap = open.monthlySnap /\ drawn.extraSnap = open.extraSnap
        /\ drawn.monthly <= open.monthly /\ drawn.extra <= open.extra
        /\ drawn.monthly \in Nat /\ drawn.extra \in Nat /\ drawn.custom \in Nat
    <2>1. /\ drawn \in LimitState /\ Available(drawn) = Available(open) - covered
          /\ drawn.overrun = open.overrun /\ drawn.daily = open.daily
          /\ drawn.monthlySnap = open.monthlySnap /\ drawn.extraSnap = open.extraSnap
          /\ drawn.monthly <= open.monthly /\ drawn.extra <= open.extra
      BY <1>1, DrawFacts
    <2> HIDE DEF drawn, open, covered
    <2> QED
      BY <2>1, SMT DEF LimitState
  <1>5. owes \in Nat /\ left \in Nat
    BY <1>2, <1>3, SMT DEF NonNeg
  <1>6. new = [drawn EXCEPT !.overrun = owes, !.daily = left]
    BY <1>4, SMT DEF Booked, LimitState
  <1>7. policy = "reject" => amount <= Available(open)
    BY <1>2, SMT DEF Consume, Outcome
  <1>8. Consume(r, s, policy, amount, day, id) =
          Rolled(r, s, policy, day, id, "consume", amount, open, new)
    <2>1. ~ (policy = "reject" /\ amount > Available(open))
      BY <1>2, <1>7, SMT
    <2> QED
      BY <2>1, Zenon DEF Consume
  <1>9. /\ new.overrun = owes /\ new.monthlySnap = drawn.monthlySnap
        /\ new.extraSnap = drawn.extraSnap /\ new.monthly = drawn.monthly
        /\ new.extra = drawn.extra /\ new.custom = drawn.custom
    <2> HIDE DEF drawn, owes, left, new
    <2> QED
      BY <1>4, <1>6, SMT DEF LimitState
  <1>10. Available(new) = Available(open) - covered
    BY <1>4, <1>9 DEF Available
  <1>11. /\ Available(Balances(new)) = Available(new)
         /\ Available(Balances(open)) = Available(open)
         /\ Balances(new).overrun = new.overrun /\ Balances(open).overrun = open.overrun
    BY DEF Available, Balances
  <1>12. /\ e.kind = "consume" /\ e.amount = amount
         /\ e.before = Balances(open) /\ e.after = Balances(new)
    BY DEF Entry
  <1> HIDE DEF open, covered, drawn, new, e
  <1>13. new \in LimitState
    <2> HIDE DEF owes, left
    <2> QED
      BY <1>4, <1>5, <1>6, ZenonT(30) DEF LimitState
  <1>14. Sound(new)
    BY <1>1, <1>2, <1>3, <1>4, <1>9, <1>10, <1>13, SMT DEF Sound, Solvent
  <1>15. ExactEntry(e, policy)
    <2>1. Available(e.before) - Available(e.after) = covered
      BY <1>2, <1>3, <1>10, <1>11, <1>12, SMT
    <2>2. e.after.overrun - e.before.overrun = IF policy = "track" THEN amount - covered ELSE 0
      BY <1>2, <1>3, <1>9, <1>11, <1>12, SMT
    <2>3. policy = "reject" => covered = amount
      BY <1>2, <1>3, <1>7, SMT
    <2>4. covered = Least(Available(e.before), e.amount)
      BY <1>11, <1>12 DEF covered
    <2> QED
      BY <1>12, <2>1, <2>2, <2>3, <2>4, Zenon DEF ExactEntry
  <1> QED
    BY <1>1, <1>8, <1>14, <1>15, RolledFacts DEF open, e

\* A top-up adds itself to the worth and retires debt first.
LEMMA TopupFacts ==
  ASSUME NEW r, Sound(r), NEW s \in LimitSettings, NEW policy \in OverrunPolicy,
         NEW amount \in Nat, NEW day \in Int, NEW id \in Tasks
  PROVE  GoodOutcome(r, Topup(r, s, policy, amount, day, id), policy)
  <1> DEFINE open == RolledOver(r, s, policy, day)
             credited == [open EXCEPT !.custom = open.custom + amount]
             new == SettleOverrun(credited)
             e == Entry("topup", id, amount, MonthOf(day), open, new)
  <1>1. /\ Sound(open) /\ open \in LimitState
        /\ open.monthly <= open.monthlySnap /\ open.extra <= open.extraSnap
    BY RolledOverFacts DEF Sound
  <1> HIDE DEF open
  <1>2. /\ credited \in LimitState /\ Worth(credited) = Worth(open) + amount
        /\ credited.monthly = open.monthly /\ credited.extra = open.extra
        /\ credited.monthlySnap = open.monthlySnap /\ credited.extraSnap = open.extraSnap
        /\ credited = [open EXCEPT !.custom = @ + amount]
    BY <1>1, SMT DEF LimitState, Worth, Available
  <1> HIDE DEF credited
  <1>3. /\ new \in LimitState /\ Solvent(new) /\ Worth(new) = Worth(credited)
        /\ new.monthly <= credited.monthly /\ new.extra <= credited.extra
        /\ new.monthlySnap = credited.monthlySnap /\ new.extraSnap = credited.extraSnap
    BY <1>2, SettleFacts
  <1>4. Topup(r, s, policy, amount, day, id) =
          Rolled(r, s, policy, day, id, "topup", amount, open, new)
    BY <1>2 DEF Topup, open
  <1>5. ExactEntry(e, policy)
    <2>1. /\ e.kind = "topup" /\ e.amount = amount
          /\ e.before = Balances(open) /\ e.after = Balances(new)
      BY DEF Entry
    <2>2. Worth(Balances(new)) = Worth(Balances(open)) + amount
      BY <1>2, <1>3 DEF Worth, Available, Balances
    <2> HIDE DEF e
    <2> QED
      BY <2>1, <2>2 DEF ExactEntry
  <1> HIDE DEF new
  <1>6. Sound(new)
    BY <1>1, <1>2, <1>3, SMT DEF Sound, LimitState
  <1> QED
    BY <1>4, <1>5, <1>6, RolledFacts DEF open, e

\* The daily counter follows its setting and moves no balance.
LEMMA ReconcileDailyFacts ==
  ASSUME NEW r \in LimitState, NEW s \in LimitSettings
  PROVE  /\ ReconcileDaily(r, s) \in LimitState
         /\ Balances(ReconcileDaily(r, s)) = Balances(r)
         /\ ReconcileDaily(r, s).monthlySnap = r.monthlySnap
         /\ ReconcileDaily(r, s).extraSnap = r.extraSnap
         /\ ReconcileDaily(r, s).month = r.month
  <1> DEFINE left == NonNeg(s.daily - NonNeg(r.dailySnap - r.daily))
  <1>1. CASE s.daily = Unset \/ r.dailySnap = Unset
    BY <1>1, SMT DEF ReconcileDaily
  <1>2. CASE ~ (s.daily = Unset \/ r.dailySnap = Unset)
    <2>1. s.daily \in Nat /\ r.dailySnap \in Nat /\ r.daily \in Nat /\ left \in Nat
      BY <1>2, SMT DEF LimitSettings, LimitState, Option, NonNeg
    <2>2. ReconcileDaily(r, s) = [r EXCEPT !.dailySnap = s.daily, !.daily = left]
      BY <1>2, Zenon DEF ReconcileDaily
    <2> HIDE DEF left
    <2>3. ReconcileDaily(r, s) \in LimitState
      BY <2>1, <2>2, ZenonT(30) DEF LimitState, Option
    <2> QED
      BY <2>2, <2>3, SMT DEF LimitState, Balances
  <1> QED
    BY <1>1, <1>2

\* What is used stays used: the shortfall of a cut is debt, a rise retires it.
LEMMA ReconciledFacts ==
  ASSUME NEW r, Sound(r), NEW s \in LimitSettings
  PROVE  /\ Sound(Reconciled(r, s))
         /\ Used(Reconciled(r, s)) = Used(r)
         /\ Reconciled(r, s).custom <= r.custom
         /\ Reconciled(r, s).month = r.month
  <1> DEFINE newM == OrZero(s.monthly)
             newE == OrZero(s.extra)
             rawM == newM - NonNeg(r.monthlySnap - r.monthly)
             rawE == newE - NonNeg(r.extraSnap - r.extra)
             m == NonNeg(rawM)
             e == NonNeg(rawE)
             owed == r.overrun + NonNeg(-rawM) + NonNeg(-rawE)
             budgets == [r EXCEPT !.monthlySnap = newM, !.monthly = m, !.extraSnap = newE]
             rebooked == [budgets EXCEPT !.extra = e, !.overrun = owed]
             daily == ReconcileDaily(rebooked, s)
             new == SettleOverrun(daily)
  <1>1. /\ r \in LimitState /\ r.monthly \in Nat /\ r.extra \in Nat /\ r.custom \in Nat
        /\ r.overrun \in Nat /\ r.monthlySnap \in Nat /\ r.extraSnap \in Nat
        /\ r.monthly <= r.monthlySnap /\ r.extra <= r.extraSnap
    BY SMT DEF Sound, LimitState
  <1>2. newM \in Nat /\ newE \in Nat
    BY SMT DEF LimitSettings, Option, OrZero
  <1>3. /\ m \in Nat /\ e \in Nat /\ owed \in Nat /\ m <= newM /\ e <= newE
        /\ newM + newE - (m + r.custom + e - owed)
             = r.monthlySnap + r.extraSnap - (r.monthly + r.custom + r.extra - r.overrun)
    <2> HIDE DEF newM, newE
    <2> QED
      BY <1>1, <1>2, SMT DEF NonNeg
  <1>4. Reconciled(r, s) = new
    <2>1. rebooked = [r EXCEPT !.monthlySnap = newM, !.monthly = m, !.extraSnap = newE,
                               !.extra = e, !.overrun = owed]
      <3> HIDE DEF newM, newE, m, e, owed
      <3> QED
        BY <1>1, SMT DEF LimitState
    <2> HIDE DEF rebooked
    <2> QED
      BY <2>1 DEF Reconciled
  <1> HIDE DEF newM, newE, rawM, rawE, m, e, owed
  <1>5. rebooked \in LimitState
    <2>1. budgets \in LimitState
      BY <1>1, <1>2, <1>3, ZenonT(30) DEF LimitState
    <2> HIDE DEF budgets
    <2> QED
      BY <1>3, <2>1, ZenonT(30) DEF LimitState
  <1>6. /\ rebooked.monthlySnap = newM /\ rebooked.extraSnap = newE
        /\ rebooked.monthly = m /\ rebooked.extra = e
        /\ rebooked.custom = r.custom /\ rebooked.overrun = owed
        /\ rebooked.month = r.month
    BY <1>1, SMT DEF LimitState
  <1> HIDE DEF budgets, rebooked
  <1>7. /\ daily \in LimitState /\ Balances(daily) = Balances(rebooked)
        /\ daily.monthlySnap = newM /\ daily.extraSnap = newE /\ daily.month = r.month
    BY <1>5, <1>6, ReconcileDailyFacts
  <1>8. daily.monthly = m /\ daily.extra = e /\ daily.custom = r.custom /\ daily.overrun = owed
    BY <1>6, <1>7, SMT DEF Balances
  <1> HIDE DEF daily
  <1>9. /\ new \in LimitState /\ Solvent(new) /\ Worth(new) = Worth(daily)
        /\ new.custom <= daily.custom /\ new.monthly <= daily.monthly
        /\ new.extra <= daily.extra
        /\ new.monthlySnap = daily.monthlySnap /\ new.extraSnap = daily.extraSnap
        /\ new.month = daily.month
    BY <1>7, SettleFacts
  <1> HIDE DEF new
  <1>10. Sound(new)
    BY <1>2, <1>3, <1>7, <1>8, <1>9, SMT DEF Sound, LimitState
  <1>11. Used(new) = Used(r)
    BY <1>1, <1>2, <1>3, <1>7, <1>8, <1>9, SMT DEF Used, Worth, Available
  <1> QED
    BY <1>4, <1>7, <1>8, <1>9, <1>10, <1>11

LEMMA SettingsFacts ==
  ASSUME NEW r, Sound(r), NEW s \in LimitSettings, NEW policy \in OverrunPolicy,
         NEW day \in Int, NEW id \in Tasks
  PROVE  GoodOutcome(r, ApplySettings(r, s, policy, day, id), policy)
  <1> DEFINE open == RolledOver(r, s, policy, day)
             new == Reconciled(open, s)
             e == Entry("settings", id, 0, MonthOf(day), open, new)
  <1>1. Sound(open)
    BY RolledOverFacts
  <1> HIDE DEF open
  <1>2. Sound(new) /\ new.custom <= open.custom
    BY <1>1, ReconciledFacts
  <1>3. ExactEntry(e, policy)
    <2>1. /\ e.kind = "settings" /\ e.before.custom = open.custom
          /\ e.after.custom = new.custom
      BY DEF Entry, Balances
    <2> HIDE DEF e, new
    <2> QED
      BY <1>2, <2>1 DEF ExactEntry
  <1>4. ApplySettings(r, s, policy, day, id) =
          Rolled(r, s, policy, day, id, "settings", 0, open, new)
    BY DEF ApplySettings, open
  <1> HIDE DEF new
  <1> QED
    BY <1>2, <1>3, <1>4, RolledFacts DEF open, e

\* A report moves no balance and writes no ledger.
LEMMA GaugeFacts ==
  ASSUME NEW r, Sound(r), NEW value \in Nat, NEW max \in Option, NEW day \in Int,
         NEW policy \in OverrunPolicy
  PROVE  GoodOutcome(r, SetGauge(r, value, max, day), policy)
  <1> DEFINE month == MonthOf(day)
             base == IF Exists(r) THEN r ELSE Fresh(EmptySettings, month)
             new == [base EXCEPT !.gauge = value, !.gaugeMonth = month]
             out == SetGauge(r, value, max, day)
  <1>1. month \in Int /\ EmptySettings \in LimitSettings
    BY MonthType, SMT DEF EmptySettings, LimitSettings, Option
  <1>2. Sound(base) /\ base \in LimitState /\ base.gaugeMonth \in Int
    <2>1. Sound(Fresh(EmptySettings, month))
      BY <1>1, FreshFacts
    <2>2. Sound(base)
      BY <2>1
    <2> HIDE DEF base
    <2> QED
      BY <2>2, SMT DEF Sound, LimitState
  <1>3. Exists(r) => base = r
    OBVIOUS
  <1>4. /\ out.row = new /\ out.entries = << >> /\ out.closed = GaugeRow(base, max)
        /\ out.closes = base.gaugeMonth \/ out.closes = Unset
    BY DEF SetGauge, Outcome
  <1> HIDE DEF month, base
  <1>5. new \in LimitState
    BY <1>1, <1>2, ZenonT(30) DEF LimitState, Option
  <1>6. /\ Balances(new) = Balances(base) /\ new.monthly = base.monthly
        /\ new.extra = base.extra /\ new.custom = base.custom /\ new.overrun = base.overrun
        /\ new.monthlySnap = base.monthlySnap /\ new.extraSnap = base.extraSnap
    BY <1>2, SMT DEF LimitState, Balances
  <1> HIDE DEF new, out
  <1>7. Sound(new)
    BY <1>2, <1>5, <1>6 DEF Sound, Solvent, Available
  <1>8. out.entries \in Seq(LedgerEntry) /\ DOMAIN out.entries = {}
    BY <1>4, SMT
  <1>9. out.closes \in Int /\ out.closed \in HistoryRow
    BY <1>2, <1>4, GaugeRowType DEF Unset
  <1>10. Explains(r, out)
    BY <1>3, <1>4, <1>6 DEF Explains
  <1> QED
    BY <1>4, <1>7, <1>8, <1>9, <1>10 DEF GoodOutcome, out

-----------------------------------------------------------------------------
(* The loop.                                                               *)

\* The inductive invariant: whatever a request holds in its hand was stored once, and as long
\* as the version has not moved it is what is stored.
VersionIdentifies ==
    \A t \in Tasks :
        task[t].phase = "commit" =>
            /\ task[t].seen.version <= row.version
            /\ task[t].seen.version = row.version => task[t].seen = row

IInv ==
    /\ TypeOK
    /\ Sound(row)
    /\ \A t \in Tasks : Sound(task[t].seen)
    /\ VersionIdentifies
    /\ ~ Exists(row) => ledger = << >>
    /\ LedgerChains
    /\ EntriesAreExact

LEMMA IdleFacts ==
  /\ Idle \in Task /\ Sound(Idle.seen) /\ Idle.seen = NoState
  /\ NoState \in LimitState /\ EmptySettings \in LimitSettings
  <1>1. EmptySettings \in LimitSettings
    BY SMT DEF EmptySettings, LimitSettings, Option
  <1>2. Sound(NoState)
    BY <1>1, FreshFacts, SMT DEF NoState, Unset
  <1>3. NoState \in LimitState
    BY <1>2 DEF Sound
  <1> HIDE DEF NoState
  <1>4. Idle \in Task
    BY <1>1, <1>3, SMT DEF Idle, Task, NoTenant, Phases, Operations, Answers
  <1>5. Idle.seen = NoState
    BY DEF Idle
  <1> QED
    BY <1>1, <1>2, <1>3, <1>4, <1>5

LEMMA PolicyType ==
  ASSUME TypeOK
  PROVE  def.policy \in OverrunPolicy /\ def \in LimitDef
  BY LimitAssumptions DEF TypeOK, LimitDef

\* A step that writes no row: the request's own record moves, and perhaps the tenant's.
TenantRow == [settings : LimitSettings, version : Nat]

LocalStep(t, new) ==
    /\ UNCHANGED <<def, clock, row, ledger, history>>
    /\ tenant' \in TenantRow
    /\ task' = [task EXCEPT ![t] = new]
    /\ new \in Task /\ Sound(new.seen)
    /\ new.phase = "commit" => new.seen = row

LEMMA LocalStepKeeps ==
  ASSUME IInv, NEW t \in Tasks, NEW new, LocalStep(t, new)
  PROVE  IInv'
  <1>1. /\ def' = def /\ clock' = clock /\ tenant' \in TenantRow /\ row' = row
        /\ ledger' = ledger /\ history' = history
    BY DEF LocalStep
  <1>2. \A u \in Tasks : task'[u] = IF u = t THEN new ELSE task[u]
    BY DEF LocalStep, IInv, TypeOK
  <1>3. TypeOK'
    BY <1>1 DEF LocalStep, IInv, TypeOK, TenantRow
  <1>4. \A u \in Tasks : Sound(task'[u].seen)
    BY <1>2 DEF LocalStep, IInv
  <1>5. row.version \in Nat
    BY SMT DEF IInv, TypeOK, LimitState
  <1>6. VersionIdentifies'
    <2> SUFFICES ASSUME NEW u \in Tasks, task'[u].phase = "commit"
                 PROVE  /\ task'[u].seen.version <= row.version
                        /\ task'[u].seen.version = row.version => task'[u].seen = row
      BY <1>1 DEF VersionIdentifies
    <2>1. CASE u = t
      <3>1. task'[u].seen = row
        BY <1>2, <2>1 DEF LocalStep
      <3> QED
        BY <1>5, <3>1, SMT
    <2>2. CASE u # t
      BY <1>2, <2>2 DEF IInv, VersionIdentifies
    <2> QED
      BY <2>1, <2>2
  <1> QED
    BY <1>1, <1>3, <1>4, <1>6 DEF IInv, LedgerChains, EntriesAreExact

\* Ending a request, with any answer, is such a step.
LEMMA EndsIsLocal ==
  ASSUME TypeOK, NEW t \in Tasks, NEW answer \in Answers
  PROVE  /\ Ended(t, answer) \in Task
         /\ Sound(Ended(t, answer).seen)
         /\ Ended(t, answer).phase = "done"
  <1>1. task[t] \in Task /\ task[t].op \in Operations /\ task[t].amount \in Nat
    BY SMT DEF TypeOK, Task
  <1>2. /\ Idle \in Task /\ Sound(Idle.seen)
    BY IdleFacts
  <1>3. Ended(t, answer) = [Idle EXCEPT !.phase = "done", !.op = task[t].op,
                                        !.amount = task[t].amount, !.answer = answer]
    BY DEF Ended
  <1> HIDE DEF Idle
  <1>4. Ended(t, answer) \in Task
    BY <1>1, <1>2, <1>3, ZenonT(30) DEF Task, Phases
  <1>5. Ended(t, answer).seen = Idle.seen /\ Ended(t, answer).phase = "done"
    BY <1>2, <1>3, SMT DEF Task
  <1> QED
    BY <1>2, <1>4, <1>5

LEMMA ProducedFacts ==
  ASSUME IInv, NEW t \in Tasks, ~ Produced(t).rejected
  PROVE  GoodOutcome(task[t].seen, Produced(t), def.policy)
  <1> DEFINE r == task[t]
  <1>1. /\ r \in Task /\ r.amount \in Nat /\ r.settings \in LimitSettings
        /\ r.now \in Int /\ Sound(r.seen) /\ def.policy \in OverrunPolicy
    BY PolicyType, SMT DEF IInv, TypeOK, Task
  <1>2. CASE r.op = "consume"
    <2>1. Produced(t) = Consume(r.seen, r.settings, def.policy, r.amount, r.now, t)
      BY <1>2 DEF Produced
    <2> QED
      BY <1>1, <2>1, ConsumeFacts
  <1>3. CASE r.op = "topup"
    <2>1. Produced(t) = Topup(r.seen, r.settings, def.policy, r.amount, r.now, t)
      BY <1>3 DEF Produced
    <2> QED
      BY <1>1, <2>1, TopupFacts
  <1>4. CASE r.op = "report"
    <2>1. Produced(t) = SetGauge(r.seen, r.amount, r.settings.max, r.now)
      BY <1>4 DEF Produced
    <2>2. r.settings.max \in Option
      BY <1>1, SMT DEF LimitSettings
    <2> QED
      BY <1>1, <2>1, <2>2, GaugeFacts
  <1>5. CASE r.op \notin {"consume", "topup", "report"}
    <2>1. Produced(t) = ApplySettings(r.seen, r.settings, def.policy, r.now, t)
      BY <1>5 DEF Produced
    <2> QED
      BY <1>1, <2>1, SettingsFacts
  <1> QED
    BY <1>2, <1>3, <1>4, <1>5

-----------------------------------------------------------------------------
(* The requests' own steps.                                                *)

\* Answering is a step that writes no row.
LEMMA EndsKeeps ==
  ASSUME IInv, NEW t \in Tasks, NEW answer \in Answers, Ends(t, answer),
         UNCHANGED <<def, clock, row, ledger, history>>, tenant' \in TenantRow
  PROVE  IInv'
  <1>1. /\ Ended(t, answer) \in Task /\ Sound(Ended(t, answer).seen)
        /\ Ended(t, answer).phase = "done"
    BY EndsIsLocal DEF IInv
  <1>2. LocalStep(t, Ended(t, answer))
    BY <1>1 DEF LocalStep, Ends
  <1> QED
    BY <1>2, LocalStepKeeps

\* So is going on to a phase that holds no row.
LEMMA GoesKeeps ==
  ASSUME IInv, NEW t \in Tasks, NEW phase \in Phases \ {"commit"}, Goes(t, phase),
         UNCHANGED <<def, clock, row, ledger, history>>, tenant' \in TenantRow
  PROVE  IInv'
  <1> DEFINE new == [task[t] EXCEPT !.phase = phase]
  <1>1. task[t] \in Task /\ Sound(task[t].seen) /\ phase \in Phases
    BY DEF IInv, TypeOK
  <1>2. new \in Task /\ new.seen = task[t].seen /\ new.phase = phase
    BY <1>1, SMT DEF Task
  <1>3. task' = [task EXCEPT ![t] = new]
    BY DEF Goes
  <1> HIDE DEF new
  <1>4. LocalStep(t, new)
    BY <1>1, <1>2, <1>3, SMT DEF LocalStep
  <1> QED
    BY <1>4, LocalStepKeeps

\* What the tenant row holds, and that a step that leaves it alone keeps it.
LEMMA TenantFacts ==
  ASSUME IInv
  PROVE  /\ tenant \in TenantRow /\ tenant.settings \in LimitSettings
         /\ tenant.version \in Nat /\ clock \in Int
  BY SMT DEF IInv, TypeOK, TenantRow

LEMMA BeginsKeeps ==
  ASSUME IInv, NEW t \in Tasks, NEW op \in Operations, NEW amount \in Nat,
         Begins(t, op, amount)
  PROVE  IInv'
  <1> DEFINE new == [Idle EXCEPT !.phase = "load", !.op = op, !.amount = amount,
                                 !.settings = tenant.settings, !.now = clock]
  <1>1. /\ tenant \in TenantRow /\ tenant.settings \in LimitSettings /\ clock \in Int
    BY TenantFacts
  <1>2. Idle \in Task /\ Sound(Idle.seen)
    BY IdleFacts
  <1>3. /\ task' = [task EXCEPT ![t] = new]
        /\ UNCHANGED <<def, clock, row, ledger, history>> /\ tenant' = tenant
    BY DEF Begins, stored
  <1> HIDE DEF Idle
  <1>4. new \in Task
    <2> DEFINE a == [Idle EXCEPT !.phase = "load", !.op = op, !.amount = amount]
    <2>1. a \in Task
      BY <1>2, ZenonT(30) DEF Task, Phases
    <2>2. new = [a EXCEPT !.settings = tenant.settings, !.now = clock]
      BY <1>2, SMT DEF Task
    <2> HIDE DEF a
    <2> QED
      BY <1>1, <2>1, <2>2, ZenonT(30) DEF Task
  <1>5. new.seen = Idle.seen /\ new.phase = "load"
    BY <1>2, SMT DEF Task
  <1> HIDE DEF new
  <1>6. LocalStep(t, new)
    BY <1>1, <1>2, <1>3, <1>4, <1>5, SMT DEF LocalStep
  <1> QED
    BY <1>6, LocalStepKeeps

LEMMA AfterSaveKeeps ==
  ASSUME IInv, NEW t \in Tasks, AfterSave(t),
         UNCHANGED <<def, clock, row, ledger, history>>, tenant' \in TenantRow
  PROVE  IInv'
  <1>1. CASE Clearing(task[t].settings)
    <2>1. Ends(t, "booked")
      BY <1>1 DEF AfterSave
    <2> QED
      BY <2>1, EndsKeeps DEF Answers
  <1>2. CASE ~ Clearing(task[t].settings)
    <2>1. Goes(t, "reconcile")
      BY <1>2 DEF AfterSave
    <2> QED
      BY <2>1, GoesKeeps DEF Phases
  <1> QED
    BY <1>1, <1>2

LEMMA SetLimitSettingsKeeps ==
  ASSUME IInv, NEW t \in Tasks, SetLimitSettings(t)
  PROVE  IInv'
  <1>1. PICK s \in Settings, confirm \in BOOLEAN :
          task' = [task EXCEPT ![t] =
              [Idle EXCEPT !.phase = IF Clearing(s) \/ confirm THEN "tenant" ELSE "preview",
                           !.op = "settings", !.settings = s]]
    BY DEF SetLimitSettings
  <1> DEFINE phase == IF Clearing(s) \/ confirm THEN "tenant" ELSE "preview"
             new == [Idle EXCEPT !.phase = phase, !.op = "settings", !.settings = s]
  <1>2. s \in LimitSettings /\ phase \in Phases \ {"commit"}
    BY LimitAssumptions DEF Phases
  <1>3. Idle \in Task /\ Sound(Idle.seen)
    BY IdleFacts
  <1>4. task' = [task EXCEPT ![t] = new]
    BY <1>1
  <1> HIDE DEF phase
  <1> HIDE DEF Idle
  <1>5. new \in Task
    BY <1>2, <1>3, ZenonT(30) DEF Task, Operations
  <1>6. new.seen = Idle.seen /\ new.phase = phase
    BY <1>3, SMT DEF Task
  <1>7. UNCHANGED <<def, clock, row, ledger, history>> /\ tenant' \in TenantRow
    BY TenantFacts DEF SetLimitSettings, stored
  <1> HIDE DEF new
  <1>8. LocalStep(t, new)
    BY <1>2, <1>3, <1>4, <1>5, <1>6, <1>7 DEF LocalStep
  <1> QED
    BY <1>8, LocalStepKeeps

LEMMA PreviewKeeps ==
  ASSUME IInv, NEW t \in Tasks, Preview(t)
  PROVE  IInv'
  <1>1. UNCHANGED <<def, clock, row, ledger, history>> /\ tenant' \in TenantRow
    BY TenantFacts DEF Preview, stored
  <1>2. Ends(t, "confirm") \/ Goes(t, "tenant")
    BY DEF Preview
  <1>3. CASE Ends(t, "confirm")
    BY <1>1, <1>3, EndsKeeps DEF Answers
  <1>4. CASE Goes(t, "tenant")
    BY <1>1, <1>4, GoesKeeps DEF Phases
  <1> QED
    BY <1>2, <1>3, <1>4

LEMMA ReadTenantKeeps ==
  ASSUME IInv, NEW t \in Tasks, ReadTenant(t)
  PROVE  IInv'
  <1>1. UNCHANGED <<def, clock, row, ledger, history>> /\ tenant' \in TenantRow
    BY TenantFacts DEF ReadTenant, stored
  <1>2. CASE tenant.settings = task[t].settings
    <2>1. AfterSave(t)
      BY <1>2 DEF ReadTenant
    <2> QED
      BY <1>1, <2>1, AfterSaveKeeps
  <1>3. CASE tenant.settings # task[t].settings
    <2> DEFINE new == [task[t] EXCEPT !.phase = "save", !.tenantSeen = tenant]
    <2>1. task[t] \in Task /\ Sound(task[t].seen) /\ tenant \in TenantRow
      BY TenantFacts DEF IInv, TypeOK
    <2>2. task' = [task EXCEPT ![t] = new]
      BY <1>3 DEF ReadTenant
    <2>3. new \in Task
      BY <2>1, ZenonT(30) DEF Task, Phases, TenantRow
    <2>4. new.seen = task[t].seen /\ new.phase = "save"
      BY <2>1, SMT DEF Task
    <2> HIDE DEF new
    <2>5. LocalStep(t, new)
      BY <1>1, <2>1, <2>2, <2>3, <2>4 DEF LocalStep
    <2> QED
      BY <2>5, LocalStepKeeps
  <1> QED
    BY <1>2, <1>3

LEMMA SaveTenantKeeps ==
  ASSUME IInv, NEW t \in Tasks, SaveTenant(t)
  PROVE  IInv'
  <1>1. UNCHANGED <<def, clock, row, ledger, history>>
    BY DEF SaveTenant
  <1>2. tenant \in TenantRow /\ tenant.version + 1 \in Nat
    BY TenantFacts, SMT
  <1>3. CASE tenant.version = task[t].tenantSeen.version
    <2>1. /\ tenant' = [settings |-> task[t].settings, version |-> tenant.version + 1]
          /\ AfterSave(t)
      BY <1>3 DEF SaveTenant
    <2>2. task[t].settings \in LimitSettings
      BY SMT DEF IInv, TypeOK, Task
    <2>3. tenant' \in TenantRow
      BY <1>2, <2>1, <2>2 DEF TenantRow
    <2> QED
      BY <1>1, <2>1, <2>3, AfterSaveKeeps
  <1>4. CASE tenant.version # task[t].tenantSeen.version
    <2>1. Ends(t, "stale") /\ tenant' \in TenantRow
      BY <1>2, <1>4 DEF SaveTenant
    <2> QED
      BY <1>1, <2>1, EndsKeeps DEF Answers
  <1> QED
    BY <1>3, <1>4

LEMMA ReconcileLimitStateKeeps ==
  ASSUME IInv, NEW t \in Tasks, ReconcileLimitState(t)
  PROVE  IInv'
  <1>1. UNCHANGED <<def, clock, row, ledger, history>> /\ tenant' \in TenantRow
    BY TenantFacts DEF ReconcileLimitState, stored
  <1> DEFINE new == [task[t] EXCEPT !.phase = "load", !.now = clock]
  <1>2. Ends(t, "booked") \/ task' = [task EXCEPT ![t] = new]
    BY DEF ReconcileLimitState
  <1>3. CASE Ends(t, "booked")
    BY <1>1, <1>3, EndsKeeps DEF Answers
  <1>4. CASE task' = [task EXCEPT ![t] = new]
    <2>1. task[t] \in Task /\ Sound(task[t].seen) /\ clock \in Int
      BY TenantFacts DEF IInv, TypeOK
    <2>2. new \in Task
      BY <2>1, ZenonT(30) DEF Task, Phases
    <2>3. new.seen = task[t].seen /\ new.phase = "load"
      BY <2>1, SMT DEF Task
    <2> HIDE DEF new
    <2>4. LocalStep(t, new)
      BY <1>1, <1>4, <2>1, <2>2, <2>3 DEF LocalStep
    <2> QED
      BY <2>4, LocalStepKeeps
  <1> QED
    BY <1>2, <1>3, <1>4

LEMMA LoadKeeps ==
  ASSUME IInv, NEW t \in Tasks, Load(t)
  PROVE  IInv'
  <1> DEFINE new == [task[t] EXCEPT !.phase = "commit", !.seen = row]
  <1>1. task[t] \in Task /\ row \in LimitState /\ Sound(row)
    BY DEF IInv, TypeOK
  <1>2. new \in Task
    BY <1>1, ZenonT(30) DEF Task, Phases
  <1>3. new.seen = row
    BY <1>1, SMT DEF Task
  <1>4. task' = [task EXCEPT ![t] = new]
    BY DEF Load
  <1>5. UNCHANGED <<def, clock, row, ledger, history>> /\ tenant' \in TenantRow
    BY TenantFacts DEF Load, stored
  <1> HIDE DEF new
  <1>6. LocalStep(t, new)
    BY <1>1, <1>2, <1>3, <1>4, <1>5 DEF LocalStep
  <1> QED
    BY <1>6, LocalStepKeeps

LEMMA ConflictKeeps ==
  ASSUME IInv, NEW t \in Tasks, Conflict(t)
  PROVE  IInv'
  <1>1. UNCHANGED <<def, clock, row, ledger, history>> /\ tenant' \in TenantRow
    BY TenantFacts DEF Conflict, stored
  <1> DEFINE again == task[t].tries + 1
             new == [task[t] EXCEPT !.phase = "load", !.seen = NoState, !.tries = again]
  <1>2. task[t] \in Task /\ again \in Nat
    BY SMT DEF IInv, TypeOK, Task
  <1>3. NoState \in LimitState /\ Sound(NoState)
    BY IdleFacts
  <1> HIDE DEF NoState
  <1>4. Ends(t, "contended") \/ task' = [task EXCEPT ![t] = new]
    BY DEF Conflict
  <1>5. CASE Ends(t, "contended")
    BY <1>1, <1>5, EndsKeeps DEF Answers
  <1>6. CASE task' = [task EXCEPT ![t] = new]
    <2>1. new \in Task
      <3> HIDE DEF again
      <3> QED
        BY <1>2, <1>3, ZenonT(30) DEF Task, Phases
    <2>2. new.seen = NoState /\ new.phase = "load"
      BY <1>2, SMT DEF Task
    <2> HIDE DEF new
    <2>3. LocalStep(t, new)
      BY <1>1, <1>3, <1>6, <2>1, <2>2 DEF LocalStep
    <2> QED
      BY <2>3, LocalStepKeeps
  <1> QED
    BY <1>4, <1>5, <1>6

-----------------------------------------------------------------------------
(* The swap.                                                               *)

\* A ledger without a gap that ends with what the row holds.
Complete(l, r) ==
    /\ \A i \in 1 .. Len(l) - 1 : Chained(l[i], l[i + 1])
    /\ l # << >> => Balances(r) = l[Len(l)].after

\* An explained outcome extends such a ledger to such a ledger.
LEMMA ChainExtends ==
  ASSUME NEW l \in Seq(LedgerEntry), NEW seen, NEW out, Complete(l, seen),
         ~ Exists(seen) => l = << >>, out.entries \in Seq(LedgerEntry),
         Explains(seen, out)
  PROVE  Complete(l \o out.entries, out.row)
  <1> DEFINE new == l \o out.entries
             n == Len(l)
  <1>1. /\ new \in Seq(LedgerEntry) /\ Len(new) = n + Len(out.entries) /\ n \in Nat
        /\ \A i \in 1 .. n + Len(out.entries) :
              new[i] = IF i <= n THEN l[i] ELSE out.entries[i - n]
    <2>1. n \in Nat
      BY SMT
    <2> QED
      BY <2>1, ConcatProperties
  <1>2. l # << >> => n > 0 /\ Balances(seen) = l[n].after
    BY SMT DEF Complete
  <1>3. CASE out.entries = << >> /\ (Exists(seen) => Balances(out.row) = Balances(seen))
    <2>1. new = l
      BY <1>3, ConcatEmptySeq
    <2>2. l # << >> => Balances(out.row) = l[Len(l)].after
      BY <1>2, <1>3
    <2> QED
      BY <2>1, <2>2 DEF Complete
  <1>4. ASSUME NEW e \in LedgerEntry, out.entries = <<e>>, e.kind \notin Turn,
               e.after = Balances(out.row), Exists(seen) => e.before = Balances(seen)
        PROVE  Complete(new, out.row)
    <2>1. Len(out.entries) = 1 /\ out.entries[1] = e
      BY <1>4, SMT
    <2>2. Len(new) = n + 1 /\ new[n + 1] = e /\ \A i \in 1 .. n : new[i] = l[i]
      <3> HIDE DEF new, n
      <3> QED
        BY <1>1, <2>1, SMT
    <2>3. ASSUME NEW i \in 1 .. Len(new) - 1
          PROVE  Chained(new[i], new[i + 1])
      <3>1. CASE i < n
        <4>1. i \in 1 .. n - 1 /\ i \in 1 .. n /\ i + 1 \in 1 .. n
          BY <1>1, <2>2, <2>3, <3>1, SMT
        <4> QED
          BY <2>2, <4>1 DEF Complete
      <3>2. CASE ~ i < n
        <4>1. i = n /\ n \in 1 .. n /\ n > 0
          BY <1>1, <2>2, <2>3, <3>2, SMT
        <4>2. l # << >>
          BY <4>1, SMT
        <4>3. new[i] = l[n] /\ new[i + 1] = e /\ e.before = l[n].after
          BY <1>2, <1>4, <2>2, <4>1, <4>2
        <4> QED
          BY <1>4, <4>3 DEF Chained
      <3> QED
        BY <3>1, <3>2
    <2>4. new[Len(new)].after = Balances(out.row)
      BY <1>4, <2>2
    <2> QED
      BY <2>3, <2>4 DEF Complete
  <1>5. ASSUME NEW turn \in LedgerEntry, NEW e \in LedgerEntry,
               out.entries = <<turn, e>>, turn.kind \in Turn,
               turn.before.custom = seen.custom, turn.before.overrun = 0,
               e.kind \notin Turn, e.before = turn.after, e.after = Balances(out.row)
        PROVE  Complete(new, out.row)
    <2>1. Len(out.entries) = 2 /\ out.entries[1] = turn /\ out.entries[2] = e
      BY <1>5, SMT
    <2>2. /\ Len(new) = n + 2 /\ new[n + 1] = turn /\ new[n + 2] = e
          /\ \A i \in 1 .. n : new[i] = l[i]
      <3> HIDE DEF new, n
      <3> QED
        BY <1>1, <2>1, SMT
    <2>3. ASSUME NEW i \in 1 .. Len(new) - 1
          PROVE  Chained(new[i], new[i + 1])
      <3>1. CASE i < n
        <4>1. i \in 1 .. n - 1 /\ i \in 1 .. n /\ i + 1 \in 1 .. n
          BY <1>1, <2>2, <2>3, <3>1, SMT
        <4> QED
          BY <2>2, <4>1 DEF Complete
      <3>2. CASE i = n
        <4>1. n \in 1 .. n /\ n > 0
          BY <1>1, <2>2, <2>3, <3>2, SMT
        <4>2. l # << >>
          BY <4>1, SMT
        <4>3. new[i] = l[n] /\ new[i + 1] = turn /\ Balances(seen) = l[n].after
          BY <1>2, <2>2, <3>2, <4>1, <4>2
        <4>4. Balances(seen).custom = seen.custom
          BY DEF Balances
        <4> QED
          BY <1>5, <4>3, <4>4 DEF Chained
      <3>3. CASE i > n
        <4>1. i = n + 1 /\ i + 1 = n + 2
          BY <1>1, <2>2, <2>3, <3>3, SMT
        <4> QED
          BY <1>5, <2>2, <4>1 DEF Chained
      <3> QED
        BY <1>1, <2>2, <2>3, <3>1, <3>2, <3>3, SMT
    <2>4. new[Len(new)].after = Balances(out.row)
      BY <1>5, <2>2
    <2> QED
      BY <2>3, <2>4 DEF Complete
  <1> QED
    BY <1>3, <1>4, <1>5 DEF Explains

\* What is appended comes last.
LEMMA LastOfConcat ==
  ASSUME NEW l \in Seq(LedgerEntry), NEW more \in Seq(LedgerEntry), more # << >>
  PROVE  (l \o more)[Len(l \o more)] = more[Len(more)]
  <1> DEFINE n == Len(l)
             k == Len(more)
             both == l \o more
  <1>1. n \in Nat /\ k \in Nat /\ k > 0
    BY SMT
  <1>2. /\ Len(both) = n + k
        /\ \A i \in 1 .. n + k : both[i] = IF i <= n THEN l[i] ELSE more[i - n]
    BY ConcatProperties
  <1> HIDE DEF n, k, both
  <1>3. n + k \in 1 .. n + k /\ ~ (n + k <= n) /\ n + k - n = k
    BY <1>1, SMT
  <1>4. both[n + k] = more[k]
    BY <1>1, <1>2, <1>3, SMT
  <1> QED
    BY <1>2, <1>4 DEF k, both

\* The entries of two exact pieces are exact.
LEMMA ExactExtends ==
  ASSUME NEW l \in Seq(LedgerEntry), NEW more \in Seq(LedgerEntry), NEW policy,
         \A i \in DOMAIN l : ExactEntry(l[i], policy),
         \A i \in DOMAIN more : ExactEntry(more[i], policy)
  PROVE  \A i \in DOMAIN (l \o more) : ExactEntry((l \o more)[i], policy)
  <1>1. /\ l \o more \in Seq(LedgerEntry) /\ Len(l \o more) = Len(l) + Len(more)
        /\ \A i \in 1 .. Len(l) + Len(more) :
              (l \o more)[i] = IF i <= Len(l) THEN l[i] ELSE more[i - Len(l)]
    BY ConcatProperties
  <1>2. /\ DOMAIN (l \o more) = 1 .. Len(l) + Len(more)
        /\ DOMAIN l = 1 .. Len(l) /\ DOMAIN more = 1 .. Len(more)
        /\ Len(l) \in Nat /\ Len(more) \in Nat
    BY <1>1, SMT
  <1> SUFFICES ASSUME NEW i \in 1 .. Len(l) + Len(more)
               PROVE  ExactEntry((l \o more)[i], policy)
    BY <1>2
  <1>3. CASE i <= Len(l)
    <2>1. i \in DOMAIN l /\ (l \o more)[i] = l[i]
      BY <1>1, <1>2, <1>3, SMT
    <2> QED
      BY <2>1
  <1>4. CASE ~ i <= Len(l)
    <2>1. i - Len(l) \in DOMAIN more /\ (l \o more)[i] = more[i - Len(l)]
      BY <1>1, <1>2, <1>4, SMT
    <2> QED
      BY <2>1
  <1> QED
    BY <1>3, <1>4

\* What a successful swap is about: the row that was loaded is the row that is stored.
LEMMA SwapFacts ==
  ASSUME IInv, NEW t \in Tasks, Commit(t)
  PROVE  /\ task[t].seen = row
         /\ GoodOutcome(row, Produced(t), def.policy)
         /\ row' = [Produced(t).row EXCEPT !.version = row.version + 1]
         /\ ledger' = ledger \o Produced(t).entries
         /\ history' = IF Produced(t).closes = Unset THEN history
                       ELSE [history EXCEPT ![Produced(t).closes] = Produced(t).closed]
         /\ MonthIsOpen(Produced(t))
         /\ task' = [task EXCEPT ![t] = Ended(t, "booked")]
         /\ UNCHANGED <<def, clock, tenant>>
  <1> DEFINE out == Produced(t)
  <1>1. /\ task[t].phase = "commit" /\ ~ out.rejected /\ Swaps(t, out)
        /\ row' = [out.row EXCEPT !.version = task[t].seen.version + 1]
        /\ ledger' = ledger \o out.entries
        /\ history' = IF out.closes = Unset THEN history
                      ELSE [history EXCEPT ![out.closes] = out.closed]
        /\ Ends(t, "booked") /\ UNCHANGED <<def, clock, tenant>>
    BY DEF Commit
  <1>2. task[t].seen = row
    BY <1>1 DEF Swaps, VersionHolds, IInv, VersionIdentifies
  <1>3. GoodOutcome(row, out, def.policy)
    BY <1>1, <1>2, ProducedFacts
  <1> HIDE DEF out
  <1> QED
    BY <1>1, <1>2, <1>3 DEF Swaps, Ends, out

LEMMA CommitKeeps ==
  ASSUME IInv, NEW t \in Tasks, Commit(t)
  PROVE  IInv'
  <1> DEFINE out == Produced(t)
  <1>1. /\ task[t].seen = row /\ GoodOutcome(row, out, def.policy)
        /\ row' = [out.row EXCEPT !.version = row.version + 1]
        /\ ledger' = ledger \o out.entries
        /\ history' = IF out.closes = Unset THEN history
                      ELSE [history EXCEPT ![out.closes] = out.closed]
        /\ task' = [task EXCEPT ![t] = Ended(t, "booked")]
        /\ def' = def /\ clock' = clock /\ tenant' = tenant
    BY SwapFacts
  <1> HIDE DEF out
  <1>2. /\ Sound(out.row) /\ out.entries \in Seq(LedgerEntry)
        /\ \A i \in DOMAIN out.entries : ExactEntry(out.entries[i], def.policy)
        /\ out.closed \in HistoryRow /\ Explains(row, out) /\ out.row \in LimitState
    BY <1>1 DEF GoodOutcome, Sound
  <1>3. row.version \in Nat
    BY SMT DEF IInv, TypeOK, LimitState
  <1>4. /\ row' \in LimitState /\ row'.version = row.version + 1
        /\ Balances(row') = Balances(out.row)
        /\ row'.monthlySnap = out.row.monthlySnap /\ row'.extraSnap = out.row.extraSnap
    <2> DEFINE r == out.row
               v == row.version + 1
    <2>1. r \in LimitState /\ v \in Nat /\ row' = [r EXCEPT !.version = v]
      BY <1>1, <1>2, <1>3, SMT
    <2>2. v = row.version + 1
      OBVIOUS
    <2> HIDE DEF r, v
    <2>3. row' \in LimitState
      BY <2>1, ZenonT(30) DEF LimitState
    <2>4. /\ row'.version = v /\ Balances(row') = Balances(r)
          /\ row'.monthlySnap = r.monthlySnap /\ row'.extraSnap = r.extraSnap
      BY <2>1, SMT DEF LimitState, Balances
    <2> QED
      BY <2>2, <2>3, <2>4 DEF r
  <1>5. Sound(row')
    BY <1>2, <1>4, SMT DEF Sound, Solvent, Available, Balances
  <1>6. /\ Ended(t, "booked") \in Task /\ Sound(Ended(t, "booked").seen)
        /\ Ended(t, "booked").phase = "done"
    BY EndsIsLocal DEF IInv, Answers
  <1>7. \A u \in Tasks : task'[u] = IF u = t THEN Ended(t, "booked") ELSE task[u]
    BY <1>1 DEF IInv, TypeOK
  <1>8. ledger' \in Seq(LedgerEntry)
    BY <1>1, <1>2, ConcatProperties DEF IInv, TypeOK
  <1>9. TypeOK'
    <2>1. history' \in [Months -> HistoryRow \cup {NotClosed}]
      BY <1>1, <1>2 DEF IInv, TypeOK
    <2>2. task' \in [Tasks -> Task]
      BY <1>1, <1>6 DEF IInv, TypeOK
    <2> QED
      BY <1>1, <1>4, <1>8, <2>1, <2>2 DEF IInv, TypeOK
  <1>10. \A u \in Tasks : Sound(task'[u].seen)
    BY <1>6, <1>7 DEF IInv
  <1>11. VersionIdentifies'
    <2> SUFFICES ASSUME NEW u \in Tasks, task'[u].phase = "commit"
                 PROVE  /\ task'[u].seen.version <= row'.version
                        /\ task'[u].seen.version # row'.version
      BY DEF VersionIdentifies
    <2>1. u # t /\ task'[u] = task[u]
      BY <1>6, <1>7
    <2>2. task[u].seen.version <= row.version /\ task[u].seen.version \in Nat
      <3>1. task[u].seen.version <= row.version
        BY <2>1 DEF IInv, VersionIdentifies
      <3>2. task[u].seen \in LimitState
        BY DEF IInv, Sound
      <3> QED
        BY <3>1, <3>2, SMT DEF LimitState
    <2> QED
      BY <1>3, <1>4, <2>1, <2>2, SMT
  <1>12. row'.version # 0
    BY <1>3, <1>4, SMT
  <1>13. LedgerChains'
    <2>1. Complete(ledger, row) /\ ledger \in Seq(LedgerEntry)
      BY DEF IInv, LedgerChains, Complete, TypeOK
    <2>2. ~ Exists(row) => ledger = << >>
      BY DEF IInv
    <2>3. Complete(ledger', out.row)
      BY <1>1, <1>2, <2>1, <2>2, ChainExtends
    <2> QED
      BY <1>4, <2>3 DEF Complete, LedgerChains
  <1>14. EntriesAreExact'
    BY <1>1, <1>2, ExactExtends DEF IInv, TypeOK, EntriesAreExact
  <1> QED
    BY <1>5, <1>9, <1>10, <1>11, <1>12, <1>13, <1>14 DEF IInv, Exists

-----------------------------------------------------------------------------
(* The invariant.                                                          *)

LEMMA InitInv == Init => IInv
  <1> SUFFICES ASSUME Init PROVE IInv
    OBVIOUS
  <1>1. /\ row = NoState /\ ledger = << >> /\ clock = 0
        /\ task = [t \in Tasks |-> Idle] /\ history = [m \in Months |-> NotClosed]
        /\ def \in Definitions
    BY DEF Init
  <1>2. /\ Idle \in Task /\ Sound(Idle.seen) /\ Idle.seen = NoState /\ NoState \in LimitState
    BY IdleFacts
  <1>3. tenant \in [settings : LimitSettings, version : Nat]
    BY LimitAssumptions, SMT DEF Init
  <1>4. 0 \in 0 .. MaxDay /\ << >> \in Seq(LedgerEntry)
    BY LimitAssumptions, SMT
  <1>5. TypeOK
    BY <1>1, <1>2, <1>3, <1>4 DEF TypeOK
  <1>6. \A t \in Tasks : task[t].phase = "idle" /\ Sound(task[t].seen)
    BY <1>1, <1>2 DEF Idle
  <1>7. LedgerChains /\ EntriesAreExact
    BY <1>1, SMT DEF LedgerChains, EntriesAreExact
  <1> QED
    BY <1>1, <1>2, <1>5, <1>6, <1>7 DEF IInv, VersionIdentifies

LEMMA TickKeeps == ASSUME IInv, Tick PROVE IInv'
  <1>1. /\ UNCHANGED <<def, tenant, row, ledger, history, task>>
        /\ clock' \in 0 .. MaxDay
    BY LimitAssumptions, SMT DEF Tick, stored, IInv, TypeOK
  <1> QED
    BY <1>1 DEF IInv, TypeOK, VersionIdentifies, LedgerChains, EntriesAreExact

LEMMA NextInv == IInv /\ [Next]_vars => IInv'
  <1> SUFFICES ASSUME IInv, [Next]_vars PROVE IInv'
    OBVIOUS
  <1>1. CASE Tick
    BY <1>1, TickKeeps
  <1>2. ASSUME NEW t \in Tasks, ConsumeLimit(t) PROVE IInv'
    <2>1. PICK amount \in Amounts : Begins(t, "consume", amount)
      BY <1>2 DEF ConsumeLimit
    <2>2. amount \in Nat
      BY LimitAssumptions
    <2> QED
      BY <2>1, <2>2, BeginsKeeps DEF Operations
  <1>3. ASSUME NEW t \in Tasks, TopupLimit(t) PROVE IInv'
    <2>1. PICK amount \in Amounts : Begins(t, "topup", amount)
      BY <1>3 DEF TopupLimit
    <2>2. amount \in Nat
      BY LimitAssumptions
    <2> QED
      BY <2>1, <2>2, BeginsKeeps DEF Operations
  <1>4. ASSUME NEW t \in Tasks, ReportGauge(t) PROVE IInv'
    <2>1. PICK value \in Amounts : Begins(t, "report", value)
      BY <1>4 DEF ReportGauge
    <2>2. value \in Nat
      BY LimitAssumptions
    <2> QED
      BY <2>1, <2>2, BeginsKeeps DEF Operations
  <1>5. ASSUME NEW t \in Tasks, SetLimitSettings(t) PROVE IInv'
    BY <1>5, SetLimitSettingsKeeps
  <1>6. ASSUME NEW t \in Tasks, Preview(t) PROVE IInv'
    BY <1>6, PreviewKeeps
  <1>7. ASSUME NEW t \in Tasks, ReadTenant(t) PROVE IInv'
    BY <1>7, ReadTenantKeeps
  <1>8. ASSUME NEW t \in Tasks, SaveTenant(t) PROVE IInv'
    BY <1>8, SaveTenantKeeps
  <1>9. ASSUME NEW t \in Tasks, ReconcileLimitState(t) PROVE IInv'
    BY <1>9, ReconcileLimitStateKeeps
  <1>10. ASSUME NEW t \in Tasks, Load(t) PROVE IInv'
    BY <1>10, LoadKeeps
  <1>11. ASSUME NEW t \in Tasks, Commit(t) PROVE IInv'
    BY <1>11, CommitKeeps
  <1>12. ASSUME NEW t \in Tasks, Refuse(t) PROVE IInv'
    <2>1. Ends(t, "exhausted") /\ UNCHANGED <<def, clock, row, ledger, history>>
          /\ tenant' \in TenantRow
      BY <1>12, TenantFacts DEF Refuse, stored
    <2> QED
      BY <2>1, EndsKeeps DEF Answers
  <1>13. ASSUME NEW t \in Tasks, Conflict(t) PROVE IInv'
    BY <1>13, ConflictKeeps
  <1>14. CASE UNCHANGED vars
    BY <1>14 DEF vars, IInv, TypeOK, VersionIdentifies, LedgerChains, EntriesAreExact
  <1> QED
    BY <1>1, <1>2, <1>3, <1>4, <1>5, <1>6, <1>7, <1>8, <1>9, <1>10, <1>11, <1>12, <1>13,
       <1>14 DEF Next

LEMMA Invariance == Spec => []IInv
  BY InitInv, NextInv, PTL DEF Spec

\* Types: no bucket, debt or counter ever goes below zero, under every policy.
THEOREM TypeCorrect == Spec => []TypeOK
  <1>1. IInv => TypeOK
    BY DEF IInv
  <1> QED
    BY <1>1, Invariance, PTL

\* An account never has credit and debt at once, whatever bookings, top-ups, settings
\* changes and month turns meet.
THEOREM AccountsBalance == Spec => []NeverCreditAndDebt
  <1>1. IInv => NeverCreditAndDebt
    BY DEF IInv, Sound, NeverCreditAndDebt
  <1> QED
    BY <1>1, Invariance, PTL

\* The ledger has no gap: no booking is lost to a concurrent one, and the row is what the last
\* entry left.
THEOREM LedgerHasNoGap == Spec => []LedgerChains
  <1>1. IInv => LedgerChains
    BY DEF IInv
  <1> QED
    BY <1>1, Invariance, PTL

\* Every movement is exactly the one that was asked for.
THEOREM BookingsAreExact == Spec => []EntriesAreExact
  <1>1. IInv => EntriesAreExact
    BY DEF IInv
  <1> QED
    BY <1>1, Invariance, PTL

\* The figures of a closed month are final.
THEOREM ClosedFiguresAreFinal == Spec => HistoryIsFinal
  <1> DEFINE Final == \A m \in Months : history[m] # NotClosed => history'[m] = history[m]
  <1>1. IInv /\ [Next]_vars => Final \/ UNCHANGED vars
    <2> SUFFICES ASSUME IInv, Next PROVE Final
      OBVIOUS
    <2>1. CASE UNCHANGED history
      BY <2>1
    <2>2. ASSUME NEW t \in Tasks, Commit(t) PROVE Final
      <3>1. /\ history' = IF Produced(t).closes = Unset THEN history
                          ELSE [history EXCEPT ![Produced(t).closes] = Produced(t).closed]
            /\ MonthIsOpen(Produced(t))
        BY <2>2, SwapFacts
      <3>2. history \in [Months -> HistoryRow \cup {NotClosed}]
        BY DEF IInv, TypeOK
      <3> QED
        BY <3>1, <3>2 DEF MonthIsOpen
    <2> QED
      BY <2>1, <2>2 DEF Next, Tick, ConsumeLimit, TopupLimit, ReportGauge, Begins,
         SetLimitSettings, Preview, ReadTenant, SaveTenant, ReconcileLimitState, Load, Refuse,
         Conflict, stored
  <1>2. IInv /\ [Next]_vars => [Final]_vars
    BY <1>1
  <1> HIDE DEF Final
  <1>3. Spec => [][Final]_vars
    BY <1>2, Invariance, PTL DEF Spec
  <1> QED
    BY <1>3 DEF HistoryIsFinal, Final

\* What is used stays used when an administrator moves a budget, whoever books meanwhile.
THEOREM UsageIsNeverLost == Spec => UsageIsKept
  <1> DEFINE Settles == /\ ledger' # ledger /\ ledger'[Len(ledger')].kind = "settings"
                        /\ Exists(row) /\ row'.month = row.month
             Kept == Settles => Used(row') = Used(row)
  <1>1. ASSUME IInv, NEW t \in Tasks, Commit(t), Settles PROVE Used(row') = Used(row)
    <2> DEFINE r == task[t]
               out == Produced(t)
               open == RolledOver(row, r.settings, def.policy, r.now)
               new == Reconciled(open, r.settings)
    <2>1. /\ r.seen = row /\ GoodOutcome(row, out, def.policy)
          /\ row' = [out.row EXCEPT !.version = row.version + 1]
          /\ ledger' = ledger \o out.entries
      BY <1>1, SwapFacts
    <2>2. /\ r.settings \in LimitSettings /\ r.now \in Int /\ Sound(row)
          /\ row \in LimitState /\ def.policy \in OverrunPolicy
      BY <1>1, PolicyType, SMT DEF IInv, TypeOK, Task
    <2>3. r.op \notin {"consume", "topup", "report"}
      <3>1. ledger \in Seq(LedgerEntry) /\ out.entries \in Seq(LedgerEntry)
        BY <1>1, <2>1 DEF IInv, TypeOK, GoodOutcome
      <3>2. out.entries # << >>
        BY <1>1, <2>1, <3>1, ConcatEmptySeq
      <3>3. ledger'[Len(ledger')] = out.entries[Len(out.entries)]
        BY <2>1, <3>1, <3>2, LastOfConcat
      <3>4. out.entries[Len(out.entries)].kind = "settings"
        BY <1>1, <3>3
      <3>5. ASSUME NEW kind, NEW amount, NEW open1, NEW new1, kind # "settings",
                   out.entries = Append(RolloverEntries(row, r.settings, def.policy, r.now, t),
                                        Entry(kind, t, amount, MonthOf(r.now), open1, new1))
            PROVE  FALSE
        <4> DEFINE e == Entry(kind, t, amount, MonthOf(r.now), open1, new1)
                   turns == RolloverEntries(row, r.settings, def.policy, r.now, t)
        <4>1. e.kind = kind
          BY DEF Entry
        <4>2. \E S : turns \in Seq(S)
          <5>1. CASE turns = << >>
            BY <5>1, SMT
          <5>2. CASE turns # << >>
            <6>1. \E x : turns = <<x>>
              BY <5>2 DEF RolloverEntries
            <6>2. PICK x : turns = <<x>>
              BY <6>1
            <6>3. turns \in Seq({x})
              BY <6>2, SMT
            <6> QED
              BY <6>3
          <5> QED
            BY <5>1, <5>2
        <4>3. PICK S : turns \in Seq(S)
          BY <4>2
        <4> HIDE DEF e, turns
        <4>4. Append(turns, e)[Len(Append(turns, e))] = e
          BY <4>3, SMT
        <4> QED
          BY <3>4, <3>5, <4>1, <4>4 DEF e, turns
      <3>6. CASE r.op = "consume"
        <4>1. out = Consume(row, r.settings, def.policy, r.amount, r.now, t)
          BY <2>1, <3>6 DEF Produced
        <4>2. out.entries = << >> \/ out.entries =
                Append(RolloverEntries(row, r.settings, def.policy, r.now, t),
                       Entry("consume", t, r.amount, MonthOf(r.now), open,
                             Booked(open, r.settings, def.policy, r.amount)))
          BY <4>1 DEF Consume, Rolled, Outcome
        <4> QED
          BY <3>2, <3>5, <4>2
      <3>7. CASE r.op = "topup"
        <4>1. out = Topup(row, r.settings, def.policy, r.amount, r.now, t)
          BY <2>1, <3>7 DEF Produced
        <4>2. out.entries =
                Append(RolloverEntries(row, r.settings, def.policy, r.now, t),
                       Entry("topup", t, r.amount, MonthOf(r.now), open,
                             SettleOverrun([open EXCEPT !.custom = @ + r.amount])))
          BY <4>1 DEF Topup, Rolled, Outcome
        <4> QED
          BY <3>5, <4>2
      <3>8. CASE r.op = "report"
        <4>1. out = SetGauge(row, r.amount, r.settings.max, r.now)
          BY <2>1, <3>8 DEF Produced
        <4> QED
          BY <3>2, <4>1 DEF SetGauge, Outcome
      <3> QED
        BY <3>6, <3>7, <3>8
    <2>4. out.row = new
      BY <2>1, <2>3 DEF Produced, ApplySettings, Rolled, Outcome
    <2>5. Sound(open) /\ open \in LimitState /\ open.month = MonthOf(r.now)
      BY <2>2, RolledOverFacts DEF Sound
    <2>6. Sound(new) /\ Used(new) = Used(open) /\ new.month = open.month
      <3> HIDE DEF open
      <3> QED
        BY <2>2, <2>5, ReconciledFacts
    <2>7. /\ row'.month = new.month /\ Used(row') = Used(new)
      <3>1. new \in LimitState
        BY <2>6 DEF Sound
      <3>2. row' = [new EXCEPT !.version = row.version + 1]
        BY <2>1, <2>4
      <3> HIDE DEF new
      <3> QED
        BY <3>1, <3>2, SMT DEF LimitState, Used, Worth, Available
    <2>8. ~ Crosses(row, r.now)
      BY <1>1, <2>5, <2>6, <2>7 DEF Crosses
    <2>9. Opened(row, r.settings, def.policy, r.now) = row
      BY <1>1, <2>8 DEF Opened, Crosses
    <2>10. Used(open) = Used(row)
      <3>1. open = RefreshDaily(row, r.settings, r.now)
        BY <2>9 DEF RolledOver
      <3> HIDE DEF open
      <3>2. /\ Balances(open) = Balances(row) /\ open.monthlySnap = row.monthlySnap
            /\ open.extraSnap = row.extraSnap
        BY <2>2, <3>1, RefreshDailyFacts
      <3> QED
        BY <3>2 DEF Used, Worth, Available, Balances
    <2> QED
      BY <2>6, <2>7, <2>10
  <1>2. IInv /\ [Next]_vars => Kept \/ UNCHANGED vars
    <2> SUFFICES ASSUME IInv, Next, Settles PROVE Used(row') = Used(row)
      OBVIOUS
    <2>1. CASE UNCHANGED ledger
      BY <2>1
    <2>2. ASSUME NEW t \in Tasks, Commit(t) PROVE Used(row') = Used(row)
      BY <1>1, <2>2
    <2> HIDE DEF Settles
    <2> QED
      BY <2>1, <2>2 DEF Next, Tick, ConsumeLimit, TopupLimit, ReportGauge, Begins,
         SetLimitSettings, Preview, ReadTenant, SaveTenant, ReconcileLimitState, Load, Refuse,
         Conflict, stored
  <1>3. IInv /\ [Next]_vars => [Kept]_vars
    BY <1>2
  <1> HIDE DEF Kept
  <1>4. Spec => [][Kept]_vars
    BY <1>3, Invariance, PTL DEF Spec
  <1> QED
    BY <1>4 DEF UsageIsKept, Kept

-----------------------------------------------------------------------------
(* Receipts: whose entries the ledger holds.                               *)

\* A request has no entry before it is answered, one at the most then, and an answer `booked'
\* to a booking or a top-up stands for one.  Only settings changes go through the tenant row.
SettingsPhases == {"preview", "tenant", "save", "reconcile"}
Unanswered(r) ==
    /\ r.phase # "done" => r.answer = "none"
    /\ r.phase \in SettingsPhases => r.op = "settings"
Receipts ==
    \A t \in Tasks :
        /\ Unanswered(task[t])
        /\ OwnEntries(t) # {} => task[t].phase = "done" /\ task[t].answer = "booked"
        /\ \A i, j \in OwnEntries(t) : i = j
        /\ task[t].answer = "booked" /\ task[t].op \in {"consume", "topup"}
             => OwnEntries(t) # {}

\* Entries of one request, of which only the last is more than the mark of a turned month.
Signed(entries, t) ==
    \A i \in DOMAIN entries : /\ entries[i].id = t
                              /\ entries[i].kind \notin Turn => i = Len(entries)

\* A turn of the month leaves its mark, or nothing.
LEMMA TurnsAreMarks ==
  ASSUME NEW r, NEW s, NEW policy, NEW day, NEW t
  PROVE  \/ RolloverEntries(r, s, policy, day, t) = << >>
         \/ \E x : /\ RolloverEntries(r, s, policy, day, t) = <<x>>
                   /\ x.id = t /\ x.kind \in Turn
  <1> DEFINE x == Entry(IF policy = "carry" /\ r.overrun > 0 THEN "carry" ELSE "reset",
                        t, IF policy = "carry" THEN r.overrun ELSE 0, MonthOf(day),
                        Reset(r, s, MonthOf(day)), RolledOver(r, s, policy, day))
  <1>1. \/ RolloverEntries(r, s, policy, day, t) = << >>
        \/ RolloverEntries(r, s, policy, day, t) = <<x>>
    BY DEF RolloverEntries
  <1>2. x.id = t /\ x.kind \in Turn
    BY DEF Entry, Turn
  <1> HIDE DEF x
  <1> QED
    BY <1>1, <1>2

\* A request's movement behind such a mark is signed, and comes last.
LEMMA MovementIsSigned ==
  ASSUME NEW t, NEW turns, NEW e, e.id = t, e.kind \notin Turn,
         turns = << >> \/ \E x : turns = <<x>> /\ x.id = t /\ x.kind \in Turn
  PROVE  /\ Signed(Append(turns, e), t)
         /\ Append(turns, e) # << >>
         /\ Append(turns, e)[Len(Append(turns, e))].kind \notin Turn
  <1>1. CASE turns = << >>
    <2>1. Append(turns, e) = <<e>>
      <3>1. Append(<< >>, e) = <<e>>
        BY SMT
      <3> QED
        BY <1>1, <3>1
    <2>2. DOMAIN <<e>> = {1} /\ Len(<<e>>) = 1 /\ <<e>>[1] = e /\ <<e>> # << >>
      BY SMT
    <2> QED
      BY <2>1, <2>2 DEF Signed
  <1>2. CASE turns # << >>
    <2>1. PICK x : turns = <<x>> /\ x.id = t /\ x.kind \in Turn
      BY <1>2
    <2> DEFINE two == Append(<<x>>, e)
    <2>2. /\ <<x>> \in Seq({x, e}) /\ Len(<<x>>) = 1 /\ <<x>>[1] = x /\ 1 .. 1 = {1}
      BY SMT
    <2>3. /\ two \in Seq({x, e}) /\ two # << >> /\ Len(two) = Len(<<x>>) + 1
          /\ \A i \in 1 .. Len(<<x>>) : two[i] = <<x>>[i]
          /\ two[Len(<<x>>) + 1] = e
      BY <2>2, AppendProperties
    <2> HIDE DEF two
    <2>4. Len(two) = 2 /\ two[1] = x /\ two[2] = e
      BY <2>2, <2>3, SMT
    <2>5. DOMAIN two = {1, 2}
      BY <2>3, <2>4, SMT
    <2>6. Append(turns, e) = two
      BY <2>1 DEF two
    <2> QED
      BY <2>1, <2>3, <2>4, <2>5, <2>6 DEF Signed
  <1> QED
    BY <1>1, <1>2

\* What an operation appends is signed by its request; a booking or a top-up that is not
\* refused appends its movement.
LEMMA ProducedIsSigned ==
  ASSUME NEW t \in Tasks, ~ Produced(t).rejected
  PROVE  /\ Signed(Produced(t).entries, t)
         /\ task[t].op \in {"consume", "topup"} =>
              /\ Produced(t).entries # << >>
              /\ Produced(t).entries[Len(Produced(t).entries)].kind \notin Turn
  <1> DEFINE r == task[t]
             open == RolledOver(r.seen, r.settings, def.policy, r.now)
             turns == RolloverEntries(r.seen, r.settings, def.policy, r.now, t)
             more == Produced(t).entries
  <1>1. turns = << >> \/ \E x : turns = <<x>> /\ x.id = t /\ x.kind \in Turn
    BY TurnsAreMarks
  <1>2. ASSUME NEW kind \in {"consume", "topup", "settings"}, NEW amount, NEW new,
               more = Append(turns, Entry(kind, t, amount, MonthOf(r.now), open, new))
        PROVE  Signed(more, t) /\ more # << >> /\ more[Len(more)].kind \notin Turn
    <2> DEFINE e == Entry(kind, t, amount, MonthOf(r.now), open, new)
    <2>1. e.id = t /\ e.kind \notin Turn
      BY DEF Entry, Turn
    <2> HIDE DEF turns, e, more
    <2>2. more = Append(turns, e)
      BY <1>2 DEF e
    <2> QED
      BY <1>1, <2>1, <2>2, MovementIsSigned
  <1>3. CASE r.op = "consume"
    <2>1. more = Append(turns, Entry("consume", t, r.amount, MonthOf(r.now), open,
                                     Booked(open, r.settings, def.policy, r.amount)))
      BY <1>3 DEF Produced, Consume, Rolled, Outcome
    <2> QED
      BY <1>2, <2>1
  <1>4. CASE r.op = "topup"
    <2>1. more = Append(turns, Entry("topup", t, r.amount, MonthOf(r.now), open,
                                     SettleOverrun([open EXCEPT !.custom = @ + r.amount])))
      BY <1>4 DEF Produced, Topup, Rolled, Outcome
    <2> QED
      BY <1>2, <2>1
  <1>5. CASE r.op = "report"
    <2>1. more = << >>
      BY <1>5 DEF Produced, SetGauge, Outcome
    <2>2. DOMAIN << >> = {}
      BY SMT
    <2> HIDE DEF more
    <2>3. Signed(more, t)
      BY <2>1, <2>2 DEF Signed
    <2> QED
      BY <1>5, <2>3 DEF more
  <1>6. CASE r.op \notin {"consume", "topup", "report"}
    <2>1. more = Append(turns, Entry("settings", t, 0, MonthOf(r.now), open,
                                     Reconciled(open, r.settings)))
      BY <1>6 DEF Produced, ApplySettings, Rolled, Outcome
    <2> QED
      BY <1>2, <1>6, <2>1
  <1> QED
    BY <1>3, <1>4, <1>5, <1>6

\* A step of one unanswered request that leaves the ledger alone.
LEMMA QuietStepKeepsReceipts ==
  ASSUME TypeOK, Receipts, NEW t \in Tasks, NEW new, ledger' = ledger,
         task' = [task EXCEPT ![t] = new], task[t].phase # "done", Unanswered(new),
         new.answer = "booked" => new.op \notin {"consume", "topup"}
  PROVE  Receipts'
  <1>1. \A u \in Tasks : task'[u] = IF u = t THEN new ELSE task[u]
    BY DEF TypeOK
  <1>2. \A u \in Tasks : OwnEntries(u)' = OwnEntries(u)
    BY DEF OwnEntries
  <1>3. OwnEntries(t) = {}
    BY DEF Receipts
  <1> QED
    BY <1>1, <1>2, <1>3 DEF Receipts

\* Answering without a commit: anything but a booking may be told it is done.
LEMMA QuietEndKeepsReceipts ==
  ASSUME TypeOK, Receipts, NEW t \in Tasks, NEW answer, ledger' = ledger, Ends(t, answer),
         task[t].phase # "done",
         answer = "booked" => task[t].op \notin {"consume", "topup"}
  PROVE  Receipts'
  <1> DEFINE new == Ended(t, answer)
  <1>1. new.phase = "done" /\ new.op = task[t].op /\ new.answer = answer
    BY SMT DEF Ended, Idle
  <1>2. task' = [task EXCEPT ![t] = new]
    BY DEF Ends
  <1> HIDE DEF new
  <1>3. Unanswered(new)
    BY <1>1 DEF Unanswered, SettingsPhases
  <1> QED
    BY <1>1, <1>2, <1>3, QuietStepKeepsReceipts

\* Going on to another phase with the same question.
LEMMA QuietMoveKeepsReceipts ==
  ASSUME TypeOK, Receipts, NEW t \in Tasks, NEW new, ledger' = ledger,
         task' = [task EXCEPT ![t] = new], task[t].phase # "done", new.phase # "done",
         new.answer = task[t].answer, new.op = task[t].op,
         new.phase \in SettingsPhases => task[t].phase \in SettingsPhases
  PROVE  Receipts'
  <1>1. Unanswered(task[t])
    BY DEF Receipts
  <1>2. Unanswered(new) /\ new.answer # "booked"
    BY <1>1 DEF Unanswered
  <1> QED
    BY <1>2, QuietStepKeepsReceipts

\* A request that starts.
LEMMA BeginsKeepsReceipts ==
  ASSUME TypeOK, Receipts, NEW t \in Tasks, NEW op, NEW amount, Begins(t, op, amount)
  PROVE  Receipts'
  <1> DEFINE new == [Idle EXCEPT !.phase = "load", !.op = op, !.amount = amount,
                                 !.settings = tenant.settings, !.now = clock]
  <1>1. new.phase = "load" /\ new.answer = "none"
    BY SMT DEF Idle
  <1>2. task' = [task EXCEPT ![t] = new] /\ ledger' = ledger /\ task[t].phase = "idle"
    BY DEF Begins, stored
  <1> HIDE DEF new
  <1>3. Unanswered(new)
    BY <1>1 DEF Unanswered, SettingsPhases
  <1> QED
    BY <1>1, <1>2, <1>3, QuietStepKeepsReceipts

LEMMA SettingsStepsKeepReceipts ==
  ASSUME TypeOK, Receipts, NEW t \in Tasks,
         \/ SetLimitSettings(t) \/ Preview(t) \/ ReadTenant(t) \/ SaveTenant(t)
         \/ ReconcileLimitState(t)
  PROVE  Receipts'
  <1>1. task[t] \in Task /\ ledger' = ledger
    BY DEF TypeOK, SetLimitSettings, Preview, ReadTenant, SaveTenant, ReconcileLimitState, stored
  <1>2. CASE SetLimitSettings(t)
    <2>1. PICK s \in Settings, confirm \in BOOLEAN :
            task' = [task EXCEPT ![t] =
                [Idle EXCEPT !.phase = IF Clearing(s) \/ confirm THEN "tenant" ELSE "preview",
                             !.op = "settings", !.settings = s]]
      BY <1>2 DEF SetLimitSettings
    <2> DEFINE phase == IF Clearing(s) \/ confirm THEN "tenant" ELSE "preview"
               new == [Idle EXCEPT !.phase = phase, !.op = "settings", !.settings = s]
    <2>2. new.phase = phase /\ new.op = "settings" /\ new.answer = "none"
      BY SMT DEF Idle
    <2>3. phase # "done"
      OBVIOUS
    <2>4. task' = [task EXCEPT ![t] = new] /\ task[t].phase = "idle"
      BY <1>2, <2>1 DEF SetLimitSettings
    <2> HIDE DEF new, phase
    <2>5. Unanswered(new)
      BY <2>2, <2>3 DEF Unanswered
    <2> QED
      BY <1>1, <2>2, <2>3, <2>4, <2>5, QuietStepKeepsReceipts
  <1>3. ASSUME task[t].phase \in SettingsPhases PROVE Receipts'
    <2>1. task[t].phase # "done" /\ task[t].op = "settings"
      BY <1>3 DEF Receipts, Unanswered, SettingsPhases
    <2>2. \/ \E answer : Ends(t, answer)
          \/ \E phase \in SettingsPhases : Goes(t, phase)
          \/ task' = [task EXCEPT ![t].phase = "save", ![t].tenantSeen = tenant]
          \/ task' = [task EXCEPT ![t].phase = "load", ![t].now = clock]
      <3>1. ~ SetLimitSettings(t)
        BY <1>3 DEF SetLimitSettings, SettingsPhases
      <3>2. AfterSave(t) => (\E answer : Ends(t, answer)) \/ Goes(t, "reconcile")
        BY DEF AfterSave
      <3> QED
        BY <3>1, <3>2 DEF Preview, ReadTenant, SaveTenant, ReconcileLimitState, SettingsPhases
    <2>3. ASSUME NEW answer, Ends(t, answer) PROVE Receipts'
      BY <1>1, <2>1, <2>3, QuietEndKeepsReceipts
    <2>4. ASSUME NEW phase \in SettingsPhases, Goes(t, phase) PROVE Receipts'
      <3> DEFINE new == [task[t] EXCEPT !.phase = phase]
      <3>1. new.phase = phase /\ new.answer = task[t].answer /\ new.op = task[t].op
        BY <1>1, SMT DEF Task
      <3>2. task' = [task EXCEPT ![t] = new] /\ phase # "done"
        BY <2>4 DEF Goes, SettingsPhases
      <3> HIDE DEF new
      <3> QED
        BY <1>1, <1>3, <2>1, <3>1, <3>2, QuietMoveKeepsReceipts
    <2>5. CASE task' = [task EXCEPT ![t].phase = "save", ![t].tenantSeen = tenant]
      <3> DEFINE new == [task[t] EXCEPT !.phase = "save", !.tenantSeen = tenant]
      <3>1. new.phase = "save" /\ new.answer = task[t].answer /\ new.op = task[t].op
        BY <1>1, SMT DEF Task
      <3>2. task' = [task EXCEPT ![t] = new]
        BY <2>5
      <3> HIDE DEF new
      <3> QED
        BY <1>1, <1>3, <2>1, <3>1, <3>2, QuietMoveKeepsReceipts
    <2>6. CASE task' = [task EXCEPT ![t].phase = "load", ![t].now = clock]
      <3> DEFINE new == [task[t] EXCEPT !.phase = "load", !.now = clock]
      <3>1. new.phase = "load" /\ new.answer = task[t].answer /\ new.op = task[t].op
        BY <1>1, SMT DEF Task
      <3>2. task' = [task EXCEPT ![t] = new]
        BY <2>6
      <3> HIDE DEF new
      <3> QED
        BY <1>1, <1>3, <2>1, <3>1, <3>2, QuietMoveKeepsReceipts
    <2> QED
      BY <2>2, <2>3, <2>4, <2>5, <2>6
  <1> QED
    BY <1>2, <1>3 DEF Preview, ReadTenant, SaveTenant, ReconcileLimitState, SettingsPhases

\* The commit writes the request's entries and its answer in one transaction.
LEMMA CommitKeepsReceipts ==
  ASSUME IInv, Receipts, NEW t \in Tasks, Commit(t)
  PROVE  Receipts'
  <1> DEFINE more == Produced(t).entries
             new == Ended(t, "booked")
             n == Len(ledger)
             k == Len(more)
  <1>1. /\ ledger \in Seq(LedgerEntry) /\ more \in Seq(LedgerEntry) /\ ledger' = ledger \o more
        /\ task' = [task EXCEPT ![t] = new]
    BY SwapFacts DEF GoodOutcome, IInv, TypeOK
  <1>2. ~ Produced(t).rejected /\ task[t].phase = "commit"
    BY DEF Commit
  <1>3. new.phase = "done" /\ new.op = task[t].op /\ new.answer = "booked"
    BY SMT DEF Ended, Idle
  <1>4. /\ Signed(more, t)
        /\ task[t].op \in {"consume", "topup"} => more # << >> /\ more[k].kind \notin Turn
    BY <1>2, ProducedIsSigned
  <1>5. \A u \in Tasks : task'[u] = IF u = t THEN new ELSE task[u]
    BY <1>1 DEF IInv, TypeOK
  <1>6. /\ Len(ledger') = n + k
        /\ \A i \in 1 .. n + k : ledger'[i] = IF i <= n THEN ledger[i] ELSE more[i - n]
    BY <1>1, ConcatProperties
  <1>7. /\ n \in Nat /\ k \in Nat /\ DOMAIN ledger = 1 .. n /\ DOMAIN more = 1 .. k
        /\ more # << >> => k # 0
    BY <1>1, SMT
  <1>8. DOMAIN ledger' = 1 .. n + k
    <2>1. ledger' \in Seq(LedgerEntry)
      BY <1>1, ConcatProperties
    <2> QED
      BY <1>6, <2>1, SMT
  <1> HIDE DEF more, new, n, k
  <1>9. ASSUME NEW u \in Tasks, u # t PROVE OwnEntries(u)' = OwnEntries(u)
    <2>1. ASSUME NEW i \in OwnEntries(u) PROVE i \in OwnEntries(u)'
      <3>1. i \in 1 .. n /\ ledger[i].id = u /\ ledger[i].kind \notin Turn
        BY <1>7, <2>1 DEF OwnEntries
      <3>2. i \in 1 .. n + k /\ i <= n
        BY <1>7, <3>1, SMT
      <3> QED
        BY <1>6, <1>8, <3>1, <3>2 DEF OwnEntries
    <2>2. ASSUME NEW i \in OwnEntries(u)' PROVE i \in OwnEntries(u)
      <3>1. i \in 1 .. n + k /\ ledger'[i].id = u /\ ledger'[i].kind \notin Turn
        BY <1>8, <2>2 DEF OwnEntries
      <3>2. CASE i <= n
        <4>1. i \in 1 .. n
          BY <1>7, <3>1, <3>2, SMT
        <4> QED
          BY <1>6, <1>7, <3>1, <3>2, <4>1 DEF OwnEntries
      <3>3. CASE ~ (i <= n)
        <4>1. i - n \in 1 .. k
          BY <1>7, <3>1, <3>3, SMT
        <4>2. more[i - n].id = t
          BY <1>4, <1>7, <4>1 DEF Signed
        <4> QED
          BY <1>6, <1>9, <3>1, <3>3, <4>2
      <3> QED
        BY <3>2, <3>3
    <2> QED
      BY <2>1, <2>2
  <1>10. OwnEntries(t) = {}
    BY <1>2 DEF Receipts
  <1>11. ASSUME NEW i \in OwnEntries(t)' PROVE i = n + k
    <2>1. i \in 1 .. n + k /\ ledger'[i].id = t /\ ledger'[i].kind \notin Turn
      BY <1>8, <1>11 DEF OwnEntries
    <2>2. ~ (i <= n)
      <3> SUFFICES ASSUME i <= n PROVE FALSE
        OBVIOUS
      <3>1. i \in DOMAIN ledger /\ ledger'[i] = ledger[i]
        BY <1>6, <1>7, <2>1, SMT
      <3> QED
        BY <1>10, <2>1, <3>1 DEF OwnEntries
    <2>3. i - n \in 1 .. k /\ ledger'[i] = more[i - n]
      BY <1>6, <1>7, <2>1, <2>2, SMT
    <2>4. i - n = k
      BY <1>4, <1>7, <2>1, <2>3 DEF Signed, k
    <2> QED
      BY <1>7, <2>1, <2>4, SMT
  <1>12. ASSUME task[t].op \in {"consume", "topup"} PROVE n + k \in OwnEntries(t)'
    <2>1. k # 0 /\ more[k].kind \notin Turn
      BY <1>4, <1>7, <1>12
    <2>2. /\ n + k \in 1 .. n + k /\ ~ (n + k <= n) /\ n + k - n = k /\ k \in 1 .. k
      BY <1>7, <2>1, SMT
    <2>3. ledger'[n + k] = more[k] /\ more[k].id = t
      BY <1>4, <1>6, <1>7, <2>2 DEF Signed
    <2> QED
      BY <1>8, <2>1, <2>2, <2>3 DEF OwnEntries
  <1>13. Unanswered(new)
    BY <1>3 DEF Unanswered, SettingsPhases
  <1> SUFFICES ASSUME NEW u \in Tasks
               PROVE  /\ Unanswered(task'[u])
                      /\ OwnEntries(u)' # {} =>
                            task'[u].phase = "done" /\ task'[u].answer = "booked"
                      /\ \A i, j \in OwnEntries(u)' : i = j
                      /\ task'[u].answer = "booked" /\ task'[u].op \in {"consume", "topup"}
                           => OwnEntries(u)' # {}
    BY DEF Receipts
  <1>14. CASE u = t
    BY <1>3, <1>5, <1>11, <1>12, <1>13, <1>14
  <1>15. CASE u # t
    BY <1>5, <1>9, <1>15 DEF Receipts
  <1> QED
    BY <1>14, <1>15

LEMMA ReceiptsInv == IInv /\ Receipts /\ [Next]_vars => Receipts'
  <1> SUFFICES ASSUME IInv, Receipts, [Next]_vars PROVE Receipts'
    OBVIOUS
  <1> USE DEF IInv
  <1>1. CASE Tick \/ UNCHANGED vars
    <2>1. task' = task /\ ledger' = ledger
      BY <1>1 DEF Tick, vars, stored
    <2> QED
      BY <2>1 DEF Receipts, OwnEntries
  <1>2. ASSUME NEW t \in Tasks, ConsumeLimit(t) \/ TopupLimit(t) \/ ReportGauge(t)
        PROVE  Receipts'
    <2>1. \E op, amount : Begins(t, op, amount)
      BY <1>2 DEF ConsumeLimit, TopupLimit, ReportGauge
    <2> QED
      BY <2>1, BeginsKeepsReceipts
  <1>3. ASSUME NEW t \in Tasks,
               \/ SetLimitSettings(t) \/ Preview(t) \/ ReadTenant(t) \/ SaveTenant(t)
               \/ ReconcileLimitState(t)
        PROVE  Receipts'
    BY <1>3, SettingsStepsKeepReceipts
  <1>4. ASSUME NEW t \in Tasks, Load(t) PROVE Receipts'
    <2> DEFINE new == [task[t] EXCEPT !.phase = "commit", !.seen = row]
    <2>1. /\ task' = [task EXCEPT ![t] = new] /\ ledger' = ledger /\ task[t].phase = "load"
      BY <1>4 DEF Load, stored
    <2>2. new.phase = "commit" /\ new.answer = task[t].answer /\ new.op = task[t].op
      BY SMT DEF TypeOK, Task
    <2> HIDE DEF new
    <2> QED
      BY <2>1, <2>2, QuietMoveKeepsReceipts DEF SettingsPhases
  <1>5. ASSUME NEW t \in Tasks, Commit(t) PROVE Receipts'
    BY <1>5, CommitKeepsReceipts
  <1>6. ASSUME NEW t \in Tasks, Refuse(t) PROVE Receipts'
    <2>1. Ends(t, "exhausted") /\ ledger' = ledger /\ task[t].phase = "commit"
      BY <1>6 DEF Refuse, stored
    <2> QED
      BY <2>1, QuietEndKeepsReceipts
  <1>7. ASSUME NEW t \in Tasks, Conflict(t) PROVE Receipts'
    <2> DEFINE again == task[t].tries + 1
               new == [task[t] EXCEPT !.phase = "load", !.seen = NoState, !.tries = again]
    <2>1. /\ Ends(t, "contended") \/ task' = [task EXCEPT ![t] = new]
          /\ ledger' = ledger /\ task[t].phase = "commit"
      BY <1>7 DEF Conflict, stored
    <2>2. new.phase = "load" /\ new.answer = task[t].answer /\ new.op = task[t].op
      BY SMT DEF TypeOK, Task
    <2> HIDE DEF new
    <2>3. CASE Ends(t, "contended")
      BY <2>1, <2>3, QuietEndKeepsReceipts
    <2>4. CASE task' = [task EXCEPT ![t] = new]
      BY <2>1, <2>2, <2>4, QuietMoveKeepsReceipts DEF SettingsPhases
    <2> QED
      BY <2>1, <2>3, <2>4
  <1> QED
    BY <1>1, <1>2, <1>3, <1>4, <1>5, <1>6, <1>7 DEF Next

\* A request books at most once however often its swap is refused and retried, and its answer
\* tells the truth: `booked' stands for one entry, every other answer for none.
THEOREM RequestsBookOnce == Spec => []BookedOnce
  <1>1. Init => Receipts
    <2> SUFFICES ASSUME Init PROVE Receipts
      OBVIOUS
    <2>1. ledger = << >> /\ \A t \in Tasks : task[t] = Idle
      BY DEF Init
    <2>2. Idle.phase = "idle" /\ Idle.answer = "none"
      BY SMT DEF Idle
    <2>3. \A t \in Tasks : OwnEntries(t) = {}
      BY <2>1, SMT DEF OwnEntries
    <2> QED
      BY <2>1, <2>2, <2>3 DEF Receipts, Unanswered, SettingsPhases
  <1>2. Receipts => BookedOnce
    <2> SUFFICES ASSUME Receipts, NEW t \in Tasks
                 PROVE  /\ Cardinality(OwnEntries(t)) <= 1
                        /\ task[t].answer \in {"none", "exhausted", "contended", "confirm",
                                               "stale"} => OwnEntries(t) = {}
                        /\ task[t].answer = "booked" /\ task[t].op \in {"consume", "topup"}
                             => OwnEntries(t) # {}
      BY DEF BookedOnce
    <2>1. CASE OwnEntries(t) = {}
      <3>1. Cardinality(OwnEntries(t)) = 0
        BY <2>1, FS_EmptySet
      <3> QED
        BY <2>1, <3>1, SMT DEF Receipts
    <2>2. CASE OwnEntries(t) # {}
      <3>1. PICK i : i \in OwnEntries(t)
        BY <2>2
      <3>2. OwnEntries(t) = {i}
        BY <3>1 DEF Receipts
      <3>3. Cardinality(OwnEntries(t)) = 1
        BY <3>2, FS_Singleton
      <3>4. task[t].answer = "booked"
        BY <2>2 DEF Receipts
      <3> QED
        BY <2>2, <3>3, <3>4, SMT
    <2> QED
      BY <2>1, <2>2
  <1> QED
    BY <1>1, <1>2, ReceiptsInv, Invariance, PTL DEF Spec

=============================================================================
