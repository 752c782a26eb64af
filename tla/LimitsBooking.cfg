\* Three requests of any kind under every policy, over the two days of a month and the first of
\* the next.
SPECIFICATION Spec
CONSTANTS
    Tasks = {t1, t2, t3}
    DaysPerMonth = 2
    MaxDay = 2
    MaxAttempts = 2
    Definitions <- MCDefinitions
    Settings <- MCSettings
    Amounts = {2}
SYMMETRY Requests
INVARIANTS NeverCreditAndDebt LedgerChains  BookedOnce
PROPERTIES HistoryIsFinal UsageIsKept
CHECK_DEADLOCK FALSE
