SPECIFICATION MCFairSpec
CONSTANTS
    N = 3
    Requests <- MCRequests
    Users <- MCUsers
    Accounts <- MCAccounts
    Amounts <- MCAmounts
    BadIds <- MCBadIds
    NaN = NaN
    Text = Text
    None = None
    InitBalance = 2
    MaxBalance = 4
    PoolSize = 2
    RowCap = 1
INVARIANTS
    TypeOK
    LedgerBalanced
    BalanceInRange
    ReadIsFresh
    DebitHasOutbox
    AnswerIsTrue
PROPERTIES
    ImplementsLedger
    CallsEnd
