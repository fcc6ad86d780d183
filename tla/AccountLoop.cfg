SPECIFICATION MCFairSpec
CONSTANTS
    N = 2
    Requests <- MCRequests
    Users <- MCUsers
    Accounts <- MCAccounts
    Amounts <- MCPositive
    BadIds = {}
    NaN = NaN
    Text = Text
    None = None
    InitBalance = 2
    MaxBalance = 4
    PoolSize = 2
    RowCap = 1
PROPERTIES
    UseSettles
