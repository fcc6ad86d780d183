SPECIFICATION MCSpec
CONSTANTS
    Payments <- MCPayments
    Users <- MCUsers
    BadIds <- MCBadIds
    Seats = {s1}
    Amounts <- MCAmounts
    NaN = NaN
    InitBalance = 4
    MaxBalance = 4
    MaxStops = 1
    MaxFails = 2
INVARIANTS
    TypeOK
    DebitsArePaid
    AnswerIsTrue
    RedeliveredAfterStop
    DebitIsBounded
    NoDebitPastRefused
PROPERTIES
    EventsHandled
CHECK_DEADLOCK FALSE
