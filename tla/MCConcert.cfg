CONSTANTS
    Ids <- MCIds
    Seats <- MCSeats
    Undef = Undef

SPECIFICATION Spec

INVARIANTS
    TypeOK
    OnePlanAnswered

\* A call ends with its answer.
CHECK_DEADLOCK FALSE
