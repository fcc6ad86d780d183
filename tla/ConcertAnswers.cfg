CONSTANTS
    Ids <- MCIds
    Seats <- MCSeats
    Undef = Undef

SPECIFICATION Spec

INVARIANTS
    AnswersAreAvailable

\* A call ends with its answer.
CHECK_DEADLOCK FALSE
