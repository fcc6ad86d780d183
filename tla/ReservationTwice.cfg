SPECIFICATION MCSpec
CONSTANTS
    N = 2
    Requests <- MCRequests
    Users <- MCUsers
    Seats = {s1}
    None = None
INVARIANTS
    SeatTakenOnce
