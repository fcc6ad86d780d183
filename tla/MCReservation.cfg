SPECIFICATION MCSpec
CONSTANTS
    N = 3
    Requests <- MCRequests
    Users <- MCUsers
    Seats = {s1}
    None = None
INVARIANTS
    TypeOK
    BoxesAtomic
    
    AnswerIsTrue
    EmptyAnswerMeansTaken
PROPERTIES
    
    CallsEnd
