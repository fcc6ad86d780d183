SPECIFICATION Spec
CONSTANTS
    e1 = e1
    e2 = e2
    i1 = i1
    Requests = {r1, r2}
    Runs = {s1, s2}
    Uuids <- MCUuids
    External <- MCExternal
    Users <- MCUsers
    KnownUsers <- MCUsers
    Holder <- MCHolder
    QueueOf <- MCOneQueue
    LastIdx = 0
    BATCH = 2
    MAX_CRASHES = 1
    None = None
SYMMETRY Symmetry
INVARIANTS
    TypeOK
    EntriesConserved
    ToldPositionHolds
    SecondEntryIsRaced
PROPERTIES
    AdmittedInOrder
    ImplementsLine
