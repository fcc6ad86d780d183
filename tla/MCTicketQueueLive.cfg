SPECIFICATION FairSpec
CONSTANTS
    e1 = e1
    e2 = e2
    i1 = i1
    Requests = {r1, r2}
    Runs = {s1}
    Uuids <- MCUuids
    External <- MCExternal
    Users <- MCUsers
    KnownUsers <- MCFirst
    Holder <- MCStranger
    QueueOf <- MCTwoQueues
    LastIdx = 1
    BATCH = 2
    MAX_CRASHES = 1
    None = None
PROPERTIES
    QueuedAreAdmitted
