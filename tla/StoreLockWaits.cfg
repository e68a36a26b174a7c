SPECIFICATION FairLockSpec
CONSTANTS
    a = a
    b = b
    a1 = a1
    a2 = a2
    b1 = b1
    Processes = {a, b}
    Threads = {a1, b1}
    Home <- MCHome
    Nobody = Nobody
    Postgres = TRUE
    MaxSessions = 2
    MaxDepth = 2
    MaxWrites = 1
PROPERTIES
    GetsIn
