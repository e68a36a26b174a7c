SPECIFICATION TradeSpec
SYMMETRY Alike
CONSTANTS
    Clerks = {p1, p2}
    ByHand = {p1, p2}
    PoLines = {l1, l2}
    MaxQty = 2
    Above <- MCAbove
    Approvers <- MCApprovers
    MaxPoSaves = 3
    MaxEdits = 2
    SalesLines = {l1}
    MostOrdered = 2
    LastDay = 1
    ReversalDays = {0, 1}
    MaxMoves = 3
    MaxDeliveries = 1
    BilledLines = {l1}
    MostShipped = 2
    MaxShipped = 2
    MaxBills = 3
    MaxReturns = 2
    MostBought = 2
    Beyond = 1
    MaxPostings = 4
    MostBilled = 2
    MaxDocuments = 4
    a = a
    b = b
    a1 = a1
    a2 = a2
    b1 = b1
    Processes = {a, b}
    Threads = {a1, a2, b1}
    Home <- MCHome
    Nobody = Nobody
    Postgres = TRUE
    MaxSessions = 2
    MaxDepth = 2
    MaxWrites = 2
INVARIANTS
    TradeTypeOK
    NobodyReleasesTwice
    ReleasedAsRaised
    WaitsForTheRest
    PaidWasReceived
    RollsCompose
    BilledAndCreditedOnce
    NoLostWrite
PROPERTIES
    ClockLed
CHECK_DEADLOCK FALSE
