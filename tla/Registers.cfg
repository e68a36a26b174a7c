SPECIFICATION RegistersSpec
SYMMETRY RegistersSymmetry
CONSTANTS
    Docs = {a, b}
    NoDoc = NoDoc
    FullEvery = 3
    Legacy = 2
    MaxRevision = 8
    Persons = {m1, m2}
    Keys = {k}
    Senders = {s1, s2}
    Daily = 2
    PerAccount = 1
    MaxDay = 1
    MaxMails = 2
    Sources = {shop, erp}
    Whole = {erp}
    Clocks = {clock}
    People = {person}
    EditsInRuns = FALSE
    MaxChanges = 1
    Nothing = Nothing
    shop = shop
    erp = erp
    clock = clock
    person = person
    OrderContents = {c1}
    Cancelled = Cancelled
    Channels = {"asks", "job"}
    SendRuns = {r1, r2}
    JobOf <- MCJobOf
    MaxRefs = 2
    MaxAcks = 2
    MaxJobSaves = 2
    MaxSaves = 3
INVARIANTS
    RegistersTypeOK
    HistoryOpens
    AlwaysOwned
    RemindedOnce
    NothingMissed
    AppliedOnce
    OneCopyOfItsOwn
PROPERTIES
    ImplementsTable
    RestoredGoesAgain
CHECK_DEADLOCK FALSE
