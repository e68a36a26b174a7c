SPECIFICATION FairConnectSpec
CONSTANTS
    Sources = {shop}
    Whole = {}
    Clocks = {clock}
    People = {person}
    EditsInRuns = FALSE
    MaxChanges = 2
    Nothing = Nothing
    shop = shop
    erp = erp
    clock = clock
    person = person
    OrderContents = {c1}
    Cancelled = Cancelled
    Channels = {"asks", "job"}
    SendRuns = {r1}
    JobOf <- MCJobOf
    MaxRefs = 1
    MaxAcks = 2
    MaxJobSaves = 0
    MaxSaves = 2
PROPERTIES
    ChangesCome
    ComesToRest
CHECK_DEADLOCK FALSE
