SPECIFICATION ImportsSpec
CONSTANTS
    shop = shop
    erp = erp
    clock = clock
    owner = owner
    Sources = {shop, erp}
    Whole = {}
    Clocks = {clock}
    People = {owner}
    EditsInRuns = TRUE
    MaxChanges = 1
    Nothing = Nothing
INVARIANTS
    NothingMissed
