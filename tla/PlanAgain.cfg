SPECIFICATION PlanningSpec
CONSTANTS
    Nodes = 5
    Inputs <- MCInputs
    Kind <- MCKind
    LeadTime <- MCLeadTime
    ToOrder <- MCOnlyThePlantToOrder
    Lot <- MCLot
    Fence <- MCFence
    Firmed <- MCFirmed
    BucketStarts = {0, 3}
    LastDay = 5
    Datasets <- MCDatasets
    Planners = {a, b}
    NoWork = NoWork
    Horizon = 3
    Lead <- MCLead
    Periods <- MCPeriods
    Segments <- MCSegments
    Asked <- MCAsked
    Expected <- MCExpected
    MaxOrders = 3
INVARIANTS
    AsFromScratch
CHECK_DEADLOCK FALSE
