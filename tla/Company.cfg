SPECIFICATION CompanySpec
SYMMETRY Symmetry
CONSTANTS
    Absent = Absent
    NoClient = NoClient
    Users = {u1, u2}
    Clients = {w1}
    MergeTexts = {v, w}
    OldText = v
    Bases <- MCBases
    MineOn <- MCMineOn
    TheirsOn <- MCTheirsOn
    Decisions <- MCDecisions
    Texts = {x, y, z}
    FirstTexts = {o}
    SecondTexts = {Absent, o}
    Docs <- MCDocs
    Choices <- MCChoices
    MaxRevision = 3
    MaxRequests = 2
    Contents = {1, 2}
    MaxVersions = 3
    Steps <- MCSteps
    Supplying = {"exec"}
    Blocked = {2}
    Unsolved = {}
    People = {p, q}
    Owners = {p}
    Months = {1, 2}
    NoCycle = NoCycle
    NoCall = NoCall
    NoOwner = NoOwner
    MaxOwned = 1
INVARIANTS
    TypeOK
    MadeWhenApproved
    BothSurvive
    NothingDangles
    EitherOrder
    SopTypeOK
    SignedInOrder
PROPERTIES
    NeverOverUnseen
    TwoPeople
