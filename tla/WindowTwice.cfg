SPECIFICATION MCSpec
CONSTANTS
    Absent = Absent
    NoClient = NoClient
    u1 = u1
    u2 = u2
    w1 = w1
    w2 = w2
    w3 = w3
    Users = {u1, u2}
    Clients = {w1, w2, w3}
    UserOf <- MCUserOf
    BrowserOf <- MCBrowserOf
    Docs <- MCDocs
    Choices <- MCChoices
    MaxRevision = 4
    MaxRequests = 2
    MaxQuiet = 1
    MaxEdits <- MCMaxEdits
    MaxInAll = 3
    MaxHeld = 2
    MaxTogether = 1
INVARIANT TakenOnce
