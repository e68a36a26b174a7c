SPECIFICATION Spec
CONSTANTS
    Absent = Absent
    NoClient = NoClient
    Users = {u1, u2}
    Clients = {w1}
    Texts = {x, y}
    FirstTexts = {x}
    SecondTexts = {Absent}
    Docs <- MCDocs
    Choices <- MCChoices
    MaxRevision = 3
    MaxRequests = 2
INVARIANTS
    WaitingNotMade
