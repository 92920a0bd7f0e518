\* Two clients, two users, one game; three lines each.
CONSTANTS
    u1 = u1
    u2 = u2
    p1 = p1
    g1 = g1
    Null = Null
    Word = Word
    MaxConnections = 2
    Logins = {u1, u2}
    Passcodes = {p1}
    Channels = {g1}
    Ids = {0, 1, 2}
    Receipts = {0, 1, 2}
    IntegerCacheHigh = 127
    Overlap = FALSE
    UniqueIds = FALSE
    MaxMessageId = Null
    MaxSubscriptions = Null
    MaxLines = 3
    MaxTyped = 5
    MaxEvents = 1
SPECIFICATION ServiceSpec
SYMMETRY Symmetry
INVARIANTS
    BeliefTrue
    ReporterLoggedIn
PROPERTY IsClientSpec
CHECK_DEADLOCK FALSE
