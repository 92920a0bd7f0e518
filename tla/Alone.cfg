\* One client with two games, and every thread scheduled.
CONSTANTS
    u1 = u1
    p1 = p1
    g1 = g1
    g2 = g2
    Null = Null
    Word = Word
    MaxConnections = 1
    Logins = {u1}
    Passcodes = {p1}
    Channels = {g1, g2}
    Ids = {0, 1, 2, 3}
    Receipts = {0, 1, 2, 3}
    IntegerCacheHigh = 127
    Overlap = FALSE
    UniqueIds = FALSE
    MaxMessageId = Null
    MaxSubscriptions = Null
    MaxLines = 4
    MaxTyped = 4
    MaxEvents = 2
SPECIFICATION FairServiceSpec
INVARIANT BeliefTrue
PROPERTIES
    IsServerSpec
    IsFairClientSpec
CHECK_DEADLOCK FALSE
