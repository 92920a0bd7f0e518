\* One client logs out.
CONSTANTS
    u1 = u1
    p1 = p1
    g1 = g1
    Null = Null
    Word = Word
    MaxConnections = 1
    Logins = {u1}
    Passcodes = {p1}
    Channels = {g1}
    Ids = {0, 1}
    Receipts = {0, 1}
    IntegerCacheHigh = 127
    Overlap = FALSE
    UniqueIds = FALSE
    MaxMessageId = Null
    MaxSubscriptions = Null
    MaxLines = 2
    MaxTyped = 2
    MaxEvents = 0
SPECIFICATION FairServiceSpec
PROPERTY LogoutAnswered
CHECK_DEADLOCK FALSE
