\* Two new clients race for one login.
CONSTANTS
    l1 = l1
    p1 = p1
    p2 = p2
    ch1 = ch1
    i1 = i1
    r1 = r1
    Null = Null
    MaxConnections = 2
    Logins = {l1}
    Passcodes = {p1, p2}
    Channels = {ch1}
    Ids = {i1}
    Receipts = {r1}
    IntegerCacheHigh = 127
    Overlap = TRUE
    UniqueIds = TRUE
    MaxMessageId = 0
    MaxSubscriptions = 0
SPECIFICATION Spec
PROPERTY ConnectedKnowsPasscode
CHECK_DEADLOCK FALSE
