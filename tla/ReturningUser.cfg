\* A registered user comes back after a logout.
CONSTANTS
    l1 = l1
    p1 = p1
    ch1 = ch1
    i1 = i1
    r1 = r1
    Null = Null
    MaxConnections = 2
    Logins = {l1}
    Passcodes = {p1}
    Channels = {ch1}
    Ids = {i1}
    Receipts = {r1}
    IntegerCacheHigh = 127
    Overlap = FALSE
    UniqueIds = TRUE
    MaxMessageId = 0
    MaxSubscriptions = 1
SPECIFICATION Spec
INVARIANT ReturningUserAdmitted
CHECK_DEADLOCK FALSE
