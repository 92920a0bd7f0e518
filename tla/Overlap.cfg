\* Two connections whose handlers run concurrently.
CONSTANTS
    l1 = l1
    p1 = p1
    ch1 = ch1
    i1 = i1
    r1 = r1
    Null = Null
    MaxConnections = 2
    Logins = {l1}
    Passcodes = {p1}
    Channels = {ch1}
    Ids = {i1}
    Receipts = {r1}
    IntegerCacheHigh = 127
    Overlap = TRUE
    UniqueIds = TRUE
    MaxMessageId = 1
    MaxSubscriptions = 1
SPECIFICATION FairSpec
INVARIANTS
    TypeOK
    Consistent
    SubscriptionIndexed
    ReachedPrefix
PROPERTY HandlersFinish
CHECK_DEADLOCK FALSE
