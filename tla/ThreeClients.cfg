\* Three connections, two logins, one channel, one frame at a time.
CONSTANTS
    l1 = l1
    l2 = l2
    p1 = p1
    p2 = p2
    ch1 = ch1
    i1 = i1
    r1 = r1
    Null = Null
    MaxConnections = 3
    Logins = {l1, l2}
    Passcodes = {p1, p2}
    Channels = {ch1}
    Ids = {i1}
    Receipts = {r1}
    IntegerCacheHigh = 127
    Overlap = FALSE
    UniqueIds = TRUE
    MaxMessageId = 1
    MaxSubscriptions = 1
SPECIFICATION Spec
SYMMETRY Symmetry
 
PROPERTIES
    ConnectedKnowsPasscode
    PasscodeKept
    RemovesOnlyItself
    NobodySkipped
CHECK_DEADLOCK FALSE
