\* Two connections, each subscribing twice to two channels, one frame at a time.
CONSTANTS
    ch1 = ch1
    ch2 = ch2
    i1 = i1
    i2 = i2
    r1 = r1
    Null = Null
    MaxConnections = 2
    Logins = {}
    Passcodes = {}
    Channels = {ch1, ch2}
    Ids = {i1, i2}
    Receipts = {r1}
    IntegerCacheHigh = 127
    Overlap = FALSE
    UniqueIds = TRUE
    MaxMessageId = 3
    MaxSubscriptions = 2
SPECIFICATION Spec
SYMMETRY Symmetry
INVARIANT OnlySubscribersPublish
PROPERTIES
    ReceiptMeansSubscribed
    CompletedLogoutLeavesAll
    MessageIdUnique
CHECK_DEADLOCK FALSE
