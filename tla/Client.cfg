\* One client, two users, two games; three lines typed.
CONSTANTS
    c1 = c1
    u1 = u1
    u2 = u2
    p1 = p1
    g1 = g1
    g2 = g2
    Null = Null
    Word = Word
    Clients = {c1}
    Users = {u1, u2}
    Passwords = {p1}
    Games = {g1, g2}
    MaxLines = 3
    MaxEvents = 2
    MaxInFlight = 1
SPECIFICATION FairSpec
INVARIANTS
    TypeOK
    ReceiptKnown
    AnswersMatchRequests
PROPERTIES
    RequestsSettle
    LossNoticed
CHECK_DEADLOCK FALSE
