\* Two connections, one frame from a client, two frames to write.
CONSTANTS
    h1 = h1
    h2 = h2
    Conns = {h1, h2}
    None = None
    Talkers = {h1}
    MaxFrames = 1
    MaxSends = 2
SPECIFICATION FairSpec
INVARIANTS
    NoFrameForgotten
    NoSleepOverTasks
PROPERTIES
    QueuedIsWritten
    RequestsServed
CHECK_DEADLOCK FALSE
