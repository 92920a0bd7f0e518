\* Two connections, two workers, three tasks of each.
CONSTANTS
    h1 = h1
    h2 = h2
    w1 = w1
    w2 = w2
    Actors = {h1, h2}
    Workers = {w1, w2}
    Selector = Selector
    None = None
    MaxTasks = 3
SPECIFICATION FairSpec
INVARIANT Serialised
PROPERTY IsSerialExecutor
CHECK_DEADLOCK FALSE
