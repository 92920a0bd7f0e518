\* A client logs out while the selector thread handles its key.
CONSTANTS
    h1 = h1
    h2 = h2
    Conns = {h1, h2}
    None = None
    Talkers = {h1}
    MaxFrames = 1
    MaxSends = 2
SPECIFICATION Spec
INVARIANT ServesOn
CHECK_DEADLOCK FALSE
