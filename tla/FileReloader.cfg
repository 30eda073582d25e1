\* The poller, a client that reloads, two callers of Close.
CONSTANTS
    Clients = {c1}
    Closers = {x1, x2}
    None = None
    MaxMTime = 2
    MaxReloads = 1
    MaxRemoves = 1
SPECIFICATION ReloaderFairSpec
INVARIANTS MarkedIsReported
PROPERTY ChangeHeard
CHECK_DEADLOCK FALSE
