\* Two writers, two callers of Stop and a channel with one slot.
CONSTANTS
    Writers = {w1, w2}
    Stoppers = {s1, s2}
    Buffers = {b1, b2, b3}
    NoBuffer = NoBuffer
    Nobody = Nobody
    Depth = 1
    CanFlush = TRUE
    FlushTicks = TRUE
    MaxWrites = 3
SPECIFICATION FairSpec
PROPERTIES ImplementsAsyncLog WriterProgress
CHECK_DEADLOCK FALSE
