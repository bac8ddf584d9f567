\* Two connections that share one slot; floods of 2 bytes, limit 3.
CONSTANTS
    Fds = {c1, c2}
    MaxSlots = 1
    Limit = 3
    Sizes = {2}
    Seconds = {1, 2}
    MaxMessages = 2
    None = None
SPECIFICATION FairSpec
INVARIANTS TypeOK FloodBacklog NoMisdelivery InOrder WriterOutlived
PROPERTIES StopReturns ControlDrains StallEndsSession
