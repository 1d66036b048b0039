SPECIFICATION FairSpec
CONSTANTS
    Conns = {c1, c2, c3}
    concur = 1
    CommFd = CommFd
    Nobody = Nobody
    PipeCap = 2
    MaxMsgs = 1
    Senders = {c1}
    Leavers = {c1}
    MaxSigs = 1
INVARIANT OneHolder
PROPERTY ImplementsService
PROPERTY QueuedIsServed
PROPERTY ClientIsHandled
PROPERTY InterruptStopsUnlessFull
CHECK_DEADLOCK FALSE
