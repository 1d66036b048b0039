SPECIFICATION FairSpec
CONSTANTS
    Conns = {c1, c2}
    concur = 1
    CommFd = CommFd
    Nobody = Nobody
    PipeCap = 1
    MaxMsgs = 0
    Senders = {}
    Leavers = {}
    MaxSigs = 1
PROPERTY InterruptStopsServer
CHECK_DEADLOCK FALSE
