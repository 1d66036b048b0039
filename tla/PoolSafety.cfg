SPECIFICATION Spec
CONSTANTS
    Conns = {c1, c2, c3, c4, c5}
    concur = 2
    CommFd = CommFd
    Nobody = Nobody
    PipeCap = 2
    MaxMsgs = 0
    Senders = {}
    Leavers = {}
    MaxSigs = 2
SYMMETRY Symmetry
INVARIANT TypeOK
INVARIANT NoConnectionStranded
INVARIANT NothingLeftAtExit
INVARIANT RoundRobin
INVARIANT QueuesDoNotMove
INVARIANT KilledOnlyForACause
CHECK_DEADLOCK FALSE
