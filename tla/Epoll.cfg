SPECIFICATION FairSpec
CONSTANTS
    Conns = {c1, c2}
    None = None
    MaxFds = 2
    MaxMsgs = 1
    Senders = {c1, c2}
    Leavers = {c1}
    Triggers = {"EP_ET", "EP_LT"}
    EPOLL_FDS_LEN = 3
    Threads = {t1, t2}
    Listen = Listen
    Sig = Sig
    MaxTasks = 2
    Signals = {"TERM", "OTHER"}
    MaxSigs = 1
INVARIANT TypeOK
INVARIANT RegisteredIsKnown
INVARIANT NoGhostDescriptor
PROPERTY ClosedForACause
PROPERTY FreshIsServed
PROPERTY TermEndsServer
CHECK_DEADLOCK FALSE
