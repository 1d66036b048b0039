SPECIFICATION FairSpec
CONSTANTS
    Conns = {c1, c2}
    None = None
    MaxFds = 2
    MaxMsgs = 1
    Senders = {c2}
    Leavers = {c1}
    Triggers = {"EP_ET", "EP_LT"}
    EPOLL_FDS_LEN = 4
    Threads = {t1, t2}
    Listen = Listen
    Sig = Sig
    MaxTasks = 2
    Signals = {}
    MaxSigs = 0
PROPERTY EveryClientIsServed
CHECK_DEADLOCK FALSE
