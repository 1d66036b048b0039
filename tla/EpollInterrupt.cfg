SPECIFICATION Spec
CONSTANTS
    Conns = {c1}
    None = None
    MaxFds = 1
    MaxMsgs = 1
    Senders = {c1}
    Leavers = {c1}
    Triggers = {"EP_ET"}
    EPOLL_FDS_LEN = 3
    Threads = {t1}
    Listen = Listen
    Sig = Sig
    MaxTasks = 1
    Signals = {"OTHER"}
    MaxSigs = 1
INVARIANT InterruptedCallContinues
CHECK_DEADLOCK FALSE
