SPECIFICATION Spec
CONSTANTS
    Conns = {c1, c2}
    None = None
    MaxFds = 2
    MaxMsgs = 0
    Senders = {}
    Leavers = {}
    Muxes = {"poll"}
    FDS_LEN = 2
INVARIANT FullMeansDisconnected
CHECK_DEADLOCK FALSE
