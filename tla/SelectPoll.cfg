SPECIFICATION FairSpec
CONSTANTS
    Conns = {c1, c2, c3, c4}
    None = None
    MaxFds = 3
    MaxMsgs = 1
    Senders = {c1, c2}
    Leavers = {c1, c2, c3}
    Muxes = {"select", "poll"}
    FDS_LEN = 3
INVARIANT TypeOK
INVARIANT TableIsCurrent
INVARIANT SelectDisconnects
PROPERTY BacklogIsAccepted
PROPERTY ClientIsHandled
CHECK_DEADLOCK FALSE
