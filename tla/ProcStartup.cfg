SPECIFICATION FairSpec
CONSTANTS
    Conns = {c1}
    process_number = 1
    Nobody = Nobody
    PipeCap = 1
    Listen = Listen
    Pipe = Pipe
    Sig = Sig
    Leavers = {}
    MaxCrashes = 1
    MaxSigs = 0
    StartupFaults = TRUE
PROPERTY ParentFollowsChildren
CHECK_DEADLOCK FALSE
