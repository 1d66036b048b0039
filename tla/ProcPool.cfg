SPECIFICATION FairSpec
CONSTANTS
    Conns = {c1}
    process_number = 2
    Nobody = Nobody
    PipeCap = 1
    Listen = Listen
    Pipe = Pipe
    Sig = Sig
    Leavers = {c1}
    MaxCrashes = 2
    MaxSigs = 1
    StartupFaults = FALSE
INVARIANT TypeOK
INVARIANT ParentLast
INVARIANT NoZombieForgotten
PROPERTY ImplementsService
PROPERTY BacklogIsServed
PROPERTY ClientIsHandled
PROPERTY SignalStopsPool
PROPERTY ParentFollowsChildren
CHECK_DEADLOCK FALSE
