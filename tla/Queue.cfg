SPECIFICATION FairSpec
CONSTANTS
    Threads = {t1, t2, t3}
    Values = {v1, v2}
    Nil = Nil
    MaxCalls = 4
INVARIANT TypeOK
INVARIANT NoStaleRead
INVARIANT NoLostWakeup
PROPERTY LinearizesToFifo
PROPERTY ConsumersGetElements
CHECK_DEADLOCK FALSE
