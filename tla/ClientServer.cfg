SPECIFICATION FairSpec
CONSTANTS
    Conns = {1, 2, 3}
    Listen = Listen
    Sig = Sig
    client_count = 3
    thread_count = 2
INVARIANT TypeOK
INVARIANT CompletionIsTrue
PROPERTY CompletionIsAnnounced
PROPERTY ServerEndEndsClients
PROPERTY DeadClientIsClosed
CHECK_DEADLOCK FALSE
