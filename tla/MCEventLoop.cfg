SPECIFICATION FairSpec
CONSTANTS
    Conns = {c1, c2}
    Listener = listener
    NULL = NULL
    MaxClients = 3
    MaxBacklog = 2
    MaxMsgs = 2
INVARIANTS PoolOK BatchWatched NoInputLost AcceptHasWork
PROPERTIES PongsGoOn InputServed KqueueAccepts
