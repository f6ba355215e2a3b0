SPECIFICATION SelectFairSpec
CONSTANTS
    Clients = {k1, k2}
    NoClient = NoClient
    MaxFd = 2
    MaxRequests = 2
INVARIANT AllWatched
PROPERTIES
    ImplementsService
    ServedIfNobodyLeaves
\* A server whose clients have all come and gone waits in accept(), and a
\* process that died does nothing more.
CHECK_DEADLOCK FALSE
