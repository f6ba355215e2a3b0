SPECIFICATION EpollSpec
CONSTANTS
    Clients = {k1, k2}
    NoClient = NoClient
    MaxFd = 2
    MaxRequests = 1
    MaxEvents = 2
INVARIANT NoWildPointer
CHECK_DEADLOCK FALSE
