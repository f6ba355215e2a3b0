SPECIFICATION FairSpec
CONSTANTS
    Clients = {k1, k2, k3}
    NoClient = NoClient
    MaxFd = 2
INVARIANTS
    OwnDescriptor
    NoDescriptorLost
    NobodyForgotten
PROPERTIES
    ImplementsOneAnswer
    Answered
\* When every client has come and gone main waits in accept(), and a process that
\* was killed does nothing more.
CHECK_DEADLOCK FALSE
