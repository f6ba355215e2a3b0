SPECIFICATION FairSpec
CONSTANTS
    Clients = {k1, k2, k3}
    Parent = Parent
    NoClient = NoClient
    ForksMayFail = TRUE
INVARIANTS
    NoZombieForgotten
    DescriptorsPaired
PROPERTIES
    ImplementsOneAnswer
    ServedAndGone
\* When every client has come and gone the parent waits in accept().
CHECK_DEADLOCK FALSE
