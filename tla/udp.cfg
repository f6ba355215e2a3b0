SPECIFICATION FairSpec
CONSTANTS
    Clients = {c1, c2}
    Sizes = {0, 2, 4}
    Room = 3
    Prefix = 1
    MaxLines = 2
    MaxLost = 1
    MaxCopies = 1
    MaxCrashes = 1
INVARIANTS
    InStep
    NothingVanishes
PROPERTY AnsweredUnlessLost
\* A client whose datagram was lost waits for ever.
CHECK_DEADLOCK FALSE
