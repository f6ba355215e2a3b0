SPECIFICATION FairSpec
CONSTANTS
    Cap = 2
    Producers = {p1, p2, p3}
    Consumers = {c1, c2}
    Values = {a, b}
    Nothing = Nothing
    SpuriousWakeups = TRUE
    MaxLen = 4
INVARIANT NoLostWakeup
PROPERTIES
    ImplementsQueue
    KeepsFlowing
\* A process that popped from an empty queue does nothing more.
CHECK_DEADLOCK FALSE
