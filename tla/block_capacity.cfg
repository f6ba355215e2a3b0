SPECIFICATION Spec
CONSTANTS
    Cap = 2
    Producers = {p1, p2, p3}
    Consumers = {c1, c2}
    Values = {a}
    Nothing = Nothing
    SpuriousWakeups = FALSE
    MaxLen = 4
INVARIANT CapacityKept
CHECK_DEADLOCK FALSE
