SPECIFICATION FairSpec
CONSTANTS
    Cap = 2
    Producers = {p1, p2}
    Consumers = {c1, c2}
    Values = {a, b}
    Nothing = Nothing
    NoThread = NoThread
INVARIANTS
    TypeOK
    SlotsAccounted
    SlotExclusive
PROPERTIES
    ImplementsFifo
    KeepsFlowing
