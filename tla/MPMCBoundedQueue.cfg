SPECIFICATION Spec
CONSTANTS
    p1 = p1
    p2 = p2
    c1 = c1
    c2 = c2
    v1 = v1
    v2 = v2
    NoValue = NoValue
    Producers <- MCProducers
    Consumers <- MCConsumers
    Values <- MCValues
    Size = 2
    MaxPushes = 4
SYMMETRY
    MCSymmetry
INVARIANT
    CellExclusive
PROPERTIES
    FailsForAReason
    ImplementsFifo
