SPECIFICATION Spec
CONSTANTS
    a = a
    b = b
    t1 = t1
    t2 = t2
    n1 = n1
    n2 = n2
    n3 = n3
    Keys <- MCKeys
    Values <- MCValues
    Threads <- MCThreads
    NodeIds <- MCNodeIds
    Writers <- MCWriters
    TTLs <- MCTTLs
    GroupKeys <- MCGroupKeys
    WithCallback <- MCWithCallback
    MaxStall = 1
    MaxTime = 3
    NoValue = NoValue
    NoNode = NoNode
    DeadNode = DeadNode
SYMMETRY MCSymmetry
INVARIANTS
    OwnedRegister
    RemoveIsComplete
    NoExpiryUnannounced
CHECK_DEADLOCK FALSE
