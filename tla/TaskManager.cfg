SPECIFICATION Spec
CONSTANTS
    c1 = c1
    c2 = c2
    p = p
    Clients <- MCClients
    Periodics <- MCPeriodics
    Handlers <- MCHandlers
    Returns <- MCReturns
    NextTaskIds <- MCNextTaskIds
    Blocking <- MCBlocking
    UnknownUri <- MCUnknownUri
    ThreadCount = 1
    ThreadPoolInputSize = 2
    ResQueueSize = 2
    PromiseQueueSize = 1
    PeriodicQueueSize = 4
    MaxFuture = 1
INVARIANTS
    OnePlace
    JobAccounting
    ClientAccounting
    StopSound
    TableComplete
    NoPoolOverflow
PROPERTY
    NoLostPromise
