SPECIFICATION FairSpec
CONSTANTS
    c1 = c1
    c2 = c2
    p = p
    Clients <- MCClients
    Periodics <- MCNone
    Handlers <- MCClientHandlers
    Returns <- MCClientReturns
    NextTaskIds <- MCClientNextTaskIds
    Blocking <- MCOneBlocking
    UnknownUri <- MCNone
    ThreadCount = 2
    ThreadPoolInputSize = 2
    ResQueueSize = 2
    PromiseQueueSize = 2
    PeriodicQueueSize = 4
    MaxFuture = 1
PROPERTY
    GracefulStop
