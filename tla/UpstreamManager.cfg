SPECIFICATION FairSpec
CONSTANTS
    t1 = t1
    t2 = t2
    t3 = t3
    c1 = c1
    c2 = c2
    c3 = c3
    narrow = narrow
    wide = wide
    default = default
    NoConn = NoConn
    Tasks <- MCTasks
    Items <- MCItems
    Conns <- MCConns
    MaxConnections <- MCMaxConnections
    KeepAlive <- MCKeepAlive
INVARIANTS
    PoolAccounting
    ConnectionExclusive
    WorkConserving
    BusyIsExact
PROPERTY
    ImplementsService
