SPECIFICATION Spec
CONSTANTS
    w1 = w1
    r1 = r1
    r2 = r2
    r3 = r3
    a1 = a1
    s1 = s1
    s2 = s2
    Wallets = {w1}
    WalletRequests = {r1, r2, r3}
    Handlers = {r1, r2, r3}
    AccountRequests = {a1}
    walletOf <- MCWalletOf
    Strands = {s1, s2}
    Count = 2
    PoolQueueSize = 2
    QueueSize = 2
    CallbackQueueSize = 1
    NoHandler = NoHandler
    NoStrand = NoStrand
    NoJob = NoJob
    NoId = NoId
    MaxExpelled = 1
SYMMETRY Symmetry
INVARIANTS
    StrandExclusive
    NoDanglingCall
    NothingLeftBehind
CHECK_DEADLOCK FALSE
