SPECIFICATION Spec
CONSTANTS
    Names = {1, 2, 3}
    NoName = 0
    BadFormat = BadFormat
    TooLarge = TooLarge
    MaxFiles = 3
    Paths = {"a", "b", "dapi", "wallet", "callback"}
    Methods = {"GET", "HEAD", "POST", "PUT"}
    MaxSignals = 2
    Libraries <- MCLibraries
    ExceptionList <- MCExceptionList
    SupernodeRoutes <- MCSupernodeRoutes
    WalletRoutes <- MCWalletRoutes
    Endpoints <- MCEndpoints
INVARIANTS
    GraftletsExact
    ServesOneStart
CHECK_DEADLOCK FALSE
