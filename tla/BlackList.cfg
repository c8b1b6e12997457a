SPECIFICATION BlackListSpec
CONSTANTS
    Inner = Inner
    AddrLen = 4
    Lines <- MCLines
    MaxRules = 3
    Clients <- MCClients
    Second = 1
    RequestsPerSec = 1
    WindowSec = 2
    BanSecs = {0, 3}
    MaxBans = 2
    MaxTime = 5
INVARIANTS
    FirstMatch
    BanExact
    RateBound
CHECK_DEADLOCK FALSE
