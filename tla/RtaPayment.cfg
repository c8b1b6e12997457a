SPECIFICATION Spec
CONSTANTS
    p1 = p1
    s1 = s1
    s2 = s2
    s3 = s3
    k1 = k1
    k2 = k2
    u1 = u1
    u2 = u2
    Payments <- MCPayments
    Sn <- MCSn
    Slots <- MCSlots
    Uuids <- MCUuids
    Mixes <- MCMixes
    Votes <- MCVotes
    Amounts = {100, 101}
    MaxExpired = 1
    Foreign <- MCForeign
SYMMETRY MCSymmetry
INVARIANTS
    PushHasQuorum
    SuccessEarned
PROPERTIES
    FirstUpdateStays
CHECK_DEADLOCK FALSE
