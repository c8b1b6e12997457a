SPECIFICATION FairSpec
CONSTANTS
    own = own
    other = other
    bad = bad
    w1 = w1
    w2 = w2
    Ids <- MCIds
    ValidIds <- MCValidIds
    Own = own
    Workers <- MCWorkers
    Blocks <- MCBlocks
    StakesOf <- MCStakesOf
INVARIANT
    NewestStakes
PROPERTY
    StakesCatchUp
