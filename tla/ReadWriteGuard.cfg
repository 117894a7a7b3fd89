SPECIFICATION FairSpec
CONSTANTS
    Readers = {r1, r2, r3}
    Writers = {w1, w2, w3}
    Ceiling = 2
INVARIANT Exclusion
PROPERTY EveryoneServed
CHECK_DEADLOCK FALSE
