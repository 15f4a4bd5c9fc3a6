SPECIFICATION FairSpec
CONSTANTS
    o1 = o1
    o2 = o2
    o3 = o3
    k1 = k1
    k2 = k2
    Op = {o1, o2, o3}
    Key = {k1, k2}
    NoKey = NoKey
    NoOp = NoOp
INVARIANTS
    TypeOK
    CallerAgrees
    OneBodyPerKey
PROPERTIES
    EndedStaysEnded
    EveryCallReturns
CHECK_DEADLOCK FALSE
