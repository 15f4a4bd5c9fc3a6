SPECIFICATION FairSpec
CONSTANTS
    o1 = o1
    o2 = o2
    s1 = s1
    s2 = s2
    r1 = r1
    r2 = r2
    NoOp = NoOp
    NoSession = NoSession
    NoReq = NoReq
    Op = {o1, o2}
    Session = {s1}
    Req = {r1}
    MaxCall = 2
    ClientKinds = {"evaluate", "terminate", "enable", "disable", "release"}
    Outcomes = {"cancelled"}
    CallsExpire = FALSE
    CleanupsExpire = TRUE
    SocketCloses = TRUE
    SessionsVanish = FALSE
INVARIANTS
    OneOperationEvaluates
PROPERTIES
    EndedLeavesNothing
CHECK_DEADLOCK FALSE
