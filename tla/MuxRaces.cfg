SPECIFICATION Spec
CONSTANTS
    c1 = c1
    c2 = c2
    o1 = o1
    t1 = t1
    t2 = t2
    s1 = s1
    s2 = s2
    s3 = s3
    Conn = {c1, c2}
    Op = {o1}
    Target = {t1}
    Session = {s1, s2, s3}
    NoConn = NoConn
    NoTarget = NoTarget
    NoSession = NoSession
    InitialTabs = {t1}
    MaxReq = 3
    EventFirst = TRUE
    ReuseIds = FALSE
    Captures = FALSE
    Kinds = {"attach"}
    TabsVanish = FALSE
SYMMETRY Symmetry
INVARIANTS
    TypeOK
    LeaseBacked
    
    AnsweredAtMostOnce
PROPERTIES
    LeaseNeverStolen
CHECK_DEADLOCK FALSE
