SPECIFICATION Spec
CONSTANTS
    a1 = a1
    a2 = a2
    p1 = p1
    p2 = p2
    k1 = k1
    k2 = k2
    Main = Main
    NoAdk = NoAdk
    NoPid = NoPid
    Adk = {a1, a2}
    Pid = {p1, p2}
    Call = {k1}
    MaxLaunch = 2
    CanVerify = TRUE
    KillIsPrompt = TRUE
    StartsFail = TRUE
    PidReuse = TRUE
SYMMETRY Symmetry
INVARIANTS
    KillsOnlyOurs
CHECK_DEADLOCK FALSE
