SPECIFICATION Spec
CONSTANTS
    c1 = c1
    c2 = c2
    k1 = k1
    k2 = k2
    Managed = Managed
    h2 = h2
    Child = {k1, k2}
    Caller = {c1, c2}
    Host = {Managed, h2}
    Worker = Worker
    NoChild = NoChild
    NoHost = NoHost
    NoOne = NoOne
    StopsFail = TRUE
    DeathSignal = TRUE
PROPERTIES
    ServerOutlivesItsStarter
CHECK_DEADLOCK FALSE
