SPECIFICATION FairSpec
CONSTANTS
    Shell = {s1}
    Caller = {c1, c2}
    Agent = {a1, a2}
    Adk = {A, B}
    NoShell = NoShell
    NoAgent = NoAgent
    NoAdk = NoAdk
    NoThread = NoThread
    MaxCalls = 3
    Hangs = FALSE
    Faults = TRUE
    Reaps = TRUE
    DevReset = FALSE
INVARIANTS
    TypeOK
    NoStrayAgent
    RelaunchIsQuiet
PROPERTIES
    ScopedMessages
    CallsEnd
CHECK_DEADLOCK FALSE
