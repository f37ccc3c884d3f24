\* Liveness with every thread at DEFAULT_PRIORITY.
SPECIFICATION FairSpec
CONSTANTS
    w1 = w1
    w2 = w2
    Threads = {boot, idle, w1, w2}
    Boot = boot
    Idle = idle
    boot = boot
    idle = idle
    Objects = {}
    None = None
    HighestPriority = 2
    DefaultPriority = 1
    FullQuantum = 1
    ClientPoints = {"join", "exit", "detach"}
    CreatePriorities = {1}
    SetPriorities = {}
PROPERTIES
    JoinReturns
    ReadyRuns
