\* Every interleaving of the thread operations, two priorities.
SPECIFICATION Spec
CONSTANTS
    w1 = w1
    w2 = w2
    Threads = {boot, idle, w1, w2}
    Boot = boot
    Idle = idle
    boot = boot
    idle = idle
    Objects = {}
    None = None
    HighestPriority = 2
    DefaultPriority = 1
    FullQuantum = 2
    ClientPoints = {"join", "exit", "detach"}
    CreatePriorities = {1, 2}
    SetPriorities <- OutOfRange
SYMMETRY WorkerSymmetry
INVARIANTS
    SchedulerConsistent
    LockDiscipline
    ReapsOnlyDead
    FreedUnreferenced
    NoForgottenJoiner
PROPERTIES
    SwitchPicksTop
