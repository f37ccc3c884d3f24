\* Boot and two workers on one semaphore, up to MaxSupplied units.
SPECIFICATION FairSpec
CONSTANTS
    w1 = w1
    w2 = w2
    boot = boot
    idle = idle
    sem = sem
    Threads = {boot, idle, w1, w2}
    Boot = boot
    Idle = idle
    Objects = {sem}
    Sem = sem
    None = None
    HighestPriority = 1
    DefaultPriority = 1
    FullQuantum = 1
    ClientPoints = {"sem_wait", "wake_all"}
    InitialCounts = {0, 1}
    MaxSupplied = 2
INVARIANTS
    CountsWaiters
    UnitsConserved
PROPERTIES
    SemImplementsSpec
    WaiterReturns
