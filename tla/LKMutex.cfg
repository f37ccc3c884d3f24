\* Boot and two workers on one mutex.
SPECIFICATION MutexFairSpec
CONSTANTS
    w1 = w1
    w2 = w2
    boot = boot
    idle = idle
    mutex = mutex
    Threads = {boot, idle, w1, w2}
    Boot = boot
    Idle = idle
    Objects = {mutex}
    Mutex = mutex
    None = None
    HighestPriority = 1
    DefaultPriority = 1
    FullQuantum = 1
    ClientPoints = {"mutex", "wake_all"}
INVARIANTS
    MutualExclusion
    CountsOwnerAndWaiters
PROPERTIES
    MutexImplementsSpec
    AcquireReturns
