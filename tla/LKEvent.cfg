\* Boot and two workers on one event, of either kind.
SPECIFICATION FairSpec
CONSTANTS
    w1 = w1
    w2 = w2
    boot = boot
    idle = idle
    event = event
    Threads = {boot, idle, w1, w2}
    Boot = boot
    Idle = idle
    Objects = {event}
    Event = event
    None = None
    HighestPriority = 1
    DefaultPriority = 1
    FullQuantum = 1
    ClientPoints = {"event", "wake_all", "wake_quiet"}
INVARIANTS
    NoSleeperLeftBehind
PROPERTIES
    EventKeepsRules
    WaiterReturns
