\* timer_free against timer_thread.
SPECIFICATION TimerSpec
CONSTANTS
    boot = boot
    idle = idle
    timer = timer
    event = event
    Threads = {boot, idle, timer}
    Boot = boot
    Idle = idle
    TimerThread = timer
    Objects = {event}
    Event = event
    None = None
    HighestPriority = 1
    DefaultPriority = 1
    FullQuantum = 2
    ClientPoints = {"event", "wake_all", "wake_quiet"}
INVARIANTS
    SignalsLiveEvent
