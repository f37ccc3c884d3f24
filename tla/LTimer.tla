------------------------------- MODULE LTimer -------------------------------
(***************************************************************************)
(* The timers of UefiHost.c (ltimer_t): a firmware timer whose             *)
(* notification signals an lk event, a thread that waits for the event and *)
(* calls fn, and timer_free, which stops that thread.  One timer, from the *)
(* end of timer_alloc's thread_detach on; its thread frees it.  Boot       *)
(* stands for the LKL thread that owns the timer.  Event is timer->cond,   *)
(* with the operations of LKEvent; Next and Spec are those of LKEvent, the *)
(* timer's own begin with Timer.                                           *)
(***************************************************************************)
EXTENDS LKEvent

CONSTANT TimerThread     \* timer->thread

ASSUME TimerAssumption == TimerThread \in Threads \ {Boot, Idle}

VARIABLES
    tpc,        \* where timer_thread stands
    fpc,        \* where the owner stands in timer_free
    stop,       \* timer->request_stop
    armed,      \* the firmware timer is set
    mem,        \* timer is allocated
    due         \* a notification has not been followed by a call of fn yet

timervars == <<tpc, fpc, stop, armed, mem, due>>
tvars == <<k, kpc, irq, saved, notify, signaled, auto, live, tpc, fpc, stop, armed, mem, due>>

TimerTypeOK ==
    /\ TypeOK
    /\ tpc \in {"loop", "wait", "check", "fn", "destroy", "free", "exit", "gone"}
    /\ fpc \in {"alloc", "idle", "closed", "stopped", "done"}
    /\ stop \in BOOLEAN /\ armed \in BOOLEAN /\ mem \in BOOLEAN /\ due \in BOOLEAN

\* timer_alloc up to thread_resume
TimerInit ==
    /\ InitKernel(Threads \ {Boot, Idle})
    /\ signaled = FALSE /\ auto = TRUE /\ live = TRUE
    /\ tpc = "loop" /\ fpc = "alloc"
    /\ stop = FALSE /\ armed = FALSE /\ mem = TRUE /\ due = FALSE

-----------------------------------------------------------------------------
\* the thread_resume in timer_alloc
timer_alloc ==
    /\ fpc = "alloc" /\ fpc' = "idle"
    /\ ResumeStep(Boot, TimerThread)
    /\ UNCHANGED <<eventvars, tpc, stop, armed, mem, due>>

\* timer_set_oneshot, by the owner or by fn
timer_set_oneshot ==
    /\ fpc = "idle"
    /\ Own(Boot) \/ (Own(TimerThread) /\ tpc = "fn")
    /\ armed' = TRUE
    /\ UNCHANGED <<kvars, eventvars, tpc, fpc, stop, mem, due>>

\* LTimerCallback, as a notification in thread t: event_signal with a
\* reschedule, which switches inside the notification
LTimerCallback(t) ==
    /\ Interruptible(t) /\ armed
    /\ armed' = FALSE /\ due' = TRUE
    /\ SignalFlag
    /\ IF signaled \/ k.waitq[Event] = << >>
       THEN UNCHANGED kvars
       ELSE /\ k' = WakeOneResched(k, t, Event, "ok")
            /\ irq' = FALSE /\ notify' = t
            /\ UNCHANGED <<kpc, saved>>
    /\ UNCHANGED <<auto, live, tpc, fpc, stop, mem>>

\* Mutant for ContextValid: request_stop is set before the firmware event is closed.
timer_free_StopFirst ==
    /\ Own(Boot)
    /\ \/ /\ fpc = "idle" /\ fpc' = "closed"
          /\ stop' = TRUE
          /\ UNCHANGED <<kvars, eventvars, armed>>
       \/ /\ fpc = "closed" /\ fpc' = "stopped"
          /\ armed' = FALSE
          /\ UNCHANGED <<kvars, eventvars, stop>>
       \/ /\ fpc = "stopped" /\ fpc' = "done"
          /\ event_signal(Boot, TRUE)
          /\ UNCHANGED <<stop, armed>>
    /\ UNCHANGED <<tpc, mem, due>>

\* Mutant for FreedInTheEnd: timer_thread is not woken.
timer_free_Silent ==
    /\ Own(Boot)
    /\ \/ /\ fpc = "idle" /\ fpc' = "closed" /\ armed' = FALSE /\ UNCHANGED stop
       \/ /\ fpc = "closed" /\ fpc' = "stopped" /\ stop' = TRUE /\ UNCHANGED armed
       \/ /\ fpc = "stopped" /\ fpc' = "done" /\ UNCHANGED <<stop, armed>>
    /\ UNCHANGED <<kvars, eventvars, tpc, mem, due>>

\* timer_free in three steps: CloseEvent, the store to request_stop (a tick
\* may come before and after it), and event_signal
timer_free ==
    /\ Own(Boot)
    /\ \/ /\ fpc = "idle" /\ fpc' = "closed"
          /\ armed' = FALSE
          /\ UNCHANGED <<kvars, eventvars, stop>>
       \/ /\ fpc = "closed" /\ fpc' = "stopped"
          /\ stop' = TRUE
          /\ UNCHANGED <<kvars, eventvars, armed>>
       \/ /\ fpc = "stopped" /\ fpc' = "done"
          /\ event_signal(Boot, TRUE)
          /\ UNCHANGED <<stop, armed>>
    /\ UNCHANGED <<tpc, mem, due>>

\* timer_thread: the test of the loop, event_wait, the test after it, fn,
\* event_destroy, FreePool, and the end of a detached thread
TimerLoop ==
    /\ Own(TimerThread)
    /\ \/ /\ tpc = "loop" /\ tpc' = IF stop THEN "destroy" ELSE "wait"
          /\ UNCHANGED <<kvars, eventvars, mem, due>>
       \/ /\ tpc = "wait" /\ tpc' = "check"
          /\ event_wait(TimerThread)
          /\ UNCHANGED <<mem, due>>
       \/ /\ tpc = "check" /\ stop /\ tpc' = "destroy"
          /\ UNCHANGED <<kvars, eventvars, mem, due>>
       \/ /\ tpc = "check" /\ ~stop /\ tpc' = "fn"
          /\ due' = FALSE
          /\ UNCHANGED <<kvars, eventvars, mem>>
       \/ /\ tpc = "fn" /\ tpc' = "loop"
          /\ UNCHANGED <<kvars, eventvars, mem, due>>
       \/ /\ tpc = "destroy" /\ tpc' = "free"
          /\ event_destroy(TimerThread)
          /\ UNCHANGED <<mem, due>>
       \/ /\ tpc = "free" /\ tpc' = "exit"
          /\ mem' = FALSE
          /\ UNCHANGED <<kvars, eventvars, due>>
       \/ /\ tpc = "exit" /\ tpc' = "gone"
          /\ k' = thread_resched([k EXCEPT !.state[TimerThread] = "dead"])
          /\ LockAndLeaveAt(TimerThread, "done")
          /\ UNCHANGED <<eventvars, notify, mem, due>>
    /\ UNCHANGED <<fpc, stop, armed>>

\* timer_thread's return from wait_queue_block
EventReturn == EventWaitReturn(TimerThread) /\ UNCHANGED timervars

\* thread_yield, by the owner outside timer_free, by fn, and at the end of
\* thread_resume
Yield(t) ==
    /\ \/ kpc[t] = "yield"
       \/ t = Boot /\ fpc \in {"idle", "done"}
       \/ t = TimerThread /\ tpc = "fn"
    /\ thread_yield(t)
    /\ UNCHANGED <<eventvars, timervars>>

Processor == ProcessorNext /\ UNCHANGED <<eventvars, timervars>>

TimerNext ==
    \/ Processor
    \/ timer_alloc \/ timer_set_oneshot \/ timer_free \/ TimerLoop \/ EventReturn
    \/ \E t \in Threads : LTimerCallback(t) \/ Yield(t)

TimerSpec == TimerInit /\ [][TimerNext]_tvars

TimerFairness ==
    /\ WF_tvars(idle_thread_routine /\ UNCHANGED <<eventvars, timervars>>)
    /\ WF_tvars(timer_alloc) /\ WF_tvars(EventReturn) /\ SF_tvars(TimerLoop)
    /\ SF_tvars(fpc \in {"closed", "stopped"} /\ timer_free)
    /\ \A t \in Threads :
          /\ SF_tvars(Yield(t))
          /\ WF_tvars((ReturnFromResched(t) \/ initial_thread_func(t) \/ ReturnFromNotify(t))
                     /\ UNCHANGED <<eventvars, timervars>>)

TimerFairSpec == TimerSpec /\ TimerFairness

-----------------------------------------------------------------------------
\* The firmware never holds a timer whose Context has been freed: timer_free
\* closes the firmware event before timer_thread can learn that it may free.
ContextValid == armed => mem /\ live

\* timer_thread is asleep only while there is nothing for it to do: no signal
\* and no completed timer_free is waiting for it.
NoMissedWakeup ==
    k.state[TimerThread] = "blocked" => ~signaled /\ ~due /\ fpc # "done"

\* Every notification is followed by a call of fn, unless the timer is stopped.
DueTimerRuns == due ~> (tpc = "fn" \/ stop)

\* timer_free ends timer_thread and frees the timer.
FreedInTheEnd == stop ~> (~mem /\ k.state[TimerThread] = "dead")

\* The comment of event_destroy: a destroyed event may not be used until it is
\* initialised again.  timer_free is about to signal timer->cond.
SignalsLiveEvent == fpc = "stopped" => live
=============================================================================
