------------------------------- MODULE LKEvent -------------------------------
(***************************************************************************)
(* lk/kernel/event.c on the processor of LKKernel: every thread but Boot   *)
(* has been created and waits for its thread_resume.  live is the callers' *)
(* side: whether the object is between event_init and event_destroy.       *)
(***************************************************************************)
EXTENDS LKKernel

CONSTANT Event    \* the event; it names its own wait queue

ASSUME EventAssumption ==
    /\ Objects = {Event}
    /\ ClientPoints = {"event", "wake_all", "wake_quiet"}

VARIABLES
    signaled,   \* e->signaled
    auto,       \* e->flags & EVENT_FLAG_AUTOUNSIGNAL
    live

eventvars == <<signaled, auto, live>>
vars == <<k, kpc, irq, saved, notify, signaled, auto, live>>

TypeOK ==
    /\ KernelTypeOK
    /\ signaled \in BOOLEAN /\ auto \in BOOLEAN /\ live \in BOOLEAN

Init ==
    /\ InitKernel(Threads \ {Boot, Idle})
    /\ signaled = FALSE /\ auto = FALSE /\ live = FALSE

-----------------------------------------------------------------------------
\* event_init, on memory that nobody is still waiting on
event_init(t, initial, flag) ==
    /\ Calls(t) /\ ~live
    /\ \A u \in Threads : kpc[u] \notin ClientPoints
    /\ signaled' = initial /\ auto' = flag /\ live' = TRUE
    /\ UNCHANGED kvars

\* event_wait, to its return or to the switch in wait_queue_block
event_wait(t) ==
    /\ Calls(t)
    /\ IF signaled
       THEN signaled' = ~auto /\ UNCHANGED kvars
       ELSE /\ k' = wait_queue_block(k, t, Event)
            /\ LockAndLeaveAt(t, "event")
            /\ UNCHANGED <<signaled, notify>>
    /\ UNCHANGED <<auto, live>>

\* the return from wait_queue_block in event_wait
EventWaitReturn(t) ==
    /\ At(t, "event")
    /\ UnlockTo(t, "run")
    /\ UNCHANGED <<k, notify, signaled, auto, live>>

\* event_wait_timeout with timeout 0 on a signaled event; otherwise it returns
\* ERR_TIMED_OUT and changes nothing
event_wait_timeout(t) ==
    /\ Calls(t) /\ signaled
    /\ signaled' = ~auto
    /\ UNCHANGED <<kvars, auto, live>>

\* Mutant for NoSleeperLeftBehind and EventKeepsRules: signaled although a thread was let through.
SignalFlag_Always == signaled' = TRUE

\* Mutant for NoMissedWakeup and DueTimerRuns: a signal nobody waits for is lost.
SignalFlag_Lost == signaled' = (signaled \/ ~auto)

\* What event_signal does to e->signaled.
SignalFlag == signaled' = (signaled \/ ~auto \/ k.waitq[Event] = << >>)

\* event_signal(reschedule) from a thread's own code
event_signal(t, resched) ==
    /\ Calls(t)
    /\ SignalFlag
    /\ IF signaled \/ k.waitq[Event] = << >>
       THEN UNCHANGED kvars
       ELSE \/ /\ auto /\ resched
               /\ k' = WakeOneResched(k, t, Event, "ok")
               /\ LockAndLeaveAt(t, "unlock") /\ UNCHANGED notify
            \/ /\ auto /\ ~resched
               /\ k' = WakeOne(k, Event, "ok")
               /\ UNCHANGED <<kpc, irq, saved, notify>>
            \/ /\ ~auto /\ resched
               /\ WakeAllBegin(t, Event)
            \/ /\ ~auto /\ ~resched
               /\ LockAndLeaveAt(t, "wake_quiet") /\ UNCHANGED <<k, notify>>
    /\ UNCHANGED <<auto, live>>

\* wait_queue_wake_all of event_signal and event_destroy, with a reschedule
WakeAllLoop(t) ==
    /\ WakeAllStep(t, Event, IF live THEN "ok" ELSE "destroyed") \/ WakeAllEnd(t, Event)
    /\ UNCHANGED eventvars

\* wait_queue_wake_all of event_signal without one
WakeQuietLoop(t) ==
    /\ At(t, "wake_quiet")
    /\ IF k.waitq[Event] # << >>
       THEN k' = WakeHead(k, Event, "ok") /\ UNCHANGED <<kpc, irq, saved>>
       ELSE UnlockTo(t, "run") /\ UNCHANGED k
    /\ UNCHANGED <<notify, signaled, auto, live>>

event_unsignal(t) ==
    /\ Calls(t)
    /\ signaled' = FALSE
    /\ UNCHANGED <<kvars, auto, live>>

\* Mutant for WaiterReturns: nobody is woken.
event_destroy_WakesNobody(t) ==
    /\ Calls(t)
    /\ signaled' = FALSE /\ auto' = FALSE /\ live' = FALSE
    /\ UNCHANGED kvars

event_destroy(t) ==
    /\ Calls(t)
    /\ signaled' = FALSE /\ auto' = FALSE /\ live' = FALSE
    /\ WakeAllBegin(t, Event)

EventOps(t) ==
    \/ \E i, f \in BOOLEAN : event_init(t, i, f)
    \/ /\ live
       /\ \/ event_wait(t) \/ event_wait_timeout(t) \/ event_unsignal(t) \/ event_destroy(t)
          \/ \E r \in BOOLEAN : event_signal(t, r)
    \/ EventWaitReturn(t) \/ WakeAllLoop(t) \/ WakeQuietLoop(t)

Next ==
    \/ KernelNext /\ UNCHANGED eventvars
    \/ \E t, n \in Threads : ResumeStep(t, n) /\ UNCHANGED eventvars
    \/ \E t \in Threads : EventOps(t)

Spec == Init /\ [][Next]_vars

Fairness ==
    /\ WF_vars(idle_thread_routine /\ UNCHANGED eventvars)
    /\ \A t \in Threads :
          /\ SF_vars(thread_yield(t) /\ UNCHANGED eventvars)
          /\ WF_vars((ReturnFromResched(t) \/ initial_thread_func(t) \/ ReturnFromNotify(t))
                     /\ UNCHANGED eventvars)
          /\ WF_vars(EventWaitReturn(t) \/ WakeAllLoop(t) \/ WakeQuietLoop(t))

FairSpec == Spec /\ Fairness

-----------------------------------------------------------------------------
Waking == \E t \in Threads : kpc[t] \in {"wake_all", "wake_quiet"}

\* No thread sleeps on a signaled event or on a destroyed one, once the call
\* that signaled or destroyed it has left the lock.
NoSleeperLeftBehind == (signaled \/ ~live) /\ ~Waking => k.waitq[Event] = << >>

\* The threads let through that have not returned from event_wait.
Released == {t \in Threads : kpc[t] = "event" /\ k.state[t] # "blocked" /\ k.ret[t] = "ok"}

\* The event keeps the rules of event.h.
Abstract == INSTANCE EventSpec WITH
    Users <- Threads, open <- live, queue <- k.waitq[Event], released <- Released
EventKeepsRules == Abstract!Spec

\* A thread that event_wait has put to sleep returns once the event has let it
\* through, has become signaled or has been destroyed.
WaiterReturns ==
    \A t \in Threads :
        (kpc[t] = "event" /\ (k.state[t] # "blocked" \/ signaled \/ ~live)) ~> (kpc[t] # "event")
=============================================================================
