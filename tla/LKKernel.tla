------------------------------ MODULE LKKernel ------------------------------
(***************************************************************************)
(* The processor that the lk kernel code shares with the UEFI firmware:    *)
(* which thread executes, where each thread stands, whether interrupts are *)
(* on, and the periodic timer event whose notification function preempts.  *)
(* Modules that add operations (threads, semaphores, mutexes, events)      *)
(* extend this one.                                                        *)
(*                                                                         *)
(* Atomicity.  Code between THREAD_LOCK and THREAD_UNLOCK runs with        *)
(* interrupts off on one processor, so it is one step unless it switches   *)
(* threads.  The thread switched to continues after its own earlier call   *)
(* of thread_resched, still inside its own critical section: the points    *)
(* named in kpc are those continuations.                                   *)
(***************************************************************************)
EXTENDS LKSched

CONSTANT ClientPoints   \* further continuations, of the modules extending this one

VARIABLES
    k,        \* the kernel state of LKSched
    kpc,      \* kpc[t]: where t stands (see KernelPoints)
    irq,      \* processor interrupts enabled (gCpu->GetInterruptState)
    saved,    \* saved[t]: the interrupt state in t's THREAD_LOCK(state)
    notify    \* the thread inside a TPL_CALLBACK notification, or None

kvars == <<k, kpc, irq, saved, notify>>

(* "run"     in its own code, outside the lock                             *)
(* "start"   never run; its context enters initial_thread_func             *)
(* "unlock"  inside thread_resched, with THREAD_UNLOCK the next thing      *)
(* "yield"   in thread_resume, about to call thread_yield                  *)
(* "reap"    in thread_join, past THREAD_UNLOCK, about to free the thread  *)
(* "done"    its last thread_resched never returns                         *)
OpenPoints == {"run", "yield", "reap"}      \* outside every critical section
KernelPoints == OpenPoints \cup {"start", "unlock", "done"} \cup ClientPoints

ASSUME ClientPointsAssumption ==
    ClientPoints \cap (OpenPoints \cup {"start", "unlock", "done"}) = {}

KernelTypeOK ==
    /\ k \in KernelStates
    /\ kpc \in [Threads -> KernelPoints]
    /\ irq \in BOOLEAN
    /\ saved \in [Threads -> BOOLEAN]
    /\ notify \in Threads \cup {None}

\* t has the processor and executes its own code, not a notification.
At(t, pc) == k.cur = t /\ notify # t /\ kpc[t] = pc
Own(t) == At(t, "run")

\* A thread that may call an operation of one of the objects.
Calls(t) == Own(t) /\ t # Idle

\* Mutant for LockDiscipline: interrupts stay as they were.
LockAndLeaveAt_IrqOn(t, pc) ==
    /\ saved' = [saved EXCEPT ![t] = irq]
    /\ kpc' = [kpc EXCEPT ![t] = pc]
    /\ UNCHANGED irq

\* THREAD_LOCK in t, followed by a switch; t will continue at pc.
LockAndLeaveAt(t, pc) ==
    /\ saved' = [saved EXCEPT ![t] = irq]
    /\ irq' = FALSE
    /\ kpc' = [kpc EXCEPT ![t] = pc]

\* THREAD_UNLOCK in t, which then continues at pc.
UnlockTo(t, pc) ==
    /\ irq' = saved[t]
    /\ saved' = [saved EXCEPT ![t] = FALSE]
    /\ kpc' = [kpc EXCEPT ![t] = pc]

\* thread_init_early, thread_init, thread_create_idle and
\* thread_set_priority(DEFAULT_PRIORITY), which finds no other thread to run;
\* the threads of the set new have been created at DEFAULT_PRIORITY since.
InitialState(new) ==
    [state   |-> [t \in Threads |-> IF t = Boot THEN "running"
                                    ELSE IF t \in new \cup {Idle} THEN "suspended" ELSE "unused"],
     prio    |-> [t \in Threads |-> IF t = Idle THEN IdlePriority ELSE DefaultPriority],
     quantum |-> [t \in Threads |-> 0],
     bwq     |-> [t \in Threads |-> None],
     ret     |-> [t \in Threads |-> "ok"],
     runq    |-> [p \in Prios |-> << >>],
     bitmap  |-> {},
     waitq   |-> [q \in Queues |-> << >>],
     wcount  |-> [q \in Queues |-> 0],
     cur     |-> Boot]

InitKernel(new) ==
    /\ k = InitialState(new)
    /\ kpc = [t \in Threads |-> IF t = Boot THEN "run"
                                ELSE IF t \in new \cup {Idle} THEN "start" ELSE "done"]
    /\ irq = TRUE
    /\ saved = [t \in Threads |-> FALSE]
    /\ notify = None

-----------------------------------------------------------------------------
\* thread_yield, from a thread's own code or from the end of thread_resume
thread_yield(t) ==
    /\ At(t, "run") \/ At(t, "yield")
    /\ t # Idle
    /\ k' = YieldStep(k, t)
    /\ LockAndLeaveAt(t, "unlock")
    /\ UNCHANGED notify

\* THREAD_UNLOCK after a switch, and the return to the caller
ReturnFromResched(t) ==
    /\ At(t, "unlock")
    /\ UnlockTo(t, "run")
    /\ UNCHANGED <<k, notify>>

\* initial_thread_func: releases the lock, and does not turn interrupts on.
\* The message get_top_thread prints before the idle thread's first run goes
\* through the firmware's console, which may leave them on.
initial_thread_func(t) ==
    /\ At(t, "start")
    /\ kpc' = [kpc EXCEPT ![t] = "run"]
    /\ IF t = Idle THEN irq' \in BOOLEAN ELSE irq' = irq
    /\ UNCHANGED <<k, saved, notify>>

\* idle_thread_routine: arch_idle is a call of thread_preempt
idle_thread_routine ==
    /\ Own(Idle)
    /\ k' = PreemptStep(k, Idle)
    /\ LockAndLeaveAt(Idle, "unlock")
    /\ UNCHANGED notify

\* The firmware delivers a TPL_CALLBACK notification to the current thread:
\* interrupts are on and no notification is in progress.
Interruptible(t) ==
    /\ k.cur = t /\ irq /\ notify = None
    /\ kpc[t] \in OpenPoints

\* TimerCallback: the tick, and thread_preempt when the quantum is used up.
\* A thread preempted here is inside the notification until it runs again,
\* and the firmware's task priority level stays raised for everyone.
TimerCallback(t) ==
    /\ Interruptible(t)
    /\ LET z == thread_timer_tick(k, t) IN
       IF TickExpired(k, t)
       THEN k' = PreemptStep(z, t) /\ irq' = FALSE /\ notify' = t
       ELSE k' = z /\ UNCHANGED <<irq, notify>>
    /\ UNCHANGED <<kpc, saved>>

\* THREAD_UNLOCK in the notification function, and its return to the firmware
ReturnFromNotify(t) ==
    /\ k.cur = t /\ notify = t
    /\ irq' = TRUE
    /\ notify' = None
    /\ UNCHANGED <<k, kpc, saved>>

\* Any boot service that raises and restores the task priority level (every
\* memory allocation does) returns with interrupts enabled.
BootService(t) ==
    /\ Own(t) /\ t # Idle /\ ~irq
    /\ irq' = TRUE
    /\ UNCHANGED <<k, kpc, saved, notify>>

\* The steps no thread's own code chooses.
ProcessorNext ==
    \/ idle_thread_routine
    \/ \E t \in Threads :
          \/ ReturnFromResched(t) \/ initial_thread_func(t)
          \/ TimerCallback(t) \/ ReturnFromNotify(t) \/ BootService(t)

KernelNext == ProcessorNext \/ \E t \in Threads : thread_yield(t)

\* thread_resume of n; with interrupts on, t goes on to call thread_yield
ResumeStep(t, n) ==
    /\ Own(t) /\ t # Idle
    /\ k.state[n] = "suspended" /\ n # Idle
    /\ k' = ReadyHead(k, n)
    /\ kpc' = [kpc EXCEPT ![t] = IF irq THEN "yield" ELSE "run"]
    /\ UNCHANGED <<irq, saved, notify>>

\* wait_queue_wake_all(q, true, err), the lock included: with a thread in the
\* queue the caller goes READY first, and switches once the queue is empty.
WakeAllBegin(t, q) ==
    /\ IF k.wcount[q] > 0
       THEN k' = ReadyHead(k, t) /\ LockAndLeaveAt(t, "wake_all")
       ELSE UNCHANGED <<k, kpc, irq, saved>>
    /\ UNCHANGED notify

WakeAllStep(t, q, err) ==
    /\ At(t, "wake_all") /\ k.waitq[q] # << >>
    /\ k' = WakeHead(k, q, err)
    /\ UNCHANGED <<kpc, irq, saved, notify>>

WakeAllEnd(t, q) ==
    /\ At(t, "wake_all") /\ k.waitq[q] = << >>
    /\ k' = thread_resched(k)
    /\ kpc' = [kpc EXCEPT ![t] = "unlock"]
    /\ UNCHANGED <<irq, saved, notify>>

\* Whenever the processor changes hands, no READY thread has a higher priority
\* than the thread that gets it.
PicksTop ==
    k'.cur # k.cur =>
        \A t \in Threads : k'.state[t] = "ready" => k'.prio[t] <= k'.prio[k'.cur]

-----------------------------------------------------------------------------
(* Where a thread that does not execute may stand.                         *)

\* A thread waiting for the processor continues inside a critical section (or
\* inside the notification that preempted it) and never in the open.
Parked(t) == notify = t \/ kpc[t] \notin OpenPoints \cup {"done"}

\* A thread without the processor that may get it again is parked, a parked
\* thread that gets the processor has interrupts off until it has left its
\* critical section, and the thread that a notification preempted waits for
\* the processor, nothing else.
LockDiscipline ==
    /\ \A t \in Threads :
          t # k.cur /\ k.state[t] \in {"suspended", "ready", "blocked"} => Parked(t)
    /\ Parked(k.cur) => ~irq
    /\ notify # None => k.state[notify] \in {"ready", "running"} /\ kpc[notify] \in OpenPoints

\* The current thread is RUNNING, except inside thread_exit and inside a
\* wait_queue_wake_all that ends with a switch.
CurrentRuns == kpc[k.cur] \notin {"exit", "wake_all"} => k.state[k.cur] = "running"

\* The queues of thread.c are consistent whenever the lock is free, and the
\* thread that has the processor is the RUNNING one.
SchedulerConsistent == QueueInv(k) /\ CurrentRuns
=============================================================================
