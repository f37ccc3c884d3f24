----------------------------- MODULE LKSemaphore -----------------------------
(***************************************************************************)
(* lk/kernel/semaphore.c, with the semaphore calls UefiHost.c makes of it  *)
(* (sem_alloc, sem_up, sem_down, sem_free and the non-recursive mutex), on *)
(* the processor of LKKernel.  Every thread but Boot has been created and  *)
(* waits for its thread_resume.                                            *)
(*                                                                         *)
(* live, supplied and taken are the callers' side: whether the object is   *)
(* between sem_init and sem_destroy, the units put in by sem_init and      *)
(* sem_post, and the units that successful waits have returned with.       *)
(* stray are the threads in sem_down or mutex_lock whose sem_wait has      *)
(* failed because the semaphore is gone, and that call it again.           *)
(***************************************************************************)
EXTENDS LKKernel

CONSTANTS
    Sem,            \* the semaphore; it names its own wait queue
    InitialCounts,  \* arguments of sem_init
    MaxSupplied     \* bound on the units supplied before the next sem_init

ASSUME SemAssumption ==
    /\ Sem \in Objects
    /\ {"sem_wait", "wake_all"} \subseteq ClientPoints
    /\ InitialCounts \subseteq 0 .. MaxSupplied /\ MaxSupplied \in Nat
    /\ IsFiniteSet(Threads)

VARIABLES count, live, supplied, taken, stray

semvars == <<count, live, supplied, taken, stray>>
vars == <<k, kpc, irq, saved, notify, count, live, supplied, taken, stray>>

TypeOK ==
    /\ KernelTypeOK
    /\ count \in Int /\ live \in BOOLEAN
    /\ supplied \in 0 .. MaxSupplied /\ taken \in 0 .. MaxSupplied
    /\ stray \in SUBSET Threads

Init ==
    /\ InitKernel(Threads \ {Boot, Idle})
    /\ count = 0 /\ live = FALSE
    /\ supplied = 0 /\ taken = 0 /\ stray = {}

-----------------------------------------------------------------------------
\* A thread that may call any operation: it is not on its way round the loop of
\* sem_down.
Client(t) == Calls(t) /\ t \notin stray

\* sem_init, on memory in which nobody sleeps
sem_init(t, n) ==
    /\ Client(t) /\ ~live
    /\ \A u \in Threads : kpc[u] \notin {"sem_wait", "wake_all"}
    /\ count' = n /\ live' = TRUE
    /\ supplied' = n /\ taken' = 0
    /\ UNCHANGED <<kvars, stray>>

\* sem_wait, to its return or to the switch in wait_queue_block.  A stray whose
\* memory has become a semaphore again waits for that one.
sem_wait(t) ==
    /\ Calls(t) /\ live
    /\ count' = count - 1
    /\ IF count - 1 < 0
       THEN /\ k' = wait_queue_block(k, t, Sem)
            /\ LockAndLeaveAt(t, "sem_wait")
            /\ UNCHANGED <<notify, taken>>
       ELSE taken' = taken + 1 /\ UNCHANGED kvars
    /\ stray' = stray \ {t}
    /\ UNCHANGED <<live, supplied>>

\* sem_wait of a stray on memory that sem_free has given back or is about to: as
\* sem_destroy left it, with no unit and nobody to wake the thread, or holding
\* anything else, a count above zero for one.
SemWaitGone(t) ==
    /\ Calls(t) /\ ~live /\ t \in stray
    /\ \/ /\ k' = wait_queue_block(k, t, Sem)
          /\ LockAndLeaveAt(t, "sem_wait")
          /\ count' = count - 1 /\ UNCHANGED <<notify, stray>>
       \/ stray' = stray \ {t} /\ UNCHANGED <<kvars, count>>
    /\ UNCHANGED <<live, supplied, taken>>

\* the return from wait_queue_block in sem_wait; after an error sem_down and
\* mutex_lock yield, and call sem_wait again
SemWaitReturn(t) ==
    /\ At(t, "sem_wait")
    /\ UnlockTo(t, "run")
    /\ taken' = IF k.ret[t] = "ok" /\ live THEN taken + 1 ELSE taken
    /\ stray' = IF k.ret[t] = "ok" THEN stray ELSE stray \cup {t}
    /\ UNCHANGED <<k, notify, count, live, supplied>>

\* Mutant for UnitsConserved: an off-by-one in the test of the count.
sem_trywait_AtZero(t) ==
    /\ Client(t) /\ live /\ count >= 0
    /\ count' = count - 1 /\ taken' = taken + 1
    /\ UNCHANGED <<kvars, live, supplied, stray>>

sem_trywait(t) ==
    /\ Client(t) /\ live
    /\ count > 0                       \* else ERR_NOT_READY
    /\ count' = count - 1 /\ taken' = taken + 1
    /\ UNCHANGED <<kvars, live, supplied, stray>>

\* sem_timedwait with timeout 0: wait_queue_block refuses at once, and the
\* decrement is taken back
sem_timedwait(t) ==
    /\ Client(t) /\ live
    /\ LET n == count - 1 IN
       IF n < 0 THEN count' = n + 1 /\ UNCHANGED taken
       ELSE count' = n /\ taken' = taken + 1
    /\ UNCHANGED <<kvars, live, supplied, stray>>

\* Mutant for CountsWaiters: an off-by-one in the test of the count.
sem_post_Strict(t, resched) ==
    /\ Client(t) /\ live /\ supplied < MaxSupplied
    /\ count' = count + 1 /\ supplied' = supplied + 1
    /\ IF count + 1 < 0 /\ k.waitq[Sem] # << >>
       THEN k' = WakeOneResched(k, t, Sem, "ok") /\ LockAndLeaveAt(t, "unlock")
       ELSE UNCHANGED <<k, kpc, irq, saved>>
    /\ UNCHANGED <<notify, live, taken, stray>>

\* sem_post; sem_up and mutex_unlock reschedule
sem_post(t, resched) ==
    /\ Client(t) /\ live /\ supplied < MaxSupplied
    /\ count' = count + 1 /\ supplied' = supplied + 1
    /\ IF count + 1 <= 0 /\ k.waitq[Sem] # << >>
       THEN IF resched
            THEN k' = WakeOneResched(k, t, Sem, "ok") /\ LockAndLeaveAt(t, "unlock")
            ELSE k' = WakeOne(k, Sem, "ok") /\ UNCHANGED <<kpc, irq, saved>>
       ELSE UNCHANGED <<k, kpc, irq, saved>>
    /\ UNCHANGED <<notify, live, taken, stray>>

\* Mutant for WaiterReturns: nobody is woken.
sem_destroy_WakesNobody(t) ==
    /\ Client(t) /\ live
    /\ count' = 0 /\ live' = FALSE
    /\ UNCHANGED <<kvars, supplied, taken, stray>>

\* sem_destroy: wait_queue_destroy is wait_queue_wake_all with a reschedule
sem_destroy(t) ==
    /\ Client(t) /\ live
    /\ count' = 0 /\ live' = FALSE
    /\ WakeAllBegin(t, Sem)
    /\ UNCHANGED <<supplied, taken, stray>>

SemDestroyLoop(t) ==
    /\ WakeAllStep(t, Sem, "destroyed") \/ WakeAllEnd(t, Sem)
    /\ UNCHANGED semvars

SemOps(t) ==
    \/ \E n \in InitialCounts : sem_init(t, n)
    \/ \E r \in BOOLEAN : sem_post(t, r)
    \/ sem_wait(t) \/ SemWaitGone(t) \/ SemWaitReturn(t) \/ sem_trywait(t) \/ sem_timedwait(t)
    \/ sem_destroy(t) \/ SemDestroyLoop(t)

Next ==
    \/ KernelNext /\ UNCHANGED semvars
    \/ \E t, n \in Threads : ResumeStep(t, n) /\ t \notin stray /\ UNCHANGED semvars
    \/ \E t \in Threads : SemOps(t)

Spec == Init /\ [][Next]_vars

Fairness ==
    /\ WF_vars(idle_thread_routine /\ UNCHANGED semvars)
    /\ \A t \in Threads :
          /\ SF_vars(thread_yield(t) /\ UNCHANGED semvars)
          /\ WF_vars((ReturnFromResched(t) \/ initial_thread_func(t) \/ ReturnFromNotify(t))
                     /\ UNCHANGED semvars)
          /\ WF_vars(SemWaitReturn(t) \/ SemDestroyLoop(t))

FairSpec == Spec /\ Fairness

-----------------------------------------------------------------------------
\* The threads that were given a unit and have not returned from sem_wait.
Served == {t \in Threads : kpc[t] = "sem_wait" /\ k.state[t] # "blocked" /\ k.ret[t] = "ok"}

\* A negative count is the number of threads in the wait queue, and nobody
\* waits while units are left: the test of ++count in sem_post finds every
\* waiter and the test of --count in sem_wait never lets two threads share one.
CountsWaiters ==
    live => Len(k.waitq[Sem]) = IF count < 0 THEN -count ELSE 0

\* No unit is lost or made up: what was supplied has been returned with, is on
\* its way to a woken waiter, or is still in the count.
UnitsConserved ==
    live => supplied = taken + Cardinality(Served) + (IF count > 0 THEN count ELSE 0)

\* The semaphore implements the abstract one.
Abstract == INSTANCE SemaphoreSpec WITH
    Users <- Threads, open <- live, value <- IF count > 0 THEN count ELSE 0,
    queue <- k.waitq[Sem], served <- Served
SemImplementsSpec == Abstract!Spec

\* A thread that sem_wait has put to sleep leaves wait_queue_block once it has
\* been woken or the semaphore has been destroyed.  A stray that sleeps in a
\* semaphore that was gone before is not among them: nothing wakes it.
WaiterReturns ==
    \A t \in Threads :
        (kpc[t] = "sem_wait" /\ t \notin stray /\ (k.state[t] # "blocked" \/ ~live))
            ~> (kpc[t] # "sem_wait")
=============================================================================
