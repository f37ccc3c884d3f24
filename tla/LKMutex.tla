------------------------------- MODULE LKMutex -------------------------------
(***************************************************************************)
(* lk/kernel/mutex.c, the mutex UefiHost.c hands out for mutex_alloc(1),   *)
(* on the processor of LKKernel.                                           *)
(*                                                                         *)
(* mcount and holder are m->count and m->holder.  mlive and inside are the *)
(* callers' side: whether the object is between mutex_init and             *)
(* mutex_destroy, and the threads whose mutex_acquire has succeeded and    *)
(* that have not called mutex_release.  The mutex is not recursive,        *)
(* whatever mutex_alloc(1) suggests: a thread that locks one it holds      *)
(* waits for itself.                                                       *)
(***************************************************************************)
EXTENDS LKKernel

CONSTANT Mutex    \* the mutex; it names its own wait queue

ASSUME MutexAssumption ==
    /\ Mutex \in Objects
    /\ {"mutex", "wake_all"} \subseteq ClientPoints

VARIABLES mcount, holder, mlive, inside

mutexvars == <<mcount, holder, mlive, inside>>
mvars == <<k, kpc, irq, saved, notify, mcount, holder, mlive, inside>>

MutexTypeOK ==
    /\ KernelTypeOK
    /\ mcount \in Nat /\ mlive \in BOOLEAN
    /\ holder \in Threads \cup {None} /\ inside \in SUBSET Threads

MutexInit ==
    /\ InitKernel(Threads \ {Boot, Idle})
    /\ mcount = 0 /\ holder = None /\ mlive = FALSE /\ inside = {}

-----------------------------------------------------------------------------
\* mutex_init, on memory that nobody is still waiting on or inside
mutex_init(t) ==
    /\ Calls(t) /\ ~mlive /\ inside = {}
    /\ \A u \in Threads : kpc[u] \notin {"mutex", "wake_all"}
    /\ mcount' = 0 /\ holder' = None /\ mlive' = TRUE
    /\ UNCHANGED <<kvars, inside>>

\* Mutant for MutualExclusion: an off-by-one lets two threads in.
mutex_acquire_Two(t) ==
    /\ Calls(t) /\ mlive
    /\ mcount' = mcount + 1
    /\ IF mcount + 1 > 2
       THEN /\ k' = wait_queue_block(k, t, Mutex)
            /\ LockAndLeaveAt(t, "mutex")
            /\ UNCHANGED <<notify, holder, inside>>
       ELSE /\ holder' = t /\ inside' = inside \cup {t}
            /\ UNCHANGED kvars
    /\ UNCHANGED mlive

\* mutex_acquire, to its return or to the switch in wait_queue_block
mutex_acquire(t) ==
    /\ Calls(t) /\ mlive
    /\ mcount' = mcount + 1
    /\ IF mcount + 1 > 1
       THEN /\ k' = wait_queue_block(k, t, Mutex)
            /\ LockAndLeaveAt(t, "mutex")
            /\ UNCHANGED <<notify, holder, inside>>
       ELSE /\ holder' = t /\ inside' = inside \cup {t}
            /\ UNCHANGED kvars
    /\ UNCHANGED mlive

\* the return from wait_queue_block in mutex_acquire: the mutex has been
\* handed over, or it has been destroyed
MutexAcquireReturn(t) ==
    /\ At(t, "mutex")
    /\ UnlockTo(t, "run")
    /\ IF k.ret[t] = "ok"
       THEN holder' = t /\ inside' = inside \cup {t}
       ELSE UNCHANGED <<holder, inside>>
    /\ UNCHANGED <<k, notify, mcount, mlive>>

\* Mutant for CountsOwnerAndWaiters: the refused attempt is not backed out.
mutex_acquire_timeout_Keeps(t) ==
    /\ Calls(t) /\ mlive
    /\ mcount' = mcount + 1
    /\ IF mcount + 1 > 1 THEN UNCHANGED <<holder, inside>>
       ELSE holder' = t /\ inside' = inside \cup {t}
    /\ UNCHANGED <<kvars, mlive>>

\* mutex_acquire_timeout with timeout 0: refused at once, and backed out
mutex_acquire_timeout(t) ==
    /\ Calls(t) /\ mlive
    /\ LET n == mcount + 1 IN
       IF n > 1 THEN mcount' = n - 1 /\ UNCHANGED <<holder, inside>>
       ELSE mcount' = n /\ holder' = t /\ inside' = inside \cup {t}
    /\ UNCHANGED <<kvars, mlive>>

\* Mutant for AcquireReturns: an off-by-one leaves the last waiter asleep.
mutex_release_Strict(t) ==
    /\ Calls(t) /\ mlive /\ t \in inside
    /\ holder' = None /\ inside' = inside \ {t}
    /\ mcount' = mcount - 1
    /\ IF mcount - 1 > 1 /\ k.waitq[Mutex] # << >>
       THEN k' = WakeOneResched(k, t, Mutex, "ok") /\ LockAndLeaveAt(t, "unlock")
       ELSE UNCHANGED <<k, kpc, irq, saved>>
    /\ UNCHANGED <<notify, mlive>>

mutex_release(t) ==
    /\ Calls(t) /\ mlive /\ t \in inside
    /\ holder' = None /\ inside' = inside \ {t}
    /\ mcount' = mcount - 1
    /\ IF mcount - 1 >= 1 /\ k.waitq[Mutex] # << >>
       THEN k' = WakeOneResched(k, t, Mutex, "ok") /\ LockAndLeaveAt(t, "unlock")
       ELSE UNCHANGED <<k, kpc, irq, saved>>
    /\ UNCHANGED <<notify, mlive>>

\* mutex_destroy, by the holder or with no holder (the check of debug builds)
mutex_destroy(t) ==
    /\ Calls(t) /\ mlive /\ holder \in {None, t}
    /\ mcount' = 0 /\ mlive' = FALSE
    /\ WakeAllBegin(t, Mutex)
    /\ inside' = inside \ {t}
    /\ UNCHANGED holder

MutexDestroyLoop(t) ==
    /\ WakeAllStep(t, Mutex, "destroyed") \/ WakeAllEnd(t, Mutex)
    /\ UNCHANGED mutexvars

MutexOps(t) ==
    \/ mutex_init(t) \/ mutex_acquire(t) \/ MutexAcquireReturn(t)
    \/ mutex_acquire_timeout(t) \/ mutex_release(t)
    \/ mutex_destroy(t) \/ MutexDestroyLoop(t)

MutexNext ==
    \/ KernelNext /\ UNCHANGED mutexvars
    \/ \E t, n \in Threads : ResumeStep(t, n) /\ UNCHANGED mutexvars
    \/ \E t \in Threads : MutexOps(t)

MutexSpec == MutexInit /\ [][MutexNext]_mvars

\* A thread that has the mutex releases or destroys it sooner or later, and a
\* running thread gives up the processor sooner or later.
MutexFairness ==
    /\ WF_mvars(idle_thread_routine /\ UNCHANGED mutexvars)
    /\ \A t \in Threads :
          /\ SF_mvars(thread_yield(t) /\ UNCHANGED mutexvars)
          /\ WF_mvars((ReturnFromResched(t) \/ initial_thread_func(t) \/ ReturnFromNotify(t))
                     /\ UNCHANGED mutexvars)
          /\ WF_mvars(MutexAcquireReturn(t) \/ MutexDestroyLoop(t))
          /\ SF_mvars(mutex_release(t))

MutexFairSpec == MutexSpec /\ MutexFairness

-----------------------------------------------------------------------------
\* The threads the mutex was handed to that have not returned from
\* mutex_acquire.
Granted == {t \in Threads : kpc[t] = "mutex" /\ k.state[t] # "blocked" /\ k.ret[t] = "ok"}

\* At most one thread has the mutex, the one it is being handed to included.
\* m->holder, which is_mutex_held reads without the lock, names the thread that
\* has it, and nobody between release and the next acquisition.
MutualExclusion ==
    mlive => /\ Cardinality(inside \cup Granted) <= 1
             /\ inside = IF holder = None THEN {} ELSE {holder}

\* The count is the owner, or next owner, and the threads in the wait queue,
\* and with no owner there is nobody to wait for.
CountsOwnerAndWaiters ==
    mlive => /\ mcount = Cardinality(inside \cup Granted) + Len(k.waitq[Mutex])
             /\ inside \cup Granted = {} => k.waitq[Mutex] = << >>

\* The mutex is a semaphore of one unit, which it has while it is free: it serves
\* its waiters in order of arrival, hands itself over to the first of them, and
\* nobody overtakes a waiter between the release and the return.
Lock == INSTANCE SemaphoreSpec WITH
    Users <- Threads, open <- mlive, value <- IF mlive /\ mcount = 0 THEN 1 ELSE 0,
    queue <- k.waitq[Mutex], served <- Granted
MutexImplementsSpec == Lock!Spec

\* A thread that waits for the mutex gets it, or learns that it is gone, unless
\* the owner has locked the mutex again and waits behind itself: then everybody
\* who waits, waits for ever.
AcquireReturns ==
    \A t \in Threads :
        (kpc[t] = "mutex") ~> (kpc[t] # "mutex" \/ \E u \in inside : kpc[u] = "mutex")
=============================================================================
