---------------------------- MODULE LKSyncProofs ----------------------------
(***************************************************************************)
(* The two blocking locks for every number of threads, one lemma per       *)
(* action, on top of the lemmas of LKKernelProofs.  The semaphore: its     *)
(* count agrees with its queue, no unit is lost, and it implements         *)
(* SemaphoreSpec.  The mutex: one owner at a time, through release,        *)
(* hand-over and return, a count that agrees with the queue, and the same  *)
(* SemaphoreSpec with one unit.                                            *)
(***************************************************************************)
EXTENDS LKSemaphore, LKMutex, LKKernelProofs, FiniteSetTheorems

-----------------------------------------------------------------------------
(* The semaphore.                                                          *)

\* The inductive invariant.
SemInv ==
    /\ WaitInv(Sem, "sem_wait") /\ (live => NoWaker)
    /\ count \in Int /\ live \in BOOLEAN
    /\ supplied \in 0 .. MaxSupplied /\ taken \in Nat
    /\ CountsWaiters /\ UnitsConserved /\ (~live => count <= 0)

LEMMA SemPoints ==
    /\ Sem \in Queues /\ WaitPoint("sem_wait") /\ "wake_all" \in ClientPoints
    /\ Served = Handed("sem_wait") /\ Served' = Handed("sem_wait")'
<1>1. Sem \in Queues /\ WaitPoint("sem_wait") /\ "wake_all" \in ClientPoints
  BY SemAssumption DEF Queues, WaitPoint
<1>2. Served = Handed("sem_wait") /\ Served' = Handed("sem_wait")'
  BY DEF Served, Handed
<1> QED
  BY <1>1, <1>2

LEMMA SemQueueTyped ==
    ASSUME SemInv
    PROVE  Len(k.waitq[Sem]) \in Nat /\ (k.waitq[Sem] = << >> <=> Len(k.waitq[Sem]) = 0)
<1>1. k.waitq[Sem] \in Seq(Threads)
  BY SemPoints, QueueTyped DEF SemInv, WaitInv
<1> QED
  BY <1>1

LEMMA ServedFinite == IsFiniteSet(Served) /\ Cardinality(Served) \in Nat
<1>1. Served \in SUBSET Threads /\ IsFiniteSet(Threads)
  BY SemAssumption DEF Served
<1>2. IsFiniteSet(Served)
  BY <1>1, FS_Subset
<1> QED
  BY <1>2, FS_CardinalityType

\* What the steps that move nobody leave alone.
LEMMA StillSem ==
    ASSUME SemInv,
           \/ KernelNext
           \/ \E t, n \in Threads : ResumeStep(t, n)
           \/ UNCHANGED kvars /\ \E t \in Threads : Calls(t)
    PROVE  /\ WaitInv(Sem, "sem_wait")' /\ NoWaker'
           /\ k'.waitq[Sem] = k.waitq[Sem] /\ Served' = Served
  BY SemPoints, StillSteps DEF SemInv, Calls, Still

-----------------------------------------------------------------------------
\* A step of SemaphoreSpec, or none.
AbstractStep == Abstract!Next \/ UNCHANGED Abstract!svars

\* A step that changes none of the semaphore's numbers and moves nobody.
LEMMA StillStep ==
    ASSUME SemInv, WaitInv(Sem, "sem_wait")', live => NoWaker',
           k'.waitq[Sem] = k.waitq[Sem], Served' = Served, UNCHANGED semvars
    PROVE  SemInv' /\ AbstractStep
<1>1. count' = count /\ live' = live /\ supplied' = supplied /\ taken' = taken
  BY DEF semvars
<1>2. SemInv'
  BY <1>1 DEF SemInv, CountsWaiters, UnitsConserved
<1>3. UNCHANGED Abstract!svars
  BY <1>1 DEF Abstract!svars
<1> QED
  BY <1>2, <1>3 DEF AbstractStep

\* sem_init finds the queue empty: its waiters would be in sem_wait.
LEMMA InitStep ==
    ASSUME SemInv, NEW t \in Threads, NEW n \in InitialCounts, sem_init(t, n)
    PROVE  SemInv' /\ AbstractStep
<1>1. /\ Calls(t) /\ ~live /\ count' = n /\ live' = TRUE /\ supplied' = n /\ taken' = 0
      /\ UNCHANGED kvars /\ \A u \in Threads : kpc[u] # "sem_wait"
      /\ n \in 0 .. MaxSupplied /\ MaxSupplied \in Nat
  BY SemAssumption DEF sem_init, Client
<1>2. WaitInv(Sem, "sem_wait")' /\ NoWaker' /\ k'.waitq[Sem] = k.waitq[Sem] /\ Served' = Served
  BY <1>1, StillSem
<1>3. k.waitq[Sem] = << >>
  <2> SUFFICES ASSUME k.waitq[Sem] # << >> PROVE FALSE
    OBVIOUS
  <2>1. k.waitq[Sem] \in Seq(Threads) /\ NoDup(k.waitq[Sem])
    BY SemPoints, QueueTyped DEF SemInv, WaitInv
  <2>2. Head(k.waitq[Sem]) \in Threads /\ Head(k.waitq[Sem]) \in Range(k.waitq[Sem])
    BY <2>1, TailFacts
  <2> QED
    BY <1>1, <2>2 DEF SemInv, WaitInv
<1>4. Served = {} /\ Cardinality({}) = 0
  BY <1>1, FS_EmptySet DEF Served
<1>5. SemInv'
  BY <1>1, <1>2, <1>3, <1>4 DEF SemInv, CountsWaiters, UnitsConserved
<1>6. Abstract!Open
  BY <1>1, <1>2, <1>3 DEF Abstract!Open
<1> QED
  BY <1>5, <1>6 DEF AbstractStep, Abstract!Next

\* A unit is taken without a wait, or a refused attempt is backed out.
LEMMA TakeStep ==
    ASSUME SemInv, NEW t \in Threads, Calls(t), live, UNCHANGED <<kvars, live, supplied>>,
           \/ count > 0 /\ count' = count - 1 /\ taken' = taken + 1
           \/ count' = count /\ taken' = taken
    PROVE  SemInv' /\ AbstractStep
<1>1. WaitInv(Sem, "sem_wait")' /\ NoWaker' /\ k'.waitq[Sem] = k.waitq[Sem] /\ Served' = Served
  BY StillSem
<1>2. live' = live /\ supplied' = supplied /\ count \in Int /\ taken \in Nat
  BY DEF SemInv
<1>3. SemInv'
  BY <1>1, <1>2, ServedFinite DEF SemInv, CountsWaiters, UnitsConserved
<1>4. CASE count > 0 /\ count' = count - 1
  <2>1. Abstract!Take
    BY <1>1, <1>2, <1>4 DEF Abstract!Take
  <2> QED
    BY <1>3, <2>1 DEF AbstractStep, Abstract!Next
<1>5. CASE count' = count
  <2>1. UNCHANGED Abstract!svars
    BY <1>1, <1>2, <1>5 DEF Abstract!svars
  <2> QED
    BY <1>3, <2>1 DEF AbstractStep
<1> QED
  BY <1>4, <1>5

\* sem_wait with no unit left.
LEMMA EnterStep ==
    ASSUME SemInv, NEW t \in Threads, sem_wait(t), count - 1 < 0
    PROVE  SemInv' /\ AbstractStep
<1>1. /\ Calls(t) /\ live /\ count' = count - 1 /\ live' = live /\ supplied' = supplied
      /\ taken' = taken /\ notify' = notify
      /\ k' = wait_queue_block(k, t, Sem) /\ LockAndLeaveAt(t, "sem_wait")
  BY DEF sem_wait
<1>2. /\ WaitInv(Sem, "sem_wait")' /\ NoWaker'
      /\ k'.waitq[Sem] = Append(k.waitq[Sem], t) /\ Served' = Served
      /\ Len(k'.waitq[Sem]) = Len(k.waitq[Sem]) + 1
  BY <1>1, SemPoints, BlockWait DEF SemInv, Calls
<1>3. Len(k.waitq[Sem]) \in Nat /\ count \in Int
  BY SemQueueTyped DEF SemInv
<1>4. SemInv'
  BY <1>1, <1>2, <1>3, ServedFinite DEF SemInv, CountsWaiters, UnitsConserved
<1>5. Abstract!Enter(t)
  BY <1>1, <1>2, <1>3 DEF Abstract!Enter
<1> QED
  BY <1>4, <1>5 DEF AbstractStep, Abstract!Next

\* sem_wait on a semaphore that is gone.
LEMMA GoneStep ==
    ASSUME SemInv, NEW t \in Threads, SemWaitGone(t)
    PROVE  SemInv' /\ AbstractStep
<1>1. /\ Calls(t) /\ ~live /\ live' = live /\ supplied' = supplied /\ taken' = taken
      /\ \/ k' = wait_queue_block(k, t, Sem) /\ LockAndLeaveAt(t, "sem_wait") /\ notify' = notify
            /\ count' = count - 1
         \/ UNCHANGED kvars /\ count' = count
  BY DEF SemWaitGone
<1>2. CountsWaiters' /\ UnitsConserved'
  <2>1. ~live'
    BY <1>1, Zenon
  <2> QED
    BY <2>1, Zenon DEF CountsWaiters, UnitsConserved
<1>3. CASE UNCHANGED kvars /\ count' = count
  <2>1. WaitInv(Sem, "sem_wait")' /\ NoWaker' /\ k'.waitq[Sem] = k.waitq[Sem] /\ Served' = Served
    BY <1>1, <1>3, StillSem
  <2>2. SemInv'
    BY <1>1, <1>2, <1>3, <2>1 DEF SemInv
  <2>3. UNCHANGED Abstract!svars
    BY <1>1, <1>3, <2>1 DEF Abstract!svars
  <2> QED
    BY <2>2, <2>3 DEF AbstractStep
<1>4. CASE /\ k' = wait_queue_block(k, t, Sem) /\ LockAndLeaveAt(t, "sem_wait") /\ notify' = notify
           /\ count' = count - 1
  <2>1. /\ WaitInv(Sem, "sem_wait")' /\ NoWaker'
        /\ k'.waitq[Sem] = Append(k.waitq[Sem], t) /\ Served' = Served
    BY <1>1, <1>4, SemPoints, BlockWait DEF SemInv, Calls
  <2>2. SemInv'
    BY <1>1, <1>2, <1>4, <2>1 DEF SemInv
  <2>3. count \in Int /\ count <= 0
    BY <1>1 DEF SemInv
  <2>4. Abstract!Stray(t)
    BY <1>1, <1>4, <2>1, <2>3 DEF Abstract!Stray
  <2> QED
    BY <2>2, <2>4 DEF AbstractStep, Abstract!Next
<1> QED
  BY <1>1, <1>3, <1>4

\* The return of a waiter, with a unit or without.
LEMMA ReturnStep ==
    ASSUME SemInv, NEW t \in Threads, SemWaitReturn(t)
    PROVE  SemInv' /\ AbstractStep
<1>1. /\ taken' = IF k.ret[t] = "ok" /\ live THEN taken + 1 ELSE taken
      /\ count' = count /\ live' = live /\ supplied' = supplied
  BY DEF SemWaitReturn
<1>2. /\ WaitInv(Sem, "sem_wait")' /\ NoWaker' /\ k'.waitq[Sem] = k.waitq[Sem]
      /\ Served' = Served \ {t} /\ (t \in Served <=> k.ret[t] = "ok")
  BY SemPoints, ReturnWait DEF SemInv, SemWaitReturn
<1>3. /\ Cardinality(Served) \in Nat
      /\ Cardinality(Served') = IF t \in Served THEN Cardinality(Served) - 1 ELSE Cardinality(Served)
  BY <1>2, ServedFinite, FS_RemoveElement
<1>4. SemInv'
  BY <1>1, <1>2, <1>3 DEF SemInv, CountsWaiters, UnitsConserved
<1>5. CASE t \in Served
  <2>1. Abstract!Return(t)
    BY <1>1, <1>2, <1>5 DEF Abstract!Return
  <2> QED
    BY <1>4, <2>1 DEF AbstractStep, Abstract!Next
<1>6. CASE t \notin Served
  <2>1. UNCHANGED Abstract!svars
    BY <1>1, <1>2, <1>6 DEF Abstract!svars
  <2> QED
    BY <1>4, <2>1 DEF AbstractStep
<1> QED
  BY <1>5, <1>6

\* sem_post: with somebody in the queue the test of ++count finds him.
LEMMA PostStep ==
    ASSUME SemInv, NEW t \in Threads, NEW r \in BOOLEAN, sem_post(t, r)
    PROVE  SemInv' /\ AbstractStep
<1>1. /\ Calls(t) /\ live /\ supplied < MaxSupplied /\ count' = count + 1 /\ supplied' = supplied + 1
      /\ notify' = notify /\ live' = live /\ taken' = taken
      /\ count \in Int /\ taken \in Nat /\ supplied \in 0 .. MaxSupplied /\ MaxSupplied \in Nat
  BY SemAssumption DEF sem_post, SemInv, Client
<1>2. /\ Len(k.waitq[Sem]) = IF count < 0 THEN -count ELSE 0
      /\ k.waitq[Sem] = << >> <=> Len(k.waitq[Sem]) = 0
  BY <1>1, SemQueueTyped DEF SemInv, CountsWaiters
<1>3. CASE k.waitq[Sem] = << >>
  <2>1. UNCHANGED kvars /\ count >= 0
    BY <1>1, <1>2, <1>3 DEF sem_post, kvars
  <2>2. WaitInv(Sem, "sem_wait")' /\ NoWaker' /\ k'.waitq[Sem] = k.waitq[Sem] /\ Served' = Served
    BY <1>1, <2>1, StillSem
  <2>3. SemInv'
    BY <1>1, <1>2, <1>3, <2>1, <2>2, ServedFinite DEF SemInv, CountsWaiters, UnitsConserved
  <2>4. Abstract!Post
    BY <1>1, <1>3, <2>1, <2>2 DEF Abstract!Post
  <2> QED
    BY <2>3, <2>4 DEF AbstractStep, Abstract!Next
<1>4. CASE k.waitq[Sem] # << >>
  <2>1. count < 0 /\ count + 1 <= 0
    BY <1>1, <1>2, <1>4
  <2>2. \/ k' = WakeOneResched(k, t, Sem, "ok") /\ LockAndLeaveAt(t, "unlock")
        \/ k' = WakeOne(k, Sem, "ok") /\ UNCHANGED <<kpc, irq, saved>>
    BY <1>4, <2>1 DEF sem_post
  <2>3. /\ WaitInv(Sem, "sem_wait")' /\ NoWaker'
        /\ k'.waitq[Sem] = Tail(k.waitq[Sem]) /\ Len(k'.waitq[Sem]) = Len(k.waitq[Sem]) - 1
        /\ Head(k.waitq[Sem]) \notin Served
        /\ Served' = Served \cup {Head(k.waitq[Sem])}
    BY <1>1, <1>4, <2>2, SemPoints, HandOver DEF SemInv, Calls
  <2>4. /\ Cardinality(Served') = Cardinality(Served) + 1 /\ Cardinality(Served) \in Nat
        /\ Len(k'.waitq[Sem]) = Len(k.waitq[Sem]) - 1
    BY <2>3, ServedFinite, FS_AddElement
  <2>5. SemInv'
    <3>1. CountsWaiters'
      BY <1>1, <1>2, <2>1, <2>4 DEF CountsWaiters
    <3>2. supplied = taken + Cardinality(Served)
      BY <1>1, <2>1, <2>4 DEF SemInv, UnitsConserved
    <3>3. UnitsConserved'
      BY <1>1, <2>1, <2>4, <3>2 DEF UnitsConserved
    <3>4. /\ count' \in Int /\ live' \in BOOLEAN /\ supplied' \in 0 .. MaxSupplied /\ taken' \in Nat
          /\ live'
      BY <1>1 DEF SemInv
    <3> QED
      BY <2>3, <3>1, <3>3, <3>4 DEF SemInv
  <2>6. Abstract!Post
    BY <1>1, <1>4, <2>1, <2>3 DEF Abstract!Post
  <2> QED
    BY <2>5, <2>6 DEF AbstractStep, Abstract!Next
<1> QED
  BY <1>3, <1>4

\* sem_destroy and its loop.
LEMMA DestroyStep ==
    ASSUME SemInv, NEW t \in Threads, sem_destroy(t) \/ SemDestroyLoop(t)
    PROVE  SemInv' /\ AbstractStep
<1>1. CASE sem_destroy(t)
  <2>1. live /\ count' = 0 /\ live' = FALSE /\ supplied' = supplied /\ taken' = taken
    BY <1>1 DEF sem_destroy
  <2>2. WaitInv(Sem, "sem_wait")' /\ k'.waitq[Sem] = k.waitq[Sem] /\ Served' = Served
    BY <1>1, SemPoints, BeginWait DEF SemInv, sem_destroy, Client, Calls, Still
  <2>3. SemInv'
    <3>1. CountsWaiters' /\ UnitsConserved'
      <4>1. ~live'
        BY <2>1
      <4> QED
        BY <4>1, Zenon DEF CountsWaiters, UnitsConserved
    <3>2. count' \in Int /\ count' <= 0
      BY <2>1
    <3>3. live' \in BOOLEAN
      BY <2>1, Zenon
    <3> QED
      BY <2>1, <2>2, <3>1, <3>2, <3>3, Zenon DEF SemInv
  <2>4. Abstract!Close
    BY <2>1, <2>2 DEF Abstract!Close
  <2> QED
    BY <2>3, <2>4 DEF AbstractStep, Abstract!Next
<1>2. CASE SemDestroyLoop(t)
  <2>1. /\ WaitInv(Sem, "sem_wait")' /\ ~live /\ Served' = Served
        /\ \/ k'.waitq[Sem] = k.waitq[Sem]
           \/ k.waitq[Sem] # << >> /\ k'.waitq[Sem] = Tail(k.waitq[Sem])
        /\ count' = count /\ live' = live /\ supplied' = supplied /\ taken' = taken
    <3>1. "destroyed" \in Returns
      BY DEF Returns
    <3>2. /\ WakeAllStep(t, Sem, "destroyed") \/ WakeAllEnd(t, Sem)
          /\ count' = count /\ live' = live /\ supplied' = supplied /\ taken' = taken
      BY <1>2 DEF SemDestroyLoop, semvars
    <3> QED
      BY <3>1, <3>2, SemPoints, LoopWait DEF SemInv
  <2>2. SemInv'
    BY <2>1 DEF SemInv, CountsWaiters, UnitsConserved
  <2>3. Abstract!Expel \/ UNCHANGED Abstract!svars
    BY <2>1 DEF Abstract!Expel, Abstract!svars
  <2> QED
    BY <2>2, <2>3 DEF AbstractStep, Abstract!Next
<1> QED
  BY <1>1, <1>2

LEMMA SemStep == SemInv /\ [Next]_vars => SemInv' /\ AbstractStep
<1> SUFFICES ASSUME SemInv, [Next]_vars PROVE SemInv' /\ AbstractStep
  OBVIOUS
<1>1. CASE KernelNext /\ UNCHANGED semvars
  BY <1>1, StillSem, StillStep
<1>2. ASSUME NEW t \in Threads, NEW n \in Threads, ResumeStep(t, n), UNCHANGED semvars
      PROVE  SemInv' /\ AbstractStep
  BY <1>2, StillSem, StillStep
<1>3. ASSUME NEW t \in Threads, sem_wait(t)
      PROVE  SemInv' /\ AbstractStep
  <2>1. count \in Int
    BY DEF SemInv
  <2>2. CASE count - 1 < 0
    BY <1>3, <2>2, EnterStep
  <2>3. CASE ~(count - 1 < 0)
    BY <1>3, <2>1, <2>3, TakeStep DEF sem_wait
  <2> QED
    BY <2>2, <2>3
<1>4. ASSUME NEW t \in Threads, sem_trywait(t)
      PROVE  SemInv' /\ AbstractStep
  BY <1>4, TakeStep DEF sem_trywait, Client
<1>5. ASSUME NEW t \in Threads, sem_timedwait(t)
      PROVE  SemInv' /\ AbstractStep
  <2>1. count \in Int
    BY DEF SemInv
  <2> QED
    BY <1>5, <2>1, TakeStep DEF sem_timedwait, Client
<1>6. ASSUME NEW t \in Threads, SemOps(t)
      PROVE  SemInv' /\ AbstractStep
  BY <1>3, <1>4, <1>5, <1>6, InitStep, GoneStep, ReturnStep, PostStep, DestroyStep DEF SemOps
<1>7. CASE UNCHANGED vars
  <2>1. /\ k' = k /\ kpc' = kpc /\ irq' = irq /\ saved' = saved /\ notify' = notify
        /\ UNCHANGED semvars
    BY <1>7 DEF vars, semvars
  <2>2. /\ WaitInv(Sem, "sem_wait")' /\ (live => NoWaker')
        /\ k'.waitq[Sem] = k.waitq[Sem] /\ Served' = Served
    BY <2>1 DEF SemInv, WaitInv, NoWaker, KernelInv, KernelTypeOK, SchedulerConsistent, CurrentRuns,
                LockDiscipline, Parked, Served
  <2> QED
    BY <2>1, <2>2, StillStep
<1> QED
  BY <1>1, <1>2, <1>6, <1>7 DEF Next

LEMMA SemInit == Init => SemInv /\ Abstract!Init
<1> SUFFICES ASSUME Init PROVE SemInv /\ Abstract!Init
  OBVIOUS
<1>1. /\ KernelInv /\ k.waitq[Sem] = << >>
      /\ \A t \in Threads : kpc[t] \in {"run", "start"}
      /\ count = 0 /\ live = FALSE /\ supplied = 0 /\ taken = 0
  BY InitKernelInv, SemAssumption DEF Init, Queues
<1>2. Served = {} /\ Range(k.waitq[Sem]) = {}
  BY <1>1 DEF Served, Range
<1>3. SemInv
  <2>1. CountsWaiters /\ UnitsConserved
    <3>1. ~live
      BY <1>1
    <3> QED
      BY <3>1, Zenon DEF CountsWaiters, UnitsConserved
  <2>2. WaitInv(Sem, "sem_wait") /\ NoWaker
    BY <1>1, <1>2 DEF WaitInv, NoWaker
  <2>3. count \in Int /\ count <= 0 /\ supplied \in 0 .. MaxSupplied /\ taken \in Nat
    BY <1>1, SemAssumption
  <2>4. live \in BOOLEAN
    BY <1>1, Zenon
  <2> QED
    BY <1>1, <2>1, <2>2, <2>3, <2>4, Zenon DEF SemInv
<1>4. Abstract!Init
  BY <1>1, <1>2 DEF Abstract!Init
<1> QED
  BY <1>3, <1>4

\* The inductive invariant holds in every reachable state.
THEOREM SemInvariant == Spec => []SemInv
  BY SemInit, SemStep, PTL DEF Spec

\* A negative count is the length of the wait queue.
THEOREM CountIsQueue == Spec => []CountsWaiters
<1>1. SemInv => CountsWaiters
  BY DEF SemInv
<1> QED
  BY <1>1, SemInvariant, PTL

\* What sem_init and sem_post supplied is in the count, on its way to a woken
\* waiter, or was returned with.
THEOREM NoUnitLost == Spec => []UnitsConserved
<1>1. SemInv => UnitsConserved
  BY DEF SemInv
<1> QED
  BY <1>1, SemInvariant, PTL

\* semaphore.c on the scheduler of thread.c is a first-come first-served counting
\* semaphore.
THEOREM SemaphoreImplements == Spec => SemImplementsSpec
<1>1. SemInv /\ [Next]_vars => [Abstract!Next]_(Abstract!svars)
  BY SemStep DEF AbstractStep
<1> QED
  BY <1>1, SemInit, SemInvariant, PTL DEF Spec, SemImplementsSpec, Abstract!Spec

\* Sleeping in sem_wait, being woken by sem_post and being expelled by sem_destroy
\* leave the queues of thread.c consistent, and its lock balanced.
THEOREM SemKeepsKernel == Spec => [](SchedulerConsistent /\ LockDiscipline)
<1>1. SemInv => SchedulerConsistent /\ LockDiscipline
  BY DEF SemInv, WaitInv, KernelInv
<1> QED
  BY <1>1, SemInvariant, PTL

-----------------------------------------------------------------------------
(* The mutex.                                                              *)

\* The threads that have the mutex, or to which it is being handed.
Owners == inside \cup Granted

\* Nobody has the mutex and nobody wants it, or one thread has it and the others
\* are counted.
OneOwner ==
    \/ Owners = {} /\ k.waitq[Mutex] = << >> /\ mcount = 0
    \/ \E u \in Threads : Owners = {u} /\ mcount = Len(k.waitq[Mutex]) + 1

\* m->holder is the thread inside, to which the mutex is not being handed again.
HolderInside ==
    /\ inside = IF holder = None THEN {} ELSE {holder}
    /\ inside \cap Granted = {}

\* The inductive invariant.
MutexInv ==
    /\ WaitInv(Mutex, "mutex") /\ (mlive => NoWaker)
    /\ mlive \in BOOLEAN /\ inside \in SUBSET Threads
    /\ mlive => OneOwner /\ HolderInside

LEMMA MutexPoints ==
    /\ Mutex \in Queues /\ WaitPoint("mutex") /\ "wake_all" \in ClientPoints
    /\ Granted = Handed("mutex") /\ Granted' = Handed("mutex")'
<1>1. Mutex \in Queues /\ WaitPoint("mutex") /\ "wake_all" \in ClientPoints
  BY MutexAssumption DEF Queues, WaitPoint
<1>2. Granted = Handed("mutex") /\ Granted' = Handed("mutex")'
  BY DEF Granted, Handed
<1> QED
  BY <1>1, <1>2

LEMMA MutexQueueTyped ==
    ASSUME MutexInv
    PROVE  /\ k.waitq[Mutex] \in Seq(Threads) /\ NoDup(k.waitq[Mutex])
           /\ Len(k.waitq[Mutex]) \in Nat
           /\ k.waitq[Mutex] = << >> <=> Len(k.waitq[Mutex]) = 0
<1>1. k.waitq[Mutex] \in Seq(Threads) /\ NoDup(k.waitq[Mutex])
  BY MutexPoints, QueueTyped DEF MutexInv, WaitInv
<1> QED
  BY <1>1

\* The steps that neither sleep nor wake anybody.
LEMMA StillMutex ==
    ASSUME MutexInv,
           \/ KernelNext
           \/ \E t, n \in Threads : ResumeStep(t, n)
           \/ UNCHANGED kvars /\ \E t \in Threads : Calls(t)
    PROVE  /\ WaitInv(Mutex, "mutex")' /\ NoWaker'
           /\ k'.waitq[Mutex] = k.waitq[Mutex] /\ Granted' = Granted
           /\ \A u \in Threads : kpc'[u] = "mutex" <=> kpc[u] = "mutex"
  BY MutexPoints, StillSteps DEF MutexInv, Calls, Still

\* A step of SemaphoreSpec for the mutex, or none.
LockStep == Lock!Next \/ UNCHANGED Lock!svars

\* A step that moves nobody and is none of the mutex's own.
LEMMA MutexStillStep ==
    ASSUME MutexInv, WaitInv(Mutex, "mutex")', mlive => NoWaker', k'.waitq[Mutex] = k.waitq[Mutex],
           Granted' = Granted, \A u \in Threads : kpc'[u] = "mutex" <=> kpc[u] = "mutex",
           UNCHANGED mutexvars
    PROVE  MutexInv' /\ LockStep
<1>1. mcount' = mcount /\ holder' = holder /\ mlive' = mlive /\ inside' = inside
  BY DEF mutexvars
<1>2. mlive => OneOwner' /\ HolderInside'
  BY <1>1 DEF MutexInv, OneOwner, Owners, HolderInside
<1>3. MutexInv'
  BY <1>1, <1>2 DEF MutexInv
<1>4. UNCHANGED Lock!svars
  BY <1>1 DEF Lock!svars
<1> QED
  BY <1>3, <1>4 DEF LockStep

\* A call of a thread in its own code, which is not inside mutex_acquire.
LEMMA CallerFree ==
    ASSUME MutexInv, NEW t \in Threads, Calls(t)
    PROVE  t = k.cur /\ kpc[t] = "run" /\ t # None /\ Own(t) /\ t # Idle
  BY OwnRuns, SchedAssumption DEF MutexInv, WaitInv, Calls

-----------------------------------------------------------------------------
\* mutex_init finds nobody in the queue and nobody on the way in.
LEMMA MutexInitStep ==
    ASSUME MutexInv, NEW t \in Threads, mutex_init(t)
    PROVE  MutexInv' /\ LockStep
<1>1. /\ Calls(t) /\ ~mlive /\ inside = {} /\ mcount' = 0 /\ holder' = None /\ mlive' = TRUE
      /\ inside' = inside /\ UNCHANGED kvars /\ \A u \in Threads : kpc[u] # "mutex"
  BY DEF mutex_init
<1>2. /\ WaitInv(Mutex, "mutex")' /\ NoWaker'
      /\ k'.waitq[Mutex] = k.waitq[Mutex] /\ Granted' = Granted
  BY <1>1, StillMutex
<1>3. k.waitq[Mutex] = << >>
  <2> SUFFICES ASSUME k.waitq[Mutex] # << >> PROVE FALSE
    OBVIOUS
  <2>1. Head(k.waitq[Mutex]) \in Threads /\ Head(k.waitq[Mutex]) \in Range(k.waitq[Mutex])
    BY MutexQueueTyped, TailFacts
  <2> QED
    BY <1>1, <2>1 DEF MutexInv, WaitInv
<1>4. Granted = {}
  BY <1>1 DEF Granted
<1>5. OneOwner' /\ HolderInside'
  BY <1>1, <1>2, <1>3, <1>4 DEF OneOwner, Owners, HolderInside
<1>6. mlive' \in BOOLEAN
  BY <1>1, Zenon
<1>7. MutexInv'
  BY <1>1, <1>2, <1>5, <1>6 DEF MutexInv
<1>8. Lock!Open
  BY <1>1, <1>2, <1>3 DEF Lock!Open
<1> QED
  BY <1>7, <1>8 DEF LockStep, Lock!Next

\* The mutex is free and the caller gets it.
LEMMA MutexTakeStep ==
    ASSUME MutexInv, NEW t \in Threads, Calls(t), mlive, ~(mcount + 1 > 1), mcount' = mcount + 1,
           holder' = t, inside' = inside \cup {t}, UNCHANGED kvars, UNCHANGED mlive
    PROVE  MutexInv' /\ LockStep
<1>1. /\ WaitInv(Mutex, "mutex")' /\ NoWaker'
      /\ k'.waitq[Mutex] = k.waitq[Mutex] /\ Granted' = Granted
  BY StillMutex
<1>2. Owners = {} /\ k.waitq[Mutex] = << >> /\ mcount = 0
  BY MutexQueueTyped DEF MutexInv, OneOwner
<1>3. t # None
  BY CallerFree
<1>4. Owners' = {t} /\ inside' = {t} /\ Len(k'.waitq[Mutex]) = 0 /\ Granted' = {}
  BY <1>1, <1>2 DEF Owners
<1>5. OneOwner' /\ HolderInside'
  BY <1>1, <1>2, <1>3, <1>4 DEF OneOwner, HolderInside
<1>6. MutexInv'
  BY <1>1, <1>5 DEF MutexInv
<1>7. Lock!Take
  BY <1>1, <1>2 DEF Lock!Take
<1> QED
  BY <1>6, <1>7 DEF LockStep, Lock!Next

\* The mutex has an owner and the caller waits.
LEMMA MutexEnterStep ==
    ASSUME MutexInv, NEW t \in Threads, mutex_acquire(t), mcount + 1 > 1
    PROVE  MutexInv' /\ LockStep
<1>1. /\ Calls(t) /\ mlive /\ mcount' = mcount + 1 /\ mlive' = mlive
      /\ holder' = holder /\ inside' = inside /\ notify' = notify
      /\ k' = wait_queue_block(k, t, Mutex) /\ LockAndLeaveAt(t, "mutex")
  BY DEF mutex_acquire
<1>2. /\ WaitInv(Mutex, "mutex")' /\ NoWaker'
      /\ Granted' = Granted /\ Len(k'.waitq[Mutex]) = Len(k.waitq[Mutex]) + 1
      /\ k'.waitq[Mutex] = Append(k.waitq[Mutex], t)
      /\ \A u \in Threads : kpc'[u] = "mutex" <=> kpc[u] = "mutex" \/ u = t
  BY <1>1, MutexPoints, CallerFree, BlockWait DEF MutexInv
<1>3. PICK u \in Threads : Owners = {u} /\ mcount = Len(k.waitq[Mutex]) + 1
  BY <1>1 DEF MutexInv, OneOwner
<1>4. Owners' = {u} /\ mcount' = Len(k'.waitq[Mutex]) + 1
  BY <1>1, <1>2, <1>3, MutexQueueTyped DEF Owners
<1>5. OneOwner' /\ HolderInside'
  BY <1>1, <1>2, <1>4 DEF MutexInv, OneOwner, HolderInside
<1>6. MutexInv'
  BY <1>1, <1>2, <1>5 DEF MutexInv
<1>7. mcount # 0 /\ mcount' # 0
  BY <1>1, <1>3, MutexQueueTyped
<1>8. Lock!Enter(t)
  BY <1>1, <1>2, <1>7 DEF Lock!Enter
<1> QED
  BY <1>6, <1>8 DEF LockStep, Lock!Next

\* The waiter to which the mutex was handed has it; the owners stay the same.
LEMMA MutexReturnStep ==
    ASSUME MutexInv, NEW t \in Threads, MutexAcquireReturn(t)
    PROVE  MutexInv' /\ LockStep
<1>1. /\ mcount' = mcount /\ mlive' = mlive
      /\ IF k.ret[t] = "ok" THEN holder' = t /\ inside' = inside \cup {t}
         ELSE holder' = holder /\ inside' = inside
  BY DEF MutexAcquireReturn
<1>2. /\ WaitInv(Mutex, "mutex")' /\ NoWaker' /\ k'.waitq[Mutex] = k.waitq[Mutex]
      /\ Granted' = Granted \ {t} /\ (t \in Granted <=> k.ret[t] = "ok")
      /\ \A u \in Threads : kpc'[u] = "mutex" <=> kpc[u] = "mutex" /\ u # t
  BY MutexPoints, ReturnWait DEF MutexInv, MutexAcquireReturn
<1>3. inside' \in SUBSET Threads
  BY <1>1 DEF MutexInv
<1>4. ASSUME mlive PROVE OneOwner' /\ HolderInside'
  <2>1. OneOwner /\ HolderInside
    BY <1>4 DEF MutexInv
  <2>2. Owners' = Owners
    BY <1>1, <1>2 DEF Owners
  <2>3. OneOwner'
    BY <1>1, <1>2, <2>1, <2>2 DEF OneOwner
  <2>4. CASE k.ret[t] = "ok"
    <3>1. t \in Granted /\ kpc[t] = "mutex" /\ t # None
      BY <1>2, <2>4, SchedAssumption DEF Granted
    <3>2. t \notin inside /\ inside \cup Granted = {t}
      BY <2>1, <3>1 DEF OneOwner, HolderInside, Owners
    <3>3. inside' = {t} /\ holder' = t
      BY <1>1, <2>4, <3>2
    <3>4. HolderInside'
      BY <1>2, <3>1, <3>3 DEF HolderInside
    <3> QED
      BY <2>3, <3>4
  <2>5. CASE k.ret[t] # "ok"
    <3>1. HolderInside'
      BY <1>1, <1>2, <2>1, <2>5 DEF HolderInside, MutexInv
    <3> QED
      BY <2>3, <3>1
  <2> QED
    BY <2>4, <2>5
<1>5. MutexInv'
  BY <1>1, <1>2, <1>3, <1>4 DEF MutexInv
<1>6. CASE t \in Granted
  <2>1. Lock!Return(t)
    BY <1>1, <1>2, <1>6 DEF Lock!Return
  <2> QED
    BY <1>5, <2>1 DEF LockStep, Lock!Next
<1>7. CASE t \notin Granted
  <2>1. UNCHANGED Lock!svars
    BY <1>1, <1>2, <1>7 DEF Lock!svars
  <2> QED
    BY <1>5, <2>1 DEF LockStep
<1> QED
  BY <1>6, <1>7

\* mutex_release hands the mutex to the first waiter, if there is one.
LEMMA ReleaseStep ==
    ASSUME MutexInv, NEW t \in Threads, mutex_release(t)
    PROVE  MutexInv' /\ LockStep
<1>1. /\ Calls(t) /\ mlive /\ t \in inside /\ holder' = None /\ inside' = inside \ {t}
      /\ mcount' = mcount - 1 /\ notify' = notify /\ mlive' = mlive
  BY DEF mutex_release
<1>2. /\ inside = {t} /\ Granted \subseteq {t} /\ Owners = {t}
      /\ mcount = Len(k.waitq[Mutex]) + 1 /\ t \notin Granted
  BY <1>1 DEF MutexInv, OneOwner, HolderInside, Owners
<1>3. Granted = {} /\ inside' = {}
  BY <1>1, <1>2
<1>4. HolderInside'
  BY <1>1, <1>3 DEF HolderInside
<1>5. Len(k.waitq[Mutex]) \in Nat /\ (k.waitq[Mutex] = << >> <=> Len(k.waitq[Mutex]) = 0)
  BY MutexQueueTyped
<1>6. CASE k.waitq[Mutex] = << >>
  <2>1. UNCHANGED kvars
    BY <1>1, <1>6 DEF mutex_release, kvars
  <2>2. /\ WaitInv(Mutex, "mutex")' /\ NoWaker'
        /\ k'.waitq[Mutex] = k.waitq[Mutex] /\ Granted' = Granted
    BY <1>1, <2>1, StillMutex
  <2>3. OneOwner'
    BY <1>1, <1>2, <1>3, <1>5, <1>6, <2>2 DEF OneOwner, Owners
  <2>4. MutexInv'
    BY <1>1, <1>3, <1>4, <2>2, <2>3 DEF MutexInv
  <2>5. mcount = 1 /\ mcount' = 0
    BY <1>1, <1>2, <1>5, <1>6
  <2>6. Lock!Post
    BY <1>1, <1>6, <2>2, <2>5 DEF Lock!Post
  <2> QED
    BY <2>4, <2>6 DEF LockStep, Lock!Next
<1>7. CASE k.waitq[Mutex] # << >>
  <2>1. k' = WakeOneResched(k, t, Mutex, "ok") /\ LockAndLeaveAt(t, "unlock")
    BY <1>2, <1>5, <1>7 DEF mutex_release
  <2>2. /\ WaitInv(Mutex, "mutex")' /\ NoWaker' /\ Len(k'.waitq[Mutex]) = Len(k.waitq[Mutex]) - 1
        /\ Head(k.waitq[Mutex]) \in Threads /\ k'.waitq[Mutex] = Tail(k.waitq[Mutex])
        /\ Granted' = Granted \cup {Head(k.waitq[Mutex])}
    BY <1>1, <1>7, <2>1, MutexPoints, CallerFree, HandOver DEF MutexInv
  <2>3. Owners' = {Head(k.waitq[Mutex])} /\ mcount' = Len(k'.waitq[Mutex]) + 1
    BY <1>1, <1>2, <1>3, <1>5, <2>2 DEF Owners
  <2>4. OneOwner'
    BY <2>2, <2>3 DEF OneOwner
  <2>5. MutexInv'
    BY <1>1, <1>3, <1>4, <2>2, <2>4 DEF MutexInv
  <2>6. mcount # 0 /\ mcount' # 0
    BY <1>1, <1>2, <1>5, <1>7
  <2>7. Lock!Post
    BY <1>1, <1>7, <2>2, <2>6 DEF Lock!Post
  <2> QED
    BY <2>5, <2>7 DEF LockStep, Lock!Next
<1> QED
  BY <1>6, <1>7

\* mutex_destroy and its loop.
LEMMA MutexDestroyStep ==
    ASSUME MutexInv, NEW t \in Threads, mutex_destroy(t) \/ MutexDestroyLoop(t)
    PROVE  MutexInv' /\ LockStep
<1>1. CASE mutex_destroy(t)
  <2>1. Calls(t) /\ mlive /\ mlive' = FALSE /\ inside' = inside \ {t} /\ WakeAllBegin(t, Mutex)
    BY <1>1 DEF mutex_destroy
  <2>2. WaitInv(Mutex, "mutex")' /\ k'.waitq[Mutex] = k.waitq[Mutex] /\ Granted' = Granted
    BY <2>1, MutexPoints, CallerFree, BeginWait DEF MutexInv, Still
  <2>3. inside' \in SUBSET Threads
    BY <2>1 DEF MutexInv
  <2>4. mlive' \in BOOLEAN /\ ~mlive'
    BY <2>1, Zenon
  <2>5. MutexInv'
    BY <2>2, <2>3, <2>4, Zenon DEF MutexInv
  <2>6. Lock!Close
    BY <2>1, <2>2 DEF Lock!Close
  <2> QED
    BY <2>5, <2>6 DEF LockStep, Lock!Next
<1>2. CASE MutexDestroyLoop(t)
  <2>1. /\ WaitInv(Mutex, "mutex")' /\ ~mlive /\ Granted' = Granted
        /\ \/ k'.waitq[Mutex] = k.waitq[Mutex]
           \/ k.waitq[Mutex] # << >> /\ k'.waitq[Mutex] = Tail(k.waitq[Mutex])
    <3>1. "destroyed" \in Returns
      BY DEF Returns
    <3> QED
      BY <1>2, <3>1, MutexPoints, LoopWait DEF MutexInv, MutexDestroyLoop
  <2>2. mlive' = mlive /\ inside' = inside /\ mcount' = mcount
    BY <1>2 DEF MutexDestroyLoop, mutexvars
  <2>3. MutexInv'
    BY <2>1, <2>2 DEF MutexInv
  <2>4. Lock!Expel \/ UNCHANGED Lock!svars
    BY <2>1, <2>2 DEF Lock!Expel, Lock!svars
  <2> QED
    BY <2>3, <2>4 DEF LockStep, Lock!Next
<1> QED
  BY <1>1, <1>2

LEMMA MutexStep == MutexInv /\ [MutexNext]_mvars => MutexInv' /\ LockStep
<1> SUFFICES ASSUME MutexInv, [MutexNext]_mvars PROVE MutexInv' /\ LockStep
  OBVIOUS
<1>1. ASSUME UNCHANGED mutexvars, KernelNext \/ \E t, n \in Threads : ResumeStep(t, n)
      PROVE  MutexInv' /\ LockStep
  BY <1>1, StillMutex, MutexStillStep
<1>2. ASSUME NEW t \in Threads, mutex_acquire(t)
      PROVE  MutexInv' /\ LockStep
  <2>1. CASE mcount + 1 > 1
    BY <1>2, <2>1, MutexEnterStep
  <2>2. CASE ~(mcount + 1 > 1)
    BY <1>2, <2>2, MutexTakeStep DEF mutex_acquire
  <2> QED
    BY <2>1, <2>2
<1>3. ASSUME NEW t \in Threads, mutex_acquire_timeout(t)
      PROVE  MutexInv' /\ LockStep
  <2>1. Calls(t) /\ mlive /\ UNCHANGED kvars /\ mlive' = mlive
    BY <1>3 DEF mutex_acquire_timeout
  <2>2. CASE mcount + 1 > 1
    <3>1. mcount \in Nat
      BY <2>1, MutexQueueTyped DEF MutexInv, OneOwner
    <3>2. UNCHANGED mutexvars
      BY <1>3, <2>1, <2>2, <3>1 DEF mutex_acquire_timeout, mutexvars
    <3> QED
      BY <2>1, <3>2, StillMutex, MutexStillStep
  <2>3. CASE ~(mcount + 1 > 1)
    BY <1>3, <2>1, <2>3, MutexTakeStep DEF mutex_acquire_timeout
  <2> QED
    BY <2>2, <2>3
<1>4. ASSUME NEW t \in Threads, MutexOps(t)
      PROVE  MutexInv' /\ LockStep
  BY <1>2, <1>3, <1>4, MutexInitStep, MutexReturnStep, ReleaseStep, MutexDestroyStep DEF MutexOps
<1>5. CASE UNCHANGED mvars
  <2>1. /\ k' = k /\ kpc' = kpc /\ irq' = irq /\ saved' = saved /\ notify' = notify
        /\ UNCHANGED mutexvars
    BY <1>5 DEF mvars, mutexvars
  <2>2. WaitInv(Mutex, "mutex")' /\ (mlive => NoWaker') /\ Granted' = Granted
    BY <2>1 DEF MutexInv, WaitInv, NoWaker, KernelInv, KernelTypeOK, SchedulerConsistent,
                CurrentRuns, LockDiscipline, Parked, Granted
  <2> QED
    BY <2>1, <2>2, MutexStillStep
<1> QED
  BY <1>1, <1>4, <1>5 DEF MutexNext

LEMMA MutexStart == MutexInit => MutexInv /\ Lock!Init
<1> SUFFICES ASSUME MutexInit PROVE MutexInv /\ Lock!Init
  OBVIOUS
<1>1. /\ KernelInv /\ k.waitq[Mutex] = << >>
      /\ \A t \in Threads : kpc[t] \in {"run", "start"}
      /\ mlive = FALSE /\ inside = {}
  BY InitKernelInv, MutexPoints DEF MutexInit
<1>2. Range(k.waitq[Mutex]) = {}
  BY <1>1 DEF Range
<1>3. WaitInv(Mutex, "mutex") /\ NoWaker
  BY <1>1, <1>2 DEF WaitInv, NoWaker
<1>4. mlive \in BOOLEAN /\ ~mlive /\ inside \in SUBSET Threads
  BY <1>1, Zenon
<1>5. MutexInv
  BY <1>3, <1>4, Zenon DEF MutexInv
<1>6. Granted = {}
  BY <1>1 DEF Granted
<1>7. Lock!Init
  BY <1>1, <1>4, <1>6 DEF Lock!Init
<1> QED
  BY <1>5, <1>7

\* The inductive invariant holds in every reachable state.
THEOREM MutexInvariant == MutexSpec => []MutexInv
  BY MutexStart, MutexStep, PTL DEF MutexSpec

\* At most one thread has the mutex, and m->holder names it.
THEOREM MutexExcludes == MutexSpec => []MutualExclusion
<1>1. MutexInv => MutualExclusion
  <2> SUFFICES ASSUME MutexInv, mlive
               PROVE  /\ Cardinality(inside \cup Granted) <= 1
                      /\ inside = IF holder = None THEN {} ELSE {holder}
    BY DEF MutualExclusion
  <2>1. Owners = {} \/ \E u \in Threads : Owners = {u}
    BY DEF MutexInv, OneOwner
  <2>2. Cardinality(Owners) \in {0, 1}
    BY <2>1, FS_EmptySet, FS_Singleton
  <2> QED
    BY <2>2 DEF MutexInv, HolderInside, Owners
<1> QED
  BY <1>1, MutexInvariant, PTL

\* The count of the mutex is its owner and its waiters, and nobody waits for a
\* mutex that is free.
THEOREM MutexCounts == MutexSpec => []CountsOwnerAndWaiters
<1>1. MutexInv => CountsOwnerAndWaiters
  <2> SUFFICES ASSUME MutexInv, mlive
               PROVE  /\ mcount = Cardinality(inside \cup Granted) + Len(k.waitq[Mutex])
                      /\ inside \cup Granted = {} => k.waitq[Mutex] = << >>
    BY DEF CountsOwnerAndWaiters
  <2>1. Len(k.waitq[Mutex]) \in Nat /\ (k.waitq[Mutex] = << >> <=> Len(k.waitq[Mutex]) = 0)
    BY MutexQueueTyped
  <2>2. CASE Owners = {} /\ k.waitq[Mutex] = << >> /\ mcount = 0
    <3>1. Cardinality(inside \cup Granted) = 0
      BY <2>2, FS_EmptySet, Zenon DEF Owners
    <3> QED
      BY <2>1, <2>2, <3>1
  <2>3. ASSUME NEW u \in Threads, Owners = {u}, mcount = Len(k.waitq[Mutex]) + 1
        PROVE  /\ mcount = Cardinality(inside \cup Granted) + Len(k.waitq[Mutex])
               /\ inside \cup Granted = {} => k.waitq[Mutex] = << >>
    <3>1. Cardinality(inside \cup Granted) = 1 /\ inside \cup Granted # {}
      BY <2>3, FS_Singleton, Zenon DEF Owners
    <3> QED
      BY <2>1, <2>3, <3>1
  <2> QED
    BY <2>2, <2>3 DEF MutexInv, OneOwner
<1> QED
  BY <1>1, MutexInvariant, PTL

\* mutex.c on the scheduler of thread.c is a first-come first-served semaphore
\* of one unit: release hands the mutex to the thread that has waited longest,
\* and no other call gets in between.
THEOREM MutexImplements == MutexSpec => MutexImplementsSpec
<1>1. MutexInv /\ [MutexNext]_mvars => [Lock!Next]_(Lock!svars)
  BY MutexStep DEF LockStep
<1> QED
  BY <1>1, MutexStart, MutexInvariant, PTL DEF MutexSpec, MutexImplementsSpec, Lock!Spec

\* Waiting for the mutex, the hand-over and mutex_destroy leave the queues of
\* thread.c consistent, and its lock balanced.
THEOREM MutexKeepsKernel == MutexSpec => [](SchedulerConsistent /\ LockDiscipline)
<1>1. MutexInv => SchedulerConsistent /\ LockDiscipline
  BY DEF MutexInv, WaitInv, KernelInv
<1> QED
  BY <1>1, MutexInvariant, PTL
=============================================================================
