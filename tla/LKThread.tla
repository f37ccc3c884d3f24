------------------------------ MODULE LKThread ------------------------------
(***************************************************************************)
(* The life of threads in lk/kernel/thread.c: create, resume, yield, exit, *)
(* join, detach, set_priority, on the processor of LKKernel, from the end  *)
(* of lkl_thread_init on.                                                  *)
(*                                                                         *)
(* An element of Threads is the address of a thread_t; its wait queue in   *)
(* k.waitq is t->retcode_wait_queue.  A freed thread_t may be allocated    *)
(* again.  claimed is the callers' side of the interface: as with POSIX    *)
(* threads, one thread at most joins a thread or detaches it from outside. *)
(***************************************************************************)
EXTENDS LKKernel

CONSTANTS
    CreatePriorities,   \* priorities passed to thread_create
    SetPriorities       \* priorities passed to thread_set_priority (unchecked ints)

ASSUME PriorityAssumption ==
    /\ CreatePriorities \subseteq 1 .. HighestPriority
    /\ SetPriorities \subseteq Int

ThreadPoints == {"join", "exit", "detach"}
ASSUME ThreadPointsAssumption == ClientPoints = ThreadPoints /\ Objects = {}

VARIABLES
    detached,   \* the threads with THREAD_FLAG_DETACHED
    target,     \* target[t]: the argument of t's thread_join or thread_detach
    claimed     \* threads some caller has joined or detached

vars == <<k, kpc, irq, saved, notify, detached, target, claimed>>

Workers == Threads \ {Boot, Idle}

TypeOK ==
    /\ KernelTypeOK
    /\ detached \in SUBSET Threads
    /\ target \in [Threads -> Threads \cup {None}]
    /\ claimed \in SUBSET Threads

Init ==
    /\ InitKernel({})
    /\ detached = {Boot, Idle}
    /\ target = [t \in Threads |-> None]
    /\ claimed = {}

-----------------------------------------------------------------------------
\* init_thread_struct and the fields thread_create_etc sets
NewThread(n, p) ==
    [k EXCEPT !.state[n] = "suspended", !.prio[n] = p, !.quantum[n] = 0,
              !.bwq[n] = None, !.ret[n] = "ok",
              !.waitq[n] = << >>, !.wcount[n] = 0]

\* thread_create; a failed allocation returns NULL and changes nothing
thread_create(t, n, p) ==
    /\ Own(t) /\ t # Idle
    /\ k.state[n] = "unused"
    /\ k' = NewThread(n, p)
    /\ kpc' = [kpc EXCEPT ![n] = "start"]
    /\ detached' = detached \ {n}
    /\ claimed' = claimed \ {n}
    /\ UNCHANGED <<irq, saved, notify, target>>

thread_resume(t, n) == ResumeStep(t, n) /\ UNCHANGED <<detached, target, claimed>>

ClampPriority(p) ==
    IF p <= IdlePriority THEN IdlePriority + 1
    ELSE IF p > HighestPriority THEN HighestPriority ELSE p

thread_set_priority(t, p) ==
    /\ Own(t) /\ t # Idle
    /\ k' = thread_resched(ReadyHead([k EXCEPT !.prio[t] = ClampPriority(p)], t))
    /\ LockAndLeaveAt(t, "unlock")
    /\ UNCHANGED <<notify, detached, target, claimed>>

-----------------------------------------------------------------------------
\* Mutant for FreedUnreferenced: a detached thread frees itself before its last switch.
thread_exit_FreesSelf(t) ==
    /\ Own(t) /\ t \in Workers
    /\ k' = [k EXCEPT !.state[t] = IF t \in detached THEN "unused" ELSE "dead"]
    /\ LockAndLeaveAt(t, "exit")
    /\ UNCHANGED <<notify, detached, target, claimed>>

\* thread_exit: the state is DEATH before anyone is woken.  A detached thread
\* leaves at once (heap_delayed_free keeps its memory), the others wake their
\* joiner first.
thread_exit(t) ==
    /\ Own(t) /\ t \in Workers
    /\ LET dead == [k EXCEPT !.state[t] = "dead"] IN
       IF t \in detached
       THEN k' = thread_resched(dead) /\ LockAndLeaveAt(t, "done")
       ELSE k' = dead /\ LockAndLeaveAt(t, "exit")
    /\ UNCHANGED <<notify, detached, target, claimed>>

\* one iteration of wait_queue_wake_all in thread_exit
ExitWake(t) ==
    /\ At(t, "exit") /\ k.waitq[t] # << >>
    /\ k' = WakeHead(k, t, "ok")
    /\ UNCHANGED <<kpc, irq, saved, notify, detached, target, claimed>>

\* Mutant for NoForgottenJoiner and JoinReturns: the joiner is not woken.
ExitSwitch_WakesNobody(t) ==
    /\ At(t, "exit")
    /\ k' = thread_resched(k)
    /\ kpc' = [kpc EXCEPT ![t] = "done"]
    /\ UNCHANGED <<irq, saved, notify, detached, target, claimed>>

\* the final thread_resched of thread_exit
ExitSwitch(t) ==
    /\ At(t, "exit") /\ k.waitq[t] = << >>
    /\ k' = thread_resched(k)
    /\ kpc' = [kpc EXCEPT ![t] = "done"]
    /\ UNCHANGED <<irq, saved, notify, detached, target, claimed>>

-----------------------------------------------------------------------------
\* The caller's right to dispose of n: nobody else has used it.
MayClaim(t, n) ==
    /\ n \in Workers \ claimed
    /\ k.state[n] # "unused" /\ ~(k.state[n] = "dead" /\ n \in detached)

\* thread_join with INFINITE_TIME up to its first return or switch
thread_join(t, n) ==
    /\ Own(t) /\ t # Idle /\ t # n
    /\ MayClaim(t, n)
    /\ claimed' = claimed \cup {n}
    /\ \/ /\ n \in detached                 \* ERR_THREAD_DETACHED
          /\ UNCHANGED <<k, kpc, irq, saved, target>>
       \/ /\ n \notin detached /\ k.state[n] = "dead"
          /\ kpc' = [kpc EXCEPT ![t] = "reap"]
          /\ target' = [target EXCEPT ![t] = n]
          /\ UNCHANGED <<k, irq, saved>>
       \/ /\ n \notin detached /\ k.state[n] # "dead"
          /\ k' = wait_queue_block(k, t, n)
          /\ LockAndLeaveAt(t, "join")
          /\ target' = [target EXCEPT ![t] = n]
    /\ UNCHANGED <<notify, detached>>

\* Mutant for ReapsOnlyDead: the result of wait_queue_block is ignored.
JoinWoken_IgnoresError(t) ==
    /\ At(t, "join")
    /\ UnlockTo(t, "reap")
    /\ UNCHANGED <<k, notify, detached, target, claimed>>

\* the return from wait_queue_block in thread_join, to THREAD_UNLOCK
JoinWoken(t) ==
    /\ At(t, "join")
    /\ IF k.ret[t] = "ok"
       THEN UnlockTo(t, "reap") /\ UNCHANGED target
       ELSE UnlockTo(t, "run") /\ target' = [target EXCEPT ![t] = None]
    /\ UNCHANGED <<k, notify, detached, claimed>>

\* the end of thread_join, after the lock: free(t->stack) and free(t)
Reap(t) ==
    /\ At(t, "reap")
    /\ k' = [k EXCEPT !.state[target[t]] = "unused"]
    /\ target' = [target EXCEPT ![t] = None]
    /\ kpc' = [kpc EXCEPT ![t] = "run"]
    /\ irq' = TRUE                      \* free is a boot service
    /\ UNCHANGED <<saved, notify, detached, claimed>>

\* thread_detach of the caller itself (lkl_thread_detach) or of a thread that
\* nobody else disposes of (thread_detach_and_resume): the lock and the
\* argument; wait_queue_wake_all follows.
thread_detach(t, n) ==
    /\ Own(t) /\ t # Idle
    /\ MayClaim(t, n) \/ (n = t /\ t \in Workers)
    /\ claimed' = claimed \cup {n}
    /\ target' = [target EXCEPT ![t] = n]
    /\ LockAndLeaveAt(t, "detach")
    /\ UNCHANGED <<k, notify, detached>>

\* one iteration of wait_queue_wake_all in thread_detach
DetachWake(t) ==
    /\ At(t, "detach") /\ k.waitq[target[t]] # << >>
    /\ k' = WakeHead(k, target[t], "detached")
    /\ UNCHANGED <<kpc, irq, saved, notify, detached, target, claimed>>

\* the rest of thread_detach: a live thread gets the flag, a dead one is
\* joined with a zero timeout
DetachFinish(t) ==
    /\ At(t, "detach") /\ k.waitq[target[t]] = << >>
    /\ IF k.state[target[t]] = "dead"
       THEN /\ UnlockTo(t, "reap")
            /\ detached' = detached \ {target[t]}
            /\ UNCHANGED target
       ELSE /\ UnlockTo(t, "run")
            /\ detached' = detached \cup {target[t]}
            /\ target' = [target EXCEPT ![t] = None]
    /\ UNCHANGED <<k, notify, claimed>>

-----------------------------------------------------------------------------
ThreadOps(t) ==
    \/ \E n \in Workers, p \in CreatePriorities : thread_create(t, n, p)
    \/ \E n \in Threads : thread_resume(t, n) \/ thread_join(t, n) \/ thread_detach(t, n)
    \/ \E p \in SetPriorities : thread_set_priority(t, p)
    \/ thread_exit(t) \/ ExitWake(t) \/ ExitSwitch(t)
    \/ JoinWoken(t) \/ Reap(t) \/ DetachWake(t) \/ DetachFinish(t)

Next ==
    \/ KernelNext /\ UNCHANGED <<detached, target, claimed>>
    \/ \E t \in Threads : ThreadOps(t)

Spec == Init /\ [][Next]_vars

\* Code outside lk/ gives up the processor sooner or later (every sem_down and
\* mutex_lock of UefiHost.c starts with thread_yield); the kernel code and the
\* firmware's notification returns do not stop.
Fairness ==
    /\ WF_vars(idle_thread_routine /\ UNCHANGED <<detached, target, claimed>>)
    /\ \A t \in Threads :
          /\ SF_vars(thread_yield(t) /\ UNCHANGED <<detached, target, claimed>>)
          /\ WF_vars((ReturnFromResched(t) \/ initial_thread_func(t) \/ ReturnFromNotify(t))
                     /\ UNCHANGED <<detached, target, claimed>>)
          /\ WF_vars(ExitWake(t) \/ ExitSwitch(t) \/ JoinWoken(t) \/ Reap(t)
                     \/ DetachWake(t) \/ DetachFinish(t))

FairSpec == Spec /\ Fairness

-----------------------------------------------------------------------------
(* Safety.                                                                 *)

\* A thread about to free the thread it joined (thread_join past the lock)
\* frees one that is dead, that has left its stack for good, that nobody waits
\* for and that nobody else is about to free.
ReapsOnlyDead ==
    \A t \in Threads : kpc[t] = "reap" =>
        /\ k.state[target[t]] = "dead" /\ kpc[target[t]] = "done"
        /\ k.waitq[target[t]] = << >>
        /\ target[t] \notin detached
        /\ \A u \in Threads \ {t} : kpc[u] \in {"join", "reap", "detach"} => target[u] # target[t]

\* A thread_t that has been freed is referenced nowhere: it has no joiner in
\* its wait queue, is nobody's argument, and does not have the processor.
FreedUnreferenced ==
    \A n \in Threads : k.state[n] = "unused" =>
        /\ k.waitq[n] = << >> /\ n # k.cur /\ n # notify
        /\ \A t \in Threads : target[t] # n

\* No joiner sleeps on a thread that can no longer wake it: one that has made
\* its last switch, or one that is detached.
NoForgottenJoiner ==
    \A n \in Threads : kpc[n] = "done" \/ n \in detached => k.waitq[n] = << >>

-----------------------------------------------------------------------------
(* Action and temporal properties.                                         *)

\* Whenever the processor changes hands, no READY thread has a higher priority
\* than the thread that gets it.
SwitchPicksTop == [][PicksTop]_vars

\* A thread that waits in thread_join for a thread that dies returns.
JoinReturns ==
    \A t \in Workers \cup {Boot} :
        (kpc[t] = "join" /\ k.state[target[t]] = "dead") ~> (kpc[t] # "join")

\* With all threads at one priority, a READY thread gets the processor.
ReadyRuns ==
    \A t \in Threads \ {Idle} : (k.state[t] = "ready") ~> (k.state[t] = "running")

-----------------------------------------------------------------------------
(* The inductive invariant behind the safety properties.                   *)

\* Points at which target[t] is in use.
Disposing(t) == kpc[t] \in {"join", "reap", "detach"}

\* Where a thread stands agrees with its state.
PointsMatchStates ==
    \A t \in Threads :
        /\ k.state[t] \in {"unused", "suspended"} =>
              kpc[t] = IF k.state[t] = "unused" THEN "done" ELSE "start"
        /\ k.state[t] = "dead" <=> kpc[t] = "exit" \/ (kpc[t] = "done" /\ k.state[t] # "unused")
        /\ k.state[t] = "blocked" => kpc[t] = "join" /\ k.bwq[t] = target[t]
        /\ kpc[t] \in {"exit", "detach"} => t = k.cur
        /\ kpc[t] = "exit" => t \notin detached
        /\ t = Idle => kpc[t] \in {"start", "run", "unlock"}

\* A target is a claimed thread_t that has not been freed, and two callers
\* have the same one only when one of them is that thread, detaching itself.
TargetsExclusive ==
    \A t \in Threads :
        /\ IF Disposing(t) THEN target[t] \in Workers \cap claimed ELSE target[t] = None
        /\ Disposing(t) => k.state[target[t]] # "unused"
        /\ kpc[t] # "detach" => target[t] # t
        /\ \A u \in Threads \ {t} :
              Disposing(t) /\ Disposing(u) /\ target[t] = target[u] =>
                  (kpc[t] = "detach" /\ target[t] = t) \/ (kpc[u] = "detach" /\ target[u] = u)

\* What a joiner that is woken without an error, and a reaper, find.
JoinersInformed ==
    \A t \in Threads :
        /\ kpc[t] = "join" /\ k.state[t] # "blocked" /\ k.ret[t] = "ok" =>
              k.state[target[t]] = "dead" /\ target[t] \notin detached
        /\ kpc[t] = "reap" =>
              k.state[target[t]] = "dead" /\ kpc[target[t]] = "done" /\ target[t] \notin detached

ThreadInv ==
    /\ TypeOK /\ SchedulerConsistent /\ LockDiscipline
    /\ PointsMatchStates /\ TargetsExclusive /\ JoinersInformed /\ NoForgottenJoiner
=============================================================================
