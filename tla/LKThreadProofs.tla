--------------------------- MODULE LKThreadProofs ---------------------------
(***************************************************************************)
(* The safety of the life of threads (LKThread), for every set of threads  *)
(* and every choice of priorities: ThreadInv is inductive, and the safety  *)
(* properties follow from it.  One lemma per action.                       *)
(***************************************************************************)
EXTENDS LKThread, LKKernelProofs

\* The parts of ThreadInv that are about thread_join and thread_detach.
LifeInv == PointsMatchStates /\ TargetsExclusive /\ JoinersInformed /\ NoForgottenJoiner

LEMMA ThreadInvParts == ThreadInv <=> TypeOK /\ KernelInv /\ LifeInv
  BY DEF ThreadInv, KernelInv, LifeInv, TypeOK

\* The state lkl_thread_init leaves behind satisfies the invariant.
LEMMA InitInv == Init => ThreadInv
<1> SUFFICES ASSUME Init PROVE ThreadInv
  OBVIOUS
<1> USE SchedAssumption, ThreadPointsAssumption
<1>1. k \in KernelStates
  <2>1. /\ k.state \in [Threads -> States] /\ k.prio \in [Threads -> Prios]
        /\ k.quantum \in [Threads -> 0 .. FullQuantum]
        /\ k.bwq \in [Threads -> Queues \cup {None}] /\ k.ret \in [Threads -> Returns]
    BY DEF Init, InitKernel, InitialState, States, Returns, Prios, IdlePriority
  <2>2. /\ k.runq \in [Prios -> Seq(Threads)] /\ k.bitmap \in SUBSET Prios
        /\ k.waitq \in [Queues -> Seq(Threads)] /\ k.wcount \in [Queues -> Int]
        /\ k.cur \in Threads
    BY DEF Init, InitKernel, InitialState
  <2>3. k = InitialState({})
    BY DEF Init, InitKernel
  <2> QED
    BY <2>1, <2>2, <2>3 DEF InitialState, KernelStates
<1>2. TypeOK
  BY <1>1 DEF Init, InitKernel, TypeOK, KernelTypeOK, KernelPoints, OpenPoints
<1>3. /\ k.cur = Boot
      /\ \A p \in Prios : k.runq[p] = << >>
      /\ \A q \in Queues : k.waitq[q] = << >> /\ k.wcount[q] = 0
      /\ k.bitmap = {}
      /\ \A t \in Threads :
            /\ k.state[t] = IF t = Boot THEN "running"
                            ELSE IF t = Idle THEN "suspended" ELSE "unused"
            /\ kpc[t] = IF t = Boot THEN "run" ELSE IF t = Idle THEN "start" ELSE "done"
            /\ target[t] = None
      /\ notify = None /\ detached = {Boot, Idle}
  BY DEF Init, InitKernel, InitialState
<1>4. QueueInv(k)
  <2>1. \A p \in Prios : Range(k.runq[p]) = {} /\ NoDup(k.runq[p])
    BY <1>3 DEF Range, NoDup
  <2>2. \A q \in Queues : Range(k.waitq[q]) = {} /\ NoDup(k.waitq[q]) /\ Len(k.waitq[q]) = 0
    BY <1>3 DEF Range, NoDup
  <2>3. RunQueues(k)
    BY <1>3, <2>1 DEF RunQueues
  <2>4. WaitQueues(k)
    BY <1>3, <2>2 DEF WaitQueues
  <2> QED
    BY <1>1, <1>3, <2>3, <2>4 DEF QueueInv, Bitmap, OneRunning, IdleAvailable
<1>5. CurrentRuns /\ LockDiscipline
  BY <1>3 DEF CurrentRuns, LockDiscipline, Parked, OpenPoints
<1>6. LifeInv
  BY <1>3 DEF LifeInv, PointsMatchStates, TargetsExclusive, JoinersInformed, NoForgottenJoiner,
              Disposing, Queues
<1> QED
  BY <1>2, <1>4, <1>5, <1>6, ThreadInvParts DEF KernelInv, TypeOK, SchedulerConsistent

\* A step that only moves threads between READY and RUNNING.
LEMMA QuietInv ==
    ASSUME ThreadInv, KernelInv', KernelQuiet, UNCHANGED <<detached, target, claimed>>
    PROVE  ThreadInv'
<1>0. detached' = detached /\ target' = target /\ claimed' = claimed
  OBVIOUS
<1>1. KernelInv' /\ KernelQuiet
  OBVIOUS
<1>2. TypeOK'
  BY <1>1 DEF ThreadInv, TypeOK, KernelInv
<1>3. /\ k'.bwq = k.bwq /\ k'.ret = k.ret /\ k'.waitq = k.waitq
      /\ \A u \in Threads :
          \/ k'.state[u] = k.state[u]
          \/ k.state[u] \in {"ready", "running"} /\ k'.state[u] \in {"ready", "running"}
          \/ u = Idle /\ k.state[u] = "suspended" /\ k'.state[u] = "running"
      /\ \A u \in Threads :
          \/ kpc'[u] = kpc[u]
          \/ u = k.cur /\ kpc[u] \in {"run", "yield", "unlock", "start"}
                       /\ kpc'[u] \in {"run", "unlock"}
      /\ k'.cur # k.cur => kpc[k.cur] \in OpenPoints
  BY <1>1 DEF KernelQuiet, SameWaits
<1>4. \A u \in Threads : (Disposing(u)' <=> Disposing(u)) /\ (Disposing(u) => kpc'[u] = kpc[u])
  BY <1>3 DEF Disposing
<1>5. PointsMatchStates'
  <2> SUFFICES ASSUME NEW t \in Threads
      PROVE /\ k'.state[t] \in {"unused", "suspended"} =>
                  kpc'[t] = IF k'.state[t] = "unused" THEN "done" ELSE "start"
            /\ k'.state[t] = "dead" <=> kpc'[t] = "exit" \/ (kpc'[t] = "done" /\ k'.state[t] # "unused")
            /\ k'.state[t] = "blocked" => kpc'[t] = "join" /\ k'.bwq[t] = target'[t]
            /\ kpc'[t] \in {"exit", "detach"} => t = k'.cur
            /\ kpc'[t] = "exit" => t \notin detached'
            /\ t = Idle => kpc'[t] \in {"start", "run", "unlock"}
    BY DEF PointsMatchStates
  <2>1. k.state[k.cur] = "running" \/ kpc[k.cur] = "exit" \/ kpc[k.cur] = "wake_all"
    BY DEF ThreadInv, SchedulerConsistent, CurrentRuns
  <2> QED
    BY <1>3, <2>1 DEF ThreadInv, PointsMatchStates, OpenPoints
<1>a. \A u \in Threads :
                          /\ kpc[u] = "detach" <=> kpc'[u] = "detach"
                          /\ kpc[u] = "done" <=> kpc'[u] = "done"
                          /\ k.state[u] = "unused" <=> k'.state[u] = "unused"
                          /\ k.state[u] = "dead" <=> k'.state[u] = "dead"
                          /\ k.state[u] = "blocked" <=> k'.state[u] = "blocked"
  <2> SUFFICES ASSUME NEW u \in Threads
               PROVE  /\ kpc[u] = "detach" <=> kpc'[u] = "detach"
                      /\ kpc[u] = "done" <=> kpc'[u] = "done"
                      /\ k.state[u] = "unused" <=> k'.state[u] = "unused"
                      /\ k.state[u] = "dead" <=> k'.state[u] = "dead"
                      /\ k.state[u] = "blocked" <=> k'.state[u] = "blocked"
    OBVIOUS
  <2>1. (kpc[u] = "detach" <=> kpc'[u] = "detach") /\ (kpc[u] = "done" <=> kpc'[u] = "done")
    BY <1>3
  <2>2. CASE k'.state[u] = k.state[u]
    BY <2>1, <2>2
  <2>3. CASE k'.state[u] # k.state[u]
    <3>1. k.state[u] \in {"ready", "running", "suspended"} /\ k'.state[u] \in {"ready", "running"}
      BY <1>3, <2>3
    <3> QED
      BY <2>1, <3>1
  <2> QED
    BY <2>2, <2>3
<1>b. \A u \in Threads : Disposing(u) => target[u] \in Threads
  BY DEF ThreadInv, TargetsExclusive, Workers
<1>6. TargetsExclusive'
  <2> SUFFICES ASSUME NEW t \in Threads
      PROVE /\ IF Disposing(t)' THEN target'[t] \in Workers \cap claimed' ELSE target'[t] = None
            /\ Disposing(t)' => k'.state[target'[t]] # "unused"
            /\ kpc'[t] # "detach" => target'[t] # t
            /\ \A u \in Threads \ {t} :
                  Disposing(t)' /\ Disposing(u)' /\ target'[t] = target'[u] =>
                  (kpc'[t] = "detach" /\ target'[t] = t) \/ (kpc'[u] = "detach" /\ target'[u] = u)
    BY DEF TargetsExclusive
  <2> QED
    BY <1>0, <1>4, <1>a, <1>b DEF ThreadInv, TargetsExclusive
<1>7. JoinersInformed'
  <2> SUFFICES ASSUME NEW t \in Threads
      PROVE /\ kpc'[t] = "join" /\ k'.state[t] # "blocked" /\ k'.ret[t] = "ok" =>
                  k'.state[target'[t]] = "dead" /\ target'[t] \notin detached'
            /\ kpc'[t] = "reap" =>
                  /\ k'.state[target'[t]] = "dead" /\ kpc'[target'[t]] = "done"
                  /\ target'[t] \notin detached'
    BY DEF JoinersInformed
  <2>1. kpc'[t] \in {"join", "reap"} => kpc[t] = kpc'[t] /\ target[t] \in Threads
    BY <1>4, <1>b DEF Disposing
  <2> QED
    BY <2>1, <1>0, <1>3, <1>a DEF ThreadInv, JoinersInformed
<1>8. NoForgottenJoiner'
  BY <1>3 DEF ThreadInv, NoForgottenJoiner
<1> QED
  BY <1>1, <1>2, <1>5, <1>6, <1>7, <1>8, ThreadInvParts DEF LifeInv, ThreadInv, KernelInv

\* The steps of the processor and the scheduler.
LEMMA KernelNextInv ==
    ASSUME ThreadInv, KernelNext, UNCHANGED <<detached, target, claimed>>
    PROVE  ThreadInv' /\ PicksTop
  BY ThreadInvParts, KernelStep, QuietInv DEF KernelQuiet

-----------------------------------------------------------------------------
(* The thread operations.                                                  *)

\* What is known of the thread that executes an operation from its own code.
LEMMA OwnFacts ==
    ASSUME ThreadInv, NEW t \in Threads, Own(t)
    PROVE  /\ t = k.cur /\ kpc[t] = "run" /\ notify # t
           /\ k.state[t] = "running" /\ target[t] = None /\ ~Disposing(t)
           /\ k \in KernelStates /\ QueueInv(k)
<1>1. t = k.cur /\ kpc[t] = "run" /\ notify # t
  BY DEF Own, At
<1>2. k.state[t] = "running" /\ k \in KernelStates /\ QueueInv(k)
  BY <1>1 DEF ThreadInv, SchedulerConsistent, CurrentRuns, QueueInv
<1>3. ~Disposing(t)
  BY <1>1 DEF Disposing
<1> QED
  BY <1>1, <1>2, <1>3 DEF ThreadInv, TargetsExclusive

\* Every target in use is a thread_t of a worker that has not been freed.
LEMMA TargetFacts ==
    ASSUME ThreadInv, NEW u \in Threads, Disposing(u)
    PROVE  /\ target[u] \in Threads /\ target[u] # Idle /\ target[u] # Boot /\ target[u] \in Workers
           /\ target[u] \in claimed /\ k.state[target[u]] # "unused"
  BY DEF ThreadInv, TargetsExclusive, Workers

\* thread_create.
LEMMA CreateInv ==
    ASSUME ThreadInv, NEW t \in Threads, NEW n \in Workers, NEW p \in CreatePriorities,
           thread_create(t, n, p)
    PROVE  ThreadInv'
<1> USE SchedAssumption
<1>1. /\ t = k.cur /\ kpc[t] = "run" /\ notify # t
      /\ k.state[t] = "running" /\ target[t] = None /\ ~Disposing(t)
      /\ k \in KernelStates /\ QueueInv(k)
  BY OwnFacts DEF thread_create
<1>2. /\ n \in Threads /\ n # Idle /\ n # Boot /\ n # t
      /\ k.state[n] = "unused" /\ kpc[n] = "done" /\ k.waitq[n] = << >>
      /\ notify # n
  BY <1>1 DEF thread_create, Workers, ThreadInv, PointsMatchStates, NoForgottenJoiner,
              LockDiscipline
<1>3. n \in Queues /\ k.wcount[n] = 0 /\ p \in Prios
  <2>1. n \in Queues
    BY <1>2 DEF Queues
  <2>2. k.wcount[n] = Len(k.waitq[n])
    BY <1>1, <2>1 DEF QueueInv, WaitQueues
  <2>3. p \in Prios
    BY PriorityAssumption DEF Prios, IdlePriority
  <2> QED
    BY <1>2, <2>1, <2>2, <2>3
<1>4. /\ k' = NewThread(n, p)
      /\ kpc' = [kpc EXCEPT ![n] = "start"]
      /\ detached' = detached \ {n} /\ claimed' = claimed \ {n}
      /\ irq' = irq /\ saved' = saved /\ notify' = notify /\ target' = target
  BY DEF thread_create
<1>a. /\ k.state \in [Threads -> States] /\ k.prio \in [Threads -> Prios]
      /\ k.ret \in [Threads -> Returns] /\ k.bwq \in [Threads -> Queues \cup {None}]
      /\ k.quantum \in [Threads -> 0 .. FullQuantum]
      /\ k.waitq \in [Queues -> Seq(Threads)] /\ k.wcount \in [Queues -> Int]
  BY <1>1 DEF KernelStates
<1>b. [k.waitq EXCEPT ![n] = << >>] = k.waitq /\ [k.wcount EXCEPT ![n] = 0] = k.wcount
  BY <1>a, <1>2, <1>3
<1>5. /\ k'.state = [k.state EXCEPT ![n] = "suspended"]
      /\ k'.prio = [k.prio EXCEPT ![n] = p]
      /\ k'.bwq = [k.bwq EXCEPT ![n] = None]
      /\ k'.ret = [k.ret EXCEPT ![n] = "ok"]
      /\ k'.quantum = [k.quantum EXCEPT ![n] = 0]
      /\ k'.runq = k.runq /\ k'.bitmap = k.bitmap /\ k'.cur = k.cur
      /\ k'.waitq = k.waitq /\ k'.wcount = k.wcount
  BY <1>1, <1>4, <1>b DEF NewThread, KernelStates
<1>6. k' \in KernelStates
  <2>1. [k.state EXCEPT ![n] = "suspended"] \in [Threads -> States]
    BY <1>a DEF States
  <2>2. [k.prio EXCEPT ![n] = p] \in [Threads -> Prios]
    BY <1>a, <1>3
  <2>3. [k.ret EXCEPT ![n] = "ok"] \in [Threads -> Returns]
    BY <1>a DEF Returns
  <2>4. [k.bwq EXCEPT ![n] = None] \in [Threads -> Queues \cup {None}]
    BY <1>a
  <2>5. 0 \in 0 .. FullQuantum
    OBVIOUS
  <2>6. [k.quantum EXCEPT ![n] = 0] \in [Threads -> 0 .. FullQuantum]
    BY <1>a, <2>5, Zenon
  <2>7. [k.waitq EXCEPT ![n] = << >>] \in [Queues -> Seq(Threads)]
    BY <1>a, <1>b
  <2>8. [k.wcount EXCEPT ![n] = 0] \in [Queues -> Int]
    BY <1>a, <1>b
  <2>9. k' = [k EXCEPT !.state = [k.state EXCEPT ![n] = "suspended"],
                       !.prio = [k.prio EXCEPT ![n] = p],
                       !.quantum = [k.quantum EXCEPT ![n] = 0],
                       !.bwq = [k.bwq EXCEPT ![n] = None],
                       !.ret = [k.ret EXCEPT ![n] = "ok"],
                       !.waitq = [k.waitq EXCEPT ![n] = << >>],
                       !.wcount = [k.wcount EXCEPT ![n] = 0]]
    BY <1>4, Zenon DEF NewThread
  <2> QED
    BY <1>1, <2>1, <2>2, <2>3, <2>4, <2>6, <2>7, <2>8, <2>9 DEF KernelStates
<1>7. QueueInv(k')
  <2>1. \A u \in Threads : u # n => k'.prio[u] = k.prio[u] /\ k'.bwq[u] = k.bwq[u]
    BY <1>a, <1>5
  <2>2. Reshaped(k, k', n, "suspended")
    BY <1>5, <1>6, <2>1 DEF Reshaped
  <2>3. k.state[n] \notin {"ready", "blocked"}
    BY <1>2
  <2> QED
    BY <1>1, <1>2, <2>2, <2>3, ReshapeInv
<1>8. TypeOK'
  BY <1>4, <1>6, <1>2 DEF ThreadInv, TypeOK, KernelTypeOK, KernelPoints
<1>9. /\ k'.state[n] = "suspended" /\ kpc'[n] = "start"
      /\ \A u \in Threads : u # n => k'.state[u] = k.state[u] /\ kpc'[u] = kpc[u]
                                     /\ k'.bwq[u] = k.bwq[u] /\ k'.ret[u] = k.ret[u]
  BY <1>1, <1>2, <1>4, <1>5 DEF KernelStates, ThreadInv, TypeOK, KernelTypeOK
<1>10. KernelInv'
  <2>1. CurrentRuns'
    BY <1>1, <1>2, <1>5, <1>9 DEF CurrentRuns
  <2>2. LockDiscipline'
    BY <1>1, <1>2, <1>4, <1>5, <1>9
       DEF ThreadInv, LockDiscipline, Parked, TypeOK, KernelTypeOK, OpenPoints
  <2> QED
    BY <1>7, <1>8, <2>1, <2>2 DEF KernelInv, SchedulerConsistent, TypeOK
<1>11. \A u \in Threads : /\ Disposing(u)' <=> Disposing(u)
                          /\ Disposing(u) => target[u] # n /\ u # n /\ target[u] \in Threads
  BY <1>2, <1>9, TargetFacts DEF Disposing
<1>12. PointsMatchStates'
  BY <1>2, <1>4, <1>5, <1>9 DEF ThreadInv, PointsMatchStates
<1>13. TargetsExclusive'
  BY <1>2, <1>4, <1>9, <1>11 DEF ThreadInv, TargetsExclusive, Disposing
<1>14. JoinersInformed'
  BY <1>2, <1>4, <1>9, <1>11 DEF ThreadInv, JoinersInformed, Disposing
<1>15. NoForgottenJoiner'
  BY <1>2, <1>4, <1>5, <1>9 DEF ThreadInv, NoForgottenJoiner
<1> QED
  BY <1>8, <1>10, <1>12, <1>13, <1>14, <1>15 DEF ThreadInv, KernelInv

\* thread_resume.
LEMMA ResumeInv ==
    ASSUME ThreadInv, NEW t \in Threads, NEW n \in Threads, thread_resume(t, n)
    PROVE  ThreadInv'
<1> USE SchedAssumption
<1>1. /\ t = k.cur /\ kpc[t] = "run" /\ notify # t
      /\ k.state[t] = "running" /\ target[t] = None /\ ~Disposing(t)
      /\ k \in KernelStates /\ QueueInv(k)
  BY OwnFacts DEF thread_resume, ResumeStep
<1>2. n # t /\ t # Idle /\ n # Idle /\ k.state[n] = "suspended" /\ kpc[n] = "start" /\ notify # n
  BY <1>1 DEF thread_resume, ResumeStep, ThreadInv, PointsMatchStates, LockDiscipline
<1>3. /\ k' = ReadyHead(k, n) /\ kpc' = [kpc EXCEPT ![t] = IF irq THEN "yield" ELSE "run"]
      /\ irq' = irq /\ saved' = saved /\ notify' = notify
      /\ detached' = detached /\ target' = target /\ claimed' = claimed
  BY DEF thread_resume, ResumeStep
<1>4. /\ QueueInv(k') /\ k'.state = [k.state EXCEPT ![n] = "ready"] /\ k'.cur = k.cur
      /\ k'.waitq = k.waitq /\ k'.bwq = k.bwq /\ k'.ret = k.ret
  BY <1>1, <1>2, <1>3, ReadyHeadInv DEF SameButRunQueue
<1>5. TypeOK'
  BY <1>3, <1>4 DEF ThreadInv, TypeOK, KernelTypeOK, KernelPoints, OpenPoints, QueueInv
<1>6. /\ k'.state[n] = "ready" /\ kpc'[t] \in {"run", "yield"}
      /\ \A u \in Threads : u # n => k'.state[u] = k.state[u]
      /\ \A u \in Threads : u # t => kpc'[u] = kpc[u]
  BY <1>1, <1>3, <1>4 DEF KernelStates, ThreadInv, TypeOK, KernelTypeOK
<1>7. KernelInv'
  <2>1. CurrentRuns'
    BY <1>1, <1>2, <1>4, <1>6 DEF CurrentRuns
  <2>2. LockDiscipline'
    BY <1>1, <1>2, <1>3, <1>4, <1>6
       DEF ThreadInv, LockDiscipline, Parked, TypeOK, KernelTypeOK, OpenPoints
  <2> QED
    BY <1>4, <1>5, <2>1, <2>2 DEF KernelInv, SchedulerConsistent, TypeOK
<1>8. \A u \in Threads : /\ Disposing(u)' <=> Disposing(u)
                         /\ Disposing(u) => target[u] \in Threads /\ u # t
  BY <1>1, <1>6, TargetFacts DEF Disposing
<1>9. PointsMatchStates'
  BY <1>1, <1>2, <1>3, <1>4, <1>6 DEF ThreadInv, PointsMatchStates
<1>10. TargetsExclusive'
  BY <1>1, <1>2, <1>3, <1>6, <1>8 DEF ThreadInv, TargetsExclusive
<1>11. JoinersInformed'
  BY <1>1, <1>2, <1>3, <1>4, <1>6, <1>8 DEF ThreadInv, JoinersInformed, Disposing
<1>12. NoForgottenJoiner'
  BY <1>1, <1>3, <1>4, <1>6 DEF ThreadInv, NoForgottenJoiner
<1> QED
  BY <1>5, <1>7, <1>9, <1>10, <1>11, <1>12 DEF ThreadInv, KernelInv

\* thread_set_priority: the caller changes its priority while it is in no run
\* queue, and only then enters the one of its new priority.
LEMMA SetPriorityInv ==
    ASSUME ThreadInv, NEW t \in Threads, NEW p \in SetPriorities, thread_set_priority(t, p)
    PROVE  ThreadInv' /\ PicksTop
<1> DEFINE c == ClampPriority(p)
           z == [k EXCEPT !.prio[t] = c]
           y == ReadyHead(z, t)
<1>1. /\ t = k.cur /\ kpc[t] = "run" /\ notify # t
      /\ k.state[t] = "running" /\ target[t] = None /\ ~Disposing(t)
      /\ k \in KernelStates /\ QueueInv(k)
  BY OwnFacts DEF thread_set_priority
<1>2. /\ t # Idle /\ k' = thread_resched(y)
      /\ kpc' = [kpc EXCEPT ![t] = "unlock"] /\ irq' = FALSE /\ saved' = [saved EXCEPT ![t] = irq]
      /\ notify' = notify
      /\ detached' = detached /\ target' = target /\ claimed' = claimed
  BY DEF thread_set_priority, LockAndLeaveAt
<1>3. c \in Prios
  <2>1. p \in Int
    BY PriorityAssumption
  <2> QED
    BY <2>1, SchedAssumption DEF ClampPriority, Prios, IdlePriority
<1> HIDE DEF c
<1>4. /\ z \in KernelStates /\ z.state = k.state /\ z.cur = k.cur
      /\ z.runq = k.runq /\ z.bitmap = k.bitmap /\ SameWaits(k, z)
      /\ \A u \in Threads : u # t => z.prio[u] = k.prio[u]
  <2>1. k.prio \in [Threads -> Prios]
    BY <1>1 DEF KernelStates
  <2>2. [k.prio EXCEPT ![t] = c] \in [Threads -> Prios]
    BY <2>1, <1>3
  <2>3. z = [k EXCEPT !.prio = [k.prio EXCEPT ![t] = c]]
    OBVIOUS
  <2>4. z \in KernelStates
    BY <1>1, <2>2, <2>3 DEF KernelStates
  <2>5. z.prio = [k.prio EXCEPT ![t] = c]
    BY <1>1 DEF KernelStates
  <2>6. \A u \in Threads : u # t => z.prio[u] = k.prio[u]
    BY <2>1, <2>5, Zenon
  <2>7. /\ z.state = k.state /\ z.cur = k.cur
        /\ z.runq = k.runq /\ z.bitmap = k.bitmap /\ SameWaits(k, z)
    BY <1>1 DEF KernelStates, SameWaits
  <2> QED
    BY <2>4, <2>6, <2>7
<1> HIDE DEF z
<1>5. QueueInv(z)
  <2>1. z.state = [k.state EXCEPT ![t] = "running"]
    BY <1>1, <1>4 DEF KernelStates
  <2>2. Reshaped(k, z, t, "running")
    BY <1>4, <2>1 DEF Reshaped, SameWaits
  <2>3. k.state[t] \notin {"ready", "blocked"}
    BY <1>1
  <2> QED
    BY <1>1, <1>2, <2>2, <2>3, ReshapeInv
<1>6. /\ QueueInv(y) /\ y.state = [k.state EXCEPT ![t] = "ready"] /\ y.cur = t
      /\ SameWaits(k, y)
  BY <1>1, <1>4, <1>5, ReadyHeadInv DEF SameButRunQueue, SameWaits
<1> HIDE DEF y
<1>7. /\ QueueInv(k') /\ Switched([k.state EXCEPT ![k.cur] = "ready"], k') /\ SameWaits(k, k')
  <2>1. y.state[y.cur] # "running"
    BY <1>1, <1>6 DEF KernelStates
  <2> QED
    BY <1>1, <1>2, <1>6, <2>1, ReschedInv DEF SameButRunQueue, SameWaits
<1>8. KernelTypeOK'
  BY <1>2, <1>7 DEF ThreadInv, TypeOK, KernelTypeOK, QueueInv, KernelPoints
<1>9. kpc'[t] = "unlock" /\ \A u \in Threads : u # t => kpc'[u] = kpc[u]
  BY <1>2 DEF ThreadInv, TypeOK, KernelTypeOK
<1>10. KernelInv'
  BY <1>1, <1>2, <1>7, <1>8, <1>9, ThreadInvParts, SwitchAway DEF OpenPoints
<1>11. KernelQuiet
  BY <1>1, <1>7, <1>9, QuietSwitch DEF OpenPoints
<1> QED
  BY <1>2, <1>10, <1>11, QuietInv DEF KernelQuiet

\* A thread's last switch: it is dead, and nobody waits for it any more.
LEMMA LastSwitchInv ==
    ASSUME ThreadInv, k.state[k.cur] \in {"running", "dead"}, k.cur # Idle,
           notify # k.cur, kpc[k.cur] \in {"run", "exit"}, target[k.cur] = None,
           QueueInv(k'), Switched([k.state EXCEPT ![k.cur] = "dead"], k'), SameWaits(k, k'),
           k.waitq[k.cur] = << >>, irq' = FALSE, kpc' = [kpc EXCEPT ![k.cur] = "done"],
           KernelTypeOK', notify' = notify, UNCHANGED <<detached, target, claimed>>
    PROVE  ThreadInv' /\ PicksTop
<1> DEFINE t == k.cur
<1>1. k \in KernelStates /\ t \in Threads
  BY DEF ThreadInv, TypeOK, KernelTypeOK, KernelStates
<1>2. kpc'[t] = "done" /\ \A u \in Threads : u # t => kpc'[u] = kpc[u]
  BY <1>1 DEF ThreadInv, TypeOK, KernelTypeOK
<1>3. KernelInv'
  BY <1>1, <1>2, ThreadInvParts, SwitchAway
<1>4. /\ k'.state[t] = "dead" /\ k'.cur # t
      /\ \A u \in Threads : u # t =>
            \/ k'.state[u] = k.state[u]
            \/ k.state[u] = "ready" /\ k'.state[u] = "running"
            \/ u = Idle /\ k.state[u] = "suspended" /\ k'.state[u] = "running"
  BY <1>1, AfterSwitch
<1>5. /\ detached' = detached /\ target' = target /\ claimed' = claimed
      /\ k'.waitq = k.waitq /\ k'.bwq = k.bwq /\ k'.ret = k.ret
  BY DEF SameWaits
<1>6. \A u \in Threads : Disposing(u) => u # t /\ target[u] \in Threads
  BY TargetFacts DEF Disposing
<1>7. \A u \in Threads : Disposing(u)' <=> Disposing(u)
  BY <1>1, <1>2, <1>6 DEF Disposing
<1>8. PointsMatchStates'
  BY <1>1, <1>2, <1>4, <1>5 DEF ThreadInv, PointsMatchStates
<1>9. TargetsExclusive'
  BY <1>1, <1>2, <1>4, <1>5, <1>6, <1>7 DEF ThreadInv, TargetsExclusive
<1>10. JoinersInformed'
  BY <1>1, <1>2, <1>4, <1>5, <1>6 DEF ThreadInv, JoinersInformed, Disposing
<1>11. NoForgottenJoiner'
  BY <1>1, <1>2, <1>5 DEF ThreadInv, NoForgottenJoiner
<1>12. PicksTop
  BY DEF PicksTop, Switched
<1> QED
  BY <1>12, <1>3, <1>5, <1>8, <1>9, <1>10, <1>11 DEF ThreadInv, KernelInv, TypeOK

\* thread_exit.
LEMMA ExitInv ==
    ASSUME ThreadInv, NEW t \in Threads, thread_exit(t)
    PROVE  ThreadInv' /\ PicksTop
<1> DEFINE z == [k EXCEPT !.state[t] = "dead"]
<1>1. /\ t = k.cur /\ kpc[t] = "run" /\ notify # t
      /\ k.state[t] = "running" /\ target[t] = None /\ ~Disposing(t)
      /\ k \in KernelStates /\ QueueInv(k)
  BY OwnFacts DEF thread_exit
<1>2. /\ t # Idle /\ irq' = FALSE /\ saved' = [saved EXCEPT ![t] = irq] /\ notify' = notify
      /\ detached' = detached /\ target' = target /\ claimed' = claimed
  BY DEF thread_exit, LockAndLeaveAt, Workers
<1>3. /\ QueueInv(z) /\ z.state = [k.state EXCEPT ![t] = "dead"] /\ z.cur = k.cur
      /\ z.state[t] = "dead" /\ SameWaits(k, z)
  BY <1>1, <1>2, DeadInv
<1>4. CASE t \in detached
  <2>1. k' = thread_resched(z) /\ kpc' = [kpc EXCEPT ![t] = "done"]
    BY <1>4 DEF thread_exit, LockAndLeaveAt
  <2> HIDE DEF z
  <2>2. QueueInv(k') /\ Switched([k.state EXCEPT ![k.cur] = "dead"], k') /\ SameWaits(k, k')
    BY <1>1, <1>3, <2>1, ReschedInv DEF SameButRunQueue, SameWaits
  <2>3. KernelTypeOK'
    BY <1>2, <2>1, <2>2 DEF ThreadInv, TypeOK, KernelTypeOK, QueueInv, KernelPoints
  <2>4. k.waitq[t] = << >>
    BY <1>4 DEF ThreadInv, NoForgottenJoiner
  <2> QED
    BY <1>1, <1>2, <2>1, <2>2, <2>3, <2>4, LastSwitchInv
<1>5. CASE t \notin detached
  <2>1. k' = z /\ kpc' = [kpc EXCEPT ![t] = "exit"]
    BY <1>5 DEF thread_exit, LockAndLeaveAt
  <2> HIDE DEF z
  <2>2. TypeOK'
    BY <1>2, <1>3, <2>1, ThreadPointsAssumption
       DEF ThreadInv, TypeOK, KernelTypeOK, QueueInv, KernelPoints, ThreadPoints
  <2>3. /\ kpc'[t] = "exit" /\ k'.state[t] = "dead" /\ k'.cur = t
        /\ \A u \in Threads : u # t => k'.state[u] = k.state[u] /\ kpc'[u] = kpc[u]
        /\ k'.waitq = k.waitq /\ k'.bwq = k.bwq /\ k'.ret = k.ret
    BY <1>1, <1>3, <2>1 DEF KernelStates, ThreadInv, TypeOK, KernelTypeOK, SameWaits
  <2>4. KernelInv'
    <3>1. CurrentRuns'
      BY <2>3 DEF CurrentRuns
    <3>2. LockDiscipline'
      BY <1>1, <1>2, <2>3 DEF ThreadInv, LockDiscipline, Parked, TypeOK, KernelTypeOK
    <3> QED
      BY <1>3, <2>1, <2>2, <3>1, <3>2 DEF KernelInv, SchedulerConsistent, TypeOK
  <2>5. \A u \in Threads : /\ Disposing(u) => u # t /\ target[u] \in Threads
                           /\ Disposing(u)' <=> Disposing(u)
    BY <1>1, <2>3, TargetFacts DEF Disposing
  <2>6. PointsMatchStates'
    BY <1>1, <1>2, <1>5, <2>3 DEF ThreadInv, PointsMatchStates
  <2>7. TargetsExclusive'
    BY <1>1, <1>2, <2>3, <2>5 DEF ThreadInv, TargetsExclusive
  <2>8. JoinersInformed'
    BY <1>1, <1>2, <2>3, <2>5 DEF ThreadInv, JoinersInformed, Disposing
  <2>9. NoForgottenJoiner'
    BY <1>2, <1>5, <2>3 DEF ThreadInv, NoForgottenJoiner
  <2> QED
    BY <1>1, <2>2, <2>3, <2>4, <2>6, <2>7, <2>8, <2>9 DEF ThreadInv, KernelInv, PicksTop
<1> QED
  BY <1>4, <1>5

\* The last switch of a thread that has woken its joiner.
LEMMA ExitSwitchInv ==
    ASSUME ThreadInv, NEW t \in Threads, ExitSwitch(t)
    PROVE  ThreadInv' /\ PicksTop
<1>1. /\ t = k.cur /\ kpc[t] = "exit" /\ notify # t /\ k.waitq[t] = << >>
      /\ k' = thread_resched(k) /\ kpc' = [kpc EXCEPT ![t] = "done"]
      /\ irq' = irq /\ saved' = saved /\ notify' = notify
      /\ detached' = detached /\ target' = target /\ claimed' = claimed
  BY DEF ExitSwitch, At
<1>2. /\ QueueInv(k) /\ k \in KernelStates /\ k.state[t] = "dead" /\ t # Idle
      /\ target[t] = None /\ irq = FALSE
  <2>1. ~Disposing(t) /\ Parked(t)
    BY <1>1 DEF Disposing, Parked, OpenPoints
  <2>2. irq \in BOOLEAN /\ ~irq
    BY <1>1, <2>1 DEF ThreadInv, LockDiscipline, TypeOK, KernelTypeOK
  <2> QED
    BY <1>1, <2>1, <2>2 DEF ThreadInv, SchedulerConsistent, QueueInv, PointsMatchStates, TargetsExclusive
<1>3. [k.state EXCEPT ![t] = "dead"] = k.state
  BY <1>2 DEF KernelStates
<1>4. QueueInv(k') /\ Switched([k.state EXCEPT ![k.cur] = "dead"], k') /\ SameWaits(k, k')
  BY <1>1, <1>2, <1>3, ReschedInv DEF SameButRunQueue, SameWaits
<1>5. KernelTypeOK'
  BY <1>1, <1>4 DEF ThreadInv, TypeOK, KernelTypeOK, QueueInv, KernelPoints
<1> QED
  BY <1>1, <1>2, <1>4, <1>5, LastSwitchInv

\* One thread is woken, from the wait queue of q: by q when it dies, or by
\* the thread that detaches q.
LEMMA WakeInv ==
    ASSUME ThreadInv, NEW q \in Threads, k.waitq[q] # << >>, NEW err \in Returns,
           err = "ok" => k.state[q] = "dead" /\ q \notin detached,
           k' = WakeHead(k, q, err), k.state[k.cur] # "blocked",
           UNCHANGED <<kpc, irq, saved, notify, detached, target, claimed>>
    PROVE  ThreadInv'
<1> DEFINE h == Head(k.waitq[q])
<1>1. /\ kpc' = kpc /\ irq' = irq /\ saved' = saved /\ notify' = notify
      /\ detached' = detached /\ target' = target /\ claimed' = claimed
  OBVIOUS
<1>2. QueueInv(k) /\ k \in KernelStates /\ q \in Queues
  BY DEF ThreadInv, SchedulerConsistent, QueueInv, Queues
<1>3. QueueInv(k') /\ Woken(k, k', q, err, "ready")
  BY <1>2, WakeHeadInv
<1>4. /\ h \in Threads /\ h \in Range(k.waitq[q]) /\ k.state[h] = "blocked"
      /\ k'.state = [k.state EXCEPT ![h] = "ready"] /\ k'.cur = k.cur
      /\ k'.bwq = [k.bwq EXCEPT ![h] = None]
      /\ k'.ret = [k.ret EXCEPT ![h] = err]
      /\ k'.waitq = [k.waitq EXCEPT ![q] = Tail(k.waitq[q])]
  BY <1>3 DEF Woken
<1>5. k.bwq[h] = q /\ kpc[h] = "join" /\ target[h] = q /\ h # k.cur
  BY <1>2, <1>4 DEF QueueInv, WaitQueues, ThreadInv, PointsMatchStates
<1> HIDE DEF h
<1>6. /\ k'.state[h] = "ready" /\ k'.ret[h] = err
      /\ \A u \in Threads : u # h => /\ k'.state[u] = k.state[u]
                                     /\ k'.bwq[u] = k.bwq[u] /\ k'.ret[u] = k.ret[u]
      /\ \A u \in Threads : u # q => k'.waitq[u] = k.waitq[u]
  BY <1>2, <1>4 DEF KernelStates, Queues
<1>7. TypeOK'
  BY <1>1, <1>3 DEF ThreadInv, TypeOK, KernelTypeOK, QueueInv
<1>8. KernelInv'
  <2>1. CurrentRuns'
    BY <1>1, <1>2, <1>4, <1>5, <1>6 DEF ThreadInv, SchedulerConsistent, CurrentRuns, KernelStates
  <2>2. Parked(h) /\ \A u \in Threads : Parked(u)' = Parked(u)
    BY <1>1, <1>4, <1>5 DEF ThreadInv, LockDiscipline, Parked
  <2>3. LockDiscipline'
    BY <1>1, <1>2, <1>4, <1>6, <2>2
       DEF ThreadInv, LockDiscipline, TypeOK, KernelTypeOK, KernelStates
  <2> QED
    BY <1>3, <1>7, <2>1, <2>3 DEF KernelInv, SchedulerConsistent, TypeOK
<1>9. \A u \in Threads : /\ Disposing(u) => target[u] \in Threads
                         /\ Disposing(u)' <=> Disposing(u)
  BY <1>1, TargetFacts DEF Disposing
<1>10. PointsMatchStates'
  BY <1>1, <1>4, <1>5, <1>6 DEF ThreadInv, PointsMatchStates
<1>11. TargetsExclusive'
  BY <1>1, <1>4, <1>6, <1>9 DEF ThreadInv, TargetsExclusive
<1>12. JoinersInformed'
  BY <1>1, <1>4, <1>5, <1>6, <1>9 DEF ThreadInv, JoinersInformed, Disposing
<1>13. NoForgottenJoiner'
  BY <1>1, <1>6 DEF ThreadInv, NoForgottenJoiner
<1> QED
  BY <1>7, <1>8, <1>10, <1>11, <1>12, <1>13 DEF ThreadInv, KernelInv

\* The loops of wait_queue_wake_all in thread_exit and thread_detach.
LEMMA WakeLoopInv ==
    ASSUME ThreadInv, NEW t \in Threads, ExitWake(t) \/ DetachWake(t)
    PROVE  ThreadInv'
<1>1. CASE ExitWake(t)
  <2>1. /\ t = k.cur /\ kpc[t] = "exit" /\ k.waitq[t] # << >> /\ k' = WakeHead(k, t, "ok")
        /\ UNCHANGED <<kpc, irq, saved, notify, detached, target, claimed>>
    BY <1>1 DEF ExitWake, At
  <2>2. k.state[t] = "dead" /\ t \notin detached /\ "ok" \in Returns
    BY <2>1 DEF ThreadInv, PointsMatchStates, Returns
  <2> QED
    BY <2>1, <2>2, WakeInv
<1>2. CASE DetachWake(t)
  <2>1. /\ t = k.cur /\ kpc[t] = "detach" /\ k.waitq[target[t]] # << >>
        /\ k' = WakeHead(k, target[t], "detached")
        /\ UNCHANGED <<kpc, irq, saved, notify, detached, target, claimed>>
    BY <1>2 DEF DetachWake, At
  <2>2. target[t] \in Threads /\ "detached" \in Returns /\ k.state[t] # "blocked"
    BY <2>1, TargetFacts DEF ThreadInv, PointsMatchStates, Returns, Disposing
  <2> QED
    BY <2>1, <2>2, WakeInv
<1> QED
  BY <1>1, <1>2

\* A step of the current thread t that touches no other thread: the kernel
\* state stays, t moves, and t takes or drops its target.
LEMMA LocalKernelInv ==
    ASSUME ThreadInv, NEW t \in Threads, t = k.cur, notify # t, k.state[t] = "running",
           k' = k, notify' = notify, NEW pc \in KernelPoints, kpc' = [kpc EXCEPT ![t] = pc],
           irq' \in BOOLEAN, saved' \in [Threads -> BOOLEAN], pc \notin OpenPoints => ~irq'
    PROVE  /\ KernelInv' /\ kpc'[t] = pc
           /\ \A u \in Threads : u # t => kpc'[u] = kpc[u]
<1>1. kpc'[t] = pc /\ \A u \in Threads : u # t => kpc'[u] = kpc[u]
  BY DEF ThreadInv, TypeOK, KernelTypeOK
<1>2. KernelTypeOK'
  BY DEF ThreadInv, TypeOK, KernelTypeOK
<1>3. QueueInv(k')
  BY DEF ThreadInv, SchedulerConsistent
<1>4. Parked(k.cur)' => ~irq'
  BY <1>1 DEF Parked
<1> QED
  BY <1>1, <1>2, <1>3, <1>4, ThreadInvParts, StayOnCpu

\* What makes the thread that may claim n its only disposer.
LEMMA ClaimFacts ==
    ASSUME ThreadInv, NEW t \in Threads, NEW n \in Threads, MayClaim(t, n)
    PROVE  /\ n \in Workers /\ n # Idle /\ k.state[n] # "unused" /\ n \notin claimed
           /\ \A u \in Threads : Disposing(u) => target[u] # n
  BY TargetFacts DEF MayClaim, Workers

\* thread_join of a thread that is detached or already dead.
LEMMA JoinNowInv ==
    ASSUME ThreadInv, NEW t \in Threads, NEW n \in Threads, thread_join(t, n),
           n \in detached \/ k.state[n] = "dead"
    PROVE  ThreadInv'
<1>1. /\ t = k.cur /\ kpc[t] = "run" /\ notify # t
      /\ k.state[t] = "running" /\ target[t] = None /\ ~Disposing(t)
      /\ k \in KernelStates /\ QueueInv(k)
  BY OwnFacts DEF thread_join
<1>2. /\ n \in Workers /\ n # Idle /\ k.state[n] # "unused" /\ n \notin claimed
      /\ \A u \in Threads : Disposing(u) => target[u] # n
  BY ClaimFacts DEF thread_join
<1>3. /\ t # Idle /\ t # n /\ claimed' = claimed \cup {n} /\ notify' = notify
      /\ detached' = detached /\ k' = k /\ irq' = irq /\ saved' = saved
  BY DEF thread_join
<1>4. CASE n \in detached
  <2>1. kpc' = kpc /\ target' = target
    BY <1>4 DEF thread_join
  <2>2. TypeOK'
    BY <1>3, <2>1 DEF ThreadInv, TypeOK, KernelTypeOK
  <2>3. SchedulerConsistent' /\ LockDiscipline'
    BY <1>3, <2>1
       DEF ThreadInv, SchedulerConsistent, CurrentRuns, LockDiscipline, Parked
  <2>4. LifeInv'
    BY <1>3, <2>1 DEF ThreadInv, LifeInv, PointsMatchStates, TargetsExclusive, JoinersInformed,
                      NoForgottenJoiner, Disposing
  <2> QED
    BY <2>2, <2>3, <2>4 DEF ThreadInv, LifeInv
<1>5. CASE n \notin detached
  <2>1. /\ kpc' = [kpc EXCEPT ![t] = "reap"] /\ target' = [target EXCEPT ![t] = n]
        /\ k.state[n] = "dead"
    BY <1>5 DEF thread_join
  <2>2. KernelInv' /\ kpc'[t] = "reap" /\ \A u \in Threads : u # t => kpc'[u] = kpc[u]
    <3>1. "reap" \in KernelPoints /\ "reap" \in OpenPoints
      BY DEF KernelPoints, OpenPoints
    <3>2. irq' \in BOOLEAN /\ saved' \in [Threads -> BOOLEAN]
      BY <1>3 DEF ThreadInv, TypeOK, KernelTypeOK
    <3> QED
      BY <1>1, <1>3, <2>1, <3>1, <3>2, LocalKernelInv
  <2>3. target'[t] = n /\ \A u \in Threads : u # t => target'[u] = target[u]
    BY <2>1 DEF ThreadInv, TypeOK
  <2>4. TypeOK'
    BY <1>2, <1>3, <2>1, <2>2 DEF ThreadInv, TypeOK, KernelInv
  <2>5. kpc[n] = "done"
    BY <1>1, <1>2, <1>3, <2>1 DEF ThreadInv, PointsMatchStates
  <2>6. \A u \in Threads : u # t => (Disposing(u)' <=> Disposing(u))
    BY <2>2 DEF Disposing
  <2>7. PointsMatchStates'
    BY <1>1, <1>3, <2>2, <2>3 DEF ThreadInv, PointsMatchStates
  <2>8. TargetsExclusive'
    <3>1. Disposing(t)'
      BY <2>2 DEF Disposing
    <3> QED
      BY <1>1, <1>2, <1>3, <2>2, <2>3, <2>6, <3>1 DEF ThreadInv, TargetsExclusive
  <2>9. JoinersInformed'
    BY <1>1, <1>3, <1>5, <2>1, <2>2, <2>3, <2>5, TargetFacts DEF ThreadInv, JoinersInformed, Disposing
  <2>10. NoForgottenJoiner'
    BY <1>3, <2>2 DEF ThreadInv, NoForgottenJoiner
  <2> QED
    BY <2>2, <2>4, <2>7, <2>8, <2>9, <2>10 DEF ThreadInv, KernelInv
<1> QED
  BY <1>4, <1>5

\* thread_join of a live thread.
LEMMA JoinBlockInv ==
    ASSUME ThreadInv, NEW t \in Threads, NEW n \in Threads, thread_join(t, n),
           n \notin detached, k.state[n] # "dead"
    PROVE  ThreadInv' /\ PicksTop
<1>1. /\ t = k.cur /\ kpc[t] = "run" /\ notify # t
      /\ k.state[t] = "running" /\ target[t] = None /\ ~Disposing(t)
      /\ k \in KernelStates /\ QueueInv(k)
  BY OwnFacts DEF thread_join
<1>2. /\ n \in Workers /\ n # Idle /\ k.state[n] # "unused" /\ n \notin claimed
      /\ \A u \in Threads : Disposing(u) => target[u] # n
  BY ClaimFacts DEF thread_join
<1>3. /\ t # Idle /\ t # n /\ claimed' = claimed \cup {n} /\ notify' = notify
      /\ detached' = detached /\ irq' = FALSE /\ saved' = [saved EXCEPT ![t] = irq]
      /\ kpc' = [kpc EXCEPT ![t] = "join"] /\ target' = [target EXCEPT ![t] = n]
      /\ k' = wait_queue_block(k, t, n)
  BY DEF thread_join, LockAndLeaveAt
<1>4. /\ QueueInv(k') /\ Switched([k.state EXCEPT ![k.cur] = "blocked"], k')
      /\ Enqueued(k, k', k.cur, n)
  BY <1>1, <1>3, BlockInv DEF Queues
<1>5. /\ kpc'[t] = "join" /\ \A u \in Threads : u # t => kpc'[u] = kpc[u]
      /\ target'[t] = n /\ \A u \in Threads : u # t => target'[u] = target[u]
  BY <1>3 DEF ThreadInv, TypeOK, KernelTypeOK
<1>6. TypeOK'
  BY <1>2, <1>3, <1>4, ThreadPointsAssumption
     DEF ThreadInv, TypeOK, KernelTypeOK, QueueInv, KernelPoints, ThreadPoints
<1>7. KernelInv'
  BY <1>1, <1>3, <1>4, <1>5, <1>6, ThreadInvParts, SwitchAway DEF OpenPoints, TypeOK
<1>8. /\ k'.state[t] = "blocked" /\ k'.cur # t
      /\ \A u \in Threads : u # t =>
            \/ k'.state[u] = k.state[u]
            \/ k.state[u] = "ready" /\ k'.state[u] = "running"
            \/ u = Idle /\ k.state[u] = "suspended" /\ k'.state[u] = "running"
  BY <1>1, <1>4, AfterSwitch
<1>9. /\ k'.bwq[t] = n
      /\ \A u \in Threads : u # t => k'.bwq[u] = k.bwq[u] /\ k'.ret[u] = k.ret[u]
      /\ \A q \in Threads : q # n => k'.waitq[q] = k.waitq[q]
  BY <1>1, <1>4 DEF Enqueued, KernelStates, Queues
<1>10. Disposing(t)' /\ \A u \in Threads : u # t => (Disposing(u)' <=> Disposing(u))
  BY <1>5 DEF Disposing
<1>11. k'.state[n] # "unused" /\ kpc[n] # "done"
  BY <1>2, <1>3, <1>8 DEF ThreadInv, PointsMatchStates
<1>12. PointsMatchStates'
  BY <1>1, <1>3, <1>5, <1>8, <1>9 DEF ThreadInv, PointsMatchStates
<1>13. TargetsExclusive'
  BY <1>1, <1>2, <1>3, <1>5, <1>8, <1>10, <1>11, TargetFacts DEF ThreadInv, TargetsExclusive
<1>14. JoinersInformed'
  BY <1>1, <1>3, <1>5, <1>8, <1>9, TargetFacts DEF ThreadInv, JoinersInformed, Disposing
<1>15. NoForgottenJoiner'
  BY <1>1, <1>3, <1>5, <1>9, <1>11 DEF ThreadInv, NoForgottenJoiner
<1>16. PicksTop
  BY <1>4 DEF PicksTop, Switched
<1> QED
  BY <1>16, <1>6, <1>7, <1>12, <1>13, <1>14, <1>15 DEF ThreadInv, KernelInv

\* thread_join after wait_queue_block.
LEMMA JoinWokenInv ==
    ASSUME ThreadInv, NEW t \in Threads, JoinWoken(t)
    PROVE  ThreadInv'
<1>1. /\ t = k.cur /\ kpc[t] = "join" /\ notify # t
      /\ k' = k /\ notify' = notify /\ detached' = detached /\ claimed' = claimed
      /\ irq' = saved[t] /\ saved' = [saved EXCEPT ![t] = FALSE]
  BY DEF JoinWoken, At, UnlockTo
<1>2. k.state[t] = "running" /\ Disposing(t) /\ target[t] # t
  BY <1>1 DEF ThreadInv, SchedulerConsistent, CurrentRuns, TargetsExclusive, Disposing
<1>3. irq' \in BOOLEAN /\ saved' \in [Threads -> BOOLEAN]
  BY <1>1 DEF ThreadInv, TypeOK, KernelTypeOK
<1>4. "reap" \in KernelPoints /\ "reap" \in OpenPoints /\ "run" \in KernelPoints /\ "run" \in OpenPoints
  BY DEF KernelPoints, OpenPoints
<1>5. CASE k.ret[t] = "ok"
  <2>1. kpc' = [kpc EXCEPT ![t] = "reap"] /\ target' = target
    BY <1>5 DEF JoinWoken, UnlockTo
  <2>2. KernelInv' /\ kpc'[t] = "reap" /\ \A u \in Threads : u # t => kpc'[u] = kpc[u]
    BY <1>1, <1>2, <1>3, <1>4, <2>1, LocalKernelInv
  <2>3. k.state[target[t]] = "dead" /\ target[t] \notin detached /\ kpc[target[t]] = "done"
    BY <1>1, <1>2, <1>5, TargetFacts DEF ThreadInv, JoinersInformed, PointsMatchStates
  <2>4. \A u \in Threads : Disposing(u)' <=> Disposing(u)
    BY <1>2, <2>2 DEF Disposing
  <2>5. TypeOK'
    BY <1>1, <2>1, <2>2 DEF ThreadInv, TypeOK, KernelInv
  <2>6. PointsMatchStates'
    BY <1>1, <1>2, <2>1, <2>2 DEF ThreadInv, PointsMatchStates
  <2>7. TargetsExclusive'
    BY <1>1, <2>1, <2>2, <2>4 DEF ThreadInv, TargetsExclusive
  <2>8. JoinersInformed'
    BY <1>1, <1>2, <2>1, <2>2, <2>3, TargetFacts DEF ThreadInv, JoinersInformed, Disposing
  <2>9. NoForgottenJoiner'
    BY <1>1, <2>2 DEF ThreadInv, NoForgottenJoiner
  <2> QED
    BY <2>2, <2>5, <2>6, <2>7, <2>8, <2>9 DEF ThreadInv, KernelInv
<1>6. CASE k.ret[t] # "ok"
  <2>1. kpc' = [kpc EXCEPT ![t] = "run"] /\ target' = [target EXCEPT ![t] = None]
    BY <1>6 DEF JoinWoken, UnlockTo
  <2>2. KernelInv' /\ kpc'[t] = "run" /\ \A u \in Threads : u # t => kpc'[u] = kpc[u]
    BY <1>1, <1>2, <1>3, <1>4, <2>1, LocalKernelInv
  <2>3. target'[t] = None /\ \A u \in Threads : u # t => target'[u] = target[u]
    BY <2>1 DEF ThreadInv, TypeOK
  <2>4. ~Disposing(t)' /\ \A u \in Threads : u # t => (Disposing(u)' <=> Disposing(u))
    BY <2>2 DEF Disposing
  <2>5. TypeOK'
    BY <1>1, <2>1, <2>2 DEF ThreadInv, TypeOK, KernelInv
  <2>6. PointsMatchStates'
    BY <1>1, <1>2, <2>2, <2>3 DEF ThreadInv, PointsMatchStates
  <2>7. TargetsExclusive'
    BY <1>1, <2>2, <2>3, <2>4, SchedAssumption DEF ThreadInv, TargetsExclusive
  <2>8. JoinersInformed'
    <3>1. \A u \in Threads : Disposing(u) => target[u] \in Threads
      BY TargetFacts
    <3>2. \A u \in Threads : kpc[u] = "done" => kpc'[u] = "done"
      BY <1>1, <2>2
    <3> QED
      BY <1>1, <2>2, <2>3, <3>1, <3>2 DEF ThreadInv, JoinersInformed, Disposing
  <2>9. NoForgottenJoiner'
    BY <1>1, <2>2 DEF ThreadInv, NoForgottenJoiner
  <2> QED
    BY <2>2, <2>5, <2>6, <2>7, <2>8, <2>9 DEF ThreadInv, KernelInv
<1> QED
  BY <1>5, <1>6

\* free in thread_join.
LEMMA ReapInv ==
    ASSUME ThreadInv, NEW t \in Threads, Reap(t)
    PROVE  ThreadInv'
<1> DEFINE n == target[t]
<1>1. /\ t = k.cur /\ kpc[t] = "reap" /\ notify # t
      /\ k' = [k EXCEPT !.state[n] = "unused"]
      /\ target' = [target EXCEPT ![t] = None] /\ kpc' = [kpc EXCEPT ![t] = "run"]
      /\ irq' = TRUE /\ saved' = saved /\ notify' = notify
      /\ detached' = detached /\ claimed' = claimed
  BY DEF Reap, At
<1>2. /\ k.state[t] = "running" /\ Disposing(t) /\ QueueInv(k) /\ k \in KernelStates
      /\ k.state \in [Threads -> States]
  BY <1>1 DEF ThreadInv, SchedulerConsistent, CurrentRuns, QueueInv, Disposing, KernelStates
<1>3. /\ n \in Threads /\ n # Idle /\ n # t /\ k.state[n] = "dead" /\ kpc[n] = "done"
      /\ k.waitq[n] = << >> /\ notify # n
  <2>1. n \in Threads /\ n # Idle
    BY <1>2, TargetFacts
  <2>2. k.state[n] = "dead" /\ kpc[n] = "done"
    BY <1>1 DEF ThreadInv, JoinersInformed
  <2>3. k.waitq[n] = << >>
    BY <2>1, <2>2 DEF ThreadInv, NoForgottenJoiner
  <2>4. notify # n /\ n # t
    BY <1>2, <2>1, <2>2, SchedAssumption DEF ThreadInv, LockDiscipline
  <2> QED
    BY <2>1, <2>2, <2>3, <2>4
<1>4. \A u \in Threads : u # t /\ Disposing(u) => target[u] # n
  BY <1>1, <1>2, <1>3 DEF ThreadInv, TargetsExclusive
<1> HIDE DEF n
<1>5. k' \in KernelStates
  <2>1. [k.state EXCEPT ![n] = "unused"] \in [Threads -> States]
    BY <1>2 DEF States
  <2>2. k' = [k EXCEPT !.state = [k.state EXCEPT ![n] = "unused"]]
    BY <1>1
  <2> QED
    BY <1>2, <2>1, <2>2 DEF KernelStates
<1>6. /\ k'.state = [k.state EXCEPT ![n] = "unused"] /\ k'.cur = k.cur /\ k'.prio = k.prio
      /\ k'.runq = k.runq /\ k'.bitmap = k.bitmap /\ SameWaits(k, k')
  BY <1>1, <1>2 DEF KernelStates, SameWaits
<1>7. QueueInv(k')
  <2>1. Reshaped(k, k', n, "unused")
    BY <1>5, <1>6 DEF Reshaped, SameWaits
  <2>2. k.state[n] \notin {"ready", "blocked"}
    BY <1>3
  <2> QED
    BY <1>2, <1>3, <2>1, <2>2, ReshapeInv
<1>8. /\ k'.state[n] = "unused" /\ \A u \in Threads : u # n => k'.state[u] = k.state[u]
      /\ kpc'[t] = "run" /\ \A u \in Threads : u # t => kpc'[u] = kpc[u]
      /\ target'[t] = None /\ \A u \in Threads : u # t => target'[u] = target[u]
      /\ k'.waitq = k.waitq /\ k'.bwq = k.bwq /\ k'.ret = k.ret
  <2>1. k'.state[n] = "unused" /\ \A u \in Threads : u # n => k'.state[u] = k.state[u]
    BY <1>2, <1>3, <1>6
  <2>2. /\ kpc'[t] = "run" /\ \A u \in Threads : u # t => kpc'[u] = kpc[u]
        /\ target'[t] = None /\ \A u \in Threads : u # t => target'[u] = target[u]
    BY <1>1 DEF ThreadInv, TypeOK, KernelTypeOK
  <2> QED
    BY <1>6, <2>1, <2>2 DEF SameWaits
<1>9. TypeOK'
  BY <1>1, <1>5 DEF ThreadInv, TypeOK, KernelTypeOK, KernelPoints, OpenPoints
<1>10. KernelInv'
  <2>1. CurrentRuns'
    BY <1>1, <1>2, <1>3, <1>6, <1>8 DEF CurrentRuns
  <2>2. LockDiscipline'
    BY <1>1, <1>3, <1>6, <1>8 DEF ThreadInv, LockDiscipline, Parked, OpenPoints, TypeOK, KernelTypeOK
  <2> QED
    BY <1>7, <1>9, <2>1, <2>2 DEF KernelInv, SchedulerConsistent, TypeOK
<1>11. /\ ~Disposing(t)' /\ \A u \in Threads : u # t => (Disposing(u)' <=> Disposing(u))
       /\ \A u \in Threads : Disposing(u) => target[u] \in Threads
  BY <1>8, TargetFacts DEF Disposing
<1>12. PointsMatchStates'
  BY <1>1, <1>2, <1>3, <1>6, <1>8 DEF ThreadInv, PointsMatchStates
<1>13. TargetsExclusive'
  BY <1>1, <1>4, <1>8, <1>11, SchedAssumption DEF ThreadInv, TargetsExclusive
<1>14. JoinersInformed'
  <2>1. \A u \in Threads : kpc[u] = "done" => kpc'[u] = "done"
    BY <1>1, <1>8
  <2> QED
    BY <1>1, <1>3, <1>4, <1>8, <1>11, <2>1 DEF ThreadInv, JoinersInformed, Disposing
<1>15. NoForgottenJoiner'
  BY <1>1, <1>8 DEF ThreadInv, NoForgottenJoiner
<1> QED
  BY <1>9, <1>10, <1>12, <1>13, <1>14, <1>15 DEF ThreadInv, KernelInv

\* thread_detach up to its first wakeup.
LEMMA DetachInv ==
    ASSUME ThreadInv, NEW t \in Threads, NEW n \in Threads, thread_detach(t, n)
    PROVE  ThreadInv'
<1>1. /\ t = k.cur /\ kpc[t] = "run" /\ notify # t
      /\ k.state[t] = "running" /\ target[t] = None /\ ~Disposing(t)
      /\ k \in KernelStates /\ QueueInv(k)
  BY OwnFacts DEF thread_detach
<1>2. /\ n \in Workers /\ k.state[n] # "unused"
      /\ n = t \/ \A u \in Threads : Disposing(u) => target[u] # n
  BY <1>1, ClaimFacts DEF thread_detach
<1>3. /\ t # Idle /\ claimed' = claimed \cup {n} /\ target' = [target EXCEPT ![t] = n]
      /\ k' = k /\ notify' = notify /\ detached' = detached
      /\ irq' = FALSE /\ saved' = [saved EXCEPT ![t] = irq] /\ kpc' = [kpc EXCEPT ![t] = "detach"]
  BY DEF thread_detach, LockAndLeaveAt
<1>4. KernelInv' /\ kpc'[t] = "detach" /\ \A u \in Threads : u # t => kpc'[u] = kpc[u]
  <2>1. "detach" \in KernelPoints
    BY ThreadPointsAssumption DEF KernelPoints, ThreadPoints
  <2>2. irq' \in BOOLEAN /\ ~irq' /\ saved' \in [Threads -> BOOLEAN]
    BY <1>3 DEF ThreadInv, TypeOK, KernelTypeOK
  <2> QED
    BY <1>1, <1>3, <2>1, <2>2, LocalKernelInv
<1>5. target'[t] = n /\ \A u \in Threads : u # t => target'[u] = target[u]
  BY <1>3 DEF ThreadInv, TypeOK
<1>6. TypeOK'
  BY <1>2, <1>3, <1>4 DEF ThreadInv, TypeOK, KernelInv
<1>7. /\ Disposing(t)' /\ \A u \in Threads : u # t => (Disposing(u)' <=> Disposing(u))
      /\ \A u \in Threads : Disposing(u) => target[u] \in Threads
  BY <1>4, TargetFacts DEF Disposing
<1>8. PointsMatchStates'
  BY <1>1, <1>3, <1>4, <1>5 DEF ThreadInv, PointsMatchStates
<1>9. TargetsExclusive'
  BY <1>1, <1>2, <1>3, <1>4, <1>5, <1>7 DEF ThreadInv, TargetsExclusive
<1>10. JoinersInformed'
  <2>1. \A u \in Threads : kpc[u] = "done" => kpc'[u] = "done"
    BY <1>1, <1>4
  <2> QED
    BY <1>1, <1>3, <1>4, <1>5, <1>7, <2>1 DEF ThreadInv, JoinersInformed, Disposing
<1>11. NoForgottenJoiner'
  BY <1>1, <1>3, <1>4 DEF ThreadInv, NoForgottenJoiner
<1> QED
  BY <1>4, <1>6, <1>8, <1>9, <1>10, <1>11 DEF ThreadInv, KernelInv

\* The end of thread_detach.
LEMMA DetachFinishInv ==
    ASSUME ThreadInv, NEW t \in Threads, DetachFinish(t)
    PROVE  ThreadInv'
<1> DEFINE n == target[t]
<1>1. /\ t = k.cur /\ kpc[t] = "detach" /\ notify # t /\ k.waitq[n] = << >>
      /\ k' = k /\ notify' = notify /\ claimed' = claimed
      /\ irq' = saved[t] /\ saved' = [saved EXCEPT ![t] = FALSE]
  BY DEF DetachFinish, At, UnlockTo
<1>2. /\ k.state[t] = "running" /\ Disposing(t) /\ n \in Threads /\ n \in Workers
      /\ n \in claimed /\ k.state[n] # "unused"
  BY <1>1, TargetFacts DEF ThreadInv, SchedulerConsistent, CurrentRuns, Disposing
<1>3. irq' \in BOOLEAN /\ saved' \in [Threads -> BOOLEAN]
  BY <1>1 DEF ThreadInv, TypeOK, KernelTypeOK
<1>4. "reap" \in KernelPoints /\ "reap" \in OpenPoints /\ "run" \in KernelPoints /\ "run" \in OpenPoints
  BY DEF KernelPoints, OpenPoints
<1>5. \A u \in Threads : Disposing(u) => target[u] \in Threads
  BY TargetFacts
<1>6. CASE k.state[n] = "dead"
  <2>1. /\ kpc' = [kpc EXCEPT ![t] = "reap"] /\ target' = target
        /\ detached' = detached \ {n}
    BY <1>6 DEF DetachFinish, UnlockTo
  <2>2. KernelInv' /\ kpc'[t] = "reap" /\ \A u \in Threads : u # t => kpc'[u] = kpc[u]
    BY <1>1, <1>2, <1>3, <1>4, <2>1, LocalKernelInv
  <2>3. n # t /\ kpc[n] = "done"
    BY <1>1, <1>2, <1>6 DEF ThreadInv, PointsMatchStates
  <2>4. /\ \A u \in Threads : u # t /\ Disposing(u) => target[u] # n
        /\ \A u \in Threads : u # t => kpc[u] # "detach"
    BY <1>1, <1>2, <2>3 DEF ThreadInv, TargetsExclusive, PointsMatchStates
  <2>5. \A u \in Threads : Disposing(u)' <=> Disposing(u)
    BY <1>2, <2>2 DEF Disposing
  <2>6. TypeOK'
    BY <1>1, <2>1, <2>2 DEF ThreadInv, TypeOK, KernelInv
  <2>7. PointsMatchStates'
    BY <1>1, <1>2, <2>1, <2>2 DEF ThreadInv, PointsMatchStates
  <2>8. TargetsExclusive'
    BY <1>1, <2>1, <2>2, <2>3, <2>4, <2>5 DEF ThreadInv, TargetsExclusive
  <2>9. JoinersInformed'
    BY <1>1, <1>2, <1>5, <1>6, <2>1, <2>2, <2>3 DEF ThreadInv, JoinersInformed, Disposing
  <2>10. NoForgottenJoiner'
    BY <1>1, <2>1, <2>2 DEF ThreadInv, NoForgottenJoiner
  <2> QED
    BY <2>2, <2>6, <2>7, <2>8, <2>9, <2>10 DEF ThreadInv, KernelInv
<1>7. CASE k.state[n] # "dead"
  <2>1. /\ kpc' = [kpc EXCEPT ![t] = "run"] /\ target' = [target EXCEPT ![t] = None]
        /\ detached' = detached \cup {n}
    BY <1>7 DEF DetachFinish, UnlockTo
  <2>2. KernelInv' /\ kpc'[t] = "run" /\ \A u \in Threads : u # t => kpc'[u] = kpc[u]
    BY <1>1, <1>2, <1>3, <1>4, <2>1, LocalKernelInv
  <2>3. target'[t] = None /\ \A u \in Threads : u # t => target'[u] = target[u]
    BY <2>1 DEF ThreadInv, TypeOK
  <2>4. ~Disposing(t)' /\ \A u \in Threads : u # t => (Disposing(u)' <=> Disposing(u))
    BY <2>2 DEF Disposing
  <2>5. TypeOK'
    BY <1>1, <1>2, <2>1, <2>2 DEF ThreadInv, TypeOK, KernelInv
  <2>6. PointsMatchStates'
    BY <1>1, <1>2, <1>7, <2>1, <2>2, <2>3 DEF ThreadInv, PointsMatchStates
  <2>7. TargetsExclusive'
    BY <1>1, <2>2, <2>3, <2>4, SchedAssumption DEF ThreadInv, TargetsExclusive
  <2>8. JoinersInformed'
    <3>1. \A u \in Threads : kpc[u] = "done" => kpc'[u] = "done"
      BY <1>1, <2>2
    <3> QED
      BY <1>1, <1>5, <1>7, <2>1, <2>2, <2>3, <3>1 DEF ThreadInv, JoinersInformed, Disposing
  <2>9. NoForgottenJoiner'
    BY <1>1, <2>1, <2>2 DEF ThreadInv, NoForgottenJoiner
  <2> QED
    BY <2>2, <2>5, <2>6, <2>7, <2>8, <2>9 DEF ThreadInv, KernelInv
<1> QED
  BY <1>6, <1>7

-----------------------------------------------------------------------------
(* The theorems.                                                           *)

\* The operations that never change the current thread.
LEMMA StayTop ==
    ASSUME ThreadInv, NEW t \in Threads,
           \/ \E n \in Workers, p \in CreatePriorities : thread_create(t, n, p)
           \/ \E n \in Threads : thread_resume(t, n) \/ thread_detach(t, n)
           \/ \E n \in Threads : thread_join(t, n) /\ (n \in detached \/ k.state[n] = "dead")
           \/ JoinWoken(t) \/ Reap(t) \/ ExitWake(t) \/ DetachWake(t) \/ DetachFinish(t)
    PROVE  PicksTop
<1>1. k \in KernelStates
  BY DEF ThreadInv, TypeOK, KernelTypeOK
<1>2. CASE \E n \in Workers, p \in CreatePriorities : thread_create(t, n, p)
  <2>1. PICK n \in Workers, p \in CreatePriorities : k' = NewThread(n, p)
    BY <1>2 DEF thread_create
  <2>2. k'.cur = k.cur
    BY <1>1, <2>1 DEF NewThread, KernelStates
  <2> QED
    BY <2>2 DEF PicksTop
<1>3. CASE \E n \in Threads : thread_resume(t, n)
  BY <1>1, <1>3 DEF thread_resume, ResumeStep, ReadyHead, insert_in_run_queue_head, KernelStates, PicksTop
<1>4. CASE Reap(t)
  BY <1>1, <1>4 DEF Reap, KernelStates, PicksTop
<1>5. CASE ExitWake(t) \/ DetachWake(t)
  BY <1>1, <1>5 DEF ExitWake, DetachWake, WakeHead, Dequeue, insert_in_run_queue_head,
                    KernelStates, PicksTop
<1>6. CASE \/ \E n \in Threads : thread_detach(t, n)
           \/ \E n \in Threads : thread_join(t, n) /\ (n \in detached \/ k.state[n] = "dead")
           \/ JoinWoken(t) \/ DetachFinish(t)
  BY <1>6 DEF thread_detach, thread_join, JoinWoken, DetachFinish, PicksTop
<1> QED
  BY <1>2, <1>3, <1>4, <1>5, <1>6

\* Every step of Next keeps the invariant.
LEMMA NextInv == ThreadInv /\ [Next]_vars => ThreadInv' /\ PicksTop
<1> SUFFICES ASSUME ThreadInv, [Next]_vars PROVE ThreadInv' /\ PicksTop
  OBVIOUS
<1>1. CASE KernelNext /\ UNCHANGED <<detached, target, claimed>>
  BY <1>1, KernelNextInv
<1>2. ASSUME NEW t \in Threads, ThreadOps(t) PROVE ThreadInv' /\ PicksTop
  <2>1. CASE \E n \in Workers, p \in CreatePriorities : thread_create(t, n, p)
    BY <2>1, CreateInv, StayTop
  <2>2. ASSUME NEW n \in Threads, thread_join(t, n) PROVE ThreadInv' /\ PicksTop
    BY <2>2, JoinNowInv, JoinBlockInv, StayTop
  <2>3. ASSUME NEW n \in Threads, thread_resume(t, n) \/ thread_detach(t, n) PROVE ThreadInv' /\ PicksTop
    BY <2>3, ResumeInv, DetachInv, StayTop
  <2>4. CASE \E p \in SetPriorities : thread_set_priority(t, p)
    BY <2>4, SetPriorityInv
  <2>5. CASE thread_exit(t) \/ ExitWake(t) \/ ExitSwitch(t)
    BY <2>5, ExitInv, WakeLoopInv, ExitSwitchInv, StayTop
  <2>6. CASE JoinWoken(t) \/ Reap(t) \/ DetachWake(t) \/ DetachFinish(t)
    BY <2>6, JoinWokenInv, ReapInv, WakeLoopInv, DetachFinishInv, StayTop
  <2> QED
    BY <1>2, <2>1, <2>2, <2>3, <2>4, <2>5, <2>6 DEF ThreadOps
<1>3. CASE UNCHANGED vars
  <2>1. /\ k' = k /\ kpc' = kpc /\ irq' = irq /\ saved' = saved /\ notify' = notify
        /\ detached' = detached /\ target' = target /\ claimed' = claimed
    BY <1>3 DEF vars
  <2>2. TypeOK' /\ SchedulerConsistent' /\ LockDiscipline'
    BY <2>1 DEF ThreadInv, TypeOK, KernelTypeOK, SchedulerConsistent, CurrentRuns,
                LockDiscipline, Parked
  <2>3. PointsMatchStates' /\ TargetsExclusive' /\ JoinersInformed' /\ NoForgottenJoiner'
    BY <2>1 DEF ThreadInv, PointsMatchStates, TargetsExclusive, JoinersInformed,
                NoForgottenJoiner, Disposing
  <2> QED
    BY <2>1, <2>2, <2>3 DEF ThreadInv, PicksTop
<1> QED
  BY <1>1, <1>2, <1>3 DEF Next

\* ThreadInv holds in every reachable state.
THEOREM ThreadsInvariant == Spec => []ThreadInv
  BY InitInv, NextInv, PTL DEF Spec

\* The variables keep their types.
THEOREM TypeCorrect == Spec => []TypeOK
<1>1. ThreadInv => TypeOK
  BY DEF ThreadInv
<1> QED
  BY <1>1, ThreadsInvariant, PTL

\* The run queues, the bitmap, the wait queues and the thread states agree
\* between any two critical sections of thread.c.
THEOREM SchedulerIsConsistent == Spec => []SchedulerConsistent
<1>1. ThreadInv => SchedulerConsistent
  BY DEF ThreadInv
<1> QED
  BY <1>1, ThreadsInvariant, PTL

\* A thread that waits for the processor does so inside a critical section or
\* a notification, and gets the processor with interrupts off.
THEOREM LocksAreKept == Spec => []LockDiscipline
<1>1. ThreadInv => LockDiscipline
  BY DEF ThreadInv
<1> QED
  BY <1>1, ThreadsInvariant, PTL

\* thread_join frees dead threads only, each of them once.
THEOREM JoinFreesOnce == Spec => []ReapsOnlyDead
<1>1. ThreadInv => ReapsOnlyDead
  <2> SUFFICES ASSUME ThreadInv, NEW t \in Threads, kpc[t] = "reap"
               PROVE  /\ k.state[target[t]] = "dead" /\ kpc[target[t]] = "done"
                      /\ k.waitq[target[t]] = << >>
                      /\ target[t] \notin detached
                      /\ \A u \in Threads \ {t} : kpc[u] \in {"join", "reap", "detach"} =>
                            target[u] # target[t]
    BY DEF ReapsOnlyDead
  <2>1. /\ k.state[target[t]] = "dead" /\ kpc[target[t]] = "done"
        /\ target[t] \notin detached
    BY DEF ThreadInv, JoinersInformed
  <2>2. Disposing(t) /\ target[t] \in Threads
    BY TargetFacts DEF Disposing
  <2>3. k.waitq[target[t]] = << >>
    BY <2>1, <2>2 DEF ThreadInv, NoForgottenJoiner
  <2>4. \A u \in Threads \ {t} : Disposing(u) => target[u] # target[t]
    BY <2>1, <2>2 DEF ThreadInv, TargetsExclusive
  <2> QED
    BY <2>1, <2>3, <2>4 DEF Disposing
<1> QED
  BY <1>1, ThreadsInvariant, PTL

\* Nothing refers to a thread_t that has been freed.
THEOREM NoDanglingThread == Spec => []FreedUnreferenced
<1>1. ThreadInv => FreedUnreferenced
  <2> SUFFICES ASSUME ThreadInv, NEW n \in Threads, k.state[n] = "unused"
               PROVE  /\ k.waitq[n] = << >> /\ n # k.cur /\ n # notify
                      /\ \A t \in Threads : target[t] # n
    BY DEF FreedUnreferenced
  <2>1. kpc[n] = "done" /\ n # k.cur /\ n # notify
    BY SchedAssumption DEF ThreadInv, PointsMatchStates, SchedulerConsistent, CurrentRuns, LockDiscipline
  <2>2. k.waitq[n] = << >>
    BY <2>1 DEF ThreadInv, NoForgottenJoiner
  <2>3. \A t \in Threads : target[t] # n
    BY SchedAssumption DEF ThreadInv, TargetsExclusive
  <2> QED
    BY <2>1, <2>2, <2>3
<1> QED
  BY <1>1, ThreadsInvariant, PTL

\* Nobody sleeps in thread_join on a thread that will not wake it.
THEOREM JoinersRemembered == Spec => []NoForgottenJoiner
<1>1. ThreadInv => NoForgottenJoiner
  BY DEF ThreadInv
<1> QED
  BY <1>1, ThreadsInvariant, PTL

\* The scheduler switches only to a thread of the highest priority that is
\* ready (get_top_thread, in every operation that reschedules).
THEOREM SwitchesToTop == Spec => SwitchPicksTop
<1>1. ThreadInv /\ [Next]_vars => [PicksTop]_vars
  BY NextInv
<1> QED
  BY <1>1, ThreadsInvariant, PTL DEF Spec, SwitchPicksTop
=============================================================================
