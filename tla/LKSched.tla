------------------------------ MODULE LKSched ------------------------------
(***************************************************************************)
(* The scheduler core of lk/kernel/thread.c as pure operators.             *)
(*                                                                         *)
(* A kernel state is a record k whose fields are the globals of thread.c   *)
(* and the scheduling fields of every thread_t and wait_queue_t:           *)
(*   state[t]    t->state; "unused" is memory that holds no thread_t       *)
(*   prio[t]     t->priority                                               *)
(*   quantum[t]  t->remaining_quantum; the code only compares it with 0,   *)
(*               so the model stops counting there                         *)
(*   bwq[t]      t->blocking_wait_queue                                    *)
(*   ret[t]      t->wait_queue_block_ret                                   *)
(*   runq[p]     run_queue[p], head first                                  *)
(*   bitmap      the priorities whose bit is set in run_queue_bitmap       *)
(*   waitq[q]    the list of wait queue q, head first                      *)
(*   wcount[q]   its count field                                           *)
(*   cur         the current thread                                        *)
(* Every operator below runs with thread_lock held and interrupts off, so  *)
(* it is one step of the machine.                                          *)
(***************************************************************************)
EXTENDS Integers, Sequences, FiniteSets, Functions

CONSTANTS
    Threads,          \* addresses of thread_t objects
    Boot,             \* the thread that covers the firmware's own context
    Idle,             \* idle_thread(0)
    Objects,          \* addresses of the other objects that own a wait queue
    None,             \* NULL
    HighestPriority,  \* HIGHEST_PRIORITY
    DefaultPriority,  \* DEFAULT_PRIORITY
    FullQuantum       \* the quantum thread_resched refills (5 in the code)

ASSUME SchedAssumption ==
    /\ Boot \in Threads /\ Idle \in Threads /\ Boot # Idle
    /\ None \notin Threads \cup Objects
    /\ Threads \cap Objects = {}
    /\ HighestPriority \in Nat
    /\ DefaultPriority \in 1 .. HighestPriority
    /\ FullQuantum \in Nat \ {0}

IdlePriority == 0
Prios == IdlePriority .. HighestPriority
Queues == Threads \cup Objects      \* t itself names t->retcode_wait_queue
States == {"unused", "suspended", "ready", "running", "blocked", "dead"}
Returns == {"ok", "timed_out", "destroyed", "detached"}

KernelStates ==
    [state   : [Threads -> States],
     prio    : [Threads -> Prios],
     quantum : [Threads -> 0 .. FullQuantum],
     bwq     : [Threads -> Queues \cup {None}],
     ret     : [Threads -> Returns],
     runq    : [Prios -> Seq(Threads)],
     bitmap  : SUBSET Prios,
     waitq   : [Queues -> Seq(Threads)],
     wcount  : [Queues -> Int],
     cur     : Threads]

-----------------------------------------------------------------------------
(* Run queue manipulation.                                                 *)

insert_in_run_queue_head(k, t) ==
    [k EXCEPT !.runq[k.prio[t]] = <<t>> \o @,
              !.bitmap = @ \cup {k.prio[t]}]

insert_in_run_queue_tail(k, t) ==
    [k EXCEPT !.runq[k.prio[t]] = Append(@, t),
              !.bitmap = @ \cup {k.prio[t]}]

\* "t->state = THREAD_READY; insert_in_run_queue_xxx(t)", as every caller does
ReadyHead(k, t) == insert_in_run_queue_head([k EXCEPT !.state[t] = "ready"], t)
ReadyTail(k, t) == insert_in_run_queue_tail([k EXCEPT !.state[t] = "ready"], t)

\* Mutant for SwitchPicksTop: the bitmap is scanned from the lowest priority.
TopQueue_Lowest(k) ==
    LET S == {p \in k.bitmap : k.runq[p] # << >>} IN
    CHOOSE p \in S : \A r \in S : p <= r

\* The queues the loop of get_top_thread stops at: a set bit and a thread.
Runnable(k) == {p \in k.bitmap : k.runq[p] # << >>}
TopQueue(k) == CHOOSE p \in Runnable(k) : \A r \in Runnable(k) : r <= p

\* The thread get_top_thread returns; with no thread to run, the idle thread.
get_top_thread(k) ==
    IF Runnable(k) = {} THEN Idle ELSE Head(k.runq[TopQueue(k)])

\* Mutant for SchedulerConsistent: the bit of an emptied queue stays set.
DeleteTop_KeepsBit(k) ==
    IF Runnable(k) = {} THEN k ELSE [k EXCEPT !.runq[TopQueue(k)] = Tail(@)]

\* What get_top_thread does to the run queue and its bitmap.
DeleteTop(k) ==
    IF Runnable(k) = {} THEN k
    ELSE LET p == TopQueue(k) IN
         [k EXCEPT !.runq[p] = Tail(@),
                   !.bitmap = IF Tail(k.runq[p]) = << >> THEN @ \ {p} ELSE @]

\* A thread switched to gets a new quantum if it has used up its own; the
\* current thread picked again does not.
SwitchTo(k, n) ==
    [k EXCEPT !.state[n] = "running",
              !.cur = n,
              !.quantum[n] = IF n # k.cur /\ @ <= 0 THEN FullQuantum ELSE @]

thread_resched(k) == SwitchTo(DeleteTop(k), get_top_thread(k))

-----------------------------------------------------------------------------
(* What thread t does to the kernel state in each thread operation.        *)

\* Mutant for ReadyRuns: to the head of the run queue.
YieldStep_Head(k, t) ==
    thread_resched(ReadyHead([k EXCEPT !.quantum[t] = 0], t))

\* thread_yield: to the tail, with no quantum left
YieldStep(k, t) ==
    thread_resched(ReadyTail([k EXCEPT !.quantum[t] = 0], t))

\* thread_preempt: to the head while there is quantum left, else to the tail
PreemptStep(k, t) ==
    thread_resched(IF k.quantum[t] > 0 THEN ReadyHead(k, t) ELSE ReadyTail(k, t))

\* thread_timer_tick; TRUE in the second part is INT_RESCHEDULE
TickQuantum(k, t) == IF k.quantum[t] > 0 THEN k.quantum[t] - 1 ELSE 0
thread_timer_tick(k, t) == [k EXCEPT !.quantum[t] = TickQuantum(k, t)]
TickExpired(k, t) == TickQuantum(k, t) <= 0

\* Mutant for SemImplementsSpec: list_add_head instead of list_add_tail.
Enqueue_Head(k, t, q) ==
    [k EXCEPT !.waitq[q] = <<t>> \o @, !.wcount[q] = @ + 1,
              !.state[t] = "blocked", !.bwq[t] = q, !.ret[t] = "ok"]

\* wait_queue_block up to its call of thread_resched, timeout # 0
Enqueue(k, t, q) ==
    [k EXCEPT !.waitq[q] = Append(@, t),
              !.wcount[q] = @ + 1,
              !.state[t] = "blocked",
              !.bwq[t] = q,
              !.ret[t] = "ok"]

wait_queue_block(k, t, q) == thread_resched(Enqueue(k, t, q))

\* list_remove_head on a non-empty wait queue: the head leaves it with error err
Dequeue(k, q, err) ==
    LET t == Head(k.waitq[q]) IN
    [k EXCEPT !.waitq[q] = Tail(@),
              !.wcount[q] = @ - 1,
              !.state[t] = "ready",
              !.ret[t] = err,
              !.bwq[t] = None]

\* one iteration of the loop of wait_queue_wake_all
WakeHead(k, q, err) ==
    insert_in_run_queue_head(Dequeue(k, q, err), Head(k.waitq[q]))

\* wait_queue_wake_one without and with reschedule; t is the caller
WakeOne(k, q, err) == IF k.waitq[q] = << >> THEN k ELSE WakeHead(k, q, err)
WakeOneResched(k, t, q, err) ==
    IF k.waitq[q] = << >> THEN k
    ELSE LET h == Head(k.waitq[q]) IN
         thread_resched(insert_in_run_queue_head(
             ReadyHead(Dequeue(k, q, err), t), h))

-----------------------------------------------------------------------------
(* What every kernel state satisfies between two operations.               *)

NoDup(s) == \A i, j \in 1 .. Len(s) : s[i] = s[j] => i = j

\* A thread is linked in the run queue of its priority exactly when READY.
RunQueues(k) ==
    /\ \A p \in Prios : NoDup(k.runq[p])
    /\ \A p \in Prios : \A t \in Range(k.runq[p]) :
           k.state[t] = "ready" /\ k.prio[t] = p
    /\ \A t \in Threads : k.state[t] = "ready" => t \in Range(k.runq[k.prio[t]])

\* The bitmap has the bit of a run queue set exactly when it has a thread.
Bitmap(k) == k.bitmap = {p \in Prios : k.runq[p] # << >>}

\* A thread is linked in the wait queue it names exactly when BLOCKED, and
\* every wait queue counts its threads.
WaitQueues(k) ==
    /\ \A q \in Queues : NoDup(k.waitq[q]) /\ k.wcount[q] = Len(k.waitq[q])
    /\ \A q \in Queues : \A t \in Range(k.waitq[q]) :
           k.state[t] = "blocked" /\ k.bwq[t] = q
    /\ \A t \in Threads : k.state[t] = "blocked" =>
           k.bwq[t] \in Queues /\ t \in Range(k.waitq[k.bwq[t]])

\* Only the current thread is RUNNING.
OneRunning(k) == \A t \in Threads : k.state[t] = "running" => t = k.cur

\* The idle thread never blocks or dies, so it can always be fallen back on.
IdleAvailable(k) == k.state[Idle] \in {"suspended", "ready", "running"}

QueueInv(k) ==
    /\ k \in KernelStates
    /\ RunQueues(k) /\ Bitmap(k) /\ WaitQueues(k)
    /\ OneRunning(k) /\ IdleAvailable(k)
=============================================================================
