--------------------------- MODULE LKKernelProofs ---------------------------
(***************************************************************************)
(* What the other proofs rest on, for every set of threads, every number   *)
(* of priorities and every quantum: the operators of LKSched keep the run  *)
(* queues, their bitmap and the wait queues consistent, and so do the      *)
(* steps of LKKernel (yield, preemption by the tick, the idle loop, the    *)
(* returns from critical sections).  The proofs of the modules that extend *)
(* LKKernel cite KernelStep for all of these steps at once.                *)
(***************************************************************************)
EXTENDS LKKernel, TLAPS, WellFoundedInduction

-----------------------------------------------------------------------------
(* Sequences without duplicates.                                           *)

\* Inserting at the head: what list_add_head does to the contents of a list.
LEMMA ConsFacts ==
    ASSUME NEW S, NEW s \in Seq(S), NEW t \in S
    PROVE  /\ <<t>> \o s \in Seq(S)
           /\ <<t>> \o s # << >>
           /\ Len(<<t>> \o s) = Len(s) + 1
           /\ Range(<<t>> \o s) = Range(s) \cup {t}
           /\ NoDup(s) /\ t \notin Range(s) => NoDup(<<t>> \o s)
<1> DEFINE c == <<t>> \o s
<1>1. c \in Seq(S) /\ Len(c) = Len(s) + 1 /\ DOMAIN c = 1 .. Len(s) + 1
      /\ DOMAIN s = 1 .. Len(s) /\ Len(s) \in Nat
  OBVIOUS
<1>2. c[1] = t /\ \A i \in 1 .. Len(s) : c[i + 1] = s[i]
  OBVIOUS
<1>3. \A i \in 2 .. Len(s) + 1 : i - 1 \in 1 .. Len(s) /\ c[i] = s[i - 1]
  BY <1>1, <1>2
<1>4. Range(c) = Range(s) \cup {t}
  <2>1. ASSUME NEW x \in Range(c) PROVE x \in Range(s) \cup {t}
    <3>1. PICK i \in 1 .. Len(s) + 1 : x = c[i]
      BY <1>1 DEF Range
    <3>2. CASE i = 1
      BY <3>1, <3>2, <1>2
    <3>3. CASE i # 1
      BY <3>1, <3>3, <1>1, <1>3 DEF Range
    <3> QED
      BY <3>2, <3>3
  <2>2. ASSUME NEW x \in Range(s) PROVE x \in Range(c)
    <3>1. PICK i \in 1 .. Len(s) : x = s[i]
      BY <1>1 DEF Range
    <3>2. i + 1 \in DOMAIN c /\ c[i + 1] = x
      BY <3>1, <1>1, <1>2
    <3> QED
      BY <3>2 DEF Range
  <2>3. t \in Range(c)
    BY <1>1, <1>2 DEF Range
  <2> QED
    BY <2>1, <2>2, <2>3
<1>5. ASSUME NoDup(s), t \notin Range(s) PROVE NoDup(c)
  <2>1. \A i \in 1 .. Len(s) : s[i] # t
    BY <1>1, <1>5 DEF Range
  <2> SUFFICES ASSUME NEW i \in 1 .. Len(s) + 1, NEW j \in 1 .. Len(s) + 1, c[i] = c[j]
               PROVE  i = j
    BY <1>1 DEF NoDup
  <2>2. CASE i = 1 \/ j = 1
    BY <2>1, <2>2, <1>1, <1>2, <1>3
  <2>3. CASE i # 1 /\ j # 1
    BY <2>3, <1>1, <1>3, <1>5 DEF NoDup
  <2> QED
    BY <2>2, <2>3
<1>6. c # << >>
  BY <1>1
<1> QED
  BY <1>1, <1>4, <1>5, <1>6

\* Inserting at the tail: what list_add_tail does to the contents of a list.
LEMMA AppendFacts ==
    ASSUME NEW S, NEW s \in Seq(S), NEW t \in S
    PROVE  /\ Append(s, t) \in Seq(S)
           /\ Append(s, t) # << >>
           /\ Len(Append(s, t)) = Len(s) + 1
           /\ Range(Append(s, t)) = Range(s) \cup {t}
           /\ NoDup(s) /\ t \notin Range(s) => NoDup(Append(s, t))
<1> DEFINE c == Append(s, t)
<1>1. c \in Seq(S) /\ Len(c) = Len(s) + 1 /\ DOMAIN c = 1 .. Len(s) + 1
      /\ DOMAIN s = 1 .. Len(s) /\ Len(s) \in Nat
  OBVIOUS
<1>2. c[Len(s) + 1] = t /\ \A i \in 1 .. Len(s) : c[i] = s[i]
  OBVIOUS
<1>4. Range(c) = Range(s) \cup {t}
  <2>1. ASSUME NEW x \in Range(c) PROVE x \in Range(s) \cup {t}
    <3>1. PICK i \in 1 .. Len(s) + 1 : x = c[i]
      BY <1>1 DEF Range
    <3>2. CASE i = Len(s) + 1
      BY <3>1, <3>2, <1>2
    <3>3. CASE i # Len(s) + 1
      BY <3>1, <3>3, <1>1, <1>2 DEF Range
    <3> QED
      BY <3>2, <3>3
  <2>2. ASSUME NEW x \in Range(s) PROVE x \in Range(c)
    <3>1. PICK i \in 1 .. Len(s) : x = s[i]
      BY <1>1 DEF Range
    <3>2. i \in DOMAIN c /\ c[i] = x
      BY <3>1, <1>1, <1>2
    <3> QED
      BY <3>2 DEF Range
  <2>3. t \in Range(c)
    BY <1>1, <1>2 DEF Range
  <2> QED
    BY <2>1, <2>2, <2>3
<1>5. ASSUME NoDup(s), t \notin Range(s) PROVE NoDup(c)
  <2>1. \A i \in 1 .. Len(s) : s[i] # t
    BY <1>1, <1>5 DEF Range
  <2> SUFFICES ASSUME NEW i \in 1 .. Len(s) + 1, NEW j \in 1 .. Len(s) + 1, c[i] = c[j]
               PROVE  i = j
    BY <1>1 DEF NoDup
  <2>2. CASE i = Len(s) + 1 \/ j = Len(s) + 1
    BY <2>1, <2>2, <1>1, <1>2
  <2>3. CASE i # Len(s) + 1 /\ j # Len(s) + 1
    BY <2>3, <1>1, <1>2, <1>5 DEF NoDup
  <2> QED
    BY <2>2, <2>3
<1>6. c # << >>
  BY <1>1
<1> QED
  BY <1>1, <1>4, <1>5, <1>6

\* Removing the head: what list_remove_head does to the contents of a list.
LEMMA TailFacts ==
    ASSUME NEW S, NEW s \in Seq(S), s # << >>, NoDup(s)
    PROVE  /\ Tail(s) \in Seq(S)
           /\ Head(s) \in S
           /\ Head(s) \in Range(s)
           /\ Len(Tail(s)) = Len(s) - 1
           /\ Range(Tail(s)) = Range(s) \ {Head(s)}
           /\ NoDup(Tail(s))
<1> DEFINE c == Tail(s)
<1>1. c \in Seq(S) /\ Len(c) = Len(s) - 1 /\ Len(s) \in Nat /\ Len(s) >= 1
      /\ DOMAIN c = 1 .. Len(s) - 1 /\ DOMAIN s = 1 .. Len(s)
  OBVIOUS
<1>2. Head(s) = s[1] /\ \A i \in 1 .. Len(s) - 1 : c[i] = s[i + 1]
  OBVIOUS
<1>3. Range(c) = Range(s) \ {Head(s)}
  <2>1. ASSUME NEW x \in Range(c) PROVE x \in Range(s) /\ x # Head(s)
    <3>1. PICK i \in 1 .. Len(s) - 1 : x = c[i]
      BY <1>1 DEF Range
    <3>2. i + 1 \in 1 .. Len(s) /\ x = s[i + 1] /\ i + 1 # 1
      BY <3>1, <1>1, <1>2
    <3> QED
      BY <3>2, <1>1, <1>2 DEF Range, NoDup
  <2>2. ASSUME NEW x \in Range(s), x # Head(s) PROVE x \in Range(c)
    <3>1. PICK i \in 1 .. Len(s) : x = s[i]
      BY <1>1 DEF Range
    <3>2. i - 1 \in 1 .. Len(s) - 1
      BY <3>1, <2>2, <1>1, <1>2
    <3>3. c[i - 1] = x
      BY <3>1, <3>2, <1>1, <1>2
    <3> QED
      BY <3>2, <3>3, <1>1 DEF Range
  <2> QED
    BY <2>1, <2>2
<1>4. NoDup(c)
  <2> SUFFICES ASSUME NEW i \in 1 .. Len(s) - 1, NEW j \in 1 .. Len(s) - 1, c[i] = c[j]
               PROVE  i = j
    BY <1>1 DEF NoDup
  <2>1. i + 1 \in 1 .. Len(s) /\ j + 1 \in 1 .. Len(s) /\ s[i + 1] = s[j + 1]
    BY <1>1, <1>2
  <2> QED
    BY <2>1 DEF NoDup
<1>5. Head(s) \in S /\ Head(s) \in Range(s)
  BY <1>1, <1>2 DEF Range
<1> QED
  BY <1>1, <1>3, <1>4, <1>5

-----------------------------------------------------------------------------
(* The run queues.                                                         *)

\* A non-empty set of priorities has a greatest element.
LEMMA GreatestPriority ==
    ASSUME NEW S \in SUBSET Prios, S # {}
    PROVE  \E p \in S : \A r \in S : r <= p
<1> DEFINE T == {HighestPriority - p : p \in S}
<1>1. HighestPriority \in Nat /\ S \subseteq Int /\ \A p \in S : HighestPriority - p \in Nat
  BY SchedAssumption DEF Prios, IdlePriority
<1>2. T \subseteq Nat /\ T # {}
  BY <1>1
<1>3. PICK m \in T : \A y \in T : ~(<<y, m>> \in OpToRel(<, Nat))
  BY <1>2, NatLessThanWellFounded, WFMin
<1>4. \A y \in T : m <= y
  <2> SUFFICES ASSUME NEW y \in T PROVE m <= y
    OBVIOUS
  <2>1. <<y, m>> \in Nat \X Nat /\ <<y, m>>[1] = y /\ <<y, m>>[2] = m
    BY <1>2
  <2>2. ~(<<y, m>>[1] < <<y, m>>[2])
    BY <2>1, <1>3, Zenon DEF OpToRel
  <2>3. ~(y < m)
    BY <2>1, <2>2, Zenon
  <2>4. y \in Nat /\ m \in Nat
    BY <1>2
  <2> HIDE DEF T
  <2> QED
    BY <2>3, <2>4
<1>5. PICK p \in S : m = HighestPriority - p
  BY <1>3
<1>6. \A r \in S : r <= p
  <2> SUFFICES ASSUME NEW r \in S PROVE r <= p
    OBVIOUS
  <2>1. HighestPriority - p <= HighestPriority - r
    BY <1>4, <1>5
  <2> QED
    BY <2>1, <1>1
<1> QED
  BY <1>5, <1>6

\* Everything the run queue insertions and removals leave alone.
SameButRunQueue(K, r) ==
    /\ r.prio = K.prio /\ r.bwq = K.bwq /\ r.ret = K.ret
    /\ r.waitq = K.waitq /\ r.wcount = K.wcount

\* Linking a thread that is in no queue into the run queue of its priority,
\* wherever in the queue, keeps the queues consistent.
LEMMA InsertInv ==
    ASSUME NEW K, QueueInv(K), NEW t \in Threads, K.state[t] \in {"suspended", "running"},
           NEW s \in Seq(Threads), s # << >>, NoDup(s),
           Range(s) = Range(K.runq[K.prio[t]]) \cup {t},
           NEW r \in KernelStates,
           r.state = [K.state EXCEPT ![t] = "ready"],
           r.runq = [K.runq EXCEPT ![K.prio[t]] = s],
           r.bitmap = K.bitmap \cup {K.prio[t]},
           r.cur = K.cur, SameButRunQueue(K, r)
    PROVE  QueueInv(r)
<1> DEFINE p == K.prio[t]
<1>1. K \in KernelStates /\ p \in Prios /\ K.runq[p] \in Seq(Threads)
  BY DEF QueueInv, KernelStates
<1>4. /\ \A u \in Threads : u # t => r.state[u] = K.state[u]
      /\ r.state[t] = "ready"
      /\ \A o \in Prios : o # p => r.runq[o] = K.runq[o]
      /\ r.runq[p] = s
  BY <1>1 DEF KernelStates
<1>5. \A o \in Prios : t \notin Range(K.runq[o])
  BY DEF QueueInv, RunQueues
<1>7. RunQueues(r)
  <2>1. \A o \in Prios : NoDup(r.runq[o])
    BY <1>4 DEF QueueInv, RunQueues
  <2>2. \A o \in Prios : \A u \in Range(r.runq[o]) : r.state[u] = "ready" /\ r.prio[u] = o
    <3> SUFFICES ASSUME NEW o \in Prios, NEW u \in Range(r.runq[o])
                 PROVE  r.state[u] = "ready" /\ r.prio[u] = o
      OBVIOUS
    <3>1. CASE u = t
      BY <3>1, <1>4, <1>5 DEF SameButRunQueue
    <3>2. CASE u # t
      <4>1. u \in Range(K.runq[o])
        BY <3>2, <1>4
      <4>2. K.state[u] = "ready" /\ K.prio[u] = o
        BY <4>1 DEF QueueInv, RunQueues
      <4>3. u \in Threads
        BY <4>1, <1>1 DEF KernelStates, Range
      <4> QED
        BY <4>2, <4>3, <3>2, <1>4 DEF SameButRunQueue
    <3> QED
      BY <3>1, <3>2
  <2>3. \A u \in Threads : r.state[u] = "ready" => u \in Range(r.runq[r.prio[u]])
    <3> SUFFICES ASSUME NEW u \in Threads, r.state[u] = "ready"
                 PROVE  u \in Range(r.runq[K.prio[u]])
      BY DEF SameButRunQueue
    <3>1. CASE u = t
      BY <3>1, <1>4
    <3>2. CASE u # t
      <4>1. u \in Range(K.runq[K.prio[u]]) /\ K.prio[u] \in Prios
        BY <3>2, <1>1, <1>4 DEF QueueInv, RunQueues, KernelStates
      <4> QED
        BY <4>1, <1>4
    <3> QED
      BY <3>1, <3>2
  <2> QED
    BY <2>1, <2>2, <2>3 DEF RunQueues
<1>8. Bitmap(r)
  BY <1>1, <1>4 DEF QueueInv, Bitmap
<1>9. WaitQueues(r)
  <2>1. \A q \in Queues : t \notin Range(K.waitq[q])
    BY DEF QueueInv, WaitQueues
  <2>2. \A q \in Queues : Range(K.waitq[q]) \subseteq Threads
    BY <1>1 DEF KernelStates, Range
  <2> QED
    BY <2>1, <2>2, <1>4 DEF QueueInv, WaitQueues, SameButRunQueue
<1>10. OneRunning(r) /\ IdleAvailable(r)
  BY <1>4, SchedAssumption DEF QueueInv, OneRunning, IdleAvailable
<1> QED
  BY <1>7, <1>8, <1>9, <1>10 DEF QueueInv

\* A thread that is in no queue is made READY at the head of its run queue.
LEMMA ReadyHeadInv ==
    ASSUME NEW K, QueueInv(K), NEW t \in Threads, K.state[t] \in {"suspended", "running"}
    PROVE  /\ QueueInv(ReadyHead(K, t))
           /\ ReadyHead(K, t).state = [K.state EXCEPT ![t] = "ready"]
           /\ ReadyHead(K, t).cur = K.cur
           /\ ReadyHead(K, t).quantum = K.quantum
           /\ SameButRunQueue(K, ReadyHead(K, t))
<1> DEFINE r == ReadyHead(K, t)
           p == K.prio[t]
           s == <<t>> \o K.runq[p]
<1>1. K \in KernelStates /\ p \in Prios /\ K.runq[p] \in Seq(Threads)
  BY DEF QueueInv, KernelStates
<1>2. /\ r.state = [K.state EXCEPT ![t] = "ready"]
      /\ r.runq = [K.runq EXCEPT ![p] = s]
      /\ r.bitmap = K.bitmap \cup {p}
      /\ r.cur = K.cur /\ r.quantum = K.quantum
      /\ SameButRunQueue(K, r)
  BY <1>1 DEF ReadyHead, insert_in_run_queue_head, KernelStates, SameButRunQueue
<1>3. t \notin Range(K.runq[p]) /\ NoDup(K.runq[p])
  BY <1>1 DEF QueueInv, RunQueues
<1>4. /\ s \in Seq(Threads) /\ s # << >> /\ NoDup(s)
      /\ Range(s) = Range(K.runq[p]) \cup {t}
  BY <1>1, <1>3, ConsFacts
<1>5. r \in KernelStates
  BY <1>1, <1>4 DEF ReadyHead, insert_in_run_queue_head, KernelStates, States
<1> HIDE DEF r, s
<1> QED
  BY <1>2, <1>4, <1>5, InsertInv DEF r

\* A thread that is in no queue is made READY at the tail of its run queue.
LEMMA ReadyTailInv ==
    ASSUME NEW K, QueueInv(K), NEW t \in Threads, K.state[t] \in {"suspended", "running"}
    PROVE  /\ QueueInv(ReadyTail(K, t))
           /\ ReadyTail(K, t).state = [K.state EXCEPT ![t] = "ready"]
           /\ ReadyTail(K, t).cur = K.cur
           /\ ReadyTail(K, t).quantum = K.quantum
           /\ SameButRunQueue(K, ReadyTail(K, t))
<1> DEFINE r == ReadyTail(K, t)
           p == K.prio[t]
           s == Append(K.runq[p], t)
<1>1. K \in KernelStates /\ p \in Prios /\ K.runq[p] \in Seq(Threads)
  BY DEF QueueInv, KernelStates
<1>2. /\ r.state = [K.state EXCEPT ![t] = "ready"]
      /\ r.runq = [K.runq EXCEPT ![p] = s]
      /\ r.bitmap = K.bitmap \cup {p}
      /\ r.cur = K.cur /\ r.quantum = K.quantum
      /\ SameButRunQueue(K, r)
  BY <1>1 DEF ReadyTail, insert_in_run_queue_tail, KernelStates, SameButRunQueue
<1>3. t \notin Range(K.runq[p]) /\ NoDup(K.runq[p])
  BY <1>1 DEF QueueInv, RunQueues
<1>4. /\ s \in Seq(Threads) /\ s # << >> /\ NoDup(s)
      /\ Range(s) = Range(K.runq[p]) \cup {t}
  BY <1>1, <1>3, AppendFacts
<1>5. r \in KernelStates
  BY <1>1, <1>4 DEF ReadyTail, insert_in_run_queue_tail, KernelStates, States
<1> HIDE DEF r, s
<1> QED
  BY <1>2, <1>4, <1>5, InsertInv DEF r

-----------------------------------------------------------------------------
(* thread_resched.                                                         *)

\* With a thread to run, get_top_thread takes the head of the highest run
\* queue that has one.
LEMMA TopQueueFacts ==
    ASSUME NEW K, QueueInv(K), Runnable(K) # {}
    PROVE  /\ TopQueue(K) \in Prios
           /\ K.runq[TopQueue(K)] # << >>
           /\ \A t \in Threads : K.state[t] = "ready" => K.prio[t] <= TopQueue(K)
<1>1. Runnable(K) \in SUBSET Prios
  BY DEF Runnable, QueueInv, KernelStates
<1>2. TopQueue(K) \in Runnable(K) /\ \A p \in Runnable(K) : p <= TopQueue(K)
  BY <1>1, GreatestPriority DEF TopQueue
<1>3. ASSUME NEW t \in Threads, K.state[t] = "ready" PROVE K.prio[t] \in Runnable(K)
  <2>1. K.prio[t] \in Prios /\ t \in Range(K.runq[K.prio[t]])
    BY <1>3 DEF QueueInv, KernelStates, RunQueues
  <2>2. K.runq[K.prio[t]] # << >>
    BY <2>1 DEF Range
  <2> QED
    BY <2>1, <2>2 DEF Runnable, QueueInv, Bitmap
<1> QED
  BY <1>1, <1>2, <1>3 DEF Runnable

\* A thread that is not BLOCKED is linked in no wait queue.
LEMMA NotWaiting ==
    ASSUME NEW K, QueueInv(K), NEW t \in Threads, K.state[t] # "blocked"
    PROVE  \A q \in Queues : Range(K.waitq[q]) \subseteq Threads /\ t \notin Range(K.waitq[q])
<1> SUFFICES ASSUME NEW q \in Queues
             PROVE  Range(K.waitq[q]) \subseteq Threads /\ t \notin Range(K.waitq[q])
  OBVIOUS
<1>1. K.waitq[q] \in Seq(Threads)
  BY DEF QueueInv, KernelStates
<1>2. Range(K.waitq[q]) \subseteq Threads
  BY <1>1 DEF Range
<1>3. t \notin Range(K.waitq[q])
  BY DEF QueueInv, WaitQueues
<1> QED
  BY <1>2, <1>3

\* What a switch changes: the state and the quantum of the new thread.
LEMMA SwitchToFacts ==
    ASSUME NEW K \in KernelStates, NEW n \in Threads
    PROVE  /\ SwitchTo(K, n) \in KernelStates
           /\ SwitchTo(K, n).state = [K.state EXCEPT ![n] = "running"]
           /\ SwitchTo(K, n).cur = n
           /\ SwitchTo(K, n).runq = K.runq
           /\ SwitchTo(K, n).bitmap = K.bitmap
           /\ SameButRunQueue(K, SwitchTo(K, n))
<1> DEFINE v == IF n # K.cur /\ K.quantum[n] <= 0 THEN FullQuantum ELSE K.quantum[n]
           st == [K.state EXCEPT ![n] = "running"]
           qu == [K.quantum EXCEPT ![n] = v]
<1>1. v \in 0 .. FullQuantum
  BY SchedAssumption DEF KernelStates
<1>2. SwitchTo(K, n) = [K EXCEPT !.state = st, !.cur = n, !.quantum = qu]
  BY DEF SwitchTo, KernelStates
<1>3. st \in [Threads -> States] /\ qu \in [Threads -> 0 .. FullQuantum]
  BY <1>1 DEF KernelStates, States
<1> HIDE DEF st, qu, v
<1>4. SwitchTo(K, n) \in KernelStates
  BY <1>2, <1>3 DEF KernelStates
<1>5. /\ SwitchTo(K, n).state = st
      /\ SwitchTo(K, n).cur = n
      /\ SwitchTo(K, n).runq = K.runq
      /\ SwitchTo(K, n).bitmap = K.bitmap
      /\ SameButRunQueue(K, SwitchTo(K, n))
  BY <1>2 DEF KernelStates, SameButRunQueue
<1> QED
  BY <1>4, <1>5 DEF st

\* r is the kernel state after a switch; st are the thread states before it.
\* The thread switched to was READY (or is the idle thread on its first run)
\* and no READY thread has a higher priority.
Switched(st, r) ==
    /\ r.cur \in Threads
    /\ r.state = [st EXCEPT ![r.cur] = "running"]
    /\ st[r.cur] = "ready" \/ (st[r.cur] = "suspended" /\ r.cur = Idle)
    /\ \A t \in Threads : r.state[t] = "ready" => r.prio[t] <= r.prio[r.cur]

\* thread_resched, called by a thread that is no longer RUNNING, keeps the
\* queues consistent and switches to a thread of the highest priority.
LEMMA ReschedInv ==
    ASSUME NEW K, QueueInv(K), K.state[K.cur] # "running"
    PROVE  /\ QueueInv(thread_resched(K))
           /\ Switched(K.state, thread_resched(K))
           /\ SameButRunQueue(K, thread_resched(K))
<1> DEFINE n == get_top_thread(K)
           d == DeleteTop(K)
           r == thread_resched(K)
           p == TopQueue(K)
<1>1. K \in KernelStates
  BY DEF QueueInv
<1>2. \A t \in Threads : K.state[t] # "running"
  BY DEF QueueInv, OneRunning
<1>3. CASE Runnable(K) = {}
  <2>1. n = Idle /\ d = K /\ n \in Threads
    BY <1>3, SchedAssumption DEF get_top_thread, DeleteTop
  <2>2. \A t \in Threads : K.state[t] # "ready"
    <3> SUFFICES ASSUME NEW t \in Threads, K.state[t] = "ready" PROVE FALSE
      OBVIOUS
    <3>1. K.prio[t] \in Prios /\ t \in Range(K.runq[K.prio[t]])
      BY DEF QueueInv, KernelStates, RunQueues
    <3>2. K.runq[K.prio[t]] # << >>
      BY <3>1 DEF Range
    <3> QED
      BY <3>1, <3>2, <1>3 DEF Runnable, QueueInv, Bitmap
  <2>3. K.state[Idle] = "suspended"
    BY <1>2, <2>1, <2>2 DEF QueueInv, IdleAvailable
  <2>4. /\ r.state = [K.state EXCEPT ![Idle] = "running"]
        /\ r.cur = Idle /\ r.runq = K.runq /\ r.bitmap = K.bitmap
        /\ SameButRunQueue(K, r)
        /\ r \in KernelStates
    <3>1. r = SwitchTo(K, Idle)
      BY <2>1 DEF thread_resched
    <3> QED
      BY <3>1, <1>1, <2>1, SwitchToFacts
  <2>5. /\ r.state[Idle] = "running"
        /\ \A t \in Threads : t # Idle => r.state[t] = K.state[t]
    BY <1>1, <2>1, <2>4 DEF KernelStates
  <2>6. RunQueues(r)
    <3>1. \A o \in Prios : K.runq[o] = << >>
      BY <1>3 DEF Runnable, QueueInv, Bitmap
    <3>2. \A o \in Prios : Range(K.runq[o]) = {}
      BY <3>1 DEF Range
    <3> QED
      BY <2>2, <2>4, <2>5, <3>2 DEF RunQueues, QueueInv
  <2>7. Bitmap(r)
    BY <2>4 DEF QueueInv, Bitmap
  <2>8. WaitQueues(r)
    <3>1. \A q \in Queues : Range(K.waitq[q]) \subseteq Threads /\ Idle \notin Range(K.waitq[q])
      BY <2>1, <2>3, NotWaiting
    <3> QED
      BY <3>1, <2>3, <2>4, <2>5 DEF QueueInv, WaitQueues, SameButRunQueue
  <2>9. OneRunning(r) /\ IdleAvailable(r)
    BY <1>2, <2>4, <2>5 DEF OneRunning, IdleAvailable
  <2>10. \A t \in Threads : r.state[t] # "ready"
    BY <2>2, <2>5
  <2> QED
    BY <2>1, <2>3, <2>4, <2>6, <2>7, <2>8, <2>9, <2>10 DEF QueueInv, Switched
<1>4. CASE Runnable(K) # {}
  <2>1. p \in Prios /\ K.runq[p] # << >> /\ K.runq[p] \in Seq(Threads) /\ NoDup(K.runq[p])
    BY <1>1, <1>4, TopQueueFacts DEF KernelStates, QueueInv, RunQueues
  <2> DEFINE s == Tail(K.runq[p])
  <2>2. /\ n = Head(K.runq[p]) /\ n \in Threads /\ n \in Range(K.runq[p])
        /\ s \in Seq(Threads) /\ NoDup(s) /\ Range(s) = Range(K.runq[p]) \ {n}
    BY <1>4, <2>1, TailFacts DEF get_top_thread
  <2>3. K.state[n] = "ready" /\ K.prio[n] = p
    BY <2>1, <2>2 DEF QueueInv, RunQueues
  <2>4. /\ d \in KernelStates /\ d.state = K.state /\ d.cur = K.cur
        /\ d.runq = [K.runq EXCEPT ![p] = s]
        /\ d.bitmap = IF s = << >> THEN K.bitmap \ {p} ELSE K.bitmap
        /\ SameButRunQueue(K, d)
    BY <1>1, <1>4, <2>1, <2>2 DEF DeleteTop, KernelStates, SameButRunQueue
  <2>5. /\ r.state = [K.state EXCEPT ![n] = "running"]
        /\ r.cur = n /\ r.runq = d.runq /\ r.bitmap = d.bitmap
        /\ SameButRunQueue(K, r)
        /\ r \in KernelStates
    <3>1. r = SwitchTo(d, n)
      BY DEF thread_resched
    <3> HIDE DEF d, n, r
    <3> QED
      <4>1. /\ r \in KernelStates /\ r.state = [d.state EXCEPT ![n] = "running"]
            /\ r.cur = n /\ r.runq = d.runq /\ r.bitmap = d.bitmap
            /\ SameButRunQueue(d, r)
        BY <3>1, <2>2, <2>4, SwitchToFacts
      <4> QED
        BY <4>1, <2>4 DEF SameButRunQueue
  <2> HIDE DEF n, r, s, d
  <2>6. /\ r.state[n] = "running"
        /\ \A t \in Threads : t # n => r.state[t] = K.state[t]
        /\ r.runq[p] = s
        /\ \A o \in Prios : o # p => r.runq[o] = K.runq[o]
    <3>1. K.state \in [Threads -> States] /\ K.runq \in [Prios -> Seq(Threads)]
      BY <1>1 DEF KernelStates
    <3> QED
      BY <3>1, <2>1, <2>2, <2>4, <2>5
  <2>7. RunQueues(r)
    <3>1. \A o \in Prios : NoDup(r.runq[o])
      BY <2>2, <2>6 DEF QueueInv, RunQueues
    <3>2. \A o \in Prios : \A t \in Range(r.runq[o]) : r.state[t] = "ready" /\ r.prio[t] = o
      <4> SUFFICES ASSUME NEW o \in Prios, NEW t \in Range(r.runq[o])
                   PROVE  r.state[t] = "ready" /\ r.prio[t] = o
        OBVIOUS
      <4>1. t \in Range(K.runq[o]) /\ (o = p => t # n)
        BY <2>2, <2>6
      <4>2. K.state[t] = "ready" /\ K.prio[t] = o
        BY <4>1 DEF QueueInv, RunQueues
      <4>3. t \in Threads /\ t # n
        BY <4>1, <4>2, <1>1, <2>3 DEF KernelStates, Range
      <4> QED
        BY <4>2, <4>3, <2>5, <2>6 DEF SameButRunQueue
    <3>3. \A t \in Threads : r.state[t] = "ready" => t \in Range(r.runq[r.prio[t]])
      <4> SUFFICES ASSUME NEW t \in Threads, r.state[t] = "ready"
                   PROVE  t \in Range(r.runq[K.prio[t]])
        BY <2>5 DEF SameButRunQueue
      <4>1. t # n /\ K.state[t] = "ready"
        BY <2>6
      <4>2. t \in Range(K.runq[K.prio[t]]) /\ K.prio[t] \in Prios
        BY <4>1, <1>1 DEF QueueInv, RunQueues, KernelStates
      <4> QED
        BY <4>1, <4>2, <2>2, <2>6
    <3> QED
      BY <3>1, <3>2, <3>3 DEF RunQueues
  <2>8. Bitmap(r)
    BY <2>1, <2>4, <2>5, <2>6 DEF QueueInv, Bitmap
  <2>9. WaitQueues(r)
    <3>1. \A q \in Queues : Range(K.waitq[q]) \subseteq Threads /\ n \notin Range(K.waitq[q])
      BY <2>2, <2>3, NotWaiting
    <3> QED
      BY <3>1, <2>3, <2>5, <2>6 DEF QueueInv, WaitQueues, SameButRunQueue
  <2>10. OneRunning(r) /\ IdleAvailable(r)
    BY <1>2, <2>5, <2>6, SchedAssumption DEF OneRunning, IdleAvailable, QueueInv
  <2>11. \A t \in Threads : r.state[t] = "ready" => r.prio[t] <= r.prio[n]
    BY <1>4, <2>3, <2>5, <2>6, TopQueueFacts DEF SameButRunQueue
  <2> QED
    BY <2>2, <2>3, <2>5, <2>7, <2>8, <2>9, <2>10, <2>11 DEF QueueInv, Switched, r
<1> QED
  BY <1>3, <1>4

-----------------------------------------------------------------------------
(* Threads outside every queue.                                            *)

\* r is K but for the state, the priority and the wait queue fields of t.
Reshaped(K, r, t, v) ==
    /\ r \in KernelStates
    /\ r.state = [K.state EXCEPT ![t] = v]
    /\ \A u \in Threads : u # t => r.prio[u] = K.prio[u] /\ r.bwq[u] = K.bwq[u]
    /\ r.runq = K.runq /\ r.bitmap = K.bitmap /\ r.cur = K.cur
    /\ r.waitq = K.waitq /\ r.wcount = K.wcount

\* A thread that is in no queue may change its state to another one that is
\* in no queue, and with it its priority and its wait queue fields.
LEMMA ReshapeInv ==
    ASSUME NEW K, QueueInv(K), NEW t \in Threads, t # Idle,
           K.state[t] \notin {"ready", "blocked"},
           NEW v, v \in {"unused", "suspended", "dead"} \/ (v = "running" /\ t = K.cur),
           NEW r, Reshaped(K, r, t, v)
    PROVE  QueueInv(r)
<1> USE DEF Reshaped
<1>1. K \in KernelStates
  BY DEF QueueInv
<1>2. /\ r.state[t] = v
      /\ \A u \in Threads : u # t => r.state[u] = K.state[u]
  BY <1>1 DEF KernelStates
<1>3. RunQueues(r)
  <2>1. \A o \in Prios : t \notin Range(K.runq[o])
    BY DEF QueueInv, RunQueues
  <2>2. \A o \in Prios : Range(K.runq[o]) \subseteq Threads
    BY <1>1 DEF KernelStates, Range
  <2> QED
    BY <1>2, <2>1, <2>2 DEF QueueInv, RunQueues
<1>4. WaitQueues(r)
  <2>1. \A q \in Queues : Range(K.waitq[q]) \subseteq Threads /\ t \notin Range(K.waitq[q])
    BY NotWaiting
  <2> QED
    BY <1>2, <2>1 DEF QueueInv, WaitQueues
<1>5. Bitmap(r) /\ OneRunning(r) /\ IdleAvailable(r)
  BY <1>2, SchedAssumption DEF QueueInv, Bitmap, OneRunning, IdleAvailable
<1> QED
  BY <1>3, <1>4, <1>5 DEF QueueInv

-----------------------------------------------------------------------------
(* Wait queues.                                                            *)

\* Updating a function at one point keeps its type.
LEMMA UpdateTyped ==
    ASSUME NEW S, NEW T, NEW f \in [S -> T], NEW x, NEW v \in T
    PROVE  [f EXCEPT ![x] = v] \in [S -> T]
<1> QED
  OBVIOUS

\* r is K with thread t linked at the tail of wait queue q.
Enqueued(K, r, t, q) ==
    /\ r.prio = K.prio
    /\ r.bwq = [K.bwq EXCEPT ![t] = q]
    /\ r.ret = [K.ret EXCEPT ![t] = "ok"]
    /\ r.waitq = [K.waitq EXCEPT ![q] = Append(K.waitq[q], t)]
    /\ r.wcount = [K.wcount EXCEPT ![q] = K.wcount[q] + 1]

\* The current thread blocks at the tail of a wait queue.
LEMMA EnqueueInv ==
    ASSUME NEW K, QueueInv(K), NEW t \in Threads, t # Idle, K.state[t] = "running",
           NEW q \in Queues
    PROVE  /\ QueueInv(Enqueue(K, t, q))
           /\ Enqueue(K, t, q).state = [K.state EXCEPT ![t] = "blocked"]
           /\ Enqueue(K, t, q).cur = K.cur
           /\ Enqueued(K, Enqueue(K, t, q), t, q)
<1> DEFINE r == Enqueue(K, t, q)
           s == Append(K.waitq[q], t)
<1>1. K \in KernelStates /\ K.waitq[q] \in Seq(Threads) /\ K.wcount[q] \in Int
  BY DEF QueueInv, KernelStates
<1>2. /\ r.state = [K.state EXCEPT ![t] = "blocked"]
      /\ r.cur = K.cur /\ r.prio = K.prio /\ r.quantum = K.quantum
      /\ r.runq = K.runq /\ r.bitmap = K.bitmap
      /\ r.bwq = [K.bwq EXCEPT ![t] = q]
      /\ r.ret = [K.ret EXCEPT ![t] = "ok"]
      /\ r.waitq = [K.waitq EXCEPT ![q] = s]
      /\ r.wcount = [K.wcount EXCEPT ![q] = K.wcount[q] + 1]
  BY <1>1 DEF Enqueue, KernelStates
<1>3. t \notin Range(K.waitq[q]) /\ NoDup(K.waitq[q]) /\ K.wcount[q] = Len(K.waitq[q])
  BY DEF QueueInv, WaitQueues
<1>4. /\ s \in Seq(Threads) /\ NoDup(s) /\ Range(s) = Range(K.waitq[q]) \cup {t}
      /\ Len(s) = Len(K.waitq[q]) + 1
  BY <1>1, <1>3, AppendFacts
<1>5. r \in KernelStates
  <2>1. /\ r.state \in [Threads -> States] /\ r.bwq \in [Threads -> Queues \cup {None}]
        /\ r.ret \in [Threads -> Returns] /\ r.waitq \in [Queues -> Seq(Threads)]
        /\ r.wcount \in [Queues -> Int]
    BY <1>1, <1>2, <1>4 DEF KernelStates, States, Returns
  <2>2. r = [K EXCEPT !.state = [K.state EXCEPT ![t] = "blocked"],
                      !.bwq = [K.bwq EXCEPT ![t] = q],
                      !.ret = [K.ret EXCEPT ![t] = "ok"],
                      !.waitq = [K.waitq EXCEPT ![q] = s],
                      !.wcount = [K.wcount EXCEPT ![q] = K.wcount[q] + 1]]
    BY <1>1 DEF Enqueue, KernelStates
  <2>3. r = [K EXCEPT !.state = r.state, !.bwq = r.bwq, !.ret = r.ret,
                      !.waitq = r.waitq, !.wcount = r.wcount]
    BY <1>2, <2>2, Zenon
  <2> HIDE DEF r
  <2> QED
    BY <1>1, <2>1, <2>3 DEF KernelStates
<1> HIDE DEF r, s
<1>6. /\ r.state[t] = "blocked" /\ r.bwq[t] = q
      /\ \A u \in Threads : u # t => r.state[u] = K.state[u] /\ r.bwq[u] = K.bwq[u]
      /\ r.waitq[q] = s /\ r.wcount[q] = K.wcount[q] + 1
      /\ \A w \in Queues : w # q => r.waitq[w] = K.waitq[w] /\ r.wcount[w] = K.wcount[w]
  BY <1>1, <1>2 DEF KernelStates
<1>7. RunQueues(r)
  <2>1. \A o \in Prios : t \notin Range(K.runq[o])
    BY DEF QueueInv, RunQueues
  <2>2. \A o \in Prios : Range(K.runq[o]) \subseteq Threads
    BY <1>1 DEF KernelStates, Range
  <2> QED
    BY <1>2, <1>6, <2>1, <2>2 DEF QueueInv, RunQueues
<1>8. WaitQueues(r)
  <2>1. \A w \in Queues : Range(K.waitq[w]) \subseteq Threads /\ t \notin Range(K.waitq[w])
    BY NotWaiting
  <2>2. \A w \in Queues : NoDup(r.waitq[w]) /\ r.wcount[w] = Len(r.waitq[w])
    <3>1. NoDup(r.waitq[q]) /\ r.wcount[q] = Len(r.waitq[q])
      BY <1>3, <1>4, <1>6
    <3>2. \A w \in Queues : NoDup(K.waitq[w]) /\ K.wcount[w] = Len(K.waitq[w])
      BY DEF QueueInv, WaitQueues
    <3> QED
      BY <1>6, <3>1, <3>2, Zenon
  <2>3. \A w \in Queues : \A u \in Range(r.waitq[w]) : r.state[u] = "blocked" /\ r.bwq[u] = w
    BY <1>4, <1>6, <2>1 DEF QueueInv, WaitQueues
  <2>4. \A u \in Threads : r.state[u] = "blocked" =>
           r.bwq[u] \in Queues /\ u \in Range(r.waitq[r.bwq[u]])
    BY <1>4, <1>6 DEF QueueInv, WaitQueues
  <2> QED
    BY <2>2, <2>3, <2>4 DEF WaitQueues
<1>9. Bitmap(r) /\ OneRunning(r) /\ IdleAvailable(r)
  BY <1>2, <1>6, SchedAssumption DEF QueueInv, Bitmap, OneRunning, IdleAvailable
<1> QED
  BY <1>2, <1>5, <1>7, <1>8, <1>9 DEF QueueInv, Enqueued, r, s

\* The state between the unlinking of the head of a wait queue and its
\* insertion in a run queue, with that thread parked outside every queue.
Park(K, q, err) ==
    LET h == Head(K.waitq[q]) IN
    [K EXCEPT !.state = [K.state EXCEPT ![h] = "suspended"],
              !.bwq = [K.bwq EXCEPT ![h] = None],
              !.ret = [K.ret EXCEPT ![h] = err],
              !.waitq = [K.waitq EXCEPT ![q] = Tail(K.waitq[q])],
              !.wcount = [K.wcount EXCEPT ![q] = K.wcount[q] - 1]]

\* r is K with the head of wait queue q unlinked, in state v and with
\* return value err.
Woken(K, r, q, err, v) ==
    LET h == Head(K.waitq[q]) IN
    /\ h \in Threads /\ h \in Range(K.waitq[q]) /\ K.state[h] = "blocked"
    /\ r.state = [K.state EXCEPT ![h] = v]
    /\ r.cur = K.cur /\ r.prio = K.prio /\ r.quantum = K.quantum
    /\ r.bwq = [K.bwq EXCEPT ![h] = None]
    /\ r.ret = [K.ret EXCEPT ![h] = err]
    /\ r.waitq = [K.waitq EXCEPT ![q] = Tail(K.waitq[q])]
    /\ r.wcount = [K.wcount EXCEPT ![q] = K.wcount[q] - 1]

\* Parking the head of a wait queue keeps the other threads consistent.
LEMMA ParkInv ==
    ASSUME NEW K, QueueInv(K), NEW q \in Queues, K.waitq[q] # << >>, NEW err \in Returns
    PROVE  /\ QueueInv(Park(K, q, err))
           /\ Woken(K, Park(K, q, err), q, err, "suspended")
<1> DEFINE r == Park(K, q, err)
           h == Head(K.waitq[q])
           s == Tail(K.waitq[q])
<1>1. K \in KernelStates /\ K.waitq[q] \in Seq(Threads) /\ K.wcount[q] \in Int
  BY DEF QueueInv, KernelStates
<1>2. NoDup(K.waitq[q]) /\ K.wcount[q] = Len(K.waitq[q])
  BY DEF QueueInv, WaitQueues
<1>3. /\ s \in Seq(Threads) /\ NoDup(s) /\ Range(s) = Range(K.waitq[q]) \ {h}
      /\ Len(s) = Len(K.waitq[q]) - 1 /\ h \in Threads /\ h \in Range(K.waitq[q])
  BY <1>1, <1>2, TailFacts
<1>4. K.state[h] = "blocked" /\ K.bwq[h] = q
  BY <1>3 DEF QueueInv, WaitQueues
<1>5. r = [K EXCEPT !.state = [K.state EXCEPT ![h] = "suspended"],
                    !.bwq = [K.bwq EXCEPT ![h] = None],
                    !.ret = [K.ret EXCEPT ![h] = err],
                    !.waitq = [K.waitq EXCEPT ![q] = s],
                    !.wcount = [K.wcount EXCEPT ![q] = K.wcount[q] - 1]]
  BY Zenon DEF Park
<1> HIDE DEF r, h, s
<1>6. /\ r.state = [K.state EXCEPT ![h] = "suspended"]
      /\ r.cur = K.cur /\ r.prio = K.prio /\ r.quantum = K.quantum
      /\ r.runq = K.runq /\ r.bitmap = K.bitmap
      /\ r.bwq = [K.bwq EXCEPT ![h] = None]
      /\ r.ret = [K.ret EXCEPT ![h] = err]
      /\ r.waitq = [K.waitq EXCEPT ![q] = s]
      /\ r.wcount = [K.wcount EXCEPT ![q] = K.wcount[q] - 1]
  BY <1>1, <1>5 DEF KernelStates
<1>7. r \in KernelStates
  <2>1. /\ r.state \in [Threads -> States] /\ r.bwq \in [Threads -> Queues \cup {None}]
        /\ r.ret \in [Threads -> Returns] /\ r.waitq \in [Queues -> Seq(Threads)]
        /\ r.wcount \in [Queues -> Int]
    <3>1. /\ K.state \in [Threads -> States] /\ K.bwq \in [Threads -> Queues \cup {None}]
          /\ K.ret \in [Threads -> Returns] /\ K.waitq \in [Queues -> Seq(Threads)]
          /\ K.wcount \in [Queues -> Int]
      BY <1>1 DEF KernelStates
    <3>2. "suspended" \in States /\ s \in Seq(Threads) /\ K.wcount[q] - 1 \in Int
      BY <1>1, <1>3 DEF States
    <3>3. r.state \in [Threads -> States]
      BY <3>1, <3>2, <1>6, UpdateTyped
    <3>4. r.bwq \in [Threads -> Queues \cup {None}] /\ r.ret \in [Threads -> Returns]
      BY <3>1, <1>6, UpdateTyped
    <3>5. r.waitq \in [Queues -> Seq(Threads)]
      BY <3>1, <3>2, <1>6, UpdateTyped
    <3>6. r.wcount \in [Queues -> Int]
      BY <3>1, <3>2, <1>6, UpdateTyped
    <3> QED
      BY <3>3, <3>4, <3>5, <3>6
  <2>2. r = [K EXCEPT !.state = r.state, !.bwq = r.bwq, !.ret = r.ret,
                      !.waitq = r.waitq, !.wcount = r.wcount]
    BY <1>5, <1>6, Zenon
  <2> QED
    BY <1>1, <2>1, <2>2 DEF KernelStates
<1>8. /\ r.state[h] = "suspended" /\ r.waitq[q] = s /\ r.wcount[q] = K.wcount[q] - 1
      /\ \A u \in Threads : u # h => r.state[u] = K.state[u] /\ r.bwq[u] = K.bwq[u]
      /\ \A w \in Queues : w # q => r.waitq[w] = K.waitq[w] /\ r.wcount[w] = K.wcount[w]
  BY <1>1, <1>3, <1>6 DEF KernelStates
<1>9. RunQueues(r)
  <2>1. \A o \in Prios : h \notin Range(K.runq[o])
    BY <1>4 DEF QueueInv, RunQueues
  <2>2. \A o \in Prios : Range(K.runq[o]) \subseteq Threads
    BY <1>1 DEF KernelStates, Range
  <2> QED
    BY <1>6, <1>8, <2>1, <2>2 DEF QueueInv, RunQueues
<1>10. WaitQueues(r)
  <2>1. \A w \in Queues : Range(K.waitq[w]) \subseteq Threads
    BY <1>1 DEF KernelStates, Range
  <2>2. \A w \in Queues : w # q => h \notin Range(K.waitq[w])
    BY <1>4 DEF QueueInv, WaitQueues
  <2>3. \A w \in Queues : NoDup(r.waitq[w]) /\ r.wcount[w] = Len(r.waitq[w])
    BY <1>2, <1>3, <1>8 DEF QueueInv, WaitQueues
  <2>4. \A w \in Queues : \A u \in Range(r.waitq[w]) : r.state[u] = "blocked" /\ r.bwq[u] = w
    BY <1>3, <1>8, <2>1, <2>2 DEF QueueInv, WaitQueues
  <2>5. \A u \in Threads : r.state[u] = "blocked" =>
           r.bwq[u] \in Queues /\ u \in Range(r.waitq[r.bwq[u]])
    BY <1>3, <1>8 DEF QueueInv, WaitQueues
  <2> QED
    BY <2>3, <2>4, <2>5 DEF WaitQueues
<1>11. Bitmap(r) /\ OneRunning(r) /\ IdleAvailable(r)
  BY <1>4, <1>6, <1>8, SchedAssumption DEF QueueInv, Bitmap, OneRunning, IdleAvailable
<1> QED
  <2>1. QueueInv(r)
    BY <1>7, <1>9, <1>10, <1>11 DEF QueueInv
  <2> QED
    BY <1>3, <1>4, <1>6, <2>1, Zenon DEF Woken, r, h, s

\* list_remove_head is parking followed by setting the state to READY.
LEMMA DequeueIsPark ==
    ASSUME NEW K, QueueInv(K), NEW q \in Queues, K.waitq[q] # << >>, NEW err \in Returns
    PROVE  Dequeue(K, q, err) = [Park(K, q, err) EXCEPT !.state[Head(K.waitq[q])] = "ready"]
<1> DEFINE h == Head(K.waitq[q])
<1>1. Woken(K, Park(K, q, err), q, err, "suspended") /\ K \in KernelStates
  BY ParkInv DEF QueueInv
<1>2. h \in Threads /\ K.state[h] = "blocked" /\ K.state \in [Threads -> States]
  BY <1>1 DEF Woken, KernelStates
<1>3. [[K.state EXCEPT ![h] = "suspended"] EXCEPT ![h] = "ready"]
          = [K.state EXCEPT ![h] = "ready"]
  BY <1>2
<1>4. [Park(K, q, err) EXCEPT !.state[h] = "ready"]
          = [K EXCEPT !.state = [[K.state EXCEPT ![h] = "suspended"] EXCEPT ![h] = "ready"],
                      !.bwq = [K.bwq EXCEPT ![h] = None],
                      !.ret = [K.ret EXCEPT ![h] = err],
                      !.waitq = [K.waitq EXCEPT ![q] = Tail(K.waitq[q])],
                      !.wcount = [K.wcount EXCEPT ![q] = K.wcount[q] - 1]]
  BY <1>1 DEF Park, KernelStates
<1>5. Dequeue(K, q, err)
          = [K EXCEPT !.state = [K.state EXCEPT ![h] = "ready"],
                      !.bwq = [K.bwq EXCEPT ![h] = None],
                      !.ret = [K.ret EXCEPT ![h] = err],
                      !.waitq = [K.waitq EXCEPT ![q] = Tail(K.waitq[q])],
                      !.wcount = [K.wcount EXCEPT ![q] = K.wcount[q] - 1]]
  BY <1>1 DEF Dequeue, KernelStates
<1> QED
  BY <1>3, <1>4, <1>5, Zenon

\* One iteration of wait_queue_wake_all: the head of the wait queue leaves it
\* and is READY, with the error as its return value.
LEMMA WakeHeadInv ==
    ASSUME NEW K, QueueInv(K), NEW q \in Queues, K.waitq[q] # << >>, NEW err \in Returns
    PROVE  /\ QueueInv(WakeHead(K, q, err))
           /\ Woken(K, WakeHead(K, q, err), q, err, "ready")
<1> DEFINE r == WakeHead(K, q, err)
           h == Head(K.waitq[q])
           d == Park(K, q, err)
<1>1. QueueInv(d) /\ Woken(K, d, q, err, "suspended") /\ K \in KernelStates
  BY ParkInv DEF QueueInv
<1>2. r = ReadyHead(d, h) /\ h \in Threads
  <2>1. Dequeue(K, q, err) = [d EXCEPT !.state[h] = "ready"] /\ h \in Threads
    <3>1. Dequeue(K, q, err) = [d EXCEPT !.state[h] = "ready"]
      BY DequeueIsPark
    <3>2. h \in Threads
      BY <1>1 DEF Woken
    <3> QED
      BY <3>1, <3>2, Zenon
  <2> QED
    BY <2>1 DEF WakeHead, ReadyHead
<1> HIDE DEF r, d
<1>4. d.state[h] = "suspended"
  BY <1>1 DEF Woken, KernelStates
<1>5. /\ QueueInv(r) /\ r.state = [d.state EXCEPT ![h] = "ready"]
      /\ r.cur = d.cur /\ r.quantum = d.quantum /\ SameButRunQueue(d, r)
  BY <1>1, <1>2, <1>4, ReadyHeadInv
<1>6. r.state = [K.state EXCEPT ![h] = "ready"]
  BY <1>1, <1>5 DEF Woken, KernelStates
<1>7. Woken(K, r, q, err, "ready")
  BY <1>1, <1>5, <1>6, Zenon DEF Woken, SameButRunQueue
<1> QED
  BY <1>5, <1>7 DEF r

-----------------------------------------------------------------------------
(* The steps of thread operations, each up to the switch it ends with.     *)

\* thread_yield by the current thread.
LEMMA YieldInv ==
    ASSUME NEW K, QueueInv(K), K.state[K.cur] = "running"
    PROVE  /\ QueueInv(YieldStep(K, K.cur))
           /\ Switched([K.state EXCEPT ![K.cur] = "ready"], YieldStep(K, K.cur))
           /\ SameButRunQueue(K, YieldStep(K, K.cur))
<1> DEFINE t == K.cur
           z == [K EXCEPT !.quantum[t] = 0]
           d == ReadyTail(z, t)
<1>1. K \in KernelStates /\ t \in Threads
  BY DEF QueueInv, KernelStates
<1>2. QueueInv(z) /\ z.state = K.state /\ z.cur = t /\ SameButRunQueue(K, z)
  <2>1. /\ z.state = K.state /\ z.cur = t /\ z.runq = K.runq /\ z.bitmap = K.bitmap
        /\ SameButRunQueue(K, z) /\ z \in KernelStates
    <3>1. [K.quantum EXCEPT ![t] = 0] \in [Threads -> 0 .. FullQuantum]
      BY <1>1, SchedAssumption DEF KernelStates
    <3> QED
      BY <1>1, <3>1 DEF KernelStates, SameButRunQueue
  <2> HIDE DEF z
  <2> QED
    BY <2>1 DEF QueueInv, RunQueues, Bitmap, WaitQueues, OneRunning, IdleAvailable, SameButRunQueue
<1>3. /\ QueueInv(d) /\ d.state = [K.state EXCEPT ![t] = "ready"] /\ d.cur = t
      /\ SameButRunQueue(z, d)
  <2> HIDE DEF z
  <2> QED
    BY <1>1, <1>2, ReadyTailInv
<1>4. YieldStep(K, t) = thread_resched(d)
  BY DEF YieldStep
<1> HIDE DEF z, d
<1>5. d.state[d.cur] # "running"
  BY <1>1, <1>3 DEF KernelStates
<1>6. QueueInv(thread_resched(d)) /\ Switched(d.state, thread_resched(d))
      /\ SameButRunQueue(d, thread_resched(d))
  BY <1>3, <1>5, ReschedInv
<1> QED
  BY <1>2, <1>3, <1>4, <1>6 DEF SameButRunQueue

\* thread_preempt by the current thread.
LEMMA PreemptInv ==
    ASSUME NEW K, QueueInv(K), K.state[K.cur] = "running"
    PROVE  /\ QueueInv(PreemptStep(K, K.cur))
           /\ Switched([K.state EXCEPT ![K.cur] = "ready"], PreemptStep(K, K.cur))
           /\ SameButRunQueue(K, PreemptStep(K, K.cur))
<1> DEFINE t == K.cur
           d == IF K.quantum[t] > 0 THEN ReadyHead(K, t) ELSE ReadyTail(K, t)
<1>1. K \in KernelStates /\ t \in Threads
  BY DEF QueueInv, KernelStates
<1>2. /\ QueueInv(d) /\ d.state = [K.state EXCEPT ![t] = "ready"] /\ d.cur = t
      /\ SameButRunQueue(K, d)
  BY <1>1, ReadyHeadInv, ReadyTailInv
<1>3. PreemptStep(K, t) = thread_resched(d)
  BY DEF PreemptStep
<1> HIDE DEF d
<1>4. d.state[d.cur] # "running"
  BY <1>1, <1>2 DEF KernelStates
<1>5. QueueInv(thread_resched(d)) /\ Switched(d.state, thread_resched(d))
      /\ SameButRunQueue(d, thread_resched(d))
  BY <1>2, <1>4, ReschedInv
<1> QED
  BY <1>2, <1>3, <1>5 DEF SameButRunQueue

\* A tick only counts down the quantum of the current thread.
LEMMA TickInv ==
    ASSUME NEW K, QueueInv(K), NEW t \in Threads
    PROVE  /\ QueueInv(thread_timer_tick(K, t))
           /\ thread_timer_tick(K, t).state = K.state
           /\ thread_timer_tick(K, t).cur = K.cur
           /\ SameButRunQueue(K, thread_timer_tick(K, t))
<1> DEFINE z == thread_timer_tick(K, t)
<1>1. K \in KernelStates
  BY DEF QueueInv
<1>2. TickQuantum(K, t) \in 0 .. FullQuantum
  BY <1>1, SchedAssumption DEF TickQuantum, KernelStates
<1>3. /\ z.state = K.state /\ z.cur = K.cur /\ z.runq = K.runq /\ z.bitmap = K.bitmap
      /\ SameButRunQueue(K, z) /\ z \in KernelStates
  BY <1>1, <1>2 DEF thread_timer_tick, KernelStates, SameButRunQueue
<1> HIDE DEF z
<1>4. QueueInv(z)
  BY <1>3 DEF QueueInv, RunQueues, Bitmap, WaitQueues, OneRunning, IdleAvailable, SameButRunQueue
<1> QED
  BY <1>3, <1>4 DEF z

\* wait_queue_block by the current thread.
LEMMA BlockInv ==
    ASSUME NEW K, QueueInv(K), K.state[K.cur] = "running", K.cur # Idle, NEW q \in Queues
    PROVE  /\ QueueInv(wait_queue_block(K, K.cur, q))
           /\ Switched([K.state EXCEPT ![K.cur] = "blocked"], wait_queue_block(K, K.cur, q))
           /\ Enqueued(K, wait_queue_block(K, K.cur, q), K.cur, q)
<1> DEFINE t == K.cur
           d == Enqueue(K, t, q)
<1>1. K \in KernelStates /\ t \in Threads
  BY DEF QueueInv, KernelStates
<1>2. /\ QueueInv(d) /\ d.state = [K.state EXCEPT ![t] = "blocked"] /\ d.cur = t
      /\ Enqueued(K, d, t, q)
  BY <1>1, EnqueueInv
<1>3. wait_queue_block(K, t, q) = thread_resched(d)
  BY DEF wait_queue_block
<1> HIDE DEF d
<1>4. d.state[d.cur] # "running"
  BY <1>1, <1>2 DEF KernelStates
<1>5. QueueInv(thread_resched(d)) /\ Switched(d.state, thread_resched(d))
      /\ SameButRunQueue(d, thread_resched(d))
  BY <1>2, <1>4, ReschedInv
<1> QED
  BY <1>2, <1>3, <1>5 DEF SameButRunQueue, Enqueued

\* r is K with the head of wait queue q woken with err, after a switch away from
\* the current thread, which is READY too.
WokenSwitched(K, r, q, err) ==
    LET h == Head(K.waitq[q]) IN
    /\ h \in Threads /\ h \in Range(K.waitq[q]) /\ K.state[h] = "blocked"
    /\ Switched([K.state EXCEPT ![h] = "ready", ![K.cur] = "ready"], r)
    /\ r.prio = K.prio
    /\ r.bwq = [K.bwq EXCEPT ![h] = None]
    /\ r.ret = [K.ret EXCEPT ![h] = err]
    /\ r.waitq = [K.waitq EXCEPT ![q] = Tail(K.waitq[q])]
    /\ r.wcount = [K.wcount EXCEPT ![q] = K.wcount[q] - 1]

\* wait_queue_wake_one with reschedule on a queue that has a thread: the caller
\* t and the woken thread are READY and the processor is given away.
LEMMA WakeOneReschedInv ==
    ASSUME NEW K, QueueInv(K), K.state[K.cur] = "running",
           NEW q \in Queues, K.waitq[q] # << >>, NEW err \in Returns
    PROVE  /\ QueueInv(WakeOneResched(K, K.cur, q, err))
           /\ WokenSwitched(K, WakeOneResched(K, K.cur, q, err), q, err)
<1> DEFINE t == K.cur
           h == Head(K.waitq[q])
           d == Park(K, q, err)
           e == ReadyHead(d, t)
           f == ReadyHead(e, h)
           r == WakeOneResched(K, t, q, err)
<1>1. QueueInv(d) /\ Woken(K, d, q, err, "suspended") /\ K \in KernelStates /\ t \in Threads
  BY ParkInv DEF QueueInv, KernelStates
<1>2. h \in Threads /\ h \in Range(K.waitq[q]) /\ K.state[h] = "blocked" /\ h # t
  BY <1>1 DEF Woken
<1>3. r = thread_resched(f)
  <2>1. insert_in_run_queue_head(ReadyHead(Dequeue(K, q, err), t), h) = f
    <3> DEFINE D == Dequeue(K, q, err)
    <3>1. D = [d EXCEPT !.state[h] = "ready"]
      BY DequeueIsPark
    <3>2. d \in KernelStates
      BY <1>1 DEF QueueInv
    <3> HIDE DEF d, D
    <3>3. ReadyHead(D, t) = [ReadyHead(d, t) EXCEPT !.state[h] = "ready"]
      <4> DEFINE p == d.prio[t]
                 X(v) == [d EXCEPT !.state = v, !.runq = [d.runq EXCEPT ![p] = <<t>> \o d.runq[p]],
                                   !.bitmap = d.bitmap \cup {p}]
                 v1 == [[d.state EXCEPT ![h] = "ready"] EXCEPT ![t] = "ready"]
                 v2 == [[d.state EXCEPT ![t] = "ready"] EXCEPT ![h] = "ready"]
      <4>1. v1 = v2
        BY <3>2, <1>1, <1>2 DEF KernelStates
      <4>2. ReadyHead(D, t) = X(v1)
        BY <3>1, <3>2, <1>1, <1>2 DEF ReadyHead, insert_in_run_queue_head, KernelStates
      <4>3. [ReadyHead(d, t) EXCEPT !.state[h] = "ready"] = X(v2)
        BY <3>2, <1>1, <1>2 DEF ReadyHead, insert_in_run_queue_head, KernelStates
      <4> QED
        BY <4>1, <4>2, <4>3, Zenon
    <3> QED
      BY <3>3 DEF ReadyHead, D
  <2> QED
    BY <2>1 DEF WakeOneResched
<1> HIDE DEF d
<1>4. d.state[h] = "suspended" /\ d.state[t] = "running" /\ d.cur = t
  BY <1>1, <1>2 DEF Woken, KernelStates
<1>5. /\ QueueInv(e) /\ e.state = [d.state EXCEPT ![t] = "ready"] /\ e.cur = t
      /\ SameButRunQueue(d, e)
  BY <1>1, <1>4, ReadyHeadInv
<1> HIDE DEF e
<1>6. e.state[h] = "suspended" /\ e.state[t] = "ready"
  BY <1>1, <1>2, <1>4, <1>5 DEF QueueInv, KernelStates
<1>7. /\ QueueInv(f) /\ f.state = [e.state EXCEPT ![h] = "ready"] /\ f.cur = t
      /\ SameButRunQueue(e, f)
  BY <1>2, <1>5, <1>6, ReadyHeadInv
<1> HIDE DEF f
<1>8. f.state[f.cur] # "running"
  BY <1>1, <1>2, <1>5, <1>6, <1>7 DEF QueueInv, KernelStates
<1>9. QueueInv(r) /\ Switched(f.state, r) /\ SameButRunQueue(f, r)
  BY <1>3, <1>7, <1>8, ReschedInv
<1>10. f.state = [K.state EXCEPT ![h] = "ready", ![t] = "ready"]
  <2>1. K.state \in [Threads -> States] /\ d.state = [K.state EXCEPT ![h] = "suspended"]
    BY <1>1 DEF Woken, KernelStates
  <2> HIDE DEF h
  <2> QED
    BY <2>1, <1>1, <1>2, <1>5, <1>7
<1>11. /\ r.prio = K.prio
       /\ r.bwq = [K.bwq EXCEPT ![h] = None]
       /\ r.ret = [K.ret EXCEPT ![h] = err]
       /\ r.waitq = [K.waitq EXCEPT ![q] = Tail(K.waitq[q])]
       /\ r.wcount = [K.wcount EXCEPT ![q] = K.wcount[q] - 1]
  <2>1. r.prio = d.prio /\ r.bwq = d.bwq /\ r.ret = d.ret /\ r.waitq = d.waitq /\ r.wcount = d.wcount
    BY <1>5, <1>7, <1>9 DEF SameButRunQueue
  <2> QED
    BY <1>1, <2>1, Zenon DEF Woken
<1> HIDE DEF r, h
<1> QED
  BY <1>2, <1>9, <1>10, <1>11, Zenon DEF r, h, WokenSwitched

-----------------------------------------------------------------------------
(* The steps of LKKernel.                                                  *)

KernelInv == KernelTypeOK /\ SchedulerConsistent /\ LockDiscipline

\* Nobody's wait queue fields differ.
SameWaits(a, b) ==
    b.bwq = a.bwq /\ b.ret = a.ret /\ b.waitq = a.waitq /\ b.wcount = a.wcount

\* A step of LKKernel as the other modules see it: nobody's wait queue fields
\* change, threads move only between READY and RUNNING (the idle thread also
\* leaves SUSPENDED), and only the current thread moves, between points that
\* belong to LKKernel.
KernelQuiet ==
    /\ SameWaits(k, k')
    /\ \A u \in Threads :
          \/ k'.state[u] = k.state[u]
          \/ k.state[u] \in {"ready", "running"} /\ k'.state[u] \in {"ready", "running"}
          \/ u = Idle /\ k.state[u] = "suspended" /\ k'.state[u] = "running"
    /\ \A u \in Threads :
          \/ kpc'[u] = kpc[u]
          \/ u = k.cur /\ kpc[u] \in {"run", "yield", "unlock", "start"}
                       /\ kpc'[u] \in {"run", "unlock"}
    /\ k'.cur # k.cur => kpc[k.cur] \in OpenPoints
    /\ PicksTop

\* What a switch leaves of the thread states.
LEMMA SwitchedStates ==
    ASSUME NEW st \in [Threads -> States], NEW r, Switched(st, r)
    PROVE  /\ r.cur \in Threads /\ r.state[r.cur] = "running"
           /\ \A u \in Threads : u # r.cur => r.state[u] = st[u]
           /\ st[r.cur] = "ready" \/ (st[r.cur] = "suspended" /\ r.cur = Idle)
  BY DEF Switched

\* The thread states after a switch away from a thread whose state became v.
LEMMA AfterSwitch ==
    ASSUME k \in KernelStates, NEW v \in {"ready", "blocked", "dead"},
           Switched([k.state EXCEPT ![k.cur] = v], k')
    PROVE  /\ k'.cur \in Threads /\ k'.state[k'.cur] = "running"
           /\ k'.state[k.cur] = v \/ (v = "ready" /\ k'.cur = k.cur)
           /\ k'.cur # k.cur => \/ k.state[k'.cur] = "ready"
                                \/ k.state[k'.cur] = "suspended" /\ k'.cur = Idle
           /\ \A u \in Threads : u # k.cur =>
                 \/ k'.state[u] = k.state[u]
                 \/ u = k'.cur /\ k.state[u] = "ready" /\ k'.state[u] = "running"
                 \/ u = k'.cur /\ u = Idle /\ k.state[u] = "suspended" /\ k'.state[u] = "running"
<1> DEFINE st == [k.state EXCEPT ![k.cur] = v]
<1>1. st \in [Threads -> States] /\ k.cur \in Threads
  BY DEF KernelStates, States
<1>2. st[k.cur] = v /\ \A u \in Threads : u # k.cur => st[u] = k.state[u]
  BY <1>1 DEF KernelStates
<1>3. Switched(st, k')
  OBVIOUS
<1> HIDE DEF st
<1>4. /\ k'.cur \in Threads /\ k'.state[k'.cur] = "running"
      /\ \A u \in Threads : u # k'.cur => k'.state[u] = st[u]
      /\ st[k'.cur] = "ready" \/ (st[k'.cur] = "suspended" /\ k'.cur = Idle)
  BY <1>1, <1>3, SwitchedStates
<1>5. k'.state[k.cur] = v \/ (v = "ready" /\ k'.cur = k.cur)
  BY <1>1, <1>2, <1>4
<1>6. k'.cur # k.cur => st[k'.cur] = k.state[k'.cur]
  BY <1>2, <1>4
<1>7. \A u \in Threads : u # k.cur /\ u # k'.cur => k'.state[u] = k.state[u]
  BY <1>2, <1>4
<1>8. ASSUME NEW u \in Threads, u # k.cur
      PROVE  \/ k'.state[u] = k.state[u]
             \/ u = k'.cur /\ k.state[u] = "ready" /\ k'.state[u] = "running"
             \/ u = k'.cur /\ u = Idle /\ k.state[u] = "suspended" /\ k'.state[u] = "running"
  <2>1. CASE u = k'.cur
    BY <1>4, <1>6, <1>8, <2>1, Zenon
  <2>2. CASE u # k'.cur
    BY <1>7, <1>8, <2>2
  <2> QED
    BY <2>1, <2>2
<1>9. k'.cur # k.cur => \/ k.state[k'.cur] = "ready"
                        \/ k.state[k'.cur] = "suspended" /\ k'.cur = Idle
  BY <1>4, <1>6, Zenon
<1> QED
  BY <1>4, <1>5, <1>8, <1>9, Zenon

\* A switch away from t, which has made itself READY or BLOCKED and will
\* continue at a parked point, keeps the kernel invariant.
LEMMA SwitchAway ==
    ASSUME KernelInv, KernelTypeOK',
           NEW v \in {"ready", "blocked", "dead"},
           k.state[k.cur] \in {"running", "dead"},
           QueueInv(k'), Switched([k.state EXCEPT ![k.cur] = v], k'),
           irq' = FALSE,
           \A u \in Threads : u # k.cur => kpc'[u] = kpc[u],
           kpc'[k.cur] = "done" \/ notify' = k.cur \/
                kpc'[k.cur] \notin OpenPoints \cup {"done", "exit", "wake_all"},
           v # "dead" => kpc'[k.cur] # "done",
           \/ notify' = notify /\ notify # k.cur
           \/ notify = None /\ notify' = k.cur /\ v = "ready" /\ kpc'[k.cur] \in OpenPoints
    PROVE  KernelInv'
<1> DEFINE t == k.cur
           st == [k.state EXCEPT ![t] = v]
<1>1. k \in KernelStates /\ t \in Threads /\ st \in [Threads -> States]
  BY DEF KernelInv, KernelTypeOK, KernelStates, States
<1>2. st[t] = v /\ \A u \in Threads : u # t => st[u] = k.state[u]
  BY <1>1 DEF KernelStates
<1> HIDE DEF st
<1>3. /\ k'.cur \in Threads /\ k'.state[k'.cur] = "running"
      /\ \A u \in Threads : u # k'.cur => k'.state[u] = st[u]
      /\ st[k'.cur] = "ready" \/ (st[k'.cur] = "suspended" /\ k'.cur = Idle)
  <2>1. Switched(st, k')
    BY DEF st
  <2> QED
    BY <1>1, <2>1, SwitchedStates
<1>4. \A u \in Threads : u # t /\ k.state[u] \in {"suspended", "ready", "blocked"} => Parked(u)
  BY DEF KernelInv, LockDiscipline
<1>5. CurrentRuns'
  BY <1>3 DEF CurrentRuns
<1>6. LockDiscipline'
  <2>1. ASSUME NEW u \in Threads, u # k'.cur, k'.state[u] \in {"suspended", "ready", "blocked"}
        PROVE  Parked(u)'
    <3>1. CASE u = t
      BY <2>1, <3>1, <1>2, <1>3 DEF Parked
    <3>2. CASE u # t
      <4>1. Parked(u)
        BY <2>1, <3>2, <1>2, <1>3, <1>4
      <4>2. notify = u => notify' = u
        BY SchedAssumption
      <4> QED
        BY <4>1, <4>2, <3>2 DEF Parked
    <3> QED
      BY <3>1, <3>2
  <2>2. ~irq'
    OBVIOUS
  <2>3. notify' # None => k'.state[notify'] \in {"ready", "running"} /\ kpc'[notify'] \in OpenPoints
    BY <1>1, <1>2, <1>3 DEF KernelInv, LockDiscipline, KernelTypeOK
  <2> QED
    BY <2>1, <2>2, <2>3 DEF LockDiscipline
<1> QED
  BY <1>5, <1>6 DEF KernelInv, SchedulerConsistent

\* A step that switches nothing keeps the invariant if the current thread
\* stays RUNNING and ends up parked only with interrupts off.
LEMMA StayOnCpu ==
    ASSUME KernelInv, KernelTypeOK',
           k'.state = k.state, k'.cur = k.cur, QueueInv(k'),
           \A u \in Threads : u # k.cur => kpc'[u] = kpc[u],
           k.state[k.cur] = "running",
           Parked(k.cur)' => ~irq',
           notify' = IF notify = k.cur THEN None ELSE notify
    PROVE  KernelInv'
<1>1. k.cur \in Threads /\ None \notin Threads
  BY SchedAssumption DEF KernelInv, KernelTypeOK, KernelStates
<1>2. CurrentRuns'
  BY DEF CurrentRuns
<1>3. \A u \in Threads : u # k.cur /\ Parked(u) => Parked(u)'
  BY <1>1 DEF Parked
<1>4. notify' # None => k'.state[notify'] \in {"ready", "running"} /\ kpc'[notify'] \in OpenPoints
  BY <1>1 DEF KernelInv, LockDiscipline, KernelTypeOK
<1>5. LockDiscipline'
  BY <1>3, <1>4 DEF KernelInv, LockDiscipline
<1> QED
  BY <1>2, <1>5 DEF KernelInv, SchedulerConsistent

-----------------------------------------------------------------------------
\* A switch away from a RUNNING thread that made itself READY is quiet.
LEMMA QuietSwitch ==
    ASSUME k \in KernelStates, k.state[k.cur] = "running",
           Switched([k.state EXCEPT ![k.cur] = "ready"], k'), SameWaits(k, k'),
           \A u \in Threads : u # k.cur => kpc'[u] = kpc[u],
           kpc[k.cur] \in OpenPoints,
           \/ kpc'[k.cur] = kpc[k.cur]
           \/ kpc[k.cur] \in {"run", "yield"} /\ kpc'[k.cur] = "unlock"
    PROVE  KernelQuiet
<1>1. [k.state EXCEPT ![k.cur] = "ready"] \in [Threads -> States]
  BY DEF KernelStates, States
<1>2. /\ k'.cur \in Threads /\ k'.state[k'.cur] = "running"
      /\ \A u \in Threads : u # k'.cur => k'.state[u] = [k.state EXCEPT ![k.cur] = "ready"][u]
      /\ \/ [k.state EXCEPT ![k.cur] = "ready"][k'.cur] = "ready"
         \/ [k.state EXCEPT ![k.cur] = "ready"][k'.cur] = "suspended" /\ k'.cur = Idle
  BY <1>1, SwitchedStates
<1>3. PicksTop
  BY DEF PicksTop, Switched
<1> QED
  BY <1>2, <1>3 DEF KernelQuiet, KernelStates

\* thread_yield.
LEMMA YieldStepInv ==
    ASSUME KernelInv, NEW t \in Threads, thread_yield(t)
    PROVE  KernelInv' /\ KernelQuiet
<1>1. /\ t = k.cur /\ kpc[t] \in {"run", "yield"} /\ notify # t
      /\ k' = YieldStep(k, t) /\ irq' = FALSE
      /\ kpc' = [kpc EXCEPT ![t] = "unlock"] /\ notify' = notify
  BY DEF thread_yield, At, LockAndLeaveAt
<1>2. QueueInv(k) /\ k.state[k.cur] = "running" /\ k \in KernelStates
  BY <1>1 DEF KernelInv, SchedulerConsistent, CurrentRuns, QueueInv
<1>3. /\ QueueInv(k') /\ Switched([k.state EXCEPT ![k.cur] = "ready"], k')
      /\ SameButRunQueue(k, k')
  BY <1>1, <1>2, YieldInv
<1>4. KernelTypeOK'
  BY <1>3 DEF KernelInv, KernelTypeOK, QueueInv, thread_yield, LockAndLeaveAt, KernelPoints
<1>5. kpc'[t] = "unlock" /\ \A u \in Threads : u # t => kpc'[u] = kpc[u]
  BY <1>1 DEF KernelInv, KernelTypeOK
<1>6. KernelInv'
  BY <1>1, <1>2, <1>3, <1>4, <1>5, SwitchAway DEF OpenPoints
<1> QED
  BY <1>1, <1>2, <1>3, <1>5, <1>6, QuietSwitch DEF OpenPoints, SameButRunQueue, SameWaits

\* The idle loop.
LEMMA IdleStepInv ==
    ASSUME KernelInv, idle_thread_routine
    PROVE  KernelInv' /\ KernelQuiet
<1> DEFINE t == Idle
<1>1. /\ t = k.cur /\ kpc[t] = "run" /\ notify # t
      /\ k' = PreemptStep(k, t) /\ irq' = FALSE
      /\ kpc' = [kpc EXCEPT ![t] = "unlock"] /\ notify' = notify
  BY DEF idle_thread_routine, Own, At, LockAndLeaveAt
<1>2. QueueInv(k) /\ k.state[k.cur] = "running" /\ k \in KernelStates
  BY <1>1 DEF KernelInv, SchedulerConsistent, CurrentRuns, QueueInv
<1>3. /\ QueueInv(k') /\ Switched([k.state EXCEPT ![k.cur] = "ready"], k')
      /\ SameButRunQueue(k, k')
  BY <1>1, <1>2, PreemptInv
<1>4. KernelTypeOK'
  BY <1>3, SchedAssumption
     DEF KernelInv, KernelTypeOK, QueueInv, idle_thread_routine, LockAndLeaveAt, KernelPoints
<1>5. kpc'[t] = "unlock" /\ \A u \in Threads : u # t => kpc'[u] = kpc[u]
  BY <1>1, SchedAssumption DEF KernelInv, KernelTypeOK
<1>6. KernelInv'
  BY <1>1, <1>2, <1>3, <1>4, <1>5, SwitchAway DEF OpenPoints
<1> QED
  BY <1>1, <1>2, <1>3, <1>5, <1>6, QuietSwitch DEF OpenPoints, SameButRunQueue, SameWaits

\* The tick, with and without the preemption.
LEMMA TimerStepInv ==
    ASSUME KernelInv, NEW t \in Threads, TimerCallback(t)
    PROVE  KernelInv' /\ KernelQuiet
<1> DEFINE z == thread_timer_tick(k, t)
<1>1. /\ t = k.cur /\ kpc[t] \in OpenPoints /\ notify = None /\ notify # t /\ irq
      /\ kpc' = kpc /\ saved' = saved
  BY SchedAssumption DEF TimerCallback, Interruptible
<1>2. QueueInv(k) /\ k.state[k.cur] = "running" /\ k \in KernelStates
  BY <1>1 DEF KernelInv, SchedulerConsistent, CurrentRuns, QueueInv, OpenPoints
<1>3. QueueInv(z) /\ z.state = k.state /\ z.cur = t /\ SameButRunQueue(k, z)
  BY <1>1, <1>2, TickInv
<1>4. CASE TickExpired(k, t)
  <2>1. k' = PreemptStep(z, t) /\ irq' = FALSE /\ notify' = t
    BY <1>4 DEF TimerCallback
  <2> HIDE DEF z
  <2>2. QueueInv(k') /\ Switched([z.state EXCEPT ![z.cur] = "ready"], k') /\ SameButRunQueue(z, k')
    BY <1>1, <1>2, <1>3, <2>1, PreemptInv
  <2>3. Switched([k.state EXCEPT ![k.cur] = "ready"], k') /\ SameButRunQueue(k, k')
    BY <1>1, <1>3, <2>2 DEF SameButRunQueue
  <2>4. KernelTypeOK'
    BY <1>1, <2>1, <2>2 DEF KernelInv, KernelTypeOK, QueueInv
  <2>5. KernelInv'
    <3>1. /\ \A u \in Threads : u # k.cur => kpc'[u] = kpc[u]
          /\ notify' = k.cur /\ kpc'[k.cur] \in OpenPoints /\ kpc'[k.cur] # "done"
      BY <1>1, <2>1 DEF OpenPoints
    <3> QED
      BY <1>1, <1>2, <2>1, <2>2, <2>3, <2>4, <3>1, SwitchAway
  <2> QED
    BY <1>1, <1>2, <2>3, <2>5, QuietSwitch DEF SameButRunQueue, SameWaits
<1>5. CASE ~TickExpired(k, t)
  <2>1. k' = z /\ irq' = irq /\ notify' = notify
    BY <1>5 DEF TimerCallback
  <2> HIDE DEF z
  <2>2. KernelTypeOK'
    BY <1>1, <1>3, <2>1 DEF KernelInv, KernelTypeOK, QueueInv
  <2>3. ~Parked(k.cur)'
    BY <1>1, <1>3, <2>1 DEF Parked
  <2>4. KernelInv'
    BY <1>1, <1>2, <1>3, <2>1, <2>2, <2>3, StayOnCpu
  <2>5. KernelQuiet
    BY <1>1, <1>3, <2>1 DEF KernelQuiet, PicksTop, SameButRunQueue, SameWaits
  <2> QED
    BY <2>4, <2>5
<1> QED
  BY <1>4, <1>5

\* The steps that switch nothing: the returns from a critical section and
\* from a notification, the start of a thread and a boot service.
LEMMA ReturnStepInv ==
    ASSUME KernelInv, NEW t \in Threads,
           \/ ReturnFromResched(t) \/ initial_thread_func(t)
           \/ ReturnFromNotify(t) \/ BootService(t)
    PROVE  KernelInv' /\ KernelQuiet
<1>1. t = k.cur /\ k' = k /\ t \in Threads /\ t # None
  BY SchedAssumption
     DEF ReturnFromResched, initial_thread_func, ReturnFromNotify, BootService, Own, At
<1>2. QueueInv(k') /\ k \in KernelStates
  BY <1>1 DEF KernelInv, SchedulerConsistent, QueueInv
<1>3. KernelTypeOK'
  <2>1. CASE ReturnFromResched(t)
    BY <2>1 DEF KernelInv, KernelTypeOK, KernelPoints, OpenPoints, ReturnFromResched, UnlockTo
  <2>2. CASE initial_thread_func(t)
    BY <2>2 DEF KernelInv, KernelTypeOK, KernelPoints, OpenPoints, initial_thread_func
  <2>3. CASE ReturnFromNotify(t) \/ BootService(t)
    BY <2>3 DEF KernelInv, KernelTypeOK, ReturnFromNotify, BootService
  <2> QED
    BY <2>1, <2>2, <2>3
<1>4. \A u \in Threads : u # t => kpc'[u] = kpc[u]
  BY DEF KernelInv, KernelTypeOK, ReturnFromResched, UnlockTo, initial_thread_func,
         ReturnFromNotify, BootService
<1>5. notify' = IF notify = t THEN None ELSE notify
  BY DEF ReturnFromResched, initial_thread_func, ReturnFromNotify, BootService, Own, At
<1>6. kpc[t] \in OpenPoints \cup {"unlock", "start"} /\ kpc'[t] \in OpenPoints
  BY <1>1 DEF KernelInv, KernelTypeOK, LockDiscipline, ReturnFromResched, UnlockTo,
              initial_thread_func, ReturnFromNotify, BootService, Own, At, OpenPoints
<1>7. k.state[k.cur] = "running"
  BY <1>1, <1>6 DEF KernelInv, SchedulerConsistent, CurrentRuns, OpenPoints
<1>8. ~Parked(k.cur)'
  BY <1>1, <1>5, <1>6 DEF Parked
<1>9. KernelInv'
  BY <1>1, <1>2, <1>3, <1>4, <1>5, <1>7, <1>8, StayOnCpu
<1>10. kpc'[t] = kpc[t] \/ (kpc[t] \in {"run", "yield", "unlock", "start"} /\ kpc'[t] \in {"run", "unlock"})
  BY DEF KernelInv, KernelTypeOK, ReturnFromResched, UnlockTo, initial_thread_func,
         ReturnFromNotify, BootService, Own, At
<1>11. KernelQuiet
  BY <1>1, <1>4, <1>10 DEF KernelQuiet, PicksTop, SameWaits
<1> QED
  BY <1>9, <1>11

\* Every step of LKKernel keeps its invariant and is quiet.
THEOREM KernelStep ==
    ASSUME KernelInv, KernelNext
    PROVE  KernelInv' /\ KernelQuiet
  BY YieldStepInv, IdleStepInv, TimerStepInv, ReturnStepInv DEF KernelNext, ProcessorNext
-----------------------------------------------------------------------------
(* The other steps of LKKernel, as the semaphore, the mutex and the event  *)
(* put them together.  Each lemma gives what these modules tell apart: the *)
(* wait queues, who is BLOCKED, the return values and the points.          *)

\* Only t moves, to pc.
Moves(t, pc) == kpc'[t] = pc /\ \A u \in Threads : u # t => kpc'[u] = kpc[u]

\* Nobody but h falls asleep, wakes up or gets a return value.
OthersSleepOn(h) ==
    \A u \in Threads : u # h => /\ k'.state[u] = "blocked" <=> k.state[u] = "blocked"
                                /\ k'.ret[u] = k.ret[u]

\* The head of wait queue q leaves it, awake and with err.
HeadWoken(q, err) ==
    LET h == Head(k.waitq[q]) IN
    /\ h \in Threads /\ h \in Range(k.waitq[q]) /\ h # k.cur
    /\ k.state[h] = "blocked" /\ k'.state[h] # "blocked" /\ k'.ret[h] = err
    /\ k'.waitq = [k.waitq EXCEPT ![q] = Tail(k.waitq[q])]
    /\ OthersSleepOn(h)

\* The steps of KernelNext are taken at points that belong to LKKernel.
LEMMA KernelPoint ==
    ASSUME KernelInv, KernelNext
    PROVE  kpc[k.cur] \in OpenPoints \cup {"unlock", "start"}
<1>1. k.cur # None
  BY SchedAssumption DEF KernelInv, KernelTypeOK, KernelStates
<1>2. notify = k.cur => kpc[k.cur] \in OpenPoints
  BY <1>1 DEF KernelInv, LockDiscipline
<1> QED
  BY <1>2 DEF KernelNext, ProcessorNext, thread_yield, idle_thread_routine, ReturnFromResched,
              initial_thread_func, TimerCallback, Interruptible, ReturnFromNotify, BootService,
              Own, At, OpenPoints

\* A thread in its own code.
LEMMA OwnRuns ==
    ASSUME KernelInv, NEW t \in Threads, Own(t)
    PROVE  /\ t = k.cur /\ kpc[t] = "run" /\ notify # t
           /\ k.state[t] = "running" /\ QueueInv(k) /\ k \in KernelStates
  BY DEF KernelInv, SchedulerConsistent, CurrentRuns, QueueInv, Own, At

\* The state in which every other thread has been created.
LEMMA InitKernelInv ==
    ASSUME InitKernel(Threads \ {Boot, Idle})
    PROVE  /\ KernelInv
           /\ \A q \in Queues : k.waitq[q] = << >>
           /\ \A t \in Threads : kpc[t] \in {"run", "start"}
<1> USE SchedAssumption
<1> DEFINE new == Threads \ {Boot, Idle}
<1>1. k \in KernelStates
  <2>1. /\ k.state \in [Threads -> States] /\ k.prio \in [Threads -> Prios]
        /\ k.quantum \in [Threads -> 0 .. FullQuantum]
        /\ k.bwq \in [Threads -> Queues \cup {None}] /\ k.ret \in [Threads -> Returns]
    BY DEF InitKernel, InitialState, States, Returns, Prios, IdlePriority
  <2>2. /\ k.runq \in [Prios -> Seq(Threads)] /\ k.bitmap \in SUBSET Prios
        /\ k.waitq \in [Queues -> Seq(Threads)] /\ k.wcount \in [Queues -> Int]
        /\ k.cur \in Threads
    BY DEF InitKernel, InitialState
  <2>3. k = InitialState(new)
    BY DEF InitKernel
  <2> QED
    BY <2>1, <2>2, <2>3 DEF InitialState, KernelStates
<1>2. /\ k.cur = Boot
      /\ \A p \in Prios : k.runq[p] = << >>
      /\ \A q \in Queues : k.waitq[q] = << >> /\ k.wcount[q] = 0
      /\ k.bitmap = {}
      /\ \A t \in Threads : /\ k.state[t] = IF t = Boot THEN "running" ELSE "suspended"
                            /\ kpc[t] = IF t = Boot THEN "run" ELSE "start"
      /\ notify = None
  BY DEF InitKernel, InitialState
<1>3. KernelTypeOK
  BY <1>1 DEF InitKernel, KernelTypeOK, KernelPoints, OpenPoints
<1>4. QueueInv(k)
  <2>1. \A p \in Prios : Range(k.runq[p]) = {} /\ NoDup(k.runq[p])
    BY <1>2 DEF Range, NoDup
  <2>2. \A q \in Queues : Range(k.waitq[q]) = {} /\ NoDup(k.waitq[q]) /\ Len(k.waitq[q]) = 0
    BY <1>2 DEF Range, NoDup
  <2>3. RunQueues(k) /\ WaitQueues(k)
    BY <1>2, <2>1, <2>2 DEF RunQueues, WaitQueues
  <2> QED
    BY <1>1, <1>2, <2>3 DEF QueueInv, Bitmap, OneRunning, IdleAvailable
<1>5. CurrentRuns /\ LockDiscipline
  BY <1>2 DEF CurrentRuns, LockDiscipline, Parked, OpenPoints
<1> QED
  BY <1>2, <1>3, <1>4, <1>5 DEF KernelInv, SchedulerConsistent

\* thread_resume.
LEMMA ResumeKernel ==
    ASSUME KernelInv, NEW t \in Threads, NEW n \in Threads, ResumeStep(t, n)
    PROVE  /\ KernelInv' /\ SameWaits(k, k') /\ k'.cur = k.cur
           /\ \E pc \in {"run", "yield"} : Moves(t, pc)
           /\ \A u \in Threads : k'.state[u] = "blocked" <=> k.state[u] = "blocked"
<1> USE SchedAssumption
<1>1. /\ t = k.cur /\ kpc[t] = "run" /\ notify # t
      /\ k.state[t] = "running" /\ QueueInv(k) /\ k \in KernelStates
  BY OwnRuns DEF ResumeStep
<1>2. n # t /\ k.state[n] = "suspended" /\ notify # n
  BY <1>1 DEF ResumeStep, KernelInv, LockDiscipline
<1>3. /\ k' = ReadyHead(k, n) /\ kpc' = [kpc EXCEPT ![t] = IF irq THEN "yield" ELSE "run"]
      /\ irq' = irq /\ saved' = saved /\ notify' = notify
  BY DEF ResumeStep
<1>4. /\ QueueInv(k') /\ k'.state = [k.state EXCEPT ![n] = "ready"] /\ k'.cur = k.cur
      /\ SameWaits(k, k')
  BY <1>1, <1>2, <1>3, ReadyHeadInv DEF SameButRunQueue, SameWaits
<1>5. KernelTypeOK'
  BY <1>3, <1>4 DEF KernelInv, KernelTypeOK, KernelPoints, OpenPoints, QueueInv
<1>6. /\ k'.state[n] = "ready" /\ kpc'[t] \in {"run", "yield"}
      /\ \A u \in Threads : u # n => k'.state[u] = k.state[u]
      /\ \A u \in Threads : u # t => kpc'[u] = kpc[u]
  BY <1>1, <1>3, <1>4 DEF KernelStates, KernelInv, KernelTypeOK
<1>7. CurrentRuns'
  BY <1>1, <1>2, <1>4, <1>6 DEF CurrentRuns
<1>8. LockDiscipline'
  BY <1>1, <1>2, <1>3, <1>4, <1>6 DEF KernelInv, LockDiscipline, Parked, KernelTypeOK, OpenPoints
<1> QED
  BY <1>2, <1>4, <1>5, <1>6, <1>7, <1>8 DEF KernelInv, SchedulerConsistent, Moves

\* wait_queue_block, from a thread's own code.
LEMMA BlockKernel ==
    ASSUME KernelInv, NEW t \in Threads, Own(t), t # Idle, NEW q \in Queues,
           NEW pc \in ClientPoints, pc \notin {"exit", "wake_all"},
           k' = wait_queue_block(k, t, q), LockAndLeaveAt(t, pc), UNCHANGED notify
    PROVE  /\ KernelInv' /\ Moves(t, pc) /\ OthersSleepOn(t)
           /\ k'.state[t] = "blocked"
           /\ k'.waitq = [k.waitq EXCEPT ![q] = Append(k.waitq[q], t)]
<1>1. /\ t = k.cur /\ kpc[t] = "run" /\ notify # t /\ notify' = notify
      /\ k.state[t] = "running" /\ QueueInv(k) /\ k \in KernelStates
  BY OwnRuns
<1>2. irq' = FALSE /\ kpc' = [kpc EXCEPT ![t] = pc]
  BY DEF LockAndLeaveAt
<1>3. /\ QueueInv(k') /\ Switched([k.state EXCEPT ![k.cur] = "blocked"], k')
      /\ Enqueued(k, k', t, q)
  BY <1>1, BlockInv
<1>4. KernelTypeOK'
  BY <1>1, <1>3 DEF KernelInv, KernelTypeOK, QueueInv, LockAndLeaveAt, KernelPoints
<1>5. Moves(t, pc)
  BY <1>2 DEF Moves, KernelInv, KernelTypeOK
<1>6. pc \notin OpenPoints \cup {"done", "exit", "wake_all"}
  BY ClientPointsAssumption
<1>7. KernelInv'
  BY <1>1, <1>2, <1>3, <1>4, <1>5, <1>6, SwitchAway DEF Moves
<1>8. /\ k'.state[t] = "blocked"
      /\ \A u \in Threads : u # t => (k'.state[u] = "blocked" <=> k.state[u] = "blocked")
  <2>1. k'.state[k.cur] = "blocked"
    BY <1>1, <1>3, AfterSwitch
  <2>2. \A u \in Threads : u # k.cur =>
           k'.state[u] = k.state[u] \/ (k.state[u] \in {"ready", "suspended"} /\ k'.state[u] = "running")
    BY <1>1, <1>3, AfterSwitch
  <2> QED
    BY <1>1, <2>1, <2>2
<1>9. \A u \in Threads : u # t => k'.ret[u] = k.ret[u]
  BY <1>1, <1>3 DEF Enqueued, KernelStates
<1> QED
  BY <1>3, <1>5, <1>7, <1>8, <1>9 DEF OthersSleepOn, Enqueued

\* A switch away from a thread that is READY, from the thread states st in
\* which other threads may have been woken; it will continue inside
\* thread_resched, or inside a notification.
LEMMA SwitchFrom ==
    ASSUME KernelInv, KernelTypeOK', NEW st \in [Threads -> States], st[k.cur] = "ready",
           \A u \in Threads : u # k.cur =>
               st[u] = k.state[u] \/ (k.state[u] = "blocked" /\ st[u] = "ready"),
           QueueInv(k'), Switched(st, k'), irq' = FALSE,
           \/ Moves(k.cur, "unlock") /\ notify' = notify /\ notify # k.cur
           \/ kpc' = kpc /\ kpc[k.cur] \in OpenPoints /\ notify = None /\ notify' = k.cur
    PROVE  /\ KernelInv'
           /\ \A u \in Threads : k'.state[u] = "blocked" <=> st[u] = "blocked"
<1>1. /\ k.cur \in Threads /\ k.cur # None
      /\ \A u \in Threads : u # k.cur => kpc'[u] = kpc[u] /\ (notify = u => notify' = u)
  <2>1. k.cur \in Threads /\ None \notin Threads
    BY SchedAssumption DEF KernelInv, KernelTypeOK, KernelStates
  <2> QED
    BY <2>1 DEF Moves
<1>2. /\ k'.cur \in Threads /\ k'.state[k'.cur] = "running"
      /\ \A u \in Threads : u # k'.cur => k'.state[u] = st[u]
      /\ st[k'.cur] = "ready" \/ (st[k'.cur] = "suspended" /\ k'.cur = Idle)
  BY SwitchedStates
<1>3. CurrentRuns'
  BY <1>2 DEF CurrentRuns
<1>4. \A u \in Threads : u # k.cur /\ k.state[u] \in {"suspended", "ready", "blocked"} => Parked(u)
  BY DEF KernelInv, LockDiscipline
<1>5. ASSUME NEW u \in Threads, u # k'.cur, k'.state[u] \in {"suspended", "ready", "blocked"}
      PROVE  Parked(u)'
  <2>1. CASE u = k.cur
    BY <2>1 DEF Parked, Moves, OpenPoints
  <2>2. CASE u # k.cur
    <3>1. Parked(u)
      BY <1>2, <1>4, <1>5, <2>2
    <3> QED
      BY <1>1, <3>1, <2>2 DEF Parked
  <2> QED
    BY <2>1, <2>2
<1>6. notify' # None => k'.state[notify'] \in {"ready", "running"} /\ kpc'[notify'] \in OpenPoints
  <2>1. ASSUME notify' # None, notify' = notify, notify # k.cur
        PROVE  k'.state[notify] \in {"ready", "running"} /\ kpc'[notify] \in OpenPoints
    <3>1. /\ notify \in Threads /\ k.state[notify] \in {"ready", "running"}
          /\ kpc[notify] \in OpenPoints
      BY <2>1 DEF KernelInv, LockDiscipline, KernelTypeOK
    <3>2. st[notify] = k.state[notify]
      BY <2>1, <3>1
    <3> QED
      BY <1>1, <1>2, <2>1, <3>1, <3>2
  <2>2. ASSUME notify' = k.cur, kpc' = kpc, kpc[k.cur] \in OpenPoints
        PROVE  k'.state[notify'] \in {"ready", "running"} /\ kpc'[notify'] \in OpenPoints
    BY <1>1, <1>2, <2>2
  <2> QED
    BY <2>1, <2>2
<1>7. LockDiscipline'
  BY <1>5, <1>6 DEF LockDiscipline
<1>8. \A u \in Threads : k'.state[u] = "blocked" <=> st[u] = "blocked"
  BY <1>2
<1> QED
  BY <1>3, <1>7, <1>8 DEF KernelInv, SchedulerConsistent

\* wait_queue_wake_one with a reschedule, from a thread's own code or from a
\* notification.
LEMMA WakeReschedKernel ==
    ASSUME KernelInv, NEW t \in Threads, NEW q \in Queues, k.waitq[q] # << >>,
           NEW err \in Returns, k' = WakeOneResched(k, t, q, err),
           \/ Own(t) /\ LockAndLeaveAt(t, "unlock") /\ UNCHANGED notify
           \/ Interruptible(t) /\ irq' = FALSE /\ notify' = t /\ UNCHANGED <<kpc, saved>>
    PROVE  KernelInv' /\ (Moves(t, "unlock") \/ kpc' = kpc) /\ HeadWoken(q, err)
<1> DEFINE h == Head(k.waitq[q])
           st == [k.state EXCEPT ![h] = "ready", ![k.cur] = "ready"]
<1>1. /\ t = k.cur /\ k.state[t] = "running" /\ QueueInv(k) /\ k \in KernelStates
  BY OwnRuns DEF Interruptible, OpenPoints, KernelInv, SchedulerConsistent, CurrentRuns, QueueInv
<1>2. /\ QueueInv(k') /\ Switched(st, k')
      /\ h \in Threads /\ h \in Range(k.waitq[q]) /\ k.state[h] = "blocked"
      /\ k'.ret = [k.ret EXCEPT ![h] = err]
      /\ k'.waitq = [k.waitq EXCEPT ![q] = Tail(k.waitq[q])]
  <2>1. k' = WakeOneResched(k, k.cur, q, err) /\ k.state[k.cur] = "running"
    BY <1>1
  <2>2. QueueInv(k') /\ WokenSwitched(k, k', q, err)
    BY <1>1, <2>1, WakeOneReschedInv
  <2> QED
    BY <2>2, Zenon DEF WokenSwitched
<1> HIDE DEF h
<1>3. h # k.cur /\ k.cur \in Threads
  BY <1>1, <1>2
<1>4. st \in [Threads -> States] /\ st[k.cur] = "ready" /\ st[h] = "ready"
      /\ \A u \in Threads : u # k.cur /\ u # h => st[u] = k.state[u]
  BY <1>1, <1>2, <1>3 DEF KernelStates, States
<1> HIDE DEF st
<1>5. /\ KernelTypeOK' /\ irq' = FALSE
      /\ \/ Moves(k.cur, "unlock") /\ notify' = notify /\ notify # k.cur
         \/ kpc' = kpc /\ kpc[k.cur] \in OpenPoints /\ notify = None /\ notify' = k.cur
  <2>1. CASE Own(t) /\ LockAndLeaveAt(t, "unlock") /\ UNCHANGED notify
    BY <1>1, <1>2, <2>1, OwnRuns
       DEF KernelInv, KernelTypeOK, QueueInv, LockAndLeaveAt, KernelPoints, Moves
  <2>2. CASE Interruptible(t) /\ irq' = FALSE /\ notify' = t /\ UNCHANGED <<kpc, saved>>
    BY <1>1, <1>2, <2>2 DEF KernelInv, KernelTypeOK, QueueInv, Interruptible
  <2> QED
    BY <2>1, <2>2
<1>6. /\ KernelInv'
      /\ \A u \in Threads : k'.state[u] = "blocked" <=> st[u] = "blocked"
  <2>1. \A u \in Threads : u # k.cur =>
            st[u] = k.state[u] \/ (k.state[u] = "blocked" /\ st[u] = "ready")
    BY <1>2, <1>4
  <2> QED
    BY <1>1, <1>2, <1>4, <1>5, <2>1, SwitchFrom
<1>7. k'.ret[h] = err /\ \A u \in Threads : u # h => k'.ret[u] = k.ret[u]
  BY <1>1, <1>2 DEF KernelStates
<1>8. OthersSleepOn(h) /\ k'.state[h] # "blocked"
  BY <1>1, <1>2, <1>4, <1>6, <1>7 DEF OthersSleepOn
<1>9. HeadWoken(q, err)
  BY <1>2, <1>3, <1>7, <1>8 DEF HeadWoken, h
<1> QED
  BY <1>1, <1>5, <1>6, <1>9

\* The head of a wait queue is woken and the current thread goes on.
LEMMA WakeKernel ==
    ASSUME KernelInv, NEW q \in Queues, k.waitq[q] # << >>, NEW err \in Returns,
           k.state[k.cur] # "blocked",
           k' = WakeHead(k, q, err), UNCHANGED <<kpc, irq, saved, notify>>
    PROVE  /\ KernelInv' /\ HeadWoken(q, err)
           /\ k'.cur = k.cur /\ k'.state[k.cur] = k.state[k.cur]
<1> DEFINE h == Head(k.waitq[q])
<1>1. QueueInv(k) /\ k \in KernelStates /\ k.cur \in Threads
  BY DEF KernelInv, SchedulerConsistent, QueueInv, KernelStates
<1>2. QueueInv(k') /\ Woken(k, k', q, err, "ready")
  BY <1>1, WakeHeadInv
<1>3. /\ h \in Threads /\ h \in Range(k.waitq[q]) /\ k.state[h] = "blocked"
      /\ k'.state = [k.state EXCEPT ![h] = "ready"] /\ k'.cur = k.cur
      /\ k'.ret = [k.ret EXCEPT ![h] = err]
      /\ k'.waitq = [k.waitq EXCEPT ![q] = Tail(k.waitq[q])]
  BY <1>2 DEF Woken
<1> HIDE DEF h
<1>4. /\ k'.state[h] = "ready" /\ k'.ret[h] = err /\ h # k.cur
      /\ \A u \in Threads : u # h => k'.state[u] = k.state[u] /\ k'.ret[u] = k.ret[u]
  BY <1>1, <1>3 DEF KernelStates
<1>5. kpc' = kpc /\ irq' = irq /\ saved' = saved /\ notify' = notify
  OBVIOUS
<1>6. KernelTypeOK'
  BY <1>2, <1>5 DEF KernelInv, KernelTypeOK, QueueInv
<1>7. CurrentRuns'
  BY <1>1, <1>3, <1>4, <1>5 DEF KernelInv, SchedulerConsistent, CurrentRuns
<1>8. LockDiscipline'
  <2>1. \A u \in Threads : u # k.cur /\ k.state[u] \in {"suspended", "ready", "blocked"} => Parked(u)
    BY DEF KernelInv, LockDiscipline
  <2>2. \A u \in Threads : Parked(u)' <=> Parked(u)
    BY <1>5 DEF Parked
  <2>3. \A u \in Threads :
          u # k'.cur /\ k'.state[u] \in {"suspended", "ready", "blocked"} => Parked(u)'
    BY <1>3, <1>4, <2>1, <2>2
  <2>4. Parked(k.cur)' => ~irq'
    BY <1>3, <1>5 DEF KernelInv, LockDiscipline, Parked
  <2>5. ASSUME notify # None
        PROVE  k'.state[notify] \in {"ready", "running"} /\ kpc'[notify] \in OpenPoints
    <3>1. /\ notify \in Threads /\ k.state[notify] \in {"ready", "running"}
          /\ kpc[notify] \in OpenPoints
      BY <2>5 DEF KernelInv, LockDiscipline, KernelTypeOK
    <3> QED
      BY <1>4, <1>5, <3>1
  <2> QED
    BY <1>5, <2>3, <2>4, <2>5 DEF LockDiscipline
<1>9. HeadWoken(q, err)
  BY <1>3, <1>4 DEF HeadWoken, OthersSleepOn, h
<1> QED
  BY <1>1, <1>2, <1>3, <1>4, <1>6, <1>7, <1>8, <1>9 DEF KernelInv, SchedulerConsistent

\* wait_queue_wake_all goes into its loop, or finds nobody.
LEMMA WakeAllBeginKernel ==
    ASSUME KernelInv, NEW t \in Threads, Own(t), NEW q \in Queues,
           "wake_all" \in ClientPoints, WakeAllBegin(t, q)
    PROVE  /\ KernelInv' /\ SameWaits(k, k') /\ k'.cur = k.cur
           /\ \A u \in Threads : k'.state[u] = "blocked" <=> k.state[u] = "blocked"
           /\ \/ Moves(t, "wake_all") /\ k'.state[t] = "ready"
              \/ kpc' = kpc /\ k.waitq[q] = << >>
<1>1. /\ t = k.cur /\ kpc[t] = "run" /\ notify # t /\ notify' = notify
      /\ k.state[t] = "running" /\ QueueInv(k) /\ k \in KernelStates
  BY OwnRuns DEF WakeAllBegin
<1>2. CASE k.wcount[q] > 0
  <2>1. k' = ReadyHead(k, t) /\ LockAndLeaveAt(t, "wake_all")
    BY <1>2 DEF WakeAllBegin
  <2>2. /\ QueueInv(k') /\ k'.state = [k.state EXCEPT ![t] = "ready"] /\ k'.cur = k.cur
        /\ SameWaits(k, k')
    BY <1>1, <2>1, ReadyHeadInv DEF SameButRunQueue, SameWaits
  <2>3. KernelTypeOK'
    BY <1>1, <2>1, <2>2 DEF KernelInv, KernelTypeOK, KernelPoints, LockAndLeaveAt, QueueInv
  <2>4. Moves(t, "wake_all") /\ irq' = FALSE
    BY <2>1 DEF LockAndLeaveAt, Moves, KernelInv, KernelTypeOK
  <2>5. k'.state[t] = "ready" /\ \A u \in Threads : u # t => k'.state[u] = k.state[u]
    BY <1>1, <2>2 DEF KernelStates
  <2>6. CurrentRuns'
    BY <1>1, <2>2, <2>4 DEF CurrentRuns, Moves
  <2>7. LockDiscipline'
    BY <1>1, <2>2, <2>4, <2>5
       DEF KernelInv, LockDiscipline, Parked, KernelTypeOK, Moves, OpenPoints
  <2> QED
    BY <1>1, <2>2, <2>3, <2>4, <2>5, <2>6, <2>7 DEF KernelInv, SchedulerConsistent
<1>3. CASE ~(k.wcount[q] > 0)
  <2>1. k' = k /\ kpc' = kpc /\ irq' = irq /\ saved' = saved
    BY <1>3 DEF WakeAllBegin
  <2>2. k.waitq[q] = << >>
    <3>1. k.wcount[q] = Len(k.waitq[q]) /\ k.waitq[q] \in Seq(Threads)
      BY <1>1 DEF QueueInv, WaitQueues, KernelStates
    <3> QED
      BY <1>3, <3>1
  <2>3. KernelInv'
    BY <1>1, <2>1 DEF KernelInv, KernelTypeOK, SchedulerConsistent, CurrentRuns, LockDiscipline,
                      Parked
  <2> QED
    BY <2>1, <2>2, <2>3 DEF SameWaits
<1> QED
  BY <1>2, <1>3

\* wait_queue_wake_all switches when nobody is left.
LEMMA WakeAllEndKernel ==
    ASSUME KernelInv, NEW t \in Threads, NEW q \in Queues, WakeAllEnd(t, q),
           k.state[t] = "ready"
    PROVE  /\ KernelInv' /\ SameWaits(k, k') /\ Moves(t, "unlock")
           /\ \A u \in Threads : k'.state[u] = "blocked" <=> k.state[u] = "blocked"
<1>1. /\ t = k.cur /\ kpc[t] = "wake_all" /\ notify # t /\ notify' = notify
      /\ k' = thread_resched(k) /\ kpc' = [kpc EXCEPT ![t] = "unlock"]
      /\ irq' = irq /\ saved' = saved
  BY DEF WakeAllEnd, At
<1>2. QueueInv(k) /\ k \in KernelStates /\ k.state \in [Threads -> States]
  BY DEF KernelInv, SchedulerConsistent, QueueInv, KernelStates
<1>3. ~irq /\ irq' = FALSE
  <2>1. Parked(k.cur) /\ irq \in BOOLEAN
    BY <1>1 DEF Parked, OpenPoints, KernelInv, KernelTypeOK
  <2> QED
    BY <1>1, <2>1 DEF KernelInv, LockDiscipline
<1>4. QueueInv(k') /\ Switched(k.state, k') /\ SameWaits(k, k')
  BY <1>1, <1>2, ReschedInv DEF SameButRunQueue, SameWaits
<1>5. KernelTypeOK'
  BY <1>1, <1>4 DEF KernelInv, KernelTypeOK, KernelPoints, QueueInv
<1>6. Moves(t, "unlock")
  BY <1>1 DEF Moves, KernelInv, KernelTypeOK
<1> QED
  BY <1>1, <1>2, <1>3, <1>4, <1>5, <1>6, SwitchFrom

\* The return from wait_queue_block.
LEMMA ReturnKernel ==
    ASSUME KernelInv, NEW t \in Threads, NEW pc \in ClientPoints, pc \notin {"exit", "wake_all"},
           At(t, pc), UnlockTo(t, "run"), UNCHANGED <<k, notify>>
    PROVE  KernelInv' /\ Moves(t, "run") /\ k.state[t] = "running" /\ t = k.cur
<1>1. t = k.cur /\ notify # t /\ kpc[t] = pc /\ k' = k /\ notify' = notify
  BY DEF At
<1>2. QueueInv(k') /\ k.state[t] = "running"
  BY <1>1 DEF KernelInv, SchedulerConsistent, CurrentRuns
<1>3. KernelTypeOK' /\ Moves(t, "run")
  BY <1>1 DEF UnlockTo, KernelInv, KernelTypeOK, KernelPoints, OpenPoints, Moves
<1>4. ~Parked(k.cur)'
  BY <1>1, <1>3 DEF Parked, Moves, OpenPoints
<1>5. KernelInv'
  BY <1>1, <1>2, <1>3, <1>4, StayOnCpu DEF Moves
<1> QED
  BY <1>1, <1>2, <1>3, <1>5

\* thread_exit before any switch: the caller is DEATH and in no queue.
LEMMA DeadInv ==
    ASSUME NEW t \in Threads, t # Idle, QueueInv(k), k.state[t] = "running", t = k.cur,
           NEW z, z = [k EXCEPT !.state[t] = "dead"]
    PROVE  /\ QueueInv(z) /\ z.state = [k.state EXCEPT ![t] = "dead"] /\ z.cur = k.cur
           /\ z.state[t] = "dead" /\ SameWaits(k, z)
<1>1. k \in KernelStates /\ k.state \in [Threads -> States]
  BY DEF QueueInv, KernelStates
<1>2. [k.state EXCEPT ![t] = "dead"] \in [Threads -> States]
  BY <1>1 DEF States
<1>3. z = [k EXCEPT !.state = [k.state EXCEPT ![t] = "dead"]]
  OBVIOUS
<1>4. z \in KernelStates
  BY <1>1, <1>2, <1>3 DEF KernelStates
<1>5. /\ z.state = [k.state EXCEPT ![t] = "dead"] /\ z.cur = k.cur /\ z.prio = k.prio
      /\ z.runq = k.runq /\ z.bitmap = k.bitmap /\ SameWaits(k, z)
  BY <1>1, <1>3 DEF KernelStates, SameWaits
<1>6. Reshaped(k, z, t, "dead")
  BY <1>4, <1>5 DEF Reshaped, SameWaits
<1>7. k.state[t] \notin {"ready", "blocked"}
  OBVIOUS
<1>8. QueueInv(z)
  BY <1>6, <1>7, ReshapeInv
<1> QED
  BY <1>1, <1>5, <1>8

\* The last switch of a thread that nobody waits for.
LEMMA ExitKernel ==
    ASSUME KernelInv, NEW t \in Threads, Own(t), t # Idle,
           k' = thread_resched([k EXCEPT !.state[t] = "dead"]),
           LockAndLeaveAt(t, "done"), UNCHANGED notify
    PROVE  /\ KernelInv' /\ SameWaits(k, k') /\ Moves(t, "done")
           /\ \A u \in Threads : k'.state[u] = "blocked" <=> k.state[u] = "blocked"
<1> DEFINE z == [k EXCEPT !.state[t] = "dead"]
<1>1. /\ t = k.cur /\ kpc[t] = "run" /\ notify # t /\ notify' = notify
      /\ k.state[t] = "running" /\ QueueInv(k) /\ k \in KernelStates
  BY OwnRuns
<1>2. irq' = FALSE /\ kpc' = [kpc EXCEPT ![t] = "done"]
  BY DEF LockAndLeaveAt
<1>3. /\ QueueInv(z) /\ z.state = [k.state EXCEPT ![t] = "dead"] /\ z.cur = k.cur
      /\ z.state[t] = "dead" /\ SameWaits(k, z)
  BY <1>1, DeadInv
<1>4. k' = thread_resched(z)
  OBVIOUS
<1> HIDE DEF z
<1>5. QueueInv(k') /\ Switched([k.state EXCEPT ![k.cur] = "dead"], k') /\ SameWaits(k, k')
  <2>1. z.state[z.cur] # "running"
    BY <1>1, <1>3
  <2> QED
    BY <1>1, <1>3, <1>4, <2>1, ReschedInv DEF SameButRunQueue, SameWaits
<1>6. KernelTypeOK' /\ Moves(t, "done")
  BY <1>2, <1>5 DEF LockAndLeaveAt, KernelInv, KernelTypeOK, QueueInv, KernelPoints, Moves
<1>7. KernelInv'
  BY <1>1, <1>2, <1>5, <1>6, SwitchAway DEF Moves
<1>8. \A u \in Threads : k'.state[u] = "blocked" <=> k.state[u] = "blocked"
  BY <1>1, <1>5, AfterSwitch
<1> QED
  BY <1>5, <1>6, <1>7, <1>8
-----------------------------------------------------------------------------
(* An object whose waiters sleep at point pc in its wait queue q, and that *)
(* wait_queue_wake_all empties when it is destroyed.                       *)

\* The threads in the queue are at pc, and the one that empties the queue has
\* the processor and is READY.
WaitInv(q, pc) ==
    /\ KernelInv
    /\ \A t \in Threads : t \in Range(k.waitq[q]) => kpc[t] = pc
    /\ \A t \in Threads : kpc[t] = "wake_all" => t = k.cur /\ k.state[t] = "ready"

NoWaker == \A t \in Threads : kpc[t] # "wake_all"

\* The threads that were woken with success and have not returned.
Handed(pc) == {t \in Threads : kpc[t] = pc /\ k.state[t] # "blocked" /\ k.ret[t] = "ok"}

\* Nobody falls asleep, wakes up or returns.
Still(q, pc) ==
    /\ k'.waitq[q] = k.waitq[q] /\ Handed(pc)' = Handed(pc)
    /\ \A u \in Threads : /\ k'.state[u] = "blocked" <=> k.state[u] = "blocked"
                          /\ kpc'[u] = pc <=> kpc[u] = pc

\* A point at which wait_queue_block is called.
WaitPoint(pc) == pc \in ClientPoints \ {"exit", "wake_all"}

LEMMA QueueTyped ==
    ASSUME KernelInv, NEW q \in Queues
    PROVE  /\ k.waitq[q] \in Seq(Threads) /\ NoDup(k.waitq[q]) /\ Len(k.waitq[q]) \in Nat
           /\ \A t \in Threads : t \in Range(k.waitq[q]) => k.state[t] = "blocked"
           /\ k.waitq \in [Queues -> Seq(Threads)]
<1>1. k.waitq \in [Queues -> Seq(Threads)] /\ WaitQueues(k)
  BY DEF KernelInv, SchedulerConsistent, QueueInv, KernelStates
<1> QED
  BY <1>1 DEF WaitQueues

\* A step that leaves the wait queues, everybody's sleep and everybody's stay at
\* pc alone.
LEMMA StillIf ==
    ASSUME NEW q \in Queues, NEW pc, SameWaits(k, k'),
           \A u \in Threads : /\ k'.state[u] = "blocked" <=> k.state[u] = "blocked"
                              /\ kpc'[u] = pc <=> kpc[u] = pc
    PROVE  Still(q, pc)
  BY DEF SameWaits, Still, Handed

\* The steps of the kernel, thread_resume and operations that neither sleep nor
\* wake anybody.
LEMMA StillSteps ==
    ASSUME NEW q \in Queues, NEW pc, WaitPoint(pc), WaitInv(q, pc),
           \/ KernelNext
           \/ \E t, n \in Threads : ResumeStep(t, n)
           \/ UNCHANGED kvars /\ \E t \in Threads : Own(t) \/ Interruptible(t)
    PROVE  WaitInv(q, pc)' /\ NoWaker' /\ Still(q, pc)
<1>0. pc \notin {"run", "yield", "unlock", "start"}
  BY ClientPointsAssumption DEF WaitPoint, OpenPoints
<1>1. CASE KernelNext
  <2>1. KernelInv' /\ KernelQuiet /\ kpc[k.cur] \in OpenPoints \cup {"unlock", "start"}
    BY <1>1, KernelStep, KernelPoint DEF WaitInv
  <2>2. /\ SameWaits(k, k')
        /\ \A u \in Threads :
            \/ kpc'[u] = kpc[u]
            \/ u = k.cur /\ kpc[u] \in {"run", "yield", "unlock", "start"}
                         /\ kpc'[u] \in {"run", "unlock"}
    BY <2>1 DEF KernelQuiet
  <2>3. ASSUME NEW u \in Threads PROVE k'.state[u] = "blocked" <=> k.state[u] = "blocked"
    <3>1. \/ k'.state[u] = k.state[u]
          \/ k.state[u] \in {"ready", "running"} /\ k'.state[u] \in {"ready", "running"}
          \/ k.state[u] = "suspended" /\ k'.state[u] = "running"
      BY <2>1 DEF KernelQuiet
    <3> QED
      BY <3>1
  <2>4. \A u \in Threads : (kpc'[u] = pc <=> kpc[u] = pc) /\ kpc'[u] # "wake_all"
    BY <1>0, <2>1, <2>2 DEF WaitInv, OpenPoints
  <2>5. WaitInv(q, pc)'
    BY <2>1, <2>2, <2>4 DEF WaitInv, SameWaits
  <2> QED
    BY <2>2, <2>3, <2>4, <2>5, StillIf DEF NoWaker
<1>2. ASSUME NEW t \in Threads, NEW n \in Threads, ResumeStep(t, n)
      PROVE  WaitInv(q, pc)' /\ NoWaker' /\ Still(q, pc)
  <2>1. /\ KernelInv' /\ SameWaits(k, k')
        /\ kpc'[t] \in {"run", "yield"} /\ \A u \in Threads : u # t => kpc'[u] = kpc[u]
        /\ \A u \in Threads : k'.state[u] = "blocked" <=> k.state[u] = "blocked"
    BY <1>2, ResumeKernel DEF WaitInv, Moves
  <2>2. t = k.cur /\ kpc[t] = "run"
    BY <1>2, OwnRuns DEF WaitInv, ResumeStep
  <2>3. \A u \in Threads : (kpc'[u] = pc <=> kpc[u] = pc) /\ kpc'[u] # "wake_all"
    BY <1>0, <2>1, <2>2 DEF WaitInv
  <2>4. WaitInv(q, pc)'
    BY <2>1, <2>3 DEF WaitInv, SameWaits
  <2> QED
    BY <2>1, <2>3, <2>4, StillIf DEF NoWaker
<1>3. ASSUME NEW t \in Threads, Own(t) \/ Interruptible(t), UNCHANGED kvars
      PROVE  WaitInv(q, pc)' /\ NoWaker' /\ Still(q, pc)
  <2>1. k' = k /\ kpc' = kpc /\ irq' = irq /\ saved' = saved /\ notify' = notify
    BY <1>3 DEF kvars
  <2>2. KernelInv'
    BY <2>1 DEF WaitInv, KernelInv, KernelTypeOK, SchedulerConsistent, CurrentRuns, LockDiscipline,
                Parked
  <2>3. NoWaker'
    BY <1>3, <2>1, ClientPointsAssumption DEF Own, At, Interruptible, OpenPoints, WaitInv, NoWaker
  <2> QED
    BY <2>1, <2>2, <2>3 DEF WaitInv, Still, Handed
<1> QED
  BY <1>1, <1>2, <1>3

\* The caller joins the queue.
LEMMA BlockWait ==
    ASSUME NEW q \in Queues, NEW pc, WaitPoint(pc), WaitInv(q, pc),
           NEW t \in Threads, Own(t), t # Idle, k' = wait_queue_block(k, t, q),
           LockAndLeaveAt(t, pc), UNCHANGED notify
    PROVE  /\ WaitInv(q, pc)' /\ NoWaker'
           /\ k'.waitq[q] = Append(k.waitq[q], t) /\ Handed(pc)' = Handed(pc)
           /\ Len(k'.waitq[q]) = Len(k.waitq[q]) + 1
           /\ \A u \in Threads : kpc'[u] = pc <=> kpc[u] = pc \/ u = t
<1>1. /\ KernelInv' /\ Moves(t, pc) /\ OthersSleepOn(t) /\ k'.state[t] = "blocked"
      /\ k'.waitq = [k.waitq EXCEPT ![q] = Append(k.waitq[q], t)]
  BY BlockKernel DEF WaitInv, WaitPoint
<1>2. t = k.cur /\ kpc[t] = "run" /\ pc # "run" /\ pc # "wake_all"
  BY OwnRuns, ClientPointsAssumption DEF WaitInv, WaitPoint, OpenPoints
<1>3. k'.waitq[q] = Append(k.waitq[q], t)
  BY <1>1, QueueTyped DEF WaitInv
<1>4. Range(k'.waitq[q]) = Range(k.waitq[q]) \cup {t} /\ Len(k'.waitq[q]) = Len(k.waitq[q]) + 1
  BY <1>3, QueueTyped, AppendFacts DEF WaitInv
<1>5. NoWaker'
  BY <1>1, <1>2 DEF WaitInv, NoWaker, Moves
<1>6. WaitInv(q, pc)'
  BY <1>1, <1>4, <1>5 DEF WaitInv, Moves, NoWaker
<1>7. Handed(pc)' = Handed(pc)
  BY <1>1, <1>2 DEF Handed, Moves, OthersSleepOn
<1> QED
  BY <1>1, <1>3, <1>4, <1>5, <1>6, <1>7 DEF Moves

\* The head of the queue is woken, by a step that takes nobody to or from pc.
LEMMA WokenWait ==
    ASSUME NEW q \in Queues, NEW pc, WaitInv(q, pc), KernelInv', k.waitq[q] # << >>,
           NEW err \in Returns, HeadWoken(q, err),
           \A u \in Threads : kpc'[u] = pc <=> kpc[u] = pc
    PROVE  /\ k'.waitq[q] = Tail(k.waitq[q]) /\ Len(k'.waitq[q]) = Len(k.waitq[q]) - 1
           /\ \A u \in Threads : u \in Range(k'.waitq[q]) => kpc'[u] = pc
           /\ Head(k.waitq[q]) \in Threads \ Handed(pc)
           /\ Handed(pc)' = IF err = "ok" THEN Handed(pc) \cup {Head(k.waitq[q])} ELSE Handed(pc)
<1> DEFINE h == Head(k.waitq[q])
<1>1. /\ h \in Threads /\ h \in Range(k.waitq[q])
      /\ k.state[h] = "blocked" /\ k'.state[h] # "blocked" /\ k'.ret[h] = err
      /\ k'.waitq = [k.waitq EXCEPT ![q] = Tail(k.waitq[q])]
      /\ OthersSleepOn(h)
  BY DEF HeadWoken
<1>2. k'.waitq[q] = Tail(k.waitq[q])
  BY <1>1, QueueTyped DEF WaitInv
<1>3. Range(k'.waitq[q]) = Range(k.waitq[q]) \ {h} /\ Len(k'.waitq[q]) = Len(k.waitq[q]) - 1
  BY <1>2, QueueTyped, TailFacts DEF WaitInv
<1>4. kpc[h] = pc /\ \A u \in Threads : u \in Range(k'.waitq[q]) => kpc'[u] = pc
  BY <1>1, <1>3 DEF WaitInv
<1> HIDE DEF h
<1>5. h \notin Handed(pc) /\ Handed(pc)' = IF err = "ok" THEN Handed(pc) \cup {h} ELSE Handed(pc)
  BY <1>1, <1>4 DEF Handed, OthersSleepOn
<1> QED
  BY <1>1, <1>2, <1>3, <1>4, <1>5 DEF h

\* The head of the queue is handed what it waits for.
LEMMA HandOver ==
    ASSUME NEW q \in Queues, NEW pc, WaitPoint(pc), WaitInv(q, pc),
           NEW t \in Threads, k.waitq[q] # << >>,
           \/ /\ k' = WakeOneResched(k, t, q, "ok")
              /\ Own(t) /\ LockAndLeaveAt(t, "unlock") /\ UNCHANGED notify
           \/ /\ k' = WakeOneResched(k, t, q, "ok")
              /\ Interruptible(t) /\ irq' = FALSE /\ notify' = t /\ UNCHANGED <<kpc, saved>>
           \/ /\ k' = WakeOne(k, q, "ok")
              /\ Own(t) /\ UNCHANGED <<kpc, irq, saved, notify>>
    PROVE  /\ WaitInv(q, pc)' /\ NoWaker'
           /\ k'.waitq[q] = Tail(k.waitq[q]) /\ Len(k'.waitq[q]) = Len(k.waitq[q]) - 1
           /\ Head(k.waitq[q]) \in Threads \ Handed(pc)
           /\ Handed(pc)' = Handed(pc) \cup {Head(k.waitq[q])}
           /\ \A u \in Threads : kpc'[u] = pc <=> kpc[u] = pc
<1>1. /\ KernelInv /\ t = k.cur /\ kpc[t] \in OpenPoints /\ k.state[t] = "running" /\ "ok" \in Returns
      /\ pc \notin OpenPoints \cup {"unlock"} /\ "wake_all" \notin OpenPoints
  BY OwnRuns, ClientPointsAssumption
     DEF WaitInv, Returns, WaitPoint, OpenPoints, Interruptible, KernelInv, SchedulerConsistent,
         CurrentRuns
<1>2. KernelInv' /\ HeadWoken(q, "ok") /\ (Moves(t, "unlock") \/ kpc' = kpc)
  <2>1. CASE \/ /\ k' = WakeOneResched(k, t, q, "ok")
                /\ Own(t) /\ LockAndLeaveAt(t, "unlock") /\ UNCHANGED notify
             \/ /\ k' = WakeOneResched(k, t, q, "ok")
                /\ Interruptible(t) /\ irq' = FALSE /\ notify' = t /\ UNCHANGED <<kpc, saved>>
    BY <1>1, <2>1, WakeReschedKernel
  <2>2. CASE k' = WakeOne(k, q, "ok") /\ UNCHANGED <<kpc, irq, saved, notify>>
    <3>1. k' = WakeHead(k, q, "ok")
      BY <2>2 DEF WakeOne
    <3> QED
      BY <1>1, <2>2, <3>1, WakeKernel
  <2> QED
    BY <2>1, <2>2
<1>3. \A u \in Threads : (kpc'[u] = pc <=> kpc[u] = pc) /\ kpc'[u] # "wake_all"
  BY <1>1, <1>2 DEF WaitInv, Moves
<1>4. /\ k'.waitq[q] = Tail(k.waitq[q]) /\ Len(k'.waitq[q]) = Len(k.waitq[q]) - 1
      /\ \A u \in Threads : u \in Range(k'.waitq[q]) => kpc'[u] = pc
      /\ Head(k.waitq[q]) \in Threads \ Handed(pc)
      /\ Handed(pc)' = Handed(pc) \cup {Head(k.waitq[q])}
  BY <1>1, <1>2, <1>3, WokenWait
<1> QED
  BY <1>2, <1>3, <1>4 DEF WaitInv, NoWaker

\* The return from wait_queue_block.
LEMMA ReturnWait ==
    ASSUME NEW q \in Queues, NEW pc, WaitPoint(pc), WaitInv(q, pc),
           NEW t \in Threads, At(t, pc), UnlockTo(t, "run"), UNCHANGED <<k, notify>>
    PROVE  /\ WaitInv(q, pc)' /\ NoWaker' /\ k'.waitq[q] = k.waitq[q]
           /\ Handed(pc)' = Handed(pc) \ {t} /\ (t \in Handed(pc) <=> k.ret[t] = "ok")
           /\ \A u \in Threads : kpc'[u] = pc <=> kpc[u] = pc /\ u # t
<1>1. KernelInv' /\ Moves(t, "run") /\ k.state[t] = "running" /\ t = k.cur /\ k' = k
  BY ReturnKernel DEF WaitInv, WaitPoint
<1>2. /\ kpc[t] = pc /\ t \notin Range(k.waitq[q]) /\ pc # "run" /\ pc # "wake_all"
  BY <1>1, QueueTyped, ClientPointsAssumption DEF At, WaitInv, WaitPoint, OpenPoints
<1>3. NoWaker'
  BY <1>1, <1>2 DEF WaitInv, NoWaker, Moves
<1>4. WaitInv(q, pc)'
  BY <1>1, <1>2, <1>3 DEF WaitInv, Moves, NoWaker
<1>5. Handed(pc)' = Handed(pc) \ {t} /\ (t \in Handed(pc) <=> k.ret[t] = "ok")
  BY <1>1, <1>2 DEF Handed, Moves
<1> QED
  BY <1>1, <1>2, <1>3, <1>4, <1>5 DEF Moves

\* wait_queue_wake_all, up to its loop.
LEMMA BeginWait ==
    ASSUME NEW q \in Queues, NEW pc, WaitPoint(pc), WaitInv(q, pc), "wake_all" \in ClientPoints,
           NEW t \in Threads, Own(t), WakeAllBegin(t, q)
    PROVE  /\ WaitInv(q, pc)' /\ Still(q, pc)
           /\ Moves(t, "wake_all") \/ (kpc' = kpc /\ k.waitq[q] = << >>)
<1>1. t = k.cur /\ kpc[t] = "run" /\ pc # "run" /\ pc # "wake_all"
  BY OwnRuns, ClientPointsAssumption DEF WaitInv, WaitPoint, OpenPoints
<1>2. /\ KernelInv' /\ SameWaits(k, k') /\ k'.cur = k.cur
      /\ \A u \in Threads : k'.state[u] = "blocked" <=> k.state[u] = "blocked"
      /\ \/ Moves(t, "wake_all") /\ k'.state[t] = "ready"
         \/ kpc' = kpc /\ k.waitq[q] = << >>
  BY WakeAllBeginKernel DEF WaitInv
<1>3. \A u \in Threads : /\ kpc'[u] = pc <=> kpc[u] = pc
                         /\ kpc'[u] = "wake_all" => u = k'.cur /\ k'.state[u] = "ready"
  BY <1>1, <1>2 DEF WaitInv, Moves
<1>4. WaitInv(q, pc)'
  BY <1>2, <1>3 DEF WaitInv, SameWaits
<1> QED
  BY <1>2, <1>3, <1>4, StillIf

\* Its loop: a waiter goes with err, or the caller gives up the processor.
LEMMA LoopWait ==
    ASSUME NEW q \in Queues, NEW pc, WaitPoint(pc), WaitInv(q, pc), NEW err \in Returns,
           NEW t \in Threads, WakeAllStep(t, q, err) \/ WakeAllEnd(t, q)
    PROVE  /\ WaitInv(q, pc)' /\ ~NoWaker
           /\ \/ /\ k.waitq[q] = << >> /\ k'.waitq[q] = k.waitq[q] /\ Handed(pc)' = Handed(pc)
                 /\ Moves(t, "unlock")
              \/ /\ k.waitq[q] # << >> /\ k'.waitq[q] = Tail(k.waitq[q])
                 /\ Handed(pc)' = IF err = "ok" THEN Handed(pc) \cup {Head(k.waitq[q])}
                                  ELSE Handed(pc)
                 /\ kpc' = kpc
           /\ \A u \in Threads : kpc'[u] = pc <=> kpc[u] = pc
<1>1. /\ t = k.cur /\ kpc[t] = "wake_all" /\ k.state[t] = "ready" /\ KernelInv
      /\ pc \notin {"wake_all", "unlock"} /\ ~NoWaker
  BY ClientPointsAssumption DEF WakeAllStep, WakeAllEnd, At, WaitInv, WaitPoint, NoWaker
<1>2. CASE WakeAllStep(t, q, err)
  <2>1. /\ k.waitq[q] # << >> /\ k' = WakeHead(k, q, err)
        /\ UNCHANGED <<kpc, irq, saved, notify>>
    BY <1>2 DEF WakeAllStep
  <2>2. /\ KernelInv' /\ HeadWoken(q, err)
        /\ k'.cur = k.cur /\ k'.state[k.cur] = k.state[k.cur]
    BY <1>1, <2>1, WakeKernel
  <2>3. kpc' = kpc
    BY <2>1
  <2>4. /\ k'.waitq[q] = Tail(k.waitq[q])
        /\ \A u \in Threads : u \in Range(k'.waitq[q]) => kpc'[u] = pc
        /\ Handed(pc)' = IF err = "ok" THEN Handed(pc) \cup {Head(k.waitq[q])} ELSE Handed(pc)
    BY <1>1, <2>1, <2>2, <2>3, WokenWait
  <2>5. WaitInv(q, pc)'
    BY <1>1, <2>2, <2>3, <2>4 DEF WaitInv
  <2> QED
    BY <1>1, <2>1, <2>3, <2>4, <2>5
<1>3. CASE WakeAllEnd(t, q)
  <2>1. /\ KernelInv' /\ SameWaits(k, k') /\ Moves(t, "unlock") /\ k.waitq[q] = << >>
        /\ \A u \in Threads : k'.state[u] = "blocked" <=> k.state[u] = "blocked"
    BY <1>1, <1>3, WakeAllEndKernel DEF WakeAllEnd
  <2>2. \A u \in Threads : (kpc'[u] = pc <=> kpc[u] = pc) /\ kpc'[u] # "wake_all"
    BY <1>1, <2>1 DEF WaitInv, Moves
  <2>3. WaitInv(q, pc)'
    BY <2>1, <2>2 DEF WaitInv, SameWaits
  <2>4. k'.waitq[q] = k.waitq[q] /\ Handed(pc)' = Handed(pc)
    BY <2>1, <2>2, StillIf DEF Still
  <2> QED
    BY <1>1, <2>1, <2>2, <2>3, <2>4
<1> QED
  BY <1>2, <1>3

\* A loop that wakes without a reschedule, at a point of its own: the lock is
\* taken, a waiter goes with err, the lock is released.
LEMMA LockKernel ==
    ASSUME KernelInv, NEW t \in Threads, Own(t), NEW pc \in ClientPoints,
           pc \notin {"exit", "wake_all"}, LockAndLeaveAt(t, pc), UNCHANGED <<k, notify>>
    PROVE  KernelInv' /\ Moves(t, pc)
<1>1. /\ t = k.cur /\ notify # t /\ k' = k /\ notify' = notify /\ irq' = FALSE
      /\ k.state[t] = "running" /\ QueueInv(k)
  BY OwnRuns DEF LockAndLeaveAt
<1>2. KernelTypeOK' /\ Moves(t, pc)
  BY <1>1 DEF LockAndLeaveAt, KernelInv, KernelTypeOK, KernelPoints, Moves
<1> QED
  BY <1>1, <1>2, StayOnCpu DEF Moves

\* The steps of StillSteps take nobody to a client's point or away from it, and
\* the thread that takes them is at none.
LEMMA ClientsStill ==
    ASSUME KernelInv,
           \/ KernelNext
           \/ \E t, n \in Threads : ResumeStep(t, n)
           \/ UNCHANGED kvars /\ \E t \in Threads : Own(t) \/ Interruptible(t)
    PROVE  /\ kpc[k.cur] \notin ClientPoints
           /\ \A u \in Threads, pc \in ClientPoints : kpc'[u] = pc <=> kpc[u] = pc
<1>0. \A pc \in ClientPoints : pc \notin {"run", "yield", "reap", "unlock", "start"}
  BY ClientPointsAssumption DEF OpenPoints
<1>1. CASE KernelNext
  <2>1. KernelQuiet /\ kpc[k.cur] \in {"run", "yield", "reap", "unlock", "start"}
    BY <1>1, KernelStep, KernelPoint DEF OpenPoints
  <2>2. \A u \in Threads :
            \/ kpc'[u] = kpc[u]
            \/ kpc[u] \in {"run", "yield", "unlock", "start"} /\ kpc'[u] \in {"run", "unlock"}
    BY <2>1 DEF KernelQuiet
  <2> QED
    BY <1>0, <2>1, <2>2
<1>2. ASSUME NEW t \in Threads, NEW n \in Threads, ResumeStep(t, n)
      PROVE  /\ kpc[k.cur] \notin ClientPoints
             /\ \A u \in Threads, pc \in ClientPoints : kpc'[u] = pc <=> kpc[u] = pc
  <2>1. kpc'[t] \in {"run", "yield"} /\ \A u \in Threads : u # t => kpc'[u] = kpc[u]
    BY <1>2, ResumeKernel DEF Moves
  <2>2. t = k.cur /\ kpc[t] = "run"
    BY <1>2, OwnRuns DEF ResumeStep
  <2> QED
    BY <1>0, <2>1, <2>2
<1>3. ASSUME NEW t \in Threads, Own(t) \/ Interruptible(t), UNCHANGED kvars
      PROVE  /\ kpc[k.cur] \notin ClientPoints
             /\ \A u \in Threads, pc \in ClientPoints : kpc'[u] = pc <=> kpc[u] = pc
  BY <1>0, <1>3 DEF kvars, Own, At, Interruptible, OpenPoints
<1> QED
  BY <1>1, <1>2, <1>3
=============================================================================
