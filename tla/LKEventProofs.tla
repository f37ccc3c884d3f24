---------------------------- MODULE LKEventProofs ----------------------------
(***************************************************************************)
(* The event for every number of threads: nobody is left asleep on an      *)
(* event that lets threads through, and the rules of event.h (EventSpec)   *)
(* are kept.  Then the timers of UefiHost.c that are built on it.  One     *)
(* lemma per action, on top of the lemmas of LKKernelProofs.               *)
(***************************************************************************)
EXTENDS LTimer, LKKernelProofs

\* A wake-all without a reschedule has the processor, and one of an event that
\* is live belongs to a signal that lets everybody through.
WakersSignal ==
    /\ \A t \in Threads : kpc[t] = "wake_quiet" => t = k.cur /\ live
    /\ live /\ Waking => signaled /\ ~auto

\* The inductive invariant of LKEvent.
EventInv ==
    /\ WaitInv(Event, "event")
    /\ signaled \in BOOLEAN /\ auto \in BOOLEAN /\ live \in BOOLEAN
    /\ WakersSignal /\ NoSleeperLeftBehind

\* A step of EventSpec, or none.
AbstractStep == Abstract!Next \/ UNCHANGED Abstract!evars

LEMMA EventPoints ==
    /\ Event \in Queues /\ WaitPoint("event") /\ WaitPoint("wake_quiet")
    /\ "wake_all" \in ClientPoints
    /\ Released = Handed("event") /\ Released' = Handed("event")'
<1>1. Event \in Queues /\ WaitPoint("event") /\ WaitPoint("wake_quiet") /\ "wake_all" \in ClientPoints
  BY EventAssumption DEF Queues, WaitPoint
<1>2. Released = Handed("event") /\ Released' = Handed("event")'
  BY DEF Released, Handed
<1> QED
  BY <1>1, <1>2

\* A thread that calls an operation is alone: nobody is in a wake-all.
LEMMA CallerAlone ==
    ASSUME EventInv, NEW t \in Threads, Calls(t)
    PROVE  /\ Own(t) /\ t # Idle /\ t = k.cur /\ kpc[t] = "run"
           /\ ~Waking /\ \A u \in Threads : kpc[u] \notin {"wake_all", "wake_quiet"}
<1>1. Own(t) /\ t # Idle /\ t = k.cur /\ kpc[t] = "run"
  BY OwnRuns DEF Calls, EventInv, WaitInv
<1>2. \A u \in Threads : kpc[u] \notin {"wake_all", "wake_quiet"}
  BY <1>1 DEF EventInv, WaitInv, WakersSignal
<1> QED
  BY <1>1, <1>2 DEF Waking

\* The steps that neither sleep nor wake anybody.
LEMMA StillEvent ==
    ASSUME EventInv,
           \/ KernelNext
           \/ \E t, n \in Threads : ResumeStep(t, n)
           \/ UNCHANGED kvars /\ \E t \in Threads : Calls(t)
    PROVE  /\ WaitInv(Event, "event")' /\ k'.waitq[Event] = k.waitq[Event] /\ Released' = Released
           /\ ~Waking /\ ~Waking' /\ \A u \in Threads : kpc'[u] \notin {"wake_all", "wake_quiet"}
<1>1. /\ WaitInv(Event, "event")' /\ k'.waitq[Event] = k.waitq[Event] /\ Released' = Released
      /\ NoWaker'
  BY EventPoints, StillSteps DEF EventInv, Calls, Still
<1>2. /\ kpc[k.cur] \notin ClientPoints
      /\ \A u \in Threads, pc \in ClientPoints : kpc'[u] = pc <=> kpc[u] = pc
  BY ClientsStill DEF EventInv, WaitInv, Calls
<1>3. \A u \in Threads : kpc[u] \notin {"wake_all", "wake_quiet"}
  BY <1>2, EventPoints DEF EventInv, WaitInv, WakersSignal, WaitPoint
<1>4. \A u \in Threads : kpc'[u] \notin {"wake_all", "wake_quiet"}
  BY <1>2, <1>3, EventPoints DEF WaitPoint
<1> QED
  BY <1>1, <1>3, <1>4 DEF Waking

-----------------------------------------------------------------------------
\* A step of the kernel, or of nobody.
LEMMA KernelEventStep ==
    ASSUME EventInv, UNCHANGED eventvars,
           KernelNext \/ \E t, n \in Threads : ResumeStep(t, n)
    PROVE  EventInv' /\ AbstractStep
<1>1. signaled' = signaled /\ auto' = auto /\ live' = live
  BY DEF eventvars
<1>2. EventInv'
  BY <1>1, StillEvent DEF EventInv, WakersSignal, NoSleeperLeftBehind
<1>3. UNCHANGED Abstract!evars
  BY <1>1, StillEvent DEF Abstract!evars
<1> QED
  BY <1>2, <1>3 DEF AbstractStep

\* event_init finds the queue empty: its waiters would be in event_wait.
LEMMA InitStep ==
    ASSUME EventInv, NEW t \in Threads, NEW i \in BOOLEAN, NEW f \in BOOLEAN, event_init(t, i, f)
    PROVE  EventInv' /\ AbstractStep
<1>1. /\ Calls(t) /\ ~live /\ live' = TRUE /\ signaled' = i /\ auto' = f /\ UNCHANGED kvars
      /\ \A u \in Threads : kpc[u] \notin ClientPoints
  BY DEF event_init
<1>2. /\ WaitInv(Event, "event")' /\ k'.waitq[Event] = k.waitq[Event] /\ Released' = Released
      /\ ~Waking' /\ \A u \in Threads : kpc'[u] \notin {"wake_all", "wake_quiet"}
  BY <1>1, StillEvent
<1>3. k.waitq[Event] = << >>
  <2> SUFFICES ASSUME k.waitq[Event] # << >> PROVE FALSE
    OBVIOUS
  <2>1. k.waitq[Event] \in Seq(Threads) /\ NoDup(k.waitq[Event])
    BY EventPoints, QueueTyped DEF EventInv, WaitInv
  <2>2. Head(k.waitq[Event]) \in Threads /\ Head(k.waitq[Event]) \in Range(k.waitq[Event])
    BY <2>1, TailFacts
  <2> QED
    BY <1>1, <2>2, EventPoints DEF EventInv, WaitInv, WaitPoint
<1>4. EventInv'
  <2>1. live' \in BOOLEAN /\ signaled' \in BOOLEAN /\ auto' \in BOOLEAN
    BY <1>1, Zenon
  <2> QED
    BY <1>2, <1>3, <2>1 DEF EventInv, WakersSignal, NoSleeperLeftBehind
<1>5. Abstract!Open
  BY <1>1, <1>2, <1>3 DEF Abstract!Open
<1> QED
  BY <1>4, <1>5 DEF AbstractStep, Abstract!Next

\* A signaled event lets its caller through; event_unsignal.
LEMMA PassStep ==
    ASSUME EventInv, NEW t \in Threads, Calls(t), live, UNCHANGED <<kvars, auto, live>>,
           \/ signaled /\ signaled' = ~auto
           \/ signaled' = FALSE
    PROVE  EventInv' /\ AbstractStep
<1>1. /\ WaitInv(Event, "event")' /\ k'.waitq[Event] = k.waitq[Event] /\ Released' = Released
      /\ ~Waking /\ ~Waking' /\ \A u \in Threads : kpc'[u] \notin {"wake_all", "wake_quiet"}
  BY StillEvent
<1>2. /\ auto' = auto /\ live' = live /\ signaled' \in BOOLEAN
      /\ signaled => k.waitq[Event] = << >>
  BY <1>1 DEF EventInv, NoSleeperLeftBehind
<1>3. EventInv'
  BY <1>1, <1>2 DEF EventInv, WakersSignal, NoSleeperLeftBehind
<1>4. CASE signaled /\ signaled' = ~auto
  <2>1. Abstract!Pass
    BY <1>1, <1>2, <1>4 DEF Abstract!Pass
  <2> QED
    BY <1>3, <2>1 DEF AbstractStep, Abstract!Next
<1>5. CASE signaled' = FALSE /\ signaled
  <2>1. Abstract!Unsignal
    BY <1>1, <1>2, <1>5 DEF Abstract!Unsignal
  <2> QED
    BY <1>3, <2>1 DEF AbstractStep, Abstract!Next
<1>6. CASE signaled' = FALSE /\ ~signaled
  <2>1. UNCHANGED Abstract!evars
    BY <1>1, <1>2, <1>6 DEF Abstract!evars, EventInv
  <2> QED
    BY <1>3, <2>1 DEF AbstractStep
<1> QED
  BY <1>4, <1>5, <1>6 DEF EventInv

\* event_wait on an event that is not signaled.
LEMMA EnterStep ==
    ASSUME EventInv, NEW t \in Threads, event_wait(t), live, ~signaled
    PROVE  EventInv' /\ AbstractStep
<1>1. /\ Calls(t) /\ k' = wait_queue_block(k, t, Event) /\ LockAndLeaveAt(t, "event")
      /\ signaled' = signaled /\ auto' = auto /\ live' = live /\ notify' = notify
  BY DEF event_wait
<1>2. /\ WaitInv(Event, "event")' /\ k'.waitq[Event] = Append(k.waitq[Event], t)
      /\ Released' = Released
  BY <1>1, EventPoints, BlockWait DEF EventInv, Calls
<1>3. \A u \in Threads : kpc'[u] \notin {"wake_all", "wake_quiet"}
  BY <1>1, CallerAlone DEF LockAndLeaveAt, EventInv, WaitInv, KernelInv, KernelTypeOK
<1>4. EventInv'
  BY <1>1, <1>2, <1>3 DEF EventInv, WakersSignal, NoSleeperLeftBehind, Waking
<1>5. Abstract!Enter(t)
  BY <1>1, <1>2 DEF Abstract!Enter
<1> QED
  BY <1>4, <1>5 DEF AbstractStep, Abstract!Next

\* The return of a waiter, let through or not.
LEMMA ReturnStep ==
    ASSUME EventInv, NEW t \in Threads, EventWaitReturn(t)
    PROVE  EventInv' /\ AbstractStep
<1>1. signaled' = signaled /\ auto' = auto /\ live' = live /\ k' = k /\ At(t, "event") /\ UnlockTo(t, "run")
  BY DEF EventWaitReturn
<1>2. /\ WaitInv(Event, "event")' /\ k'.waitq[Event] = k.waitq[Event]
      /\ Released' = Released \ {t}
  BY <1>1, EventPoints, ReturnWait DEF EventInv, EventWaitReturn
<1>3. \A u \in Threads : kpc[u] \notin {"wake_all", "wake_quiet"}
  BY <1>1 DEF At, EventInv, WaitInv, WakersSignal
<1>4. \A u \in Threads : kpc'[u] \notin {"wake_all", "wake_quiet"}
  BY <1>1, <1>3 DEF UnlockTo, EventInv, WaitInv, KernelInv, KernelTypeOK
<1>5. EventInv'
  BY <1>1, <1>2, <1>3, <1>4 DEF EventInv, WakersSignal, NoSleeperLeftBehind, Waking
<1>6. CASE t \in Released
  <2>1. Abstract!Return(t)
    BY <1>1, <1>2, <1>6 DEF Abstract!Return
  <2> QED
    BY <1>5, <2>1 DEF AbstractStep, Abstract!Next
<1>7. CASE t \notin Released
  <2>1. UNCHANGED Abstract!evars
    BY <1>1, <1>2, <1>7 DEF Abstract!evars
  <2> QED
    BY <1>5, <2>1 DEF AbstractStep
<1> QED
  BY <1>6, <1>7

\* event_signal on an event that is signaled, or that nobody waits for.
LEMMA SignalNobodyStep ==
    ASSUME EventInv, NEW t \in Threads, NEW r \in BOOLEAN, event_signal(t, r), live,
           signaled \/ k.waitq[Event] = << >>
    PROVE  EventInv' /\ AbstractStep
<1>1. /\ Calls(t) /\ UNCHANGED kvars /\ signaled' = TRUE /\ auto' = auto /\ live' = live
  BY DEF event_signal, SignalFlag
<1>2. /\ WaitInv(Event, "event")' /\ k'.waitq[Event] = k.waitq[Event] /\ Released' = Released
      /\ ~Waking /\ ~Waking' /\ \A u \in Threads : kpc'[u] \notin {"wake_all", "wake_quiet"}
  BY <1>1, StillEvent
<1>3. k.waitq[Event] = << >>
  BY <1>2 DEF EventInv, NoSleeperLeftBehind
<1>4. signaled' \in BOOLEAN
  BY <1>1, Zenon
<1>5. EventInv'
  BY <1>1, <1>2, <1>3, <1>4 DEF EventInv, WakersSignal, NoSleeperLeftBehind
<1>6. CASE signaled
  <2>1. signaled' = signaled
    BY <1>1, <1>6, Zenon DEF EventInv
  <2>2. UNCHANGED Abstract!evars
    BY <1>1, <1>2, <2>1 DEF Abstract!evars
  <2> QED
    BY <1>5, <2>2 DEF AbstractStep
<1>7. CASE ~signaled
  <2>1. Abstract!Signal
    BY <1>1, <1>2, <1>3, <1>7 DEF Abstract!Signal
  <2> QED
    BY <1>5, <2>1 DEF AbstractStep, Abstract!Next
<1> QED
  BY <1>6, <1>7

\* event_signal with AUTOUNSIGNAL lets the head of the queue through.
LEMMA SignalOneStep ==
    ASSUME EventInv, NEW t \in Threads, NEW r \in BOOLEAN, event_signal(t, r), live,
           ~signaled, k.waitq[Event] # << >>, auto
    PROVE  EventInv' /\ AbstractStep
<1>1. /\ Calls(t) /\ auto' = auto /\ live' = live /\ ~signaled'
      /\ \/ /\ k' = WakeOneResched(k, t, Event, "ok")
            /\ LockAndLeaveAt(t, "unlock") /\ UNCHANGED notify
         \/ k' = WakeOne(k, Event, "ok") /\ UNCHANGED <<kpc, irq, saved, notify>>
  BY DEF event_signal, SignalFlag
<1>2. signaled' = FALSE /\ signaled = FALSE
  BY <1>1, Zenon DEF event_signal, SignalFlag, EventInv
<1>3. /\ WaitInv(Event, "event")' /\ k'.waitq[Event] = Tail(k.waitq[Event])
      /\ Released' = Released \cup {Head(k.waitq[Event])}
  BY <1>1, EventPoints, HandOver DEF EventInv, Calls
<1>4. \A u \in Threads : kpc'[u] \notin {"wake_all", "wake_quiet"}
  BY <1>1, CallerAlone DEF LockAndLeaveAt, EventInv, WaitInv, KernelInv, KernelTypeOK
<1>5. EventInv'
  BY <1>1, <1>2, <1>3, <1>4 DEF EventInv, WakersSignal, NoSleeperLeftBehind, Waking
<1>6. Abstract!Signal
  BY <1>1, <1>2, <1>3 DEF Abstract!Signal, Abstract!LetOneThrough
<1> QED
  BY <1>5, <1>6 DEF AbstractStep, Abstract!Next

\* event_signal without AUTOUNSIGNAL begins to wake everybody.
LEMMA SignalAllStep ==
    ASSUME EventInv, NEW t \in Threads, NEW r \in BOOLEAN, event_signal(t, r), live,
           ~signaled, k.waitq[Event] # << >>, ~auto
    PROVE  EventInv' /\ AbstractStep
<1>1. /\ Calls(t) /\ signaled' = TRUE /\ auto' = auto /\ live' = live
      /\ \/ WakeAllBegin(t, Event)
         \/ LockAndLeaveAt(t, "wake_quiet") /\ UNCHANGED <<k, notify>>
  BY DEF event_signal, SignalFlag
<1>2. /\ Own(t) /\ t = k.cur /\ kpc[t] = "run"
      /\ \A u \in Threads : kpc[u] \notin {"wake_all", "wake_quiet"}
  BY <1>1, CallerAlone
<1>3. /\ WaitInv(Event, "event")' /\ k'.waitq[Event] = k.waitq[Event] /\ Released' = Released
      /\ Moves(t, "wake_all") \/ (Moves(t, "wake_quiet") /\ k' = k)
  <2>1. CASE WakeAllBegin(t, Event)
    BY <1>2, <2>1, EventPoints, BeginWait DEF EventInv, Still
  <2>2. CASE LockAndLeaveAt(t, "wake_quiet") /\ UNCHANGED <<k, notify>>
    <3>1. KernelInv' /\ Moves(t, "wake_quiet") /\ k' = k
      BY <1>2, <2>2, EventPoints, LockKernel DEF EventInv, WaitInv, WaitPoint
    <3>2. \A u \in Threads : /\ kpc'[u] = "event" <=> kpc[u] = "event"
                             /\ kpc'[u] # "wake_all"
      BY <1>2, <3>1 DEF Moves
    <3>3. WaitInv(Event, "event")'
      BY <3>1, <3>2 DEF EventInv, WaitInv
    <3> QED
      BY <3>1, <3>2, <3>3 DEF Released
  <2> QED
    BY <1>1, <2>1, <2>2
<1>4. /\ Waking'
      /\ \A u \in Threads : kpc'[u] = "wake_quiet" => u = k'.cur
  BY <1>2, <1>3 DEF Moves, Waking
<1>5. EventInv'
  <2>1. signaled' \in BOOLEAN /\ signaled' /\ ~auto' /\ live'
    BY <1>1, Zenon
  <2> QED
    BY <1>1, <1>3, <1>4, <2>1 DEF EventInv, WakersSignal, NoSleeperLeftBehind
<1>6. Abstract!Signal
  BY <1>1, <1>3 DEF Abstract!Signal
<1> QED
  BY <1>5, <1>6 DEF AbstractStep, Abstract!Next

\* One iteration of a wake-all of an event that is live lets the head through; of
\* one that is not, it sends the head away.
LEMMA DrainStep ==
    ASSUME EventInv, WaitInv(Event, "event")', UNCHANGED eventvars, Waking,
           k.waitq[Event] # << >>, k'.waitq[Event] = Tail(k.waitq[Event]),
           Released' = IF live THEN Released \cup {Head(k.waitq[Event])} ELSE Released,
           kpc' = kpc, k'.cur = k.cur
    PROVE  EventInv' /\ AbstractStep
<1>1. signaled' = signaled /\ auto' = auto /\ live' = live
  BY DEF eventvars
<1>2. Waking'
  BY DEF Waking
<1>3. EventInv'
  BY <1>1, <1>2 DEF EventInv, WakersSignal, NoSleeperLeftBehind, Waking
<1>4. CASE live
  <2>1. signaled /\ ~auto
    BY <1>4 DEF EventInv, WakersSignal
  <2>2. Abstract!Drain
    BY <1>1, <1>4, <2>1 DEF Abstract!Drain, Abstract!LetOneThrough
  <2> QED
    BY <1>3, <2>2 DEF AbstractStep, Abstract!Next
<1>5. CASE ~live
  <2>1. Abstract!Expel
    BY <1>1, <1>5 DEF Abstract!Expel
  <2> QED
    BY <1>3, <2>1 DEF AbstractStep, Abstract!Next
<1> QED
  BY <1>4, <1>5

\* The end of a wake-all: nobody sleeps any more.
LEMMA DrainedStep ==
    ASSUME EventInv, WaitInv(Event, "event")', UNCHANGED eventvars,
           k.waitq[Event] = << >>, k'.waitq[Event] = << >>, Released' = Released,
           \A u \in Threads : kpc'[u] \notin {"wake_all", "wake_quiet"}
    PROVE  EventInv' /\ AbstractStep
<1>1. signaled' = signaled /\ auto' = auto /\ live' = live
  BY DEF eventvars
<1>2. EventInv'
  BY <1>1 DEF EventInv, WakersSignal, NoSleeperLeftBehind, Waking
<1>3. UNCHANGED Abstract!evars
  BY <1>1 DEF Abstract!evars
<1> QED
  BY <1>2, <1>3 DEF AbstractStep

\* The loop of wait_queue_wake_all with a reschedule.
LEMMA WakeAllLoopStep ==
    ASSUME EventInv, NEW t \in Threads, WakeAllLoop(t)
    PROVE  EventInv' /\ AbstractStep
<1> DEFINE err == IF live THEN "ok" ELSE "destroyed"
<1>1. /\ WakeAllStep(t, Event, err) \/ WakeAllEnd(t, Event)
      /\ UNCHANGED eventvars /\ err \in Returns
  BY DEF WakeAllLoop, Returns
<1>2. err = "ok" <=> live
  BY DEF EventInv
<1>3. t = k.cur /\ kpc[t] = "wake_all"
  BY <1>1 DEF WakeAllStep, WakeAllEnd, At
<1> HIDE DEF err
<1>4. /\ WaitInv(Event, "event")'
      /\ \/ /\ k.waitq[Event] = << >> /\ k'.waitq[Event] = k.waitq[Event] /\ Released' = Released
            /\ Moves(t, "unlock")
         \/ /\ k.waitq[Event] # << >> /\ k'.waitq[Event] = Tail(k.waitq[Event])
            /\ Released' = IF err = "ok" THEN Released \cup {Head(k.waitq[Event])} ELSE Released
            /\ kpc' = kpc
  BY <1>1, EventPoints, LoopWait DEF EventInv
<1>5. CASE k.waitq[Event] # << >>
  <2>1. kpc' = kpc /\ Waking
    BY <1>3, <1>4, <1>5 DEF Waking
  <2>2. k'.cur = k.cur
    BY <1>3, <1>4, <2>1 DEF WaitInv
  <2> QED
    BY <1>1, <1>2, <1>4, <1>5, <2>1, <2>2, DrainStep
<1>6. CASE k.waitq[Event] = << >>
  <2>1. \A u \in Threads : kpc'[u] \notin {"wake_all", "wake_quiet"}
    BY <1>3, <1>4, <1>6 DEF EventInv, WaitInv, WakersSignal, Moves
  <2> QED
    BY <1>1, <1>4, <1>6, <2>1, DrainedStep
<1> QED
  BY <1>5, <1>6

\* The loop without a reschedule.
LEMMA WakeQuietLoopStep ==
    ASSUME EventInv, NEW t \in Threads, WakeQuietLoop(t)
    PROVE  EventInv' /\ AbstractStep
<1>1. /\ At(t, "wake_quiet") /\ UNCHANGED eventvars /\ notify' = notify
      /\ t = k.cur /\ kpc[t] = "wake_quiet" /\ live /\ KernelInv
  BY DEF WakeQuietLoop, At, eventvars, EventInv, WakersSignal, WaitInv
<1>2. CASE k.waitq[Event] # << >>
  <2>1. k' = WakeHead(k, Event, "ok") /\ UNCHANGED <<kpc, irq, saved, notify>> /\ "ok" \in Returns
    BY <1>1, <1>2 DEF WakeQuietLoop, Returns
  <2>2. k.state[k.cur] = "running"
    BY <1>1 DEF KernelInv, SchedulerConsistent, CurrentRuns
  <2>3. KernelInv' /\ HeadWoken(Event, "ok") /\ k'.cur = k.cur /\ k'.state[k.cur] = k.state[k.cur]
    BY <1>1, <1>2, <2>1, <2>2, EventPoints, WakeKernel
  <2>4. kpc' = kpc
    BY <2>1
  <2>5. /\ k'.waitq[Event] = Tail(k.waitq[Event])
        /\ \A u \in Threads : u \in Range(k'.waitq[Event]) => kpc'[u] = "event"
        /\ Released' = Released \cup {Head(k.waitq[Event])}
    BY <1>2, <2>1, <2>3, <2>4, EventPoints, WokenWait DEF EventInv
  <2>6. WaitInv(Event, "event")'
    BY <1>1, <2>3, <2>4, <2>5 DEF EventInv, WaitInv
  <2>7. Waking
    BY <1>1 DEF Waking
  <2> QED
    BY <1>1, <1>2, <2>3, <2>4, <2>5, <2>6, <2>7, DrainStep
<1>3. CASE k.waitq[Event] = << >>
  <2>1. UnlockTo(t, "run") /\ k' = k
    BY <1>3 DEF WakeQuietLoop
  <2>2. KernelInv' /\ Moves(t, "run")
    BY <1>1, <2>1, EventPoints, ReturnKernel DEF WaitPoint
  <2>3. \A u \in Threads : /\ kpc'[u] = "event" <=> kpc[u] = "event"
                           /\ kpc'[u] \notin {"wake_all", "wake_quiet"}
    BY <1>1, <2>2 DEF Moves, EventInv, WaitInv, WakersSignal
  <2>4. WaitInv(Event, "event")' /\ Released' = Released
    BY <2>1, <2>2, <2>3 DEF EventInv, WaitInv, Released
  <2> QED
    BY <1>1, <1>3, <2>1, <2>3, <2>4, DrainedStep
<1> QED
  BY <1>2, <1>3

\* event_destroy, up to the loop.
LEMMA DestroyStep ==
    ASSUME EventInv, NEW t \in Threads, event_destroy(t), live
    PROVE  EventInv' /\ AbstractStep
<1>1. Calls(t) /\ signaled' = FALSE /\ auto' = FALSE /\ live' = FALSE /\ WakeAllBegin(t, Event)
  BY DEF event_destroy
<1>2. /\ Own(t) /\ t = k.cur /\ \A u \in Threads : kpc[u] \notin {"wake_all", "wake_quiet"}
  BY <1>1, CallerAlone
<1>3. /\ WaitInv(Event, "event")' /\ k'.waitq[Event] = k.waitq[Event] /\ Released' = Released
      /\ Moves(t, "wake_all") \/ (kpc' = kpc /\ k.waitq[Event] = << >>)
  BY <1>1, <1>2, EventPoints, BeginWait DEF EventInv, Still
<1>4. /\ \A u \in Threads : kpc'[u] # "wake_quiet"
      /\ ~Waking' => k'.waitq[Event] = << >>
  BY <1>2, <1>3 DEF Moves, Waking
<1>5. EventInv'
  <2>1. signaled' \in BOOLEAN /\ auto' \in BOOLEAN /\ live' \in BOOLEAN /\ ~live'
    BY <1>1, Zenon
  <2> QED
    BY <1>3, <1>4, <2>1 DEF EventInv, WakersSignal, NoSleeperLeftBehind
<1>6. Abstract!Close
  BY <1>1, <1>3 DEF Abstract!Close
<1> QED
  BY <1>5, <1>6 DEF AbstractStep, Abstract!Next

LEMMA EventStep == EventInv /\ [Next]_vars => EventInv' /\ AbstractStep
<1> SUFFICES ASSUME EventInv, [Next]_vars PROVE EventInv' /\ AbstractStep
  OBVIOUS
<1>1. ASSUME NEW t \in Threads, live, event_wait(t) \/ event_wait_timeout(t) \/ event_unsignal(t)
      PROVE  EventInv' /\ AbstractStep
  <2>1. CASE event_wait(t) /\ ~signaled
    BY <1>1, <2>1, EnterStep
  <2>2. CASE event_wait(t) /\ signaled
    BY <1>1, <2>2, PassStep DEF event_wait
  <2>3. CASE event_wait_timeout(t) \/ event_unsignal(t)
    BY <1>1, <2>3, PassStep DEF event_wait_timeout, event_unsignal
  <2> QED
    BY <1>1, <2>1, <2>2, <2>3
<1>2. ASSUME NEW t \in Threads, live, NEW r \in BOOLEAN, event_signal(t, r)
      PROVE  EventInv' /\ AbstractStep
  BY <1>2, SignalNobodyStep, SignalOneStep, SignalAllStep
<1>3. ASSUME NEW t \in Threads, EventOps(t)
      PROVE  EventInv' /\ AbstractStep
  BY <1>1, <1>2, <1>3, InitStep, ReturnStep, DestroyStep, WakeAllLoopStep, WakeQuietLoopStep
     DEF EventOps
<1>4. CASE UNCHANGED vars
  <2>1. /\ k' = k /\ kpc' = kpc /\ irq' = irq /\ saved' = saved /\ notify' = notify
        /\ signaled' = signaled /\ auto' = auto /\ live' = live
    BY <1>4 DEF vars
  <2>2. EventInv'
    BY <2>1 DEF EventInv, WaitInv, KernelInv, KernelTypeOK, SchedulerConsistent, CurrentRuns,
                LockDiscipline, Parked, WakersSignal, NoSleeperLeftBehind, Waking
  <2>3. UNCHANGED Abstract!evars
    BY <2>1 DEF Abstract!evars, Released
  <2> QED
    BY <2>2, <2>3 DEF AbstractStep
<1> QED
  BY <1>3, <1>4, KernelEventStep DEF Next

LEMMA EventInit == Init => EventInv /\ Abstract!Init
<1> SUFFICES ASSUME Init PROVE EventInv /\ Abstract!Init
  OBVIOUS
<1>1. /\ KernelInv /\ k.waitq[Event] = << >>
      /\ \A t \in Threads : kpc[t] \in {"run", "start"}
      /\ signaled = FALSE /\ auto = FALSE /\ live = FALSE
  BY InitKernelInv, EventPoints DEF Init
<1>2. Released = {} /\ Range(k.waitq[Event]) = {}
  BY <1>1 DEF Released, Range
<1>3. WaitInv(Event, "event") /\ ~Waking /\ \A t \in Threads : kpc[t] # "wake_quiet"
  BY <1>1, <1>2 DEF WaitInv, Waking
<1>4. signaled \in BOOLEAN /\ auto \in BOOLEAN /\ live \in BOOLEAN
  BY <1>1, Zenon
<1>5. EventInv
  BY <1>1, <1>3, <1>4 DEF EventInv, WakersSignal, NoSleeperLeftBehind
<1>6. Abstract!Init
  BY <1>1, <1>2 DEF Abstract!Init
<1> QED
  BY <1>5, <1>6

\* The inductive invariant holds in every reachable state.
THEOREM EventInvariant == Spec => []EventInv
  BY EventInit, EventStep, PTL DEF Spec

\* Nobody sleeps on an event that is signaled or destroyed, once the call that
\* signaled or destroyed it has left the lock.
THEOREM NobodyLeftAsleep == Spec => []NoSleeperLeftBehind
<1>1. EventInv => NoSleeperLeftBehind
  BY DEF EventInv
<1> QED
  BY <1>1, EventInvariant, PTL

\* Waiting for an event, event_signal with or without a reschedule, and
\* event_destroy leave the queues of thread.c consistent, and its lock balanced.
THEOREM EventKeepsKernel == Spec => [](SchedulerConsistent /\ LockDiscipline)
<1>1. EventInv => SchedulerConsistent /\ LockDiscipline
  BY DEF EventInv, WaitInv, KernelInv
<1> QED
  BY <1>1, EventInvariant, PTL

\* event.c on the scheduler of thread.c keeps the rules of event.h.
THEOREM EventImplements == Spec => EventKeepsRules
<1>1. EventInv /\ [Next]_vars => [Abstract!Next]_(Abstract!evars)
  BY EventStep DEF AbstractStep
<1> QED
  BY <1>1, EventInit, EventInvariant, PTL DEF Spec, EventKeepsRules, Abstract!Spec
-----------------------------------------------------------------------------
(* The timer.  Only timer_thread ever sleeps on timer->cond, so its queue  *)
(* is empty exactly when that thread is awake.                             *)

\* timer_thread is in the queue of timer->cond.
Asleep == k.waitq[Event] # << >>

\* Where timer_thread has left its loop for good.
Ending == {"destroy", "free", "exit", "gone"}

\* What the timer needs of the kernel and of the event.
CondInv ==
    /\ WaitInv(Event, "event")
    /\ \A t \in Threads : /\ kpc[t] # "wake_all" /\ kpc[t] # "wake_quiet"
                          /\ kpc[t] = "event" => t = TimerThread
                          /\ k.state[t] = "blocked" => t \in Range(k.waitq[Event])

\* How far timer_free has come bounds how far timer_thread may be.
Stages ==
    /\ armed => fpc = "idle"
    /\ stop <=> fpc \in {"stopped", "done"}
    /\ tpc \in Ending => stop
    /\ live <=> tpc \notin {"free", "exit", "gone"}
    /\ mem <=> tpc \notin {"exit", "gone"}
    /\ live => auto

\* A notification or a completed timer_free that timer_thread has not acted on
\* shows in e->signaled, or the thread has been woken and is about to look.
Pending ==
    due \/ fpc = "done" => signaled \/ tpc \in Ending \/ (tpc = "check" /\ ~Asleep)

\* The inductive invariant of LTimer.
TimerInv ==
    /\ CondInv /\ TimerTypeOK
    /\ kpc[TimerThread] = "event" => tpc = "check"
    /\ Asleep => ~signaled
    /\ Stages /\ Pending

\* timer_thread is asleep exactly when it is in the queue, and it is the queue.
LEMMA AsleepBlocked ==
    ASSUME CondInv
    PROVE  /\ Asleep <=> k.state[TimerThread] = "blocked"
           /\ Asleep => Head(k.waitq[Event]) = TimerThread /\ kpc[TimerThread] = "event"
<1>1. TimerThread \in Threads /\ KernelInv /\ Event \in Queues
  BY TimerAssumption, EventPoints DEF CondInv, WaitInv
<1>2. /\ k.waitq[Event] \in Seq(Threads) /\ NoDup(k.waitq[Event])
      /\ \A t \in Threads : t \in Range(k.waitq[Event]) => k.state[t] = "blocked"
  BY <1>1, QueueTyped
<1>3. Asleep => Head(k.waitq[Event]) \in Threads /\ Head(k.waitq[Event]) \in Range(k.waitq[Event])
  BY <1>2, TailFacts DEF Asleep
<1>4. Asleep => Head(k.waitq[Event]) = TimerThread /\ kpc[TimerThread] = "event"
  BY <1>3 DEF CondInv, WaitInv
<1>5. k.state[TimerThread] = "blocked" => Asleep
  BY <1>1 DEF CondInv, Asleep, Range
<1> QED
  BY <1>2, <1>3, <1>4, <1>5

\* The steps that neither put timer_thread to sleep nor wake it.
LEMMA CondStill ==
    ASSUME CondInv,
           \/ KernelNext
           \/ \E t, n \in Threads : ResumeStep(t, n)
           \/ UNCHANGED kvars /\ \E t \in Threads : Own(t) \/ Interruptible(t)
    PROVE  /\ CondInv' /\ Asleep' = Asleep
           /\ kpc'[TimerThread] = "event" <=> kpc[TimerThread] = "event"
<1>1. WaitInv(Event, "event")' /\ NoWaker' /\ Still(Event, "event")
  BY EventPoints, StillSteps DEF CondInv
<1>2. \A u \in Threads : kpc'[u] = "wake_quiet" <=> kpc[u] = "wake_quiet"
  BY EventPoints, ClientsStill DEF CondInv, WaitInv, WaitPoint
<1> QED
  BY <1>1, <1>2, TimerAssumption DEF CondInv, Still, NoWaker, Asleep
\* event_wait puts timer_thread to sleep.
LEMMA CondSleep ==
    ASSUME CondInv, Own(TimerThread), k' = wait_queue_block(k, TimerThread, Event),
           LockAndLeaveAt(TimerThread, "event"), UNCHANGED notify
    PROVE  CondInv' /\ Asleep' /\ kpc'[TimerThread] = "event"
<1>1. TimerThread \in Threads /\ TimerThread # Idle
  BY TimerAssumption
<1>2. /\ WaitInv(Event, "event")' /\ NoWaker'
      /\ k'.waitq[Event] = Append(k.waitq[Event], TimerThread)
  BY <1>1, EventPoints, BlockWait DEF CondInv
<1>3. Moves(TimerThread, "event") /\ OthersSleepOn(TimerThread)
  BY <1>1, EventPoints, BlockKernel DEF CondInv, WaitInv, WaitPoint
<1>4. Range(k'.waitq[Event]) = Range(k.waitq[Event]) \cup {TimerThread} /\ Asleep'
  <2>1. k.waitq[Event] \in Seq(Threads) /\ NoDup(k.waitq[Event])
    BY EventPoints, QueueTyped DEF CondInv, WaitInv
  <2> QED
    BY <1>1, <1>2, <2>1, AppendFacts DEF Asleep
<1> QED
  BY <1>1, <1>2, <1>3, <1>4 DEF CondInv, Moves, OthersSleepOn, NoWaker

\* A signal, of timer_free or of the notification, wakes it up.
LEMMA CondWake ==
    ASSUME CondInv, NEW t \in Threads, Asleep, k' = WakeOneResched(k, t, Event, "ok"),
           \/ Own(t) /\ LockAndLeaveAt(t, "unlock") /\ UNCHANGED notify
           \/ Interruptible(t) /\ irq' = FALSE /\ notify' = t /\ UNCHANGED <<kpc, saved>>
    PROVE  CondInv' /\ ~Asleep' /\ kpc'[TimerThread] = "event"
<1>1. /\ KernelInv /\ Event \in Queues /\ "ok" \in Returns /\ k.waitq[Event] # << >>
      /\ TimerThread \in Threads
  BY EventPoints, TimerAssumption DEF CondInv, WaitInv, Returns, Asleep
<1>2. /\ Head(k.waitq[Event]) = TimerThread /\ kpc[TimerThread] = "event"
      /\ k.state[TimerThread] = "blocked"
  BY AsleepBlocked
<1>3. KernelInv' /\ (Moves(t, "unlock") \/ kpc' = kpc) /\ HeadWoken(Event, "ok")
  BY <1>1, WakeReschedKernel
<1>4. t # TimerThread
  BY <1>2 DEF Own, At, Interruptible, OpenPoints
<1>5. /\ k'.state[TimerThread] # "blocked"
      /\ \A u \in Threads : u # TimerThread => k'.state[u] # "blocked"
  BY <1>2, <1>3 DEF HeadWoken, OthersSleepOn, CondInv, WaitInv
<1>6. k'.waitq[Event] = << >>
  <2> SUFFICES ASSUME k'.waitq[Event] # << >> PROVE FALSE
    OBVIOUS
  <2>1. /\ k'.waitq[Event] \in Seq(Threads) /\ NoDup(k'.waitq[Event])
        /\ \A u \in Threads : u \in Range(k'.waitq[Event]) => k'.state[u] = "blocked"
    <3>1. k'.waitq \in [Queues -> Seq(Threads)] /\ WaitQueues(k')
      BY <1>3 DEF KernelInv, SchedulerConsistent, QueueInv, KernelStates
    <3> QED
      BY <1>1, <3>1 DEF WaitQueues
  <2>2. /\ Head(k'.waitq[Event]) \in Threads
        /\ Head(k'.waitq[Event]) \in Range(k'.waitq[Event])
    BY <2>1, TailFacts
  <2> QED
    BY <1>5, <2>1, <2>2
<1>7. Range(k'.waitq[Event]) = {}
  BY <1>6 DEF Range
<1>8. \A u \in Threads : /\ kpc'[u] # "wake_all" /\ kpc'[u] # "wake_quiet"
                         /\ kpc'[u] = "event" <=> kpc[u] = "event"
  <2>1. kpc[t] # "event"
    BY <1>4 DEF CondInv
  <2> QED
    BY <1>3, <2>1 DEF Moves, CondInv
<1>9. WaitInv(Event, "event")'
  BY <1>3, <1>7, <1>8 DEF WaitInv
<1>10. \A u \in Threads : k'.state[u] # "blocked"
  BY <1>5
<1> QED
  BY <1>1, <1>2, <1>6, <1>8, <1>9, <1>10 DEF CondInv, Asleep
\* The return from wait_queue_block.
LEMMA CondReturn ==
    ASSUME CondInv, EventWaitReturn(TimerThread)
    PROVE  CondInv' /\ ~Asleep /\ ~Asleep' /\ kpc'[TimerThread] # "event"
<1>1. /\ At(TimerThread, "event") /\ UnlockTo(TimerThread, "run") /\ UNCHANGED <<k, notify>>
      /\ TimerThread \in Threads
  BY TimerAssumption DEF EventWaitReturn
<1>2. WaitInv(Event, "event")' /\ NoWaker'
  BY <1>1, EventPoints, ReturnWait DEF CondInv
<1>3. Moves(TimerThread, "run") /\ k.state[TimerThread] = "running" /\ k' = k
  BY <1>1, EventPoints, ReturnKernel DEF CondInv, WaitInv, WaitPoint
<1>4. ~Asleep /\ ~Asleep'
  BY <1>3, AsleepBlocked DEF Asleep
<1> QED
  BY <1>1, <1>2, <1>3, <1>4 DEF CondInv, Moves, NoWaker

\* The end of the detached thread.
LEMMA CondExit ==
    ASSUME CondInv, Own(TimerThread),
           k' = thread_resched([k EXCEPT !.state[TimerThread] = "dead"]),
           LockAndLeaveAt(TimerThread, "done"), UNCHANGED notify
    PROVE  CondInv' /\ Asleep' = Asleep /\ kpc'[TimerThread] # "event"
<1>1. TimerThread \in Threads /\ TimerThread # Idle /\ KernelInv /\ kpc[TimerThread] = "run"
  BY TimerAssumption DEF CondInv, WaitInv, Own, At
<1>2. /\ KernelInv' /\ SameWaits(k, k') /\ Moves(TimerThread, "done")
      /\ \A u \in Threads : k'.state[u] = "blocked" <=> k.state[u] = "blocked"
  BY <1>1, ExitKernel
<1>3. \A u \in Threads : u \in Range(k'.waitq[Event]) => kpc'[u] = "event"
  BY <1>1, <1>2 DEF CondInv, WaitInv, Moves, SameWaits
<1> QED
  BY <1>1, <1>2, <1>3 DEF CondInv, WaitInv, Moves, SameWaits, Asleep

\* timer_thread in its own code is awake.
LEMMA OwnAwake ==
    ASSUME CondInv, Own(TimerThread)
    PROVE  ~Asleep /\ kpc[TimerThread] # "event" /\ TimerThread # Idle /\ TimerThread \in Threads
<1>1. TimerThread \in Threads /\ TimerThread # Idle
  BY TimerAssumption
<1>2. k.state[TimerThread] = "running" /\ kpc[TimerThread] = "run"
  BY <1>1, OwnRuns DEF CondInv, WaitInv
<1> QED
  BY <1>1, <1>2, AsleepBlocked
-----------------------------------------------------------------------------
\* A step that neither puts timer_thread to sleep nor wakes it keeps TimerInv if
\* what it does to the timer is legal.
LEMMA TimerStill ==
    ASSUME TimerInv,
           \/ KernelNext
           \/ \E t, n \in Threads : ResumeStep(t, n)
           \/ UNCHANGED kvars /\ \E t \in Threads : Own(t) \/ Interruptible(t)
    PROVE  /\ CondInv' /\ KernelTypeOK' /\ Asleep' = Asleep
           /\ kpc'[TimerThread] = "event" <=> kpc[TimerThread] = "event"
<1>1. /\ CondInv' /\ Asleep' = Asleep
      /\ kpc'[TimerThread] = "event" <=> kpc[TimerThread] = "event"
  BY CondStill DEF TimerInv
<1> QED
  BY <1>1 DEF CondInv, WaitInv, KernelInv

\* The processor, thread_yield and thread_resume.
LEMMA TimerKernelStep ==
    ASSUME TimerInv, UNCHANGED <<eventvars, tpc, stop, armed, mem, due>>,
           KernelNext \/ \E t, n \in Threads : ResumeStep(t, n),
           fpc' = fpc \/ (fpc = "alloc" /\ fpc' = "idle")
    PROVE  TimerInv'
<1>1. /\ CondInv' /\ KernelTypeOK' /\ Asleep' = Asleep
      /\ kpc'[TimerThread] = "event" <=> kpc[TimerThread] = "event"
  BY TimerStill
<1>2. /\ signaled' = signaled /\ auto' = auto /\ live' = live /\ tpc' = tpc
      /\ stop' = stop /\ armed' = armed /\ mem' = mem /\ due' = due
  BY DEF eventvars
<1>3. TimerTypeOK'
  BY <1>1, <1>2 DEF TimerInv, TimerTypeOK, TypeOK
<1> QED
  BY <1>1, <1>2, <1>3 DEF TimerInv, Stages, Pending, Ending

\* timer_set_oneshot.
LEMMA TimerSetStep ==
    ASSUME TimerInv, timer_set_oneshot
    PROVE  TimerInv'
<1>1. /\ fpc = "idle" /\ UNCHANGED kvars /\ armed' = TRUE /\ \E t \in Threads : Own(t)
      /\ signaled' = signaled /\ auto' = auto /\ live' = live /\ tpc' = tpc
      /\ stop' = stop /\ fpc' = fpc /\ mem' = mem /\ due' = due
  BY SchedAssumption, TimerAssumption DEF timer_set_oneshot, eventvars
<1>2. /\ CondInv' /\ KernelTypeOK' /\ Asleep' = Asleep
      /\ kpc'[TimerThread] = "event" <=> kpc[TimerThread] = "event"
  BY <1>1, TimerStill
<1>3. armed' \in BOOLEAN
  BY <1>1, Zenon
<1>4. TimerTypeOK'
  BY <1>1, <1>2, <1>3 DEF TimerInv, TimerTypeOK, TypeOK
<1> QED
  BY <1>1, <1>2, <1>4 DEF TimerInv, Stages, Pending, Ending
\* event_signal, from timer_free or from the notification: it wakes timer_thread
\* or leaves the signal for it.
LEMMA CondSignal ==
    ASSUME TimerInv, SignalFlag, NEW t \in Threads,
           IF signaled \/ k.waitq[Event] = << >>
           THEN UNCHANGED kvars /\ (Own(t) \/ Interruptible(t))
           ELSE /\ k' = WakeOneResched(k, t, Event, "ok")
                /\ \/ Own(t) /\ LockAndLeaveAt(t, "unlock") /\ UNCHANGED notify
                   \/ Interruptible(t) /\ irq' = FALSE /\ notify' = t /\ UNCHANGED <<kpc, saved>>
    PROVE  /\ CondInv' /\ KernelTypeOK' /\ ~Asleep' /\ signaled' \in BOOLEAN
           /\ kpc'[TimerThread] = "event" <=> kpc[TimerThread] = "event"
           /\ signaled' \/ tpc = "check"
<1>1. CASE ~Asleep
  <2>1. UNCHANGED kvars /\ (Own(t) \/ Interruptible(t)) /\ signaled'
    BY <1>1 DEF Asleep, SignalFlag
  <2>2. /\ CondInv' /\ KernelTypeOK' /\ Asleep' = Asleep
        /\ kpc'[TimerThread] = "event" <=> kpc[TimerThread] = "event"
    BY <2>1, TimerStill
  <2>3. signaled' \in BOOLEAN
    BY DEF SignalFlag, TimerInv, TimerTypeOK, TypeOK
  <2> QED
    BY <1>1, <2>1, <2>2, <2>3
<1>2. CASE Asleep
  <2>1. ~signaled /\ k.waitq[Event] # << >> /\ kpc[TimerThread] = "event" /\ tpc = "check"
    BY <1>2, AsleepBlocked DEF TimerInv, Asleep
  <2>2. CondInv' /\ ~Asleep' /\ kpc'[TimerThread] = "event"
    BY <1>2, <2>1, CondWake DEF TimerInv
  <2>3. signaled' \in BOOLEAN
    BY DEF SignalFlag, TimerInv, TimerTypeOK, TypeOK
  <2> QED
    BY <2>1, <2>2, <2>3 DEF CondInv, WaitInv, KernelInv
<1> QED
  BY <1>1, <1>2

\* LTimerCallback, in whatever thread the notification finds.
LEMMA TimerNotifyStep ==
    ASSUME TimerInv, NEW t \in Threads, LTimerCallback(t)
    PROVE  TimerInv'
<1>1. /\ armed /\ armed' = FALSE /\ due' = TRUE /\ auto' = auto /\ live' = live
      /\ tpc' = tpc /\ fpc' = fpc /\ stop' = stop /\ mem' = mem
  BY DEF LTimerCallback
<1>2. /\ CondInv' /\ KernelTypeOK' /\ ~Asleep' /\ signaled' \in BOOLEAN
      /\ kpc'[TimerThread] = "event" <=> kpc[TimerThread] = "event"
      /\ signaled' \/ tpc = "check"
  BY CondSignal DEF LTimerCallback
<1>3. armed' \in BOOLEAN /\ due' \in BOOLEAN /\ ~armed'
  BY <1>1, Zenon
<1>4. TimerTypeOK'
  BY <1>1, <1>2, <1>3 DEF TimerInv, TimerTypeOK, TypeOK
<1> QED
  BY <1>1, <1>2, <1>3, <1>4 DEF TimerInv, Stages, Pending, Ending

\* timer_free.
LEMMA TimerFreeStep ==
    ASSUME TimerInv, timer_free
    PROVE  TimerInv'
<1>0. Own(Boot) /\ Boot \in Threads /\ tpc' = tpc /\ mem' = mem /\ due' = due
  BY SchedAssumption DEF timer_free
<1>1. CASE /\ fpc = "idle" /\ fpc' = "closed" /\ armed' = FALSE
           /\ UNCHANGED <<kvars, eventvars, stop>>
  <2>1. signaled' = signaled /\ auto' = auto /\ live' = live /\ stop' = stop /\ UNCHANGED kvars
    BY <1>1 DEF eventvars
  <2>2. /\ CondInv' /\ KernelTypeOK' /\ Asleep' = Asleep
        /\ kpc'[TimerThread] = "event" <=> kpc[TimerThread] = "event"
    BY <1>0, <2>1, TimerStill
  <2>3. armed' \in BOOLEAN /\ ~armed'
    BY <1>1, Zenon
  <2>4. TimerTypeOK'
    BY <1>0, <1>1, <2>1, <2>2, <2>3 DEF TimerInv, TimerTypeOK, TypeOK
  <2> QED
    BY <1>0, <1>1, <2>1, <2>2, <2>3, <2>4 DEF TimerInv, Stages, Pending, Ending
<1>2. CASE /\ fpc = "closed" /\ fpc' = "stopped" /\ stop' = TRUE
           /\ UNCHANGED <<kvars, eventvars, armed>>
  <2>1. signaled' = signaled /\ auto' = auto /\ live' = live /\ armed' = armed /\ UNCHANGED kvars
    BY <1>2 DEF eventvars
  <2>2. /\ CondInv' /\ KernelTypeOK' /\ Asleep' = Asleep
        /\ kpc'[TimerThread] = "event" <=> kpc[TimerThread] = "event"
    BY <1>0, <2>1, TimerStill
  <2>3. stop' \in BOOLEAN /\ stop'
    BY <1>2, Zenon
  <2>4. TimerTypeOK'
    BY <1>0, <1>2, <2>1, <2>2, <2>3 DEF TimerInv, TimerTypeOK, TypeOK
  <2> QED
    BY <1>0, <1>2, <2>1, <2>2, <2>3, <2>4 DEF TimerInv, Stages, Pending, Ending
<1>3. CASE /\ fpc = "stopped" /\ fpc' = "done" /\ event_signal(Boot, TRUE)
           /\ UNCHANGED <<stop, armed>>
  <2>1. auto' = auto /\ live' = live /\ stop' = stop /\ armed' = armed /\ SignalFlag
    BY <1>3 DEF event_signal
  <2>2. Asleep => auto
    <3>1. Asleep => tpc = "check"
      BY AsleepBlocked DEF TimerInv
    <3> QED
      BY <3>1 DEF TimerInv, Stages
  <2>3. IF signaled \/ k.waitq[Event] = << >>
        THEN UNCHANGED kvars /\ (Own(Boot) \/ Interruptible(Boot))
        ELSE /\ k' = WakeOneResched(k, Boot, Event, "ok")
             /\ Own(Boot) /\ LockAndLeaveAt(Boot, "unlock") /\ UNCHANGED notify
    BY <1>0, <1>3, <2>2 DEF event_signal, Asleep
  <2>4. /\ CondInv' /\ KernelTypeOK' /\ ~Asleep' /\ signaled' \in BOOLEAN
        /\ kpc'[TimerThread] = "event" <=> kpc[TimerThread] = "event"
        /\ signaled' \/ tpc = "check"
    BY <1>0, <2>1, <2>3, CondSignal
  <2>5. TimerTypeOK'
    BY <1>0, <1>3, <2>1, <2>4 DEF TimerInv, TimerTypeOK, TypeOK
  <2> QED
    BY <1>0, <1>3, <2>1, <2>4, <2>5 DEF TimerInv, Stages, Pending, Ending
<1> QED
  BY <1>1, <1>2, <1>3 DEF timer_free
\* The steps of timer_thread that touch neither the kernel nor the event.
LEMMA TimerPlainStep ==
    ASSUME TimerInv, Own(TimerThread), UNCHANGED <<kvars, eventvars, fpc, stop, armed>>,
           \/ tpc = "loop" /\ tpc' = (IF stop THEN "destroy" ELSE "wait") /\ UNCHANGED <<mem, due>>
           \/ tpc = "check" /\ stop /\ tpc' = "destroy" /\ UNCHANGED <<mem, due>>
           \/ tpc = "check" /\ ~stop /\ tpc' = "fn" /\ due' = FALSE /\ UNCHANGED mem
           \/ tpc = "fn" /\ tpc' = "loop" /\ UNCHANGED <<mem, due>>
           \/ tpc = "free" /\ tpc' = "exit" /\ mem' = FALSE /\ UNCHANGED due
    PROVE  TimerInv'
<1>1. /\ signaled' = signaled /\ auto' = auto /\ live' = live /\ fpc' = fpc /\ stop' = stop
      /\ armed' = armed /\ UNCHANGED kvars
  BY DEF eventvars
<1>2. ~Asleep /\ kpc[TimerThread] # "event" /\ TimerThread \in Threads
  BY OwnAwake DEF TimerInv
<1>3. CondInv' /\ KernelTypeOK' /\ ~Asleep' /\ kpc'[TimerThread] # "event"
  BY <1>1, <1>2, TimerStill
<1>4. /\ (mem' = mem \/ (mem' = FALSE /\ ~mem')) /\ mem' \in BOOLEAN
      /\ (due' = due \/ (due' = FALSE /\ ~due')) /\ due' \in BOOLEAN
  BY Zenon DEF TimerInv, TimerTypeOK
<1>5. TimerTypeOK'
  BY <1>1, <1>3, <1>4 DEF TimerInv, TimerTypeOK, TypeOK
<1>6. Stages'
  BY <1>1, <1>4 DEF TimerInv, Stages, Ending, TimerTypeOK
<1>7. Pending'
  BY <1>1, <1>3, <1>4 DEF TimerInv, Pending, Stages, Ending
<1> QED
  BY <1>3, <1>5, <1>6, <1>7 DEF TimerInv

\* event_wait: timer_thread sleeps only if nothing is pending.
LEMMA TimerWaitStep ==
    ASSUME TimerInv, Own(TimerThread), tpc = "wait", tpc' = "check", event_wait(TimerThread),
           UNCHANGED <<fpc, stop, armed, mem, due>>
    PROVE  TimerInv'
<1>1. ~Asleep /\ kpc[TimerThread] # "event" /\ TimerThread \in Threads
  BY OwnAwake DEF TimerInv
<1>2. auto' = auto /\ live' = live
  BY DEF event_wait
<1>3. CASE signaled
  <2>1. signaled' = ~auto /\ UNCHANGED kvars
    BY <1>3 DEF event_wait
  <2>2. CondInv' /\ KernelTypeOK' /\ ~Asleep' /\ kpc'[TimerThread] # "event"
    BY <1>1, <2>1, TimerStill
  <2>3. signaled' \in BOOLEAN
    BY <2>1
  <2>4. TimerTypeOK'
    BY <1>2, <2>2, <2>3 DEF TimerInv, TimerTypeOK, TypeOK
  <2> QED
    BY <1>2, <2>2, <2>4 DEF TimerInv, Stages, Pending, Ending
<1>4. CASE ~signaled
  <2>1. /\ k' = wait_queue_block(k, TimerThread, Event) /\ LockAndLeaveAt(TimerThread, "event")
        /\ signaled' = signaled /\ UNCHANGED notify
    BY <1>4 DEF event_wait
  <2>2. CondInv' /\ Asleep' /\ kpc'[TimerThread] = "event"
    BY <2>1, CondSleep DEF TimerInv
  <2>3. TimerTypeOK'
    BY <1>2, <2>1, <2>2 DEF TimerInv, TimerTypeOK, TypeOK, CondInv, WaitInv, KernelInv
  <2>4. ~due /\ fpc # "done"
    BY <1>4 DEF TimerInv, Pending, Ending
  <2> QED
    BY <1>2, <1>4, <2>1, <2>2, <2>3, <2>4 DEF TimerInv, Stages, Pending, Ending
<1> QED
  BY <1>3, <1>4

\* event_destroy: nobody is left to be sent away.
LEMMA TimerDestroyStep ==
    ASSUME TimerInv, Own(TimerThread), tpc = "destroy", tpc' = "free", event_destroy(TimerThread),
           UNCHANGED <<fpc, stop, armed, mem, due>>
    PROVE  TimerInv'
<1>1. ~Asleep /\ kpc[TimerThread] # "event" /\ TimerThread \in Threads
  BY OwnAwake DEF TimerInv
<1>2. signaled' = FALSE /\ auto' = FALSE /\ live' = FALSE /\ WakeAllBegin(TimerThread, Event)
  BY DEF event_destroy
<1>3. UNCHANGED kvars
  <2>1. WaitQueues(k) /\ Event \in Queues
    BY EventPoints DEF TimerInv, CondInv, WaitInv, KernelInv, SchedulerConsistent, QueueInv
  <2>2. k.wcount[Event] = 0
    BY <1>1, <2>1 DEF WaitQueues, Asleep
  <2> QED
    BY <1>2, <2>2 DEF WakeAllBegin, kvars
<1>4. CondInv' /\ KernelTypeOK' /\ ~Asleep' /\ kpc'[TimerThread] # "event"
  BY <1>1, <1>3, TimerStill
<1>5. /\ signaled' \in BOOLEAN /\ auto' \in BOOLEAN /\ live' \in BOOLEAN
      /\ ~signaled' /\ ~auto' /\ ~live'
  BY <1>2, Zenon
<1>6. TimerTypeOK'
  BY <1>4, <1>5 DEF TimerInv, TimerTypeOK, TypeOK
<1> QED
  BY <1>4, <1>5, <1>6 DEF TimerInv, Stages, Pending, Ending

\* The end of timer_thread.
LEMMA TimerExitStep ==
    ASSUME TimerInv, Own(TimerThread), tpc = "exit", tpc' = "gone",
           k' = thread_resched([k EXCEPT !.state[TimerThread] = "dead"]),
           LockAndLeaveAt(TimerThread, "done"),
           UNCHANGED <<eventvars, notify, fpc, stop, armed, mem, due>>
    PROVE  TimerInv'
<1>1. ~Asleep
  BY OwnAwake DEF TimerInv
<1>2. CondInv' /\ ~Asleep' /\ kpc'[TimerThread] # "event"
  BY <1>1, CondExit DEF TimerInv
<1>3. signaled' = signaled /\ auto' = auto /\ live' = live
  BY DEF eventvars
<1>4. TimerTypeOK'
  BY <1>2, <1>3 DEF TimerInv, TimerTypeOK, TypeOK, CondInv, WaitInv, KernelInv
<1> QED
  BY <1>2, <1>3, <1>4 DEF TimerInv, Stages, Pending, Ending

\* timer_thread's return from its sleep.
LEMMA TimerReturnStep ==
    ASSUME TimerInv, EventReturn
    PROVE  TimerInv'
<1>1. /\ signaled' = signaled /\ auto' = auto /\ live' = live /\ tpc' = tpc /\ fpc' = fpc
      /\ stop' = stop /\ armed' = armed /\ mem' = mem /\ due' = due
  BY DEF EventReturn, EventWaitReturn, timervars
<1>2. CondInv' /\ ~Asleep /\ ~Asleep' /\ kpc'[TimerThread] # "event"
  BY CondReturn DEF TimerInv, EventReturn
<1>3. TimerTypeOK'
  BY <1>1, <1>2 DEF TimerInv, TimerTypeOK, TypeOK, CondInv, WaitInv, KernelInv
<1> QED
  BY <1>1, <1>2, <1>3 DEF TimerInv, Stages, Pending, Ending

LEMMA TimerStep == TimerInv /\ [TimerNext]_tvars => TimerInv'
<1> SUFFICES ASSUME TimerInv, [TimerNext]_tvars PROVE TimerInv'
  OBVIOUS
<1>1. CASE TimerLoop
  BY <1>1, TimerPlainStep, TimerWaitStep, TimerDestroyStep, TimerExitStep DEF TimerLoop
<1>2. CASE timer_alloc
  BY <1>2, TimerKernelStep, SchedAssumption, TimerAssumption DEF timer_alloc
<1>3. CASE Processor \/ \E t \in Threads : Yield(t)
  BY <1>3, TimerKernelStep DEF Processor, Yield, KernelNext, timervars
<1>4. CASE UNCHANGED tvars
  <2>1. /\ k' = k /\ kpc' = kpc /\ irq' = irq /\ saved' = saved /\ notify' = notify
        /\ signaled' = signaled /\ auto' = auto /\ live' = live /\ tpc' = tpc /\ fpc' = fpc
        /\ stop' = stop /\ armed' = armed /\ mem' = mem /\ due' = due
    BY <1>4 DEF tvars
  <2>2. CondInv'
    BY <2>1 DEF TimerInv, CondInv, WaitInv, KernelInv, KernelTypeOK, SchedulerConsistent,
                CurrentRuns, LockDiscipline, Parked
  <2> QED
    BY <2>1, <2>2 DEF TimerInv, TimerTypeOK, TypeOK, KernelTypeOK, Stages, Pending, Asleep
<1> QED
  BY <1>1, <1>2, <1>3, <1>4, TimerSetStep, TimerFreeStep, TimerNotifyStep, TimerReturnStep
     DEF TimerNext

LEMMA TimerStart == TimerInit => TimerInv
<1> SUFFICES ASSUME TimerInit PROVE TimerInv
  OBVIOUS
<1>1. /\ KernelInv /\ k.waitq[Event] = << >>
      /\ \A t \in Threads : kpc[t] \in {"run", "start"}
      /\ signaled = FALSE /\ auto = TRUE /\ live = TRUE /\ tpc = "loop" /\ fpc = "alloc"
      /\ stop = FALSE /\ armed = FALSE /\ mem = TRUE /\ due = FALSE
  BY InitKernelInv, EventPoints DEF TimerInit
<1>2. \A t \in Threads : k.state[t] # "blocked"
  BY DEF TimerInit, InitKernel, InitialState
<1>3. Range(k.waitq[Event]) = {} /\ ~Asleep
  BY <1>1 DEF Range, Asleep
<1>4. CondInv
  BY <1>1, <1>2, <1>3 DEF CondInv, WaitInv
<1>5. /\ signaled \in BOOLEAN /\ auto \in BOOLEAN /\ live \in BOOLEAN /\ stop \in BOOLEAN
      /\ armed \in BOOLEAN /\ mem \in BOOLEAN /\ due \in BOOLEAN
      /\ ~signaled /\ auto /\ live /\ ~stop /\ ~armed /\ mem /\ ~due
  BY <1>1, Zenon
<1>6. TimerTypeOK
  BY <1>1, <1>5 DEF TimerTypeOK, TypeOK, KernelInv
<1>7. TimerThread \in Threads /\ kpc[TimerThread] # "event"
  BY <1>1, TimerAssumption
<1> QED
  BY <1>1, <1>3, <1>4, <1>5, <1>6, <1>7 DEF TimerInv, Stages, Pending, Ending

\* The inductive invariant holds in every reachable state.
THEOREM TimerInvariant == TimerSpec => []TimerInv
  BY TimerStart, TimerStep, PTL DEF TimerSpec

\* The switch inside the notification of LTimerCallback keeps the discipline of
\* thread_lock, in whatever thread the notification is delivered.
THEOREM TimerKeepsDiscipline == TimerSpec => []LockDiscipline
<1>1. TimerInv => LockDiscipline
  BY DEF TimerInv, CondInv, WaitInv, KernelInv
<1> QED
  BY <1>1, TimerInvariant, PTL

\* The switch inside the notification, and timer_thread's waits, keep the queues
\* of thread.c consistent.
THEOREM TimerKeepsScheduler == TimerSpec => []SchedulerConsistent
<1>1. TimerInv => SchedulerConsistent
  BY DEF TimerInv, CondInv, WaitInv, KernelInv
<1> QED
  BY <1>1, TimerInvariant, PTL

\* The firmware never holds a timer whose Context timer_thread has freed.
THEOREM ContextNeverFreed == TimerSpec => []ContextValid
<1>1. TimerInv => ContextValid
  BY DEF TimerInv, Stages, ContextValid, Ending
<1> QED
  BY <1>1, TimerInvariant, PTL

\* timer_thread never sleeps through a notification or a timer_free.
THEOREM NoWakeupMissed == TimerSpec => []NoMissedWakeup
<1>1. TimerInv => NoMissedWakeup
  <2> SUFFICES ASSUME TimerInv, k.state[TimerThread] = "blocked"
               PROVE  ~signaled /\ ~due /\ fpc # "done"
    BY DEF NoMissedWakeup
  <2>1. Asleep /\ tpc = "check"
    BY AsleepBlocked DEF TimerInv
  <2> QED
    BY <2>1 DEF TimerInv, Pending, Ending
<1> QED
  BY <1>1, TimerInvariant, PTL
=============================================================================
