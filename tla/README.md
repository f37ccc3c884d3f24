# LKL for UEFI: a verification project

The program is a UEFI driver that runs the Linux kernel as a library (LKL) and
offers the file systems Linux can mount (ext4, f2fs, ntfs, ..., also on
dm-crypt) as `EFI_SIMPLE_FILE_SYSTEM_PROTOCOL`.  LKL wants threads, semaphores,
mutexes and timers from its host; UEFI has none, so the driver carries a
cut-down copy of the lk ("little kernel") scheduler and preempts its threads
from a UEFI timer event.  This directory holds TLA+ modules that model the
driver, TLC configurations that check them on small instances, and TLAPS proofs.

`tlc -config X.cfg M` runs one configuration (PROJECT.json says which module
goes with which), `tlapm M.tla` checks the proofs of a module.

## 1. Inventory

| component | source | state | operations | module |
|---|---|---|---|---|
| lk scheduler | `lk/kernel/thread.c` | run queues, bitmap, current thread, quantum | `get_top_thread`, `thread_resched`, `thread_yield`, `thread_preempt`, `thread_timer_tick`, idle thread | `LKSched`, `LKKernel` |
| lk wait queues | `thread.c`, `wait.h` | list and count of each queue | block, wake one, wake all, destroy | `LKSched`, `LKKernel` |
| lk threads | `thread.c`, `arch_thread.c` | state, priority, detached flag, stack and `thread_t` memory | create, resume, exit, join, detach, set_priority | `LKThread` |
| lk semaphores | `lk/kernel/semaphore.c`, `UefiHost.c` | count | init, wait, trywait, timedwait, post, destroy | `LKSemaphore` |
| lk mutexes | `lk/kernel/mutex.c`, `UefiHost.c` | count, holder | init, acquire, release, destroy | `LKMutex` |
| lk events | `lk/kernel/event.c` | signaled, flags | init, wait, signal, unsignal, destroy | `LKEvent` |
| host timers | `UefiHost.c` | firmware event, `request_stop`, `ltimer_t` memory | alloc, set_oneshot, free, notification, thread | `LTimer` |
| driver binding | `LKL.c` | opened protocols, `LKLFsLock` | Supported, Start, Stop, Unload | `LKLVolume` |
| volumes, disk encryption | `Init.c`, `OpenVolume.c`, `dmcrypt.c` | `LKL_VOLUME`, Linux disk, device nodes, dm-crypt device, mount | allocate, abandon, open | `LKLVolume` |
| file handles | `Open.c`, `Flush.c`, `ReadWrite.c`, `Info.c` | descriptor, directory stream and kept entry, path | open, create, close, delete, read, write, position, info | `LKLFile` |
| paths | `Misc.c`, `Open.c` | the path being resolved | `RealPath`, its helpers, and what `LKLOpen` does with the result | `LKLPath` |
| times | `Misc.c` | none | conversions between `EFI_TIME` and seconds, validity | `LKLTime` |
| block device | `UefiHost.c` | the request in progress | capacity, `do_rw`, request | `LKLDisk` |
| probing | `filesystems/` | the search in progress, its buffer | `GetFsType`, `GetFsTypeLKL` | `LKLDisk` |
| error table, collation, names, context switch, debug | `Misc.c`, `UnicodeCollation.c`, `ComponentName.c`, `Arm/`, `lk/debug.c` | none, or tables | | not modelled |

How they interact.  LKL calls the host operations of `UefiHost.c` from its
threads; those are thin wrappers around lk's objects, and every lk object is a
wait queue plus a counter or a flag, manipulated under `THREAD_LOCK`.  The
firmware delivers two kinds of timer notification at `TPL_CALLBACK`, on top of
whatever thread runs with interrupts on: `TimerCallback` ticks and preempts,
`LTimerCallback` signals the event of one host timer.  The firmware also calls
the driver binding; Start builds a volume in the Linux kernel by a chain of
system calls, any of which may fail, and reads its own device and, for the key of an
encrypted volume, a file of another volume.  A media change on either may make
the firmware call Stop and Start again inside the running Start, for that other
controller or for the same one (`LKL.c:356-360`).

What is hard here, and what makes each part correct:

- scheduler and threads: preemption between any two instructions outside the
  lock; threads that continue inside critical sections they entered long ago;
  memory of threads freed by another thread.  Queues, bitmap and thread states
  agree; interrupts are off in every critical section; a thread is freed once,
  dead, and referenced by nobody; no joiner is forgotten; the highest ready
  priority runs.
- semaphores, mutexes, events: the hand-over to a woken thread that has not run
  yet; timeouts that back out; destruction with waiters; callers that try again on
  a destroyed object or lock a mutex twice.  No unit lost or
  invented, one owner, no sleeper left behind, waiters return.
- timers: a notification against the loop of the timer thread, `timer_free`
  against both.  No wake-up missed, no freed timer reachable from the firmware,
  the timer freed in the end.
- volumes: eight steps that may fail with one clean-up for all of them,
  re-entrant Start and Stop, files that stay open across Stop.  It is known exactly
  what a failed Start leaves behind, nothing is torn down under something that uses
  it, the lock is balanced.
- files: what a handle remembers between two calls, while other handles delete and
  create the same names.  Every directory entry delivered once whatever buffers
  are offered, descriptors balanced when an open fails half-way, times read back as
  they were stored.
- paths: links that lead to each other, out of the mount point and through `..`.
  `RealPath` finds what Linux would find, ends, and it is known which handles are
  not on a file of the volume.
- disk: errors in the middle of a request or of the search, and a medium
  exchanged between any two calls of the firmware.  The first file system that can be
  read is found, requests move exactly what they name, and no other medium is
  written.

## 2. Modules

`LKSched` holds the code that runs inside the lock as pure operators on a record
`k` (states, priorities, quanta, run queues, bitmap, wait queues, current
thread).  A call such as `wait_queue_block` is a function from the kernel state
before to the kernel state at the end of the switch, so each definition can be
read next to its C function.

`LKKernel` adds the processor: `kpc[t]` says where thread `t` stands, `irq` and
`saved[t]` are the interrupt flag and the copy `THREAD_LOCK` keeps, `notify` is
the thread caught inside a notification.  Code between `THREAD_LOCK` and
`THREAD_UNLOCK` is one step up to the point where it switches threads; the
thread switched to goes on from its own earlier switch, a point such as
`"unlock"`, `"join"` or `"sem_wait"`, with the lock held.  A wake-all loop is
one step per iteration.  The build is the one of `LKL.inf`: one processor, `LK_DEBUGLEVEL` 0,
so assertions and debug checks are compiled out and are not guards, except where
they state what callers must observe (the holder destroys a mutex).

`LKThread`, `LKSemaphore`, `LKMutex`, `LKEvent` extend `LKKernel`, each with one
class of objects; what their operations have in common, a thread other than
the idle thread that has the processor, is `Calls(t)` of `LKKernel`.  `LTimer` extends
`LKEvent` and adds to the one event the firmware timer, the timer thread and its
owner; its specification is `TimerSpec`.  The names of `LKMutex` begin with `m` or
`Mutex` where `LKSemaphore` has the same ones, so that one module can reason about
both.  In `LKSemaphore`, `stray` is the set of threads that the destruction of the
semaphore has sent round the loop of `sem_down` once more: their next `sem_wait` is on
memory that is gone (`SemWaitGone`), or holds a new semaphore by then.
`SemaphoreSpec` and `EventSpec` are the abstract specifications: a first-come
first-served counting semaphore, and the rules of `event.h`.  They know nothing
of threads' states, counts below zero or interrupts; the detailed modules are
shown to implement them, the mutex as a semaphore of one unit (`Lock`).

`LKLVolume` is independent of the scheduler: the driver binding runs at
`TPL_APPLICATION` in the caller's context.  Its `stack` holds the calls of Start
in progress, innermost last, each with its position in `LKLAllocateVolume`.  A
volume has the set of things that exist for it in the Linux kernel (`has`) and the
set of strings written in its structure (`named`), because the clean-up decides
from the strings.  `left` is what freed volumes have left in the Linux kernel, `lost` the
key files that nobody will close.  `MediaChange` is the firmware's side of the comment
at `LKL.c:356-360`: the medium of the running Start changes, Stop finds no protocol to
remove, the devices the driver has open are closed, and Start may be called
for the same handle inside the running one.

`LKLFile` is one mounted volume under the file protocol: the table of inodes, the
names that lead to them and the open descriptors are Linux's (external), the
handles are the driver's.  Calls do not overlap (they run in the caller's
context and the driver keeps no state outside the handle), so a call is one step;
`LKLSetFileInfo` is a chain of early returns, each with what has been changed by
then.  A volume may hold a file without write permission from the beginning; the
driver makes none (`Open.c:136-138`).  The write through an uninitialised pointer in
`LKLOpenVolume` ends the behaviours that are looked at (`wild`).  `LKLTime` holds the time conversions it uses, as pure operators; a number
of seconds of 32 bits is a pair of days and seconds, because TLC's integers are
narrower.

`LKLPath` is one call of `LKLOpen`: the path it builds, `RealPath` at one step
per turn of its loop (`dest` is what is resolved, `rest` the text that is left),
and the test for the mount point, `mkdir` and `open` at the end, in the code's
order.  The test compares characters, so names that begin with the mount point's last
name and go on pass it (`Lookalikes`); `open` with `O_CREAT` follows a link in the last
component, as Linux does (`LinuxCreate`), and `file` is where it ends up.  Paths have any depth here and links any text; in `LKLFile` the result of
all this is one name or a path outside.  `LinuxWalk` is the reference for
`RealPath`: how the Linux kernel resolves a path, recursively, each link to its end
before it goes on behind it.  `strict` is Linux itself; not strict, it goes on
behind a file as behind a directory, which `RealPath` does.  `NoRoom` is the one
reason of `RealPath` to give up that Linux does not have.

`LKLDisk` is the disk below a volume: the search for a file system on the raw disk
(`GetFsType`) and on the decrypted device (`GetFsTypeLKL`), one step per magic, and
the block device the Linux kernel gets, one step per buffer of a request.  Media
can be exchanged between any two steps.  Two fields of a request are there for
`RequestExact` only: what the medium held when it came (`before`) and the offsets
the loop of `do_rw` has passed (`at`).  `LKLVolume` takes the result of both as a
choice.

Definitions named `X_Y` with a comment "Mutant for P" are wrong versions of `X`
used to test that the property P can fail.  No specification uses them.

### Abstractions

- `remaining_quantum` is only compared with 0, so the model stops counting there;
  the code goes on below.
- Timeouts are 0 or infinite.  A finite timeout would call `timer_initialize`,
  which is `assert(0)` in this port; nothing in the repository uses one.
- Allocation failures that return an error and change nothing are not actions.
- A unit of a disk holds the set of file systems whose magic is at its place there;
  a magic that starts in a buffer is taken to lie in it whole.
- `Nanosecond` and `Daylight` of an `EFI_TIME` are left out; nothing reads them
  but `EfiTimeIsValid`.
- A detached thread that exits keeps its memory: `heap_delayed_free` is empty.
- Threads are joined or detached once from outside (`claimed`), as LKL does.
- Mutexes and events are not used after destroy, and no object is initialised while somebody
  still sleeps in it or is inside, which the code relies on.  Two uses after destroy that the code
  makes itself are modelled: the second `sem_wait` of `sem_down` and `mutex_lock`
  on a semaphore that is gone, and the signal in `timer_free`, a finding
  (section 6), past which `LTimer` goes on as if the memory were intact.  What the
  second `sem_wait` may find in freed memory is reduced to two outcomes: the thread sleeps,
  or goes through.
- A thread that owns a mutex may acquire it again, and then waits for itself.

### Assumptions about code outside the repository

- The firmware calls a notification only with interrupts on and no other
  notification in progress.  `RestoreTPL`, and so every boot service, turns
  interrupts on (`BootService`).
- The console output of `get_top_thread` before the idle thread's first run
  may leave interrupts on.
- The firmware numbers media, and `DiskIo` refuses a request for a medium that is not
  the one present.  A write that fails may have written the beginning of its buffer.
- Linux writes a disk only while its file system is mounted; `lseek` fails behind
  the end of a device and `read` stops there.
- Linux: undoing something that exists succeeds; mounting a dm-crypt device that
  has not been activated fails.
- Keys are read from volumes of this driver; the firmware re-enters the driver
  binding only during I/O of a Start, and for the handle of that I/O.
- When the medium of a running Start has changed, `DiskIo` and `DiskIo2` are no longer open
  for the driver, and that Start cannot mount any more: its `MediaId` is that of a
  medium that is gone.  That a nested Start of the same handle then succeeds is
  what the comment at `LKL.c:356-360` says; a firmware that keeps the protocols open
  would answer it `EFI_ALREADY_STARTED`, which is a behaviour with fewer steps.
- After `lkl_sys_halt` nothing exists in the Linux kernel.

## 3. What the runs check

| run | instance | what it shows |
|---|---|---|
| `threads` | boot, idle, 2 workers, priorities 0..2, quantum 2, `thread_set_priority` also out of range | scheduler and lock consistency, thread memory, joiners, priority of every switch |
| `threads_live` | same threads, one priority, quantum 1 | every ready thread runs; a join of a dead thread returns |
| `sem` | boot, idle, 2 workers, initial count 0 or 1, 2 units | conservation, count against queue, refinement of `SemaphoreSpec`, waiters that were woken or whose semaphore was destroyed return from that `sem_wait`; strays on a destroyed or renewed semaphore harm none of this |
| `mutex` | boot, idle, 2 workers | exclusion including the thread the mutex is being handed to, count, refinement of `SemaphoreSpec` with one unit; acquisitions return unless the owner has locked the mutex again |
| `event` | boot, idle, 2 workers, both kinds of event | no sleeper left behind, refinement of `EventSpec`, waiters return |
| `timer` | owner, idle, timer thread, quantum 2 | no missed wake-up, context valid, due timers run, timer freed in the end |
| `volume` | a plain and an encrypted handle, 3 volume structures, 1 client file, 2 key files, 3 nested Starts; 3.9 million states, about a minute and a half | lock, what a failed Start leaves, order, usability and open files until the kernel is halted |
| `file` | root, a short and a long name, one path outside the mount point, 3 inodes, 2 handles, sizes 0..1, times before 1970, on a leap day and on a day that does not exist, an hour off UTC | directory reading, descriptors, times; the calendar on every day from 1970 to 2106 |
| `path` | trees of depth 4 with two links that have any of a set of texts, absolute and relative, at each other too; a name beside the mount point that begins with its name; 5 links, 8 components | `RealPath` against the walk of the Linux kernel, mount point, termination |
| `disk` | 2 media of one or two kilobytes, units of 256 bytes, with no, one or two file systems, plain and encrypted; requests of two buffers that overlap each other | probing, requests, exchange of media |
| `timer_free`, `file_info` | as `timer` and `file` | the disagreements of section 6 |

Why the bounds are enough.  Three schedulable threads make every role
distinct: one that runs, one that is being handed something, and a third that
comes in between; with two workers, a thread can be joined by one while it is
detached by the other or by itself.  Two priorities above idle tell apart head, tail and
level.  A quantum of 2 gives both outcomes of a tick.  Two units with initial
counts 0 and 1 take the semaphore count from -2 to 2.  An encrypted and a plain
handle let the key of one live on the other, and a third volume structure is
needed because Stop keeps the old one.  Three nested calls of Start are a Start of one
handle inside a Start of the other inside a Start of the first; a lost key file leaves
another for the next attempt.  A short and a long name with buffers of 0 to 2 units give
every order of entries that fit and do not; three inodes are the root, a file that
was deleted while open, and its successor under the same name.  Two links suffice
for a loop, for a link behind a link and for one that leaves the mount point and
comes back, and a limit of 5 links and 8 components is reached by them; the 40 and
4096 of the code are the constants of the proofs.  Two media are the volume's own
and another; requests at sector 0 and 2 lie inside, across the end of and beyond a
disk.  The calendar has no bound of its own: `CalendarExact` goes through all the
49,710 days that 32 bits of seconds reach.  Objects are destroyed and initialised
again in all runs.  Symmetry of the workers is used only in the runs without
liveness properties.  Deadlock is checked everywhere but in the `volume` runs:
`LKLUnload` is the end of the driver.

Fairness.  `FairSpec` assumes weak fairness of what the kernel code does once a
thread has the processor (unlocking, wake-up loops, returning from a
notification, the idle loop), because that code has no loop that waits; and
strong fairness of `thread_yield`, because every thread of LKL sooner or later
calls a host operation, and `sem_down`, and `mutex_lock` of a mutex that is not
recursive, begin with `thread_yield`.  Preemption is not assumed fair: nothing relies on the firmware's tick.
`LKLPath` assumes that the call of `LKLOpen` goes on, whatever it does next.
`LKMutex` also assumes that an owner releases, `LTimer` that the owner of a
timer ends a `timer_free` it has begun and that `fn` returns.  In `threads_live`
all threads have one priority, which is what LKL uses; with
two, a busy thread of the higher one starves the lower by design.

## 4. What is proved

For every set of threads, every number of priorities and every quantum, from the
assumptions `SchedAssumption`, `ClientPointsAssumption`, `PriorityAssumption`
and `ThreadPointsAssumption` (Boot and Idle are two distinct threads, NULL is no
object, the default priority lies above idle, `thread_create` is called with a
valid priority), `LKThreadProofs` proves of `LKThread`:

| theorem | statement |
|---|---|
| `TypeCorrect` | `Spec => []TypeOK` |
| `SchedulerIsConsistent` | `Spec => []SchedulerConsistent` |
| `LocksAreKept` | `Spec => []LockDiscipline` |
| `JoinFreesOnce` | `Spec => []ReapsOnlyDead` |
| `NoDanglingThread` | `Spec => []FreedUnreferenced` |
| `JoinersRemembered` | `Spec => []NoForgottenJoiner` |
| `SwitchesToTop` | `Spec => SwitchPicksTop` |

The argument has three layers.

1. `LKKernelProofs`, first part: each queue operator of `LKSched` preserves `QueueInv`.  The
   operators are used in the middle of a critical section, where the
   invariant does not hold (a thread is READY and in no run queue, or current and
   not RUNNING), so the lemmas are about the intermediate states
   `Dequeue`, `ReadyHead`, `DeleteTop` produce, and `thread_resched` restores
   the invariant.  The facts about sequences it needs (what `Append`, `Tail` and a
   new head do to the range and to duplicates) are lemmas at its start.
2. `LKKernelProofs`, second part: every kernel step (yield, tick and preemption, first run,
   return from a switch or a notification, resume) preserves `LockDiscipline`,
   `CurrentRuns` and the shape of `kpc`; a client of `LKKernel` uses its lemma
   `KernelStep` for all of them at once.
3. `LKThreadProofs`: `ThreadInv` is inductive.  The safety properties are not:
   `ReapsOnlyDead` needs to know what a joiner that has been woken but has not
   run will find (`JoinersInformed`), that in turn needs that the joined thread
   cannot be claimed by anyone else or freed (`TargetsExclusive`), and that a thread in state
   DEATH is exactly one that is in `thread_exit` or past its last switch
   (`PointsMatchStates`).  `NoForgottenJoiner` carries the step from the
   thread's last wake-up to its last switch.

`LKSyncProofs` proves of `LKSemaphore`, for any finite set of threads, any
initial count and any number of posts (`SemAssumption`), and of `LKMutex` for any
set of threads (`MutexAssumption`):

| theorem | statement |
|---|---|
| `CountIsQueue` | `Spec => []CountsWaiters` |
| `NoUnitLost` | `Spec => []UnitsConserved` |
| `SemaphoreImplements` | `Spec => SemImplementsSpec`, every step is one of `SemaphoreSpec` or none |
| `MutexExcludes` | `MutexSpec => []MutualExclusion` |
| `MutexCounts` | `MutexSpec => []CountsOwnerAndWaiters` |
| `MutexImplements` | `MutexSpec => MutexImplementsSpec`, every step is one of `SemaphoreSpec` or none |
| `SemKeepsKernel`, `MutexKeepsKernel` | `[](SchedulerConsistent /\ LockDiscipline)` of `Spec` and of `MutexSpec` |

Both rest on the third part of `LKKernelProofs`, which is about any object that
sleeps on one queue at one point of its code.  `WaitInv(q, pc)` says that the
threads in `q` are at `pc` and that the one in a wake-all loop has the processor; the lemmas `BlockWait`,
`WokenWait`, `HandOver`, `ReturnWait`, `BeginWait` and `LoopWait` say what sleeping,
waking one, the return of a woken thread and the wake-all loop do to it and to the set
`Handed(pc)` of threads that were woken and have not run.  The two counts and the sum of units
are not inductive without it: `sem_post` tests the count and then wakes the head of
the queue, which is right only if a negative count means a non-empty queue.  `SemInv` and
`MutexInv` also say that no wake-all loop is under way while the object is live
(`NoWaker`): the loop belongs to a destroy, which ends the object first.
`MutexInv` has one owner, inside or on its way (`OneOwner`), and that
`holder` is the one inside (`HolderInside`); between `mutex_release`, which
clears `holder` and wakes the head, and the head's return the mutex is owned and
`holder` is NULL.  A mutex is initialised anew only when nobody is still inside the old one:
that is the caller's duty, and `mutex_init` has it as a guard.

That a mutex implements `SemaphoreSpec` says more than exclusion: the unit goes from
the owner to the head of the queue in one step, so a third thread that calls
`mutex_acquire` before the head has run queues behind it.  The mapping has the unit
in the semaphore exactly when the count is 0, and `OneOwner` is what makes
the test `mcount - 1 >= 1` of `mutex_release` find the waiter.

`LKEventProofs` proves of `LKEvent` and `LTimer`, for any set of threads
(`EventAssumption`: the event is the only object; `TimerAssumption`: the timer thread
is neither the boot nor the idle thread):

| theorem | statement |
|---|---|
| `NobodyLeftAsleep` | `Spec => []NoSleeperLeftBehind` |
| `EventImplements` | `Spec => EventKeepsRules`, every step is one of `EventSpec` or none |
| `EventKeepsKernel` | `Spec => [](SchedulerConsistent /\ LockDiscipline)` |
| `TimerKeepsDiscipline`, `TimerKeepsScheduler` | `TimerSpec => []LockDiscipline`, `TimerSpec => []SchedulerConsistent` |
| `ContextNeverFreed` | `TimerSpec => []ContextValid` |
| `NoWakeupMissed` | `TimerSpec => []NoMissedWakeup` |

`EventInv` is `WaitInv` for the event's queue with `NoSleeperLeftBehind` and
`WakersSignal`: a thread in the wake-all loop of a live event serves a signal that
lets everybody through, and a loop without a reschedule has the processor.  The
refinement needs the same facts, since a step of the loop must be a release in
`EventSpec`.

`TimerInv` says in `Stages` how far the timer thread may be for each position of
`timer_free` (the thread leaves its loop only after `request_stop`, `live` and
`mem` end at its last steps), and in `Pending` that a notification or a finished
`timer_free` nobody has acted on shows in `e->signaled`, or the thread has been
woken and is about to look.  `CondInv` is what makes this inductive: only the
timer thread sleeps on the event, so its queue is empty exactly when it is awake.

`LKLPathProofs` proves of `LKLPath`, for all trees, texts and limits
(`PathAssumption`: the trees are trees and the mount point is a directory in them):

| theorem | statement |
|---|---|
| `ResolvesToReal` | `Spec => []ResolvedIsReal` |
| `HandlesContained` | `Spec => []Contained` |
| `AgreesAlways` | `Spec => []AgreesWithLinux` |
| `TurnsGoOn` | every turn of the loop leads to a point with more links behind it, or with as many and less text in front |
| `PathTypeCorrect` | `Spec => []TypeOK`: also after `mkdir` and `open` the tree is a tree |

The invariant `PathInv` says that the path resolved so far exists, has no link in
it and only directories in front of its end; going up with `..` keeps this because
every prefix of a path that exists is a directory (`IsTree`).  `Contained` needs it
at the moment of the open, when the path becomes the handle's: outside the two
exceptions it names, the file opened is the one at that path.

`AgreesAlways` compares a loop with a recursion.  `AgreeInv` says that walking what
`RealPath` has left, from where it is and with the links it has counted, has for
Linux the result of walking the whole (`Ahead`).  It takes three things.

1. `LinuxWalk` is a recursive function, for the prover a `CHOOSE`, so it has to be
   shown that there is one.  `RecursionWorks` shows it for any function computed from its
   values at smaller arguments of a well-founded order; the order of the walk is
   more links first, then less text (`WalkOrdered`), and `WalkOn` looks only at
   smaller points (`WalkOnSame`).  `WalkEquation` is the result.
2. `WalkJoins`: walking a text in front of another is walking the one and then the
   other, links counted on.  This is why it is right that `RealPath` puts the text of
   a link in front of the rest instead of resolving the link by itself.
3. One lemma per kind of turn (`TurnDots`, `TurnStep`, `TurnLost`, `TurnFollow`) shows
   that `RealPath` goes where the walk goes.

The induction theorems of the library are not usable here, so both the recursion and
`WalkJoins` are proved from a least counterexample, which `WFMin` provides.
The order of step 1 is also what `TurnsGoOn` is about: that `RealPath` ends needs, beyond
it, only that the call goes on.

`LKLDiskProofs` proves of `LKLDisk`, for all disks, requests and numbers of media
(`DiskAssumption`):

| theorem | statement |
|---|---|
| `FindsFirstMagic` | `Spec => []FirstMagic` |
| `WritesOwnMedium` | `Spec => OtherMediaUntouched` |
| `MovesItsBuffers` | `Spec => []RequestExact` |

`SearchOK` is `FirstMagic` with what it needs to be inductive: the search keeps to
the medium it began with and nothing is written while it runs; `WritesMounted`
ties a write in progress to the mounted volume.  `RequestExact` is proved from
`RequestOK`, relative to that invariant: the buffers lie one behind the other
(`Pieces`), so the next write begins where the last one ended and leaves the places
of the earlier ones alone (`SameUpTo`, `PiecesStay`), and what differs from `before`
lies in front of the current offset (`Written`), or in the piece that failed (`Torn`).

`LKLFileProofs` proves of `LKLFile`, for any finite set of names, any inodes, handles
and descriptors and any file sizes (`FileAssumption`):

| theorem | statement |
|---|---|
| `EveryEntryOnce` | `Spec => []EntriesOnce` |
| `NoDescriptorLost` | `Spec => []DescriptorsBalanced` |
| `TimesKept` | `Spec => []TimesReadBack` |
| `CalendarKept` | `Spec => []CalendarExact` |

All of it is about the calls up to the one that writes through an uninitialised pointer.
`FileInv` has four parts.  The types (`TypeOK`) need arithmetic: whatever valid time a
client asks for, `EfiTimeToEpoch` gives 32 bits of seconds (`EpochTyped`).  `TreeLive`
says that a name leads to an inode that is there, which a delete through one handle
must keep while another handle has the same file open.  `Balanced` is
`DescriptorsBalanced` one handle and one descriptor at a time, with the kind of the
handle that of its inode.  `Entries` is the stream of a directory handle: what has been
delivered, then the kept entry, then what is left is the listing taken at the rewind.

The times are pure arithmetic.  The
lemmas about `LKLTime` give a day its place in the cycles of 400, 100, 4 and 1 years
that `EpochToEfiTime` divides by, show that the caps at the last day of a cycle
choose that place (`CyclesFound`), and that `EfiTimeToEpoch` counts the same cycles
(`JulianParts`).  From that the two conversions undo each other both ways: for every
valid date and time up to 2105 (`TimeReadBack`) and for every second of the
whole days that 32 bits reach (`StampReadBack`, of which `CalendarExact` needs one second per day); consecutive days
get consecutive dates (`NextDay`, `TomorrowFound`).  `TimesKept` adds `AnswerKept`:
the answer the history remembers is still what the inode holds, as long as the path
of the handle leads to it.

`LKLVolumeProofs` proves of `LKLVolume`, for any number of controllers, volumes
and files and any depth of nested calls (`VolumeAssumption`):

| theorem | statement |
|---|---|
| `LockHeldByOutermost` | `Spec => []LockOwned` |
| `WhatFailedStartLeaves` | `Spec => []NothingElseLeftBehind` |
| `SetUpInOrder` | `Spec => []BuiltBottomUp` |
| `ProtocolIsUsable` | `Spec => []InstalledIsUsable` |
| `OpenFilesKeepVolume` | `Spec => []FilesBacked` |

None of the five is inductive.  `VolumeInv` adds, for each position in
`LKLAllocateVolume`, what exists in the Linux kernel then (`Stage`) and that
everything that exists, but for what is left behind, can be told from the names in the
structure, which is what the one clean-up goes by; that at most one of the calls in
progress still has the medium it was called for on each controller, that all but the innermost are at
a point where I/O is done, and that no two work on one volume (`StackOK`); that a
volume being set up is known to nobody else (`Private`); which files are known
to whom (`KeysKnown`); and what holds of a controller no call is working on (`Settled`,
`OnHandle`, `Backed`).  `fresh` is what makes the end of a nested Start safe: the outer
call of the same handle is no longer fresh, so it cannot install, and it closes the devices only
when the nested one has left no file system.

## 5. What is only model-checked

Liveness under fairness, for which the prover has no rule here: `JoinReturns`,
`ReadyRuns`, `WaiterReturns` of semaphore and event, `AcquireReturns`, `DueTimerRuns`,
`FreedInTheEnd`, `ResolutionEnds`.

Every other property of a passing run is stated by a theorem.

## 6. Disagreements between code and documentation

- `timer_free` (`UefiHost.c:279-280`): a tick between `request_stop = 1` and
  `event_signal` lets the timer thread destroy the event and free the timer;
  the signal then uses freed memory (run `timer_free`).
- `LKLSetFileInfo` does not change the write permission it says it changes (run
  `file_info`): its `ReadOnly` is a mask with 0, so that a file without write permission
  stays so after a request without `EFI_FILE_READ_ONLY`; and `lkl_sys_chmod` gets a path
  without the mount point.

Disagreements that no run is about on its own.  Where a property would claim too much
because of one of them, its statement says so.

- `sem_down` and `mutex_lock` (`UefiHost.c:57-62`, `88-91`) try again after
  `ERR_OBJECT_DESTROYED`, on a semaphore that `sem_free` is about to free or has freed.  The
  thread may sleep there for ever.  `mutex_lock` of a recursive mutex ignores the error
  of `mutex_acquire` and goes on as if it had the mutex; `LKMutex` ends with the
  return of `mutex_acquire`, and has no release of a mutex that is gone.
- `mutex_alloc(recursive = 1)` hands out an lk mutex (`UefiHost.c:72-73`), and
  `mutex.h:53` says "Mutexes are non-recursive": an owner that locks it again
  (`UefiHost.c:85-86`) waits for itself.  `AcquireReturns` has this as its exception.
- `LKLAllocateVolume` returns at `Init.c:137-139`, `143-145` and `167-169` without
  closing the key file, the last also without freeing the key.
- The node `/dev/block/dm-N` that `create_crypto_blk_dev` makes (`dmcrypt.c:156`) is
  never unlinked, and the directory of the mount point (`Init.c:237`) never removed.
  `NothingElseLeftBehind` names both.
- `LKLUnload` halts the kernel (`LKL.c:224`) also when a controller could not be
  disconnected (`LKL.c:165-167`) and keeps its protocol, and while files are open.
  `InstalledIsUsable` and `FilesBacked` say what holds until then.
- `LKLOpenVolume` sets `IFile->LinuxOpenFlags` (`OpenVolume.c:56`) also when
  `LKLAllocateIFile` has failed and `IFile` is not initialised.
- `EfiTimeToEpoch` does not look at `TimeZone` (`Misc.c:403`) although it says it gives
  seconds UTC, and `EpochToEfiTime` (`Misc.c:335`) always answers `TimeZone` 0.  `TimesReadBack`
  states this.
- `Open.c:243` says "return error if we're outside the mountpoint's root directory".  The test
  compares characters (`Misc.c:540-546`) and so takes `/mnt/00000001x` for inside, the
  directory of a CREATE has been made by then (`Open.c:231`), and `open` follows a
  link in the last component of a CREATE behind the test (`Open.c:250`).  `Contained`
  names the exceptions.
- `LKLDelete` is the one operation that does not look at `Volume->ReadOnly`, and the
  mount is not read-only either (`Init.c:244`, `253`).
- `LTimerCallback` reschedules from a notification function, which
  `event.h:53-54` forbids.  `LockDiscipline` holds all the same (theorem
  `TimerKeepsDiscipline`): the interrupted thread is parked inside the notification.
- `LKLAbandonVolume` does not free the volume that its comment (`Init.c:349-351`) says
  it frees.  `FilesBacked` shows what the leak buys: a file open across Stop
  still has its volume.
- `Info.c:256` says a zero time preserves the original time, but a zero
  `ModificationTime` with a `CreateTime` stores the latter as modification time.
- `LKLSetFileInfo` compares the attribute bit 0x10, cast to a `BOOLEAN` of 8 bits,
  with 1, so it refuses every directory (`Info.c:309`).
- `LKLGetFileInfo` sets `EFI_FILE_READ_ONLY` when `LinuxOpenFlags & LKL_O_RDONLY` is
  0, which it always is (`Info.c:86`).
- `GetFsTypeLKL` does not look at the number of bytes it has read
  (`filesystems.c:84`); on a device that ends where a superblock should begin it compares
  what its buffer held before.  `FirstMagic` excludes such devices.

Other oddities are in PROJECT.json under `hazards`, with a note where a property
covers them in part.

## 7. Not modelled

- Context switching in assembly (`Arm/`): a switch is atomic.
- The error table of `Misc.c`: the models tell success from failure.
- The text of keys and device mapper tables, and conversions of character sets:
  names are values.
- `UnicodeCollation.c` and `ComponentName.c` forward to the firmware or hold string
  tables; `lk/debug.c` prints; `list.h` is the lists that `LKSched` has as sequences.
- `LKLFlush`, `LKLGetPosition` and `LKLGetVolumeInfo` change no state of the driver.
- SMP, real-time threads, thread statistics, `thread_sleep`, `thread_block` and the
  lk timers are compiled in but unreachable in this port.
- Calls of the file protocol after the kernel has been halted, and anything after the
  write of `OpenVolume.c:56`.
- A request of the block device against a volume whose Stop has closed `DiskIo`:
  whether the firmware still serves it is not visible in this repository.

## 8. Further work

Composition: files of `LKLFile` across Stop and Start of `LKLVolume`, with an invariant
on top of `VolumeInv` and `FileInv`.  `FilesBacked` and `DescriptorsBalanced` each
cover their side of it.
