---------------------------- MODULE SemaphoreSpec ----------------------------
(***************************************************************************)
(* What the callers of lk/kernel/semaphore.c rely on: a counting semaphore *)
(* that serves its waiters in order of arrival, hands a posted unit to a   *)
(* waiter directly, and releases every waiter when it is destroyed.  A     *)
(* user that goes on waiting for a semaphore that is gone waits for ever.  *)
(***************************************************************************)
EXTENDS Naturals, Sequences

CONSTANT Users

VARIABLES
    open,      \* between sem_init and sem_destroy
    value,     \* units nobody has taken
    queue,     \* the users that wait, first come first
    served     \* the users that were handed a unit and have not returned yet

svars == <<open, value, queue, served>>

Init ==
    /\ open \in BOOLEAN /\ value \in Nat
    /\ queue = << >> /\ served = {}

Open ==
    /\ ~open /\ queue = << >>
    /\ open' = TRUE /\ value' \in Nat
    /\ UNCHANGED <<queue, served>>

Take ==
    /\ open /\ value > 0
    /\ value' = value - 1
    /\ UNCHANGED <<open, queue, served>>

Enter(u) ==
    /\ open /\ value = 0
    /\ queue' = Append(queue, u)
    /\ UNCHANGED <<open, value, served>>

Post ==
    /\ open
    /\ IF queue = << >>
       THEN value' = value + 1 /\ UNCHANGED <<queue, served>>
       ELSE /\ queue' = Tail(queue) /\ served' = served \cup {Head(queue)}
            /\ UNCHANGED value
    /\ UNCHANGED open

Return(u) ==
    /\ u \in served
    /\ served' = served \ {u}
    /\ UNCHANGED <<open, value, queue>>

Close ==
    /\ open
    /\ open' = FALSE /\ value' = 0
    /\ UNCHANGED <<queue, served>>

\* a waiter leaves the queue of a destroyed semaphore empty-handed
Expel ==
    /\ ~open /\ queue # << >>
    /\ queue' = Tail(queue)
    /\ UNCHANGED <<open, value, served>>

\* a user waits for a semaphore that is gone
Stray(u) ==
    /\ ~open
    /\ queue' = Append(queue, u)
    /\ UNCHANGED <<open, value, served>>

Next ==
    \/ Open \/ Take \/ Post \/ Close \/ Expel
    \/ \E u \in Users : Enter(u) \/ Return(u) \/ Stray(u)

Spec == Init /\ [][Next]_svars
=============================================================================
