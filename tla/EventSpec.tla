------------------------------ MODULE EventSpec ------------------------------
(***************************************************************************)
(* The rules for events stated in Include/lk/kernel/event.h: a signal with *)
(* AUTOUNSIGNAL lets exactly one thread through, now or later; a signal    *)
(* without it lets through every thread that waits and every thread that   *)
(* comes until the event is unsignaled; no thread waits while signaled.    *)
(***************************************************************************)
EXTENDS Sequences

CONSTANT Users

VARIABLES
    open,       \* between event_init and event_destroy
    auto,       \* EVENT_FLAG_AUTOUNSIGNAL
    signaled,
    queue,      \* the users that wait, first come first
    released    \* the users let through that have not returned yet

evars == <<open, auto, signaled, queue, released>>

Init == ~open /\ queue = << >> /\ released = {}

Open ==
    /\ ~open /\ queue = << >>
    /\ open' = TRUE
    /\ UNCHANGED <<queue, released>>

Pass ==
    /\ open /\ signaled /\ queue = << >>
    /\ signaled' = ~auto
    /\ UNCHANGED <<open, auto, queue, released>>

Enter(u) ==
    /\ open /\ ~signaled
    /\ queue' = Append(queue, u)
    /\ UNCHANGED <<open, auto, signaled, released>>

LetOneThrough == queue' = Tail(queue) /\ released' = released \cup {Head(queue)}

Signal ==
    /\ open /\ ~signaled
    /\ IF auto /\ queue # << >>
       THEN LetOneThrough /\ UNCHANGED signaled
       ELSE signaled' = TRUE /\ UNCHANGED <<queue, released>>
    /\ UNCHANGED <<open, auto>>

Drain ==
    /\ open /\ signaled /\ ~auto /\ queue # << >>
    /\ LetOneThrough
    /\ UNCHANGED <<open, auto, signaled>>

Unsignal ==
    /\ open /\ queue = << >>
    /\ signaled' = FALSE
    /\ UNCHANGED <<open, auto, queue, released>>

Return(u) ==
    /\ u \in released
    /\ released' = released \ {u}
    /\ UNCHANGED <<open, auto, signaled, queue>>

Close ==
    /\ open
    /\ open' = FALSE /\ signaled' = FALSE
    /\ UNCHANGED <<queue, released>>

\* a waiter leaves the queue of a destroyed event with an error
Expel ==
    /\ ~open /\ queue # << >>
    /\ queue' = Tail(queue)
    /\ UNCHANGED <<open, auto, signaled, released>>

Next ==
    \/ Open \/ Pass \/ Signal \/ Drain \/ Unsignal \/ Close \/ Expel
    \/ \E u \in Users : Enter(u) \/ Return(u)

Spec == Init /\ [][Next]_evars
=============================================================================
